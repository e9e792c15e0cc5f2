------------------------------ MODULE HealthWindow ------------------------------
(***************************************************************************)
(* The health engine, internal/health: the rolling series of one device    *)
(* and the four panels computed from it (headroom, thermal recovery,       *)
(* performance per watt, stability).  Devices are independent.             *)
(*                                                                         *)
(* Temperatures and times are small integers.  Averages and deviations are *)
(* only compared with thresholds, so they are kept as sums and compared    *)
(* after multiplying out.  What matters is where a spike starts and ends   *)
(* in a series that loses its oldest samples, misses readings and whose    *)
(* device may learn its thermal limit after the first ones.                *)
(***************************************************************************)
EXTENDS Integers, Sequences, FiniteSets, SequencesExt

CONSTANTS
    Temps,         \* temperatures a device may report
    DefaultLimit,  \* registry.DefaultThermalLimitC
    ModelLimit,    \* the limit of the device's model
    HealthSpan,    \* healthWindowDuration
    Warmup,        \* warmupWindowDuration
    MaxSamples,    \* maxHealthSamples
    GoodRecovery, FairRecovery,  \* recoveryRating's 60 s and 180 s
    MaxClock       \* bound on time

ASSUME HealthAssumption ==
    /\ Temps \subseteq Nat
    /\ {DefaultLimit, ModelLimit} \subseteq Nat
    /\ {HealthSpan, Warmup, MaxSamples, MaxClock} \subseteq Nat \ {0}
    /\ GoodRecovery <= FairRecovery

Baseline == 20       \* baselineTempC
NoTime   == -1       \* the zero time.Time
Missing  == -1       \* no temperature in the reading

\* A device that is not off draws power and is used.  The point may name the
\* device's model or not.
Reading(t, known) == [temp |-> t, known |-> known,
                      util |-> IF t > Baseline THEN 80 ELSE 0,
                      power |-> IF t > Baseline THEN 2 ELSE 0]
Readings == {Reading(t, known) : t \in Temps \union {Missing}, known \in BOOLEAN}

VARIABLES
    samples,     \* rollingSeries.samples
    firstSeen,   \* rollingSeries.firstSeenAt
    spikeStart,  \* rollingSeries.spikeSegmentStart
    limit,       \* deviceState.thermalLimitC
    clock        \* time.Now()

healthVars == <<samples, firstSeen, spikeStart, limit, clock>>

HealthInit ==
    /\ samples = <<>>
    /\ firstSeen = NoTime /\ spikeStart = NoTime
    /\ limit = DefaultLimit
    /\ clock = 0

EffectiveLimit(l) == IF l <= Baseline THEN 100 ELSE l
Target(l) == Baseline + (EffectiveLimit(l) - Baseline) \div 2
Present(s) == s.temp # Missing

-----------------------------------------------------------------------------
(* The series.                                                             *)

\* Samples before the cutoff are dropped from the front only.
Prune(ss, now) ==
    LET keep == {i \in DOMAIN ss : ss[i].at >= now - HealthSpan}
    IN  IF keep = {} THEN <<>> ELSE SubSeq(ss, Min(keep), Len(ss))

Cap(ss) == SubSeq(ss, IF Len(ss) > MaxSamples THEN Len(ss) - MaxSamples + 1 ELSE 1,
                  Len(ss))

\* Where the active spike starts, after ss was appended to.
UpdatedStart(ss, target, start) ==
    LET last == ss[Len(ss)]
        crossed == \/ Len(ss) = 1
                   \/ ~Present(ss[Len(ss) - 1])
                   \/ ss[Len(ss) - 1].temp < target
    IN  IF ~Present(last) THEN start
        ELSE IF last.temp <= target THEN NoTime
        ELSE IF crossed THEN last.at ELSE start

-----------------------------------------------------------------------------
(* Engine.Update with the device's readings of one batch, and the          *)
(* snapshots it ends with, which prune the series by the clock.            *)

\* The limit found for a point without a model does not replace one found.
ResolvedLimit(l, s) == IF s.known THEN ModelLimit ELSE l

AppendSample(series, s) ==
    LET l == ResolvedLimit(series.limit, s)
        sample == [at |-> s.at, temp |-> s.temp, util |-> s.util, power |-> s.power]
        ss == Cap(Prune(Append(series.samples, sample), s.at))
    IN  [samples |-> ss, start |-> UpdatedStart(ss, Target(l), series.start),
         limit |-> l]

AppendAll(series, batch) ==
    LET After[i \in 0 .. Len(batch)] ==
          IF i = 0 THEN series ELSE AppendSample(After[i - 1], batch[i])
    IN  After[Len(batch)]

\* The readings of a batch in the order of their times.
ByTime(batch) ==
    CHOOSE s \in [DOMAIN batch -> Range(batch)] :
        \A i, j \in DOMAIN batch : i < j => s[i].at < s[j].at

HealthUpdate(batch) ==
    LET sorted == ByTime(batch)
        series == AppendAll([samples |-> samples, limit |-> limit, start |-> spikeStart],
                            sorted)
        now == sorted[Len(sorted)].at
    IN  /\ clock' = now
        /\ samples' = Cap(Prune(series.samples, now))
        /\ spikeStart' = series.start
        /\ limit' = series.limit
        /\ firstSeen' = IF firstSeen = NoTime THEN sorted[1].at ELSE firstSeen

\* A snapshot with no new reading: another device's batch, or the API.
HealthSnapshot ==
    /\ clock < MaxClock
    /\ clock' = clock + 1
    /\ samples' = Cap(Prune(samples, clock'))
    /\ UNCHANGED <<firstSeen, spikeStart, limit>>

SampleAt(r, t) == [at |-> t, temp |-> r.temp, known |-> r.known,
                   util |-> r.util, power |-> r.power]

\* One reading, or two that arrive in the wrong order.
HealthNext ==
    \/ /\ clock < MaxClock
       /\ \E r \in Readings : HealthUpdate(<<SampleAt(r, clock + 1)>>)
    \/ /\ clock + 1 < MaxClock
       /\ \E q, r \in Readings :
             HealthUpdate(<<SampleAt(q, clock + 2), SampleAt(r, clock + 1)>>)
    \/ HealthSnapshot

-----------------------------------------------------------------------------
(* The panels.                                                             *)

SumOf(s) == FoldLeft(LAMBDA x, y : x + y, 0, s)
TempsOf(ss) == [i \in 1 .. Len(SelectSeq(ss, Present)) |-> SelectSeq(ss, Present)[i].temp]

HottestTemp(ts) == Max(Range(ts))

\* computeHeadroom: idle samples, below the baseline, are left out.
Headroom(ss, l) ==
    LET warmed == SelectSeq(TempsOf(ss), LAMBDA t : t >= Baseline)
        n      == Len(warmed)
        denom  == EffectiveLimit(l) - Baseline
        over   == SumOf(warmed) - n * Baseline      \* n times (avg - baseline)
    IN  IF TempsOf(ss) = <<>> THEN [available |-> FALSE]
        ELSE IF warmed = <<>>
        THEN [available |-> TRUE, idle |-> TRUE, rating |-> "good"]
        ELSE [available |-> TRUE, idle |-> FALSE,
              max |-> HottestTemp(warmed),
              rating |-> IF 2 * over < denom * n THEN "good"
                         ELSE IF 4 * over <= 3 * denom * n THEN "fair" ELSE "poor"]

\* Mutant: of equal peaks the first counts.
FirstPeak(s, peak) == IF s.temp > peak.temp THEN s ELSE peak

\* Of equal peaks the last counts.
LaterPeak(s, peak) == IF s.temp >= peak.temp THEN s ELSE peak

\* scanRecoveries, as one pass: a spike starts above the target, lasts while
\* no reading is below it, and its recovery is timed from its last peak.
ScanStep(acc, s, target) ==
    IF ~Present(s) THEN acc
    ELSE IF ~acc.inSpike
    THEN IF s.temp > target
         THEN [acc EXCEPT !.inSpike = TRUE, !.spiked = TRUE, !.peak = s]
         ELSE acc
    ELSE IF s.temp >= target
    THEN [acc EXCEPT !.peak = LaterPeak(s, acc.peak)]
    ELSE IF acc.done = NoTime \/ s.at > acc.done
    THEN [inSpike |-> FALSE, spiked |-> TRUE, peak |-> acc.peak,
          done |-> s.at, sec |-> s.at - acc.peak.at, peakTemp |-> acc.peak.temp]
    ELSE [acc EXCEPT !.inSpike = FALSE]

ScanRecoveries(ss, target) ==
    LET Scan[k \in 0 .. Len(ss)] ==
          IF k = 0 THEN [inSpike |-> FALSE, spiked |-> FALSE, peak |-> ss[1],
                         done |-> NoTime, sec |-> 0, peakTemp |-> 0]
          ELSE ScanStep(Scan[k - 1], ss[k], target)
    IN  IF Len(ss) < 2 THEN [spiked |-> FALSE, sec |-> 0, peakTemp |-> 0]
        ELSE Scan[Len(ss)]

\* findSpikeSegmentStart: the first sample at or above the target since the
\* last one below it.
FoundStart(ss, target) ==
    LET below == {i \in DOMAIN ss : Present(ss[i]) /\ ss[i].temp < target}
        after == {i \in DOMAIN ss : /\ Present(ss[i]) /\ ss[i].temp >= target
                                    /\ \A j \in below : j < i}
    IN  IF after = {} THEN NoTime ELSE ss[Min(after)].at

RecoveryRating(sec) ==
    IF sec < GoodRecovery THEN "good"
    ELSE IF sec <= FairRecovery THEN "fair" ELSE "poor"

\* computeThermalRecovery: an active spike is shown before a past recovery.
Recovery(ss, l, start, now) ==
    LET target == Target(l)
        scan == ScanRecoveries(ss, target)
        active == /\ ss # <<>> /\ Present(ss[Len(ss)])
                  /\ ss[Len(ss)].temp > target
        from == IF start # NoTime THEN start ELSE FoundStart(ss, target)
    IN  IF active
        THEN [panel |-> "active", sec |-> now - from, peak |-> ss[Len(ss)].temp,
              rating |-> RecoveryRating(now - from)]
        ELSE IF ~scan.spiked
        THEN [panel |-> "none", sec |-> 0, peak |-> 0, rating |-> "good"]
        ELSE [panel |-> "recovered", sec |-> scan.sec, peak |-> scan.peakTemp,
              rating |-> RecoveryRating(scan.sec)]

\* computeStability, by the variance: n * Sum(x^2) - Sum(x)^2.
Stability(ss) ==
    LET ts == TempsOf(ss)
        n == Len(ts)
        spread == n * SumOf([i \in DOMAIN ts |-> ts[i] * ts[i]]) - SumOf(ts) * SumOf(ts)
        Below(num, den) == den * den * spread < num * num * n * (n - 1)
    IN  IF n = 0 THEN [available |-> FALSE]
        ELSE [available |-> TRUE,
              rating |-> IF n = 1 \/ Below(1, 1) THEN "stable"
                         ELSE IF Below(5, 2) THEN "normal"
                         ELSE IF Below(5, 1) THEN "elevated" ELSE "unstable"]

\* computePerfPerWatt: mean utilization over mean power, of powered samples.
PerfPerWatt(ss) ==
    LET powered == SelectSeq(ss, LAMBDA s : s.power >= 1)
        Total(f) == SumOf([i \in DOMAIN powered |-> powered[i][f]])
    IN  IF powered = <<>> THEN [available |-> FALSE]
        ELSE [available |-> TRUE, util |-> Total("util"), power |-> Total("power")]

WarmingUp == firstSeen = NoTime \/ clock - firstSeen < Warmup

-----------------------------------------------------------------------------
(* Correctness.                                                            *)

Panel == Recovery(samples, limit, spikeStart, clock)
RT == Target(limit)

\* The run of samples that ends just before k: since the last one below.
RunBefore(k) ==
    {i \in 1 .. k - 1 : /\ Present(samples[i]) /\ samples[i].temp >= RT
                        /\ \A j \in i .. k - 1 :
                              Present(samples[j]) => samples[j].temp >= RT}
Recovered == {k \in DOMAIN samples :
                /\ Present(samples[k]) /\ samples[k].temp < RT
                /\ \E i \in RunBefore(k) : samples[i].temp > RT}

\* Whatever readings are missing or dropped from the window, the recovery
\* shown is the time from the last peak of the latest finished spike to the
\* first reading below the target, and its temperature that peak.
RecoveryIsLatest ==
    Panel.panel = "recovered" /\ Recovered # {} =>
        LET k == Max(Recovered)
            top == Max({samples[i].temp : i \in RunBefore(k)})
            i == Max({j \in RunBefore(k) : samples[j].temp = top})
        IN  Panel.peak = top /\ Panel.sec = samples[k].at - samples[i].at

\* The lowest target the device has had.
LowestTarget == Min({RT, Target(DefaultLimit)})

\* An active spike is never shown longer than it has lasted: no reading since
\* its start was below the target, or, where the device learned a higher limit
\* meanwhile, below the target it had then.  With no reading missing it is
\* exactly as long as the samples say, or longer when its start has left the
\* window; only a limit below the default one, learned in the spike, may make
\* it shorter.
SpikeNotOverstated ==
    Panel.panel = "active" =>
        LET from == clock - Panel.sec
            all == \A i \in DOMAIN samples : Present(samples[i])
        IN  /\ Panel.sec >= 0
            /\ \A i \in DOMAIN samples :
                  samples[i].at >= from /\ Present(samples[i])
                     => samples[i].temp >= LowestTarget
            /\ all /\ Target(DefaultLimit) <= RT => from <= FoundStart(samples, RT)

================================================================================
