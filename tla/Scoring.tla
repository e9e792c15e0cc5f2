-------------------------------- MODULE Scoring --------------------------------
(***************************************************************************)
(* The risk score of one device, internal/scoring: its ring buffers, the   *)
(* sub-scores, the composite, its severity and trend, and the time to the  *)
(* thermal limit.  Scores are integers in tenths of a point, so that a     *)
(* step of the code's piecewise formulas stays a step; temperatures, watts *)
(* and percents are integers.                                              *)
(***************************************************************************)
EXTENDS Integers, Sequences, FiniteSets

CONSTANTS
    ScoredTemps,    \* temperatures a device may report
    ThermalCap,     \* thermalBufferCap, and the readings a regression takes
    VolatilityMin,  \* readings before a volatility is computed
    VolatilityCap,  \* volatilityBufferCap
    MaxReadings     \* bound on the readings scored

ASSUME ScoringAssumption ==
    /\ {ThermalCap, VolatilityCap, MaxReadings} \subseteq Nat \ {0}
    /\ VolatilityMin \in Nat \ {0, 1}
    /\ ScoredTemps \subseteq Nat

\* The registry's entries for the M5-Max and the L40, cvMax in percent; the
\* classes' thresholds in tenths.
GPUSpecs ==
    {[limit |-> 105, tdp |-> 55, cvMax |-> 50, class |-> "soc_integrated",
      pressureSupported |-> TRUE],
     [limit |-> 90, tdp |-> 300, cvMax |-> 30, class |-> "datacenter_sustained",
      pressureSupported |-> FALSE]}
SeverityThresholds ==
    [datacenter_sustained   |-> <<250, 450, 650, 900>>,
     consumer_active_cooled |-> <<300, 500, 700, 900>>,
     soc_integrated         |-> <<300, 500, 700, 900>>,
     sbc_constrained        |-> <<250, 450, 650, 850>>]

Absent == -1   \* getFloat when no key is present

VARIABLES
    gpu,           \* DeviceScoreState.Spec
    thermalRing,   \* DeviceScoreState.ThermalBuffer
    volRing,       \* DeviceScoreState.VolBuffer
    risk,          \* the last RiskScoreOutput, the part later code reads
    temps          \* every temperature the device reported

scoringVars == <<gpu, thermalRing, volRing, risk, temps>>

SMin(x, y) == IF x < y THEN x ELSE y
SMax(x, y) == IF x > y THEN x ELSE y

-----------------------------------------------------------------------------
(* RingBuffer.                                                             *)

NewRing(cap) == [data |-> [i \in 0 .. cap - 1 |-> 0], cap |-> cap,
                 start |-> 0, len |-> 0]

\* Mutant: a full ring does not move its start.
RingAddStuck(rb, v) ==
    IF rb.len < rb.cap
    THEN [rb EXCEPT !.data[rb.len] = v, !.len = @ + 1]
    ELSE [rb EXCEPT !.data[rb.start] = v]

RingAdd(rb, v) ==
    IF rb.len < rb.cap
    THEN [rb EXCEPT !.data[rb.len] = v, !.len = @ + 1]
    ELSE [rb EXCEPT !.data[rb.start] = v, !.start = (@ + 1) % rb.cap]

RingValues(rb) == [i \in 1 .. rb.len |-> rb.data[(rb.start + i - 1) % rb.cap]]
RingFull(rb) == rb.len >= rb.cap

-----------------------------------------------------------------------------
(* The sub-scores.                                                         *)

\* The penalty for a rise over the ring's five minutes: emergency above 3
\* degrees a minute, stepped above 1, linear above a half.
RocPenalty(rise) ==
    IF rise > 15 THEN 250 ELSE IF rise > 5 THEN 100
    ELSE IF 2 * rise > 5 THEN 20 * rise - 50 ELSE 0

\* Apple's own verdict is a floor, not an override.
AppleFloor(spec, pressure) ==
    IF spec.class # "soc_integrated" \/ ~spec.pressureSupported THEN 0
    ELSE CASE pressure = "fair" -> 400 [] pressure = "serious" -> 700
           [] pressure = "critical" -> 950 [] OTHER -> 0

ThermalRamp(t, lim) ==
    IF 10 * t < 7 * lim THEN 0
    ELSE LET x == (100 * (10 * t - 7 * lim)) \div (3 * lim) IN (x * x) \div 10

ComputeThermal(t, rb, spec, pressure) ==
    LET floor == AppleFloor(spec, pressure)
        ramp  == ThermalRamp(t, spec.limit)
        rise  == t - RingValues(rb)[1]
    IN  IF spec.limit <= 0 THEN [score |-> floor, warming |-> TRUE]
        ELSE IF ~RingFull(rb)
        THEN [score |-> SMin(1000, SMax(ramp, floor)), warming |-> TRUE]
        ELSE [score |-> SMin(1000, SMax(ramp + RocPenalty(rise), floor)),
              warming |-> FALSE]

\* High utilization sets a floor: the power sensor may see only a part.
ComputePower(p, util, spec) ==
    LET tdp == spec.tdp
        byPower == IF 10 * p < 7 * tdp THEN 0
                   ELSE IF p <= tdp THEN (500 * (10 * p - 7 * tdp)) \div (3 * tdp)
                   ELSE SMin(1000, 500 + (5000 * (p - tdp)) \div (3 * tdp))
    IN  IF tdp <= 0 THEN 0
        ELSE IF util > 50 THEN SMax(byPower, 6 * (util - 50)) ELSE byPower

\* The sum of a sequence, by adding up its beginnings.
SSum(s) ==
    LET S[i \in 0 .. Len(s)] == IF i = 0 THEN 0 ELSE S[i - 1] + s[i]
    IN  S[Len(s)]
\* The whole part of a square root.
Root(n) == CHOOSE r \in 0 .. n : r * r <= n /\ (r + 1) * (r + 1) > n

\* The coefficient of variation against the class's maximum.
ComputeVolatility(rb, spec) ==
    LET v == RingValues(rb)
        n == rb.len
        spread == SSum([i \in 1 .. n |-> (n * v[i] - SSum(v)) * (n * v[i] - SSum(v))])
        stdev10 == Root((100 * spread) \div (n * n * (n - 1)))
    IN  IF n < VolatilityMin THEN [score |-> 0, warming |-> TRUE]
        ELSE IF SSum(v) < n THEN [score |-> 0, warming |-> FALSE]
        ELSE IF spec.cvMax <= 0 THEN [score |-> 0, warming |-> n < VolatilityCap]
        ELSE [score |-> SMin(1000, (10000 * stdev10 * n) \div (SSum(v) * spec.cvMax)),
              warming |-> n < VolatilityCap]

ComputeMemory(pct, spec) ==
    LET p == SMin(pct, 100)
    IN  IF spec.class = "soc_integrated"
        THEN IF p < 80 THEN 0
             ELSE IF p < 95 THEN (400 * (p - 80)) \div 15 ELSE 400 + 120 * (p - 95)
        ELSE IF p < 70 THEN 0
             ELSE IF p < 85 THEN 20 * (p - 70)
             ELSE IF p < 95 THEN 300 + 40 * (p - 85) ELSE 700 + 60 * (p - 95)

ComputeComposite(thermal, power, volatility, memory) ==
    SMin(1000, (40 * thermal + 25 * power + 15 * volatility + 20 * memory) \div 100)

ClassifySeverity(composite, class) ==
    LET cuts == SeverityThresholds[class]
    IN  Cardinality({i \in 1 .. 4 : composite >= cuts[i]})

ComputeTrend(now, before) ==
    IF now - before > 20 THEN "rising" ELSE IF now - before < -20 THEN "falling" ELSE "stable"

\* Least squares over the ring: minutes to the limit, Absent when the device
\* is not warming up by more than a tenth of a degree a minute.
ComputeTimeToHotspot(rb, t, spec) ==
    LET v == RingValues(rb)
        n == ThermalCap
        sumX  == SSum([i \in 1 .. n |-> i - 1])
        sumXX == SSum([i \in 1 .. n |-> (i - 1) * (i - 1)])
        sumXY == SSum([i \in 1 .. n |-> (i - 1) * v[i]])
        denom == n * sumXX - sumX * sumX
        slope == n * sumXY - sumX * SSum(v)      \* denom times degrees per half minute
    IN  IF rb.len < n \/ denom = 0 \/ 20 * slope <= denom THEN Absent
        ELSE SMax(0, ((spec.limit - t) * denom) \div (2 * slope))

-----------------------------------------------------------------------------
(* ScoreEngine.Score with one more reading of the device.                  *)

NoRisk == [composite |-> Absent, severity |-> 0, trend |-> "stable",
           hotspot |-> Absent, warming |-> TRUE]

ScoringInit ==
    /\ gpu \in GPUSpecs
    /\ thermalRing = NewRing(ThermalCap) /\ volRing = NewRing(VolatilityCap)
    /\ risk = NoRisk
    /\ temps = <<>>

\* What a device reports besides its temperature, idle and busy.
Loads == {[power |-> 20, util |-> 10, mem |-> 50, pressure |-> "nominal"],
          [power |-> 300, util |-> 95, mem |-> 96, pressure |-> "serious"]}

\* The composite of a reading, beside its load, with the other two scores.
RLocal(thermal, volatility, load) ==
    ComputeComposite(thermal, ComputePower(load.power, load.util, gpu),
                     volatility, ComputeMemory(load.mem, gpu))

Assess(t, load, tr, vr) ==
    LET thermal == ComputeThermal(t, tr, gpu, load.pressure)
        vol == ComputeVolatility(vr, gpu)
        composite == RLocal(thermal.score, vol.score, load)
    IN  [composite |-> composite,
         severity |-> ClassifySeverity(composite, gpu.class),
         trend |-> IF risk.composite = Absent THEN "stable"
                   ELSE ComputeTrend(composite, risk.composite),
         hotspot |-> ComputeTimeToHotspot(tr, t, gpu),
         warming |-> thermal.warming \/ vol.warming]

Score(t, load) ==
    /\ thermalRing' = IF t = Absent THEN thermalRing ELSE RingAdd(thermalRing, t)
    /\ volRing' = IF t = Absent THEN volRing ELSE RingAdd(volRing, t)
    /\ risk' = Assess(t, load, thermalRing', volRing')
    /\ temps' = IF t = Absent THEN temps ELSE Append(temps, t)
    /\ UNCHANGED gpu

ScoringNext ==
    /\ Len(temps) < MaxReadings
    /\ \E t \in ScoredTemps \union {Absent}, load \in Loads : Score(t, load)

-----------------------------------------------------------------------------
(* Correctness.                                                            *)

LatestTemps(n) == SubSeq(temps, SMax(1, Len(temps) - n + 1), Len(temps))

\* The rings, full or not, hold the device's latest temperatures in order; and
\* for any of them, with the same load and the same past, a hotter reading never
\* gives the lower thermal score, more watts the lower power score or less free
\* memory the lower memory score: no step of the ramps, penalties and floors
\* goes down.  A hotter reading may be the steadier one; the composite is then
\* lower by no more than the fall in volatility weighs, and never otherwise.
NoStepDown ==
    /\ RingValues(thermalRing) = LatestTemps(ThermalCap)
    /\ RingValues(volRing) = LatestTemps(VolatilityCap)
    /\ \A s, t \in ScoredTemps : s < t =>
          LET volS == ComputeVolatility(RingAdd(volRing, s), gpu).score
              volT == ComputeVolatility(RingAdd(volRing, t), gpu).score
              steadier == SMax(0, volS - volT)
              Thermal(x, load) ==
                  ComputeThermal(x, RingAdd(thermalRing, x), gpu, load.pressure).score
          IN  \A load \in Loads :
                 /\ Thermal(s, load) <= Thermal(t, load)
                 /\ ComputePower(s, load.util, gpu) <= ComputePower(t, load.util, gpu)
                 /\ ComputeMemory(s, gpu) <= ComputeMemory(t, gpu)
                 /\ RLocal(Thermal(s, load), volS, load) - RLocal(Thermal(t, load), volT, load)
                      <= (15 * steadier + 99) \div 100
    /\ risk.hotspot # Absent =>
          \E i \in DOMAIN LatestTemps(ThermalCap) :
             i > 1 /\ LatestTemps(ThermalCap)[i] > LatestTemps(ThermalCap)[i - 1]
================================================================================
