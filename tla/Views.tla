--------------------------------- MODULE Views ---------------------------------
(***************************************************************************)
(* What each reader of a flushed batch takes from it: the score engine,    *)
(* the health engine, the status, risk and history of the dashboard, the   *)
(* WebSocket message, the Prometheus gauges, the hub's devices, the lines  *)
(* on stdout and the cloud's samples.  Every one walks the batch with code *)
(* of its own.                                                             *)
(*                                                                         *)
(* A batch is a sequence of points of some devices; a point reports some   *)
(* of the keys a temperature may have, and a value is named by the point   *)
(* and the key it stands under, so that two values are never confused.     *)
(* A point may have none of the keys the score reads and one that only the *)
(* cloud reads: the zones of linux_thermal report cpu_temp_c alone.  The   *)
(* other metrics are read the same way.                                    *)
(***************************************************************************)
EXTENDS Integers, Sequences, FiniteSets, SequencesExt

CONSTANTS ViewedDevice,  \* devices
          TempSets,      \* the temperature keys a point may have
          MaxBatch,      \* bound on the points of a batch
          MaxTime        \* bound on their timestamps

TempKeys == <<"temperature_c", "temperature_junction_c", "temperature_edge">>
CloudOnlyKeys == <<"gpu_temp", "cpu_temp_c", "temperature">>
CloudKeys == TempKeys \o CloudOnlyKeys

ASSUME ViewsAssumption == /\ {MaxBatch, MaxTime} \subseteq Nat \ {0}
                          /\ TempSets \subseteq SUBSET Range(CloudKeys)

VARIABLE viewed      \* the batch every reader is given

Point == [device : ViewedDevice, at : 1 .. MaxTime, keys : TempSets]
ViewsInit == viewed \in UNION {[1 .. n -> Point] : n \in 1 .. MaxBatch}

None == <<0, "none">>

\* getFloat, getMetricFloat, firstFloatPtr: the first key that is present.
FirstOf(i, keys) ==
    LET there == {k \in DOMAIN keys : keys[k] \in viewed[i].keys}
    IN  IF there = {} THEN None ELSE <<i, keys[Min(there)]>>

PointsOf(d) == {i \in DOMAIN viewed : viewed[i].device = d}
ViewedDevices == {viewed[i].device : i \in DOMAIN viewed}

\* Mutant: a device's first point is kept.
FirstPoint(d) == Min(PointsOf(d))

\* Score and ConvertToSamples keep a device's last point.
LastPoint(d) == Max(PointsOf(d))
ScoreTemp(d) == FirstOf(LastPoint(d), TempKeys)
CloudTemp(d) == FirstOf(LastPoint(d), CloudKeys)

\* Engine.Update sorts the batch by time; the last one appended.
HealthTemp(d) ==
    LET newest == {i \in PointsOf(d) : \A j \in PointsOf(d) : viewed[j].at <= viewed[i].at}
    IN  FirstOf(Max(newest), TempKeys)

\* latestPoint: of all devices' points the first with the highest timestamp.
LatestViewed ==
    Min({i \in DOMAIN viewed : \A j \in DOMAIN viewed : viewed[j].at <= viewed[i].at})
StatusDevice == viewed[LatestViewed].device
StatusTemp == FirstOf(LatestViewed, TempKeys)

\* buildTelemetryUpdate and buildHistoryPoint start from the same point.
SocketTemp == FirstOf(LatestViewed, TempKeys)
HistoryTemp == FirstOf(LatestViewed, TempKeys)

\* updatePoint, for each point in turn: a gauge set twice keeps the later value,
\* one never set is not exported.
GaugeTemp(d) ==
    LET setters == {i \in PointsOf(d) : "temperature_c" \in viewed[i].keys}
    IN  IF setters = {} THEN None ELSE <<Max(setters), "temperature_c">>
GaugeHotspot(d) ==
    LET setters == {i \in PointsOf(d) : viewed[i].keys \cap Range(TempKeys) # {}}
    IN  IF setters = {} THEN None
        ELSE FirstOf(Max(setters), <<TempKeys[2], TempKeys[3], TempKeys[1]>>)

\* telemetryToPeerDevices merges a device's points into one entry.
HubTemp(d) ==
    LET setters == {i \in PointsOf(d) : "temperature_c" \in viewed[i].keys}
    IN  IF setters = {} THEN None ELSE FirstOf(Max(setters), <<TempKeys[1]>>)

\* Stdout prints every point.
StdoutRows == [i \in DOMAIN viewed |->
                 [device |-> viewed[i].device, temp |-> FirstOf(i, <<TempKeys[1]>>)]]
StdoutTemp(d) ==
    StdoutRows[Max({i \in DOMAIN StdoutRows : StdoutRows[i].device = d})].temp

-----------------------------------------------------------------------------
(* Correctness.                                                            *)

InOrder(d) == \A i, j \in PointsOf(d) : i < j => viewed[i].at < viewed[j].at

\* The risk of a device stands beside the reading it was computed from: in the
\* cloud's sample, and, when the device's points are in order, in the status,
\* the message and the history of the device they show; the health engine's
\* newest sample is that reading too.  Only when the score read no temperature
\* may the cloud's sample hold one, and then one under a key the score does not
\* know.  The readers that know temperature_c alone show the score's reading
\* when its point has the key; otherwise stdout shows none, and the gauge and
\* the hub's entry stay at the last reading that had it.
ReadersAgree ==
    \A d \in ViewedDevices :
        /\ ScoreTemp(d) # None => CloudTemp(d) = ScoreTemp(d)
        /\ ScoreTemp(d) = None => CloudTemp(d) = FirstOf(LastPoint(d), CloudOnlyKeys)
        /\ InOrder(d) =>
              /\ HealthTemp(d) = ScoreTemp(d)
              /\ d = StatusDevice =>
                    {StatusTemp, SocketTemp, HistoryTemp} = {ScoreTemp(d)}
        /\ "temperature_c" \in viewed[LastPoint(d)].keys =>
              {GaugeTemp(d), StdoutTemp(d)} = {ScoreTemp(d)}
        /\ "temperature_c" \notin viewed[LastPoint(d)].keys => StdoutTemp(d) = None
        /\ GaugeTemp(d) = HubTemp(d)
        /\ \A i \in PointsOf(d) : "temperature_c" \in viewed[i].keys => i <= GaugeTemp(d)[1]
        /\ GaugeTemp(d) # None => GaugeHotspot(d)[1] >= GaugeTemp(d)[1]
================================================================================
