-------------------------------- MODULE Sensors ---------------------------------
(***************************************************************************)
(* The temperature adapter: one goroutine per sensor, and an interval that *)
(* is announced to all of them by closing a channel and making another.    *)
(*                                                                         *)
(* A channel is the number of its generation: one is closed when a later   *)
(* one exists.  A sensor reads the interval and the channel under          *)
(* different locks, and so does a callback that changes them; each lock is *)
(* a step.  Two callbacks may overlap, as reloads may (ConfigReload).      *)
(***************************************************************************)
EXTENDS Integers, FiniteSets

CONSTANTS
    Sensor,      \* the configured sensors
    Updater,     \* callbacks that may run at once
    Paces,       \* the intervals a configuration may set
    MaxChanges   \* bound on the changes of the interval

ASSUME SensorsAssumption == Paces \subseteq Nat \ {0} /\ MaxChanges \in Nat

VARIABLES
    pace,       \* pollInterval
    channel,    \* the generation of intervalCh
    announcing, \* the callbacks between the field and the channel
    place,      \* per sensor: where its goroutine stands
    joined,     \* per sensor: the generation it waits on
    beat,       \* per sensor: the interval of its ticker
    raced,      \* history: sensors that missed a change as they started
    ended,      \* the agent's context is cancelled
    shut,       \* the readings channel is closed
    listening,  \* Start's subscription stands
    badSend     \* a reading was sent after the channel was closed

sensorsVars == <<pace, channel, announcing, place, joined, beat, raced, ended,
                 shut, listening, badSend>>
paceState == <<pace, channel, announcing>>
endState  == <<ended, shut, listening>>

SensorsInit ==
    /\ pace \in Paces /\ channel = 0 /\ announcing = {}
    /\ place = [s \in Sensor |-> "new"]
    /\ joined = [s \in Sensor |-> 0]
    /\ beat = [s \in Sensor |-> 0]
    /\ raced = {}
    /\ ended = FALSE /\ shut = FALSE /\ listening = TRUE /\ badSend = FALSE

-----------------------------------------------------------------------------
(* updatePollInterval.                                                     *)

SetPace(u, p) ==
    /\ u \notin announcing /\ listening /\ p # pace
    /\ channel + Cardinality(announcing) < MaxChanges
    /\ pace' = p
    /\ announcing' = announcing \union {u}
    /\ UNCHANGED <<channel, place, joined, beat, raced, endState, badSend>>

Announce(u) ==
    /\ u \in announcing
    /\ channel' = channel + 1
    /\ announcing' = announcing \ {u}
    /\ UNCHANGED <<pace, place, joined, beat, raced, endState, badSend>>

-----------------------------------------------------------------------------
(* pollSensor.                                                             *)

SensorTicker(s) ==
    /\ place[s] = "new"
    /\ beat' = [beat EXCEPT ![s] = pace]
    /\ place' = [place EXCEPT ![s] = "joining"]
    /\ UNCHANGED <<paceState, joined, raced, endState, badSend>>

\* A change announced between the two reads is missed.
SensorJoin(s) ==
    /\ place[s] = "joining"
    /\ joined' = [joined EXCEPT ![s] = channel]
    /\ raced' = IF beat[s] # pace /\ announcing = {}
                THEN raced \union {s} ELSE raced
    /\ place' = [place EXCEPT ![s] = "first"]
    /\ UNCHANGED <<paceState, beat, endState, badSend>>

\* pollOne, at the start or on a tick; afterwards a tick looks for a newer
\* channel and keeps the one it saw.  The send drops when the readings are
\* full.
SensorPolls(s) ==
    /\ place[s] \in {"first", "polling"}
    /\ LET Newer == place[s] = "polling" /\ joined[s] # channel
       IN /\ joined' = IF Newer THEN [joined EXCEPT ![s] = channel] ELSE joined
          /\ place' = [place EXCEPT ![s] =
                          IF Newer THEN "resetting" ELSE "waiting"]
    /\ badSend' = (badSend \/ shut)
    /\ UNCHANGED <<paceState, beat, raced, endState>>

SensorTick(s) ==
    /\ place[s] = "waiting"
    /\ place' = [place EXCEPT ![s] = "polling"]
    /\ UNCHANGED <<paceState, joined, beat, raced, endState, badSend>>

SensorWoken(s) ==
    /\ place[s] = "waiting" /\ joined[s] # channel
    /\ place' = [place EXCEPT ![s] = "rejoining"]
    /\ UNCHANGED <<paceState, joined, beat, raced, endState, badSend>>

\* Mutant: the interval is read before the new channel.
RejoinOrderSwapped == [rejoining |-> "interval", resetting |-> "channel"]

RejoinOrder == [rejoining |-> "channel", resetting |-> "interval"]

SensorRejoins(s) ==
    /\ place[s] \in DOMAIN RejoinOrder
    /\ IF RejoinOrder[place[s]] = "channel"
       THEN joined' = [joined EXCEPT ![s] = channel] /\ UNCHANGED beat
       ELSE beat' = [beat EXCEPT ![s] = pace] /\ UNCHANGED joined
    /\ place' = [place EXCEPT ![s] =
                    IF @ = "rejoining" THEN "resetting" ELSE "waiting"]
    /\ raced' = raced \ {s}
    /\ UNCHANGED <<paceState, endState, badSend>>

SensorReturn(s) ==
    /\ place[s] = "waiting" /\ ended
    /\ place' = [place EXCEPT ![s] = "returned"]
    /\ UNCHANGED <<paceState, joined, beat, raced, endState, badSend>>

-----------------------------------------------------------------------------
(* Start's end and Stop.                                                   *)

SensorsCancel ==
    /\ ~ended
    /\ ended' = TRUE
    /\ UNCHANGED <<paceState, place, joined, beat, raced, shut, listening, badSend>>

\* Stop, which only unsubscribes.
SensorsStop ==
    /\ listening /\ ended
    /\ listening' = FALSE
    /\ UNCHANGED <<paceState, place, joined, beat, raced, ended, shut, badSend>>

SensorsEnd ==
    /\ ended /\ ~shut
    /\ \A s \in Sensor : place[s] = "returned"
    /\ shut' = TRUE
    /\ listening' = FALSE
    /\ UNCHANGED <<paceState, place, joined, beat, raced, ended, badSend>>

-----------------------------------------------------------------------------

Sense(s) == \/ SensorTicker(s) \/ SensorJoin(s) \/ SensorPolls(s)
            \/ SensorTick(s) \/ SensorWoken(s) \/ SensorRejoins(s)
            \/ SensorReturn(s)

SensorsNext ==
    \/ \E s \in Sensor : Sense(s)
    \/ \E u \in Updater : Announce(u) \/ \E p \in Paces : SetPace(u, p)
    \/ SensorsCancel \/ SensorsStop \/ SensorsEnd

-----------------------------------------------------------------------------
(* Properties.                                                             *)

\* A sensor that waits on the open channel while no change is half made has
\* its ticker at the current interval, whatever changes came while it was
\* polling or setting its ticker; the one change it may miss is one made
\* between its ticker and its first look at the channel.  And no sensor
\* sends once the readings are closed.
SensorsFollow ==
    /\ ~badSend
    /\ \A s \in Sensor :
          place[s] = "waiting" /\ joined[s] = channel /\ announcing = {}
             /\ s \notin raced
          => beat[s] = pace
=============================================================================
