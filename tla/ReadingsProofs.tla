---------------------------- MODULE ReadingsProofs ----------------------------
(***************************************************************************)
(* What the parts that handle readings keep true for every set of           *)
(* devices, addresses, clients and targets and for every batch and every    *)
(* configuration.                                                          *)
(*                                                                         *)
(* Each part is proved by itself, from its own Init and Next; a step of the *)
(* union is a step of one of them and leaves the others' variables alone.   *)
(***************************************************************************)
EXTENDS Readings, Lemmas

-----------------------------------------------------------------------------
(* The pollers of the PDU adapter *)

HandlerPlaces == {"idle", "pacing", "comparing", "creating", "swapping", "closing"}

Handlers == [at : HandlerPlaces, targets : TargetLists \cup {0}, pace : PduPaces \cup {0}, set : Nat]

PduTypes ==
  /\ pduLoop \in {"new", "ticking", "subscribed", "polling", "waiting", "detached", "returned"}
  /\ pduStop \in {"idle", "stopped", "detached", "returned"}
  /\ targetsOf \in Seq(TargetLists)
  /\ pollers \in Nat /\ open \subseteq Nat \ {0}
  /\ detached \in [start : Nat, stop : Nat]
  /\ handler \in [PduReload -> Handlers]

\* The sets are numbered as they are made.
Numbered ==
  /\ pollers <= Len(targetsOf)
  /\ detached.start <= Len(targetsOf) /\ detached.stop <= Len(targetsOf)
  /\ \A h \in PduReload : handler[h].set <= Len(targetsOf)

\* Who has taken a set to close or to install, and when it has.
Taken ==
  /\ detached.start # 0 => pduLoop = "detached"
  /\ detached.stop # 0 => pduStop = "detached"
  /\ \A h \in PduReload :
       /\ handler[h].at \notin {"swapping", "closing"} => handler[h].set = 0
       /\ handler[h].at \in {"comparing", "creating", "swapping"} => handler[h].targets \in TargetLists
       /\ handler[h].at = "swapping" =>
            handler[h].set # 0 /\ targetsOf[handler[h].set] = handler[h].targets

\* The pollers in place, the configuration and the ticker go together.
Together ==
  /\ told = snmpCfg
  /\ pollers # 0 => targetsOf[pollers] = snmpCfg
  /\ pduTicker \in {0, pduPace}

PduInv ==
  PduTypes /\ Numbered /\ Taken /\ Together /\ PollersOwned /\ OwnedOnce /\ StaysDetached

\* New makes the first set, and it is in place.
LEMMA PduStarts == PduInit => PduInv
<1> SUFFICES ASSUME PduInit PROVE PduInv
  OBVIOUS
<1>1. targetsOf = <<snmpCfg>> /\ snmpCfg \in TargetLists /\ Len(targetsOf) = 1 /\ targetsOf[1] = snmpCfg
  BY DEF PduInit
<1>2. PduTypes /\ Numbered
  BY <1>1 DEF PduInit, PduTypes, Numbered, Handlers, HandlerPlaces, Resting
<1>3. Taken /\ Together /\ PollersOwned /\ OwnedOnce /\ StaysDetached
  BY <1>1 DEF PduInit, Taken, Together, PollersOwned, OwnedOnce, StaysDetached, Resting
<1> QED
  BY <1>2, <1>3 DEF PduInv

\* A change of one callback's entry, seen from every callback.
LEMMA HandlerChanges ==
  ASSUME PduTypes, NEW h \in PduReload, NEW e \in Handlers, handler' = [handler EXCEPT ![h] = e]
  PROVE  /\ handler' \in [PduReload -> Handlers]
         /\ handler'[h] = e
         /\ \A k \in PduReload \ {h} : handler'[k] = handler[k]
BY DEF PduTypes

\* Start, its polls and its end.
LEMMA PduLoopKeeps ==
  ASSUME PduInv,
         PduStart \/ PduSubscribe \/ PduRemember \/ PduPoll \/ PduPolled \/ PduDone \/ PduReturn
  PROVE  PduInv'
<1> USE DEF PduInv, PduTypes, Numbered, Taken, Together, PollersOwned, OwnedOnce, StaysDetached, pduPast,
            pduPacing
<1>1. CASE PduStart \/ PduSubscribe \/ PduRemember \/ PduPoll \/ PduPolled
  <2>1. UNCHANGED <<pduStop, targetsOf, open, pollers, snmpCfg, pduPace, detached, handler, told>>
    BY <1>1, Zenon DEF PduStart, PduSubscribe, PduRemember, PduPoll, PduPolled, pduPacing, pduPast
  <2>2. /\ pduTicker' \in {pduTicker, pduPace} /\ (pduLoop = "detached" => pduLoop' = pduLoop)
        /\ pduLoop' = pduLoop \/ pduLoop' \in {"ticking", "subscribed", "polling", "waiting"}
    BY <1>1 DEF PduStart, PduSubscribe, PduRemember, PduPoll, PduPolled
  <2> QED
    BY <2>1, <2>2
<1>2. CASE PduDone
  BY <1>2 DEF PduDone
<1>3. CASE PduReturn
  BY <1>3 DEF PduReturn
<1> QED
  BY <1>1, <1>2, <1>3

\* Stop, and the agent's cancellation.
LEMMA PduStopKeeps ==
  ASSUME PduInv, PduCancelled \/ PduStops \/ PduStopDetach \/ PduStopReturn \/ UNCHANGED pduVars
  PROVE  PduInv'
<1>1. CASE PduCancelled \/ PduStops \/ UNCHANGED pduVars
  <2>1. PduCancelled => UNCHANGED <<pduLoop, pduStop, targetsOf, open, pollers, snmpCfg, pduPace,
                                    pduTicker, detached, handler, told>>
    BY DEF PduCancelled, pduPacing, pduPast
  <2>2. PduStops => /\ pduStop = "idle" /\ pduStop' = "stopped"
                    /\ UNCHANGED <<pduLoop, targetsOf, open, pollers, snmpCfg, pduPace, pduTicker,
                                   detached, handler, told>>
    <3>1. PduStops => /\ pduStop = "idle" /\ pduStop' = "stopped"
                      /\ UNCHANGED <<pduLoop, targetsOf, open, pollers, snmpCfg, pduPacing,
                                     detached, handler, pduPast>>
      BY Zenon DEF PduStops
    <3> QED
      BY <3>1 DEF pduPacing, pduPast
  <2>3. UNCHANGED pduVars => UNCHANGED <<pduLoop, pduStop, targetsOf, open, pollers, snmpCfg, pduPace,
                                         pduTicker, detached, handler, told>>
    BY DEF pduVars
  <2>4. UNCHANGED <<pduLoop, targetsOf, open, pollers, snmpCfg, pduPace, pduTicker, detached, handler, told>>
    BY <1>1, <2>1, <2>2, <2>3
  <2>5. pduStop' = pduStop \/ (pduStop = "idle" /\ pduStop' = "stopped")
    BY <1>1, <2>1, <2>2, <2>3
  <2> QED
    BY <2>4, <2>5 DEF PduInv, PduTypes, Numbered, Taken, Together, PollersOwned, OwnedOnce, StaysDetached
<1>2. CASE PduStopDetach
  BY <1>2 DEF PduStopDetach, PduInv, PduTypes, Numbered, Taken, Together, PollersOwned, OwnedOnce,
              StaysDetached, pduPacing, pduPast
<1>3. CASE PduStopReturn
  BY <1>3 DEF PduStopReturn, PduInv, PduTypes, Numbered, Taken, Together, PollersOwned, OwnedOnce,
              StaysDetached, pduPacing, pduPast
<1> QED
  BY <1>1, <1>2, <1>3

\* A store is announced to a callback, which takes the interval and compares
\* the targets.
LEMMA HandlerBegins ==
  ASSUME PduInv, NEW h \in PduReload, PduNotified(h) \/ PduPaced(h) \/ PduCompare(h)
  PROVE  PduInv'
<1>1. PICK e \in Handlers :
        /\ handler' = [handler EXCEPT ![h] = e] /\ e.set = 0
        /\ e.at \in {"idle", "pacing", "comparing", "creating"}
        /\ e.at \in {"comparing", "creating"} => e.targets \in TargetLists
  <2>1. handler[h] \in Handlers
    BY DEF PduInv, PduTypes
  <2>2. ASSUME NEW t \in TargetLists \cup {0}, NEW p \in PduPaces
        PROVE  [at |-> "pacing", targets |-> t, pace |-> p, set |-> 0] \in Handlers
    BY DEF Handlers, HandlerPlaces
  <2>3. Resting \in Handlers /\ Resting.set = 0 /\ Resting.at = "idle"
    BY DEF Resting, Handlers, HandlerPlaces
  <2>4. CASE PduNotified(h)
    BY <2>2, <2>4 DEF PduNotified
  <2>5. CASE PduPaced(h)
    <3>1. PICK e : e = IF handler[h].targets = 0 THEN Resting ELSE [handler[h] EXCEPT !.at = "comparing"]
      OBVIOUS
    <3>2. handler' = [handler EXCEPT ![h] = e]
      BY <2>5, <3>1 DEF PduPaced
    <3>3. e \in Handlers /\ e.set = 0 /\ e.at \in {"idle", "comparing"}
          /\ (e.at = "comparing" => e.targets \in TargetLists)
      BY <2>1, <2>3, <2>5, <3>1 DEF PduPaced, PduInv, Taken, Handlers, HandlerPlaces
    <3> QED
      BY <3>2, <3>3
  <2>6. CASE PduCompare(h)
    <3>1. PICK e : e = IF snmpCfg = handler[h].targets THEN Resting ELSE [handler[h] EXCEPT !.at = "creating"]
      OBVIOUS
    <3>2. handler' = [handler EXCEPT ![h] = e]
      BY <2>6, <3>1 DEF PduCompare
    <3>3. e \in Handlers /\ e.set = 0 /\ e.at \in {"idle", "creating"}
          /\ (e.at = "creating" => e.targets \in TargetLists)
      BY <2>1, <2>3, <2>6, <3>1 DEF PduCompare, PduInv, Taken, Handlers, HandlerPlaces
    <3> QED
      BY <3>2, <3>3
  <2> QED
    BY <2>4, <2>5, <2>6
<1>2. /\ handler' \in [PduReload -> Handlers]
      /\ handler'[h] = e
      /\ \A k \in PduReload \ {h} : handler'[k] = handler[k]
  BY <1>1, HandlerChanges DEF PduInv
<1>3. /\ UNCHANGED <<pduLoop, pduStop, targetsOf, open, pollers, snmpCfg, detached>>
      /\ told' = told \/ told' = snmpCfg
      /\ UNCHANGED <<pduPace, pduTicker>> \/ (pduPace' = handler[h].pace /\ pduTicker' \in {0, pduPace'})
  <2>1. CASE PduNotified(h)
    <3>1. UNCHANGED <<pduLife, targetsOf, open, pollers, snmpCfg, pduPacing, told>>
      BY <2>1, Zenon DEF PduNotified
    <3> QED
      BY <3>1 DEF pduLife, pduPacing
  <2>2. CASE PduPaced(h)
    BY <2>2 DEF PduPaced, pduLife, pduPast
  <2>3. CASE PduCompare(h)
    <3>1. /\ UNCHANGED <<pduLife, targetsOf, open, pollers, snmpCfg, pduPacing>>
          /\ told' = told \/ told' = snmpCfg
      BY <2>3, Zenon DEF PduCompare
    <3> QED
      BY <3>1 DEF pduLife, pduPacing
  <2> QED
    BY <2>1, <2>2, <2>3
<1>4. handler[h].set = 0
  BY DEF PduInv, Taken, PduNotified, PduPaced, PduCompare, Resting
<1> QED
  BY <1>1, <1>2, <1>3, <1>4 DEF PduInv, PduTypes, Numbered, Taken, Together, PollersOwned, OwnedOnce, StaysDetached

\* A callback makes a new set, or cannot.
LEMMA HandlerCreates ==
  ASSUME PduInv, NEW h \in PduReload, PduCreate(h) \/ PduCreateFails(h)
  PROVE  PduInv'
<1>0. handler[h] \in Handlers /\ handler[h].targets \in TargetLists /\ handler[h].set = 0
  BY DEF PduInv, PduTypes, Taken, PduCreate, PduCreateFails
<1>1. CASE PduCreateFails(h)
  <2>1. Resting \in Handlers /\ Resting.set = 0 /\ Resting.at = "idle"
    BY DEF Resting, Handlers, HandlerPlaces
  <2>2. /\ handler' \in [PduReload -> Handlers]
        /\ handler'[h] = Resting
        /\ \A k \in PduReload \ {h} : handler'[k] = handler[k]
    BY <1>1, <2>1, HandlerChanges DEF PduInv, PduCreateFails
  <2>3. UNCHANGED <<pduLoop, pduStop, targetsOf, open, pollers, snmpCfg, pduPace, pduTicker, detached, told>>
    BY <1>1 DEF PduCreateFails, pduLife, pduPacing, pduPast
  <2> QED
    BY <1>0, <2>1, <2>2, <2>3
       DEF PduInv, PduTypes, Numbered, Taken, Together, PollersOwned, OwnedOnce, StaysDetached
<1>2. CASE PduCreate(h)
  <2>1. /\ targetsOf \in Seq(TargetLists) /\ Len(targetsOf) \in Nat
        /\ targetsOf' = Append(targetsOf, handler[h].targets)
    BY <1>2, LenProperties DEF PduCreate, PduInv, PduTypes
  <2>2. /\ targetsOf' \in Seq(TargetLists) /\ Len(targetsOf') = Len(targetsOf) + 1
        /\ targetsOf'[Len(targetsOf) + 1] = handler[h].targets
        /\ \A g \in 1 .. Len(targetsOf) : targetsOf'[g] = targetsOf[g]
    BY <1>0, <2>1, AppendProperties
  <2>3. PICK n \in Nat, m \in Nat \ {0} : n = Len(targetsOf) /\ m = n + 1
    BY <2>1
  <2>4. PICK e : e = [handler[h] EXCEPT !.at = "swapping", !.set = m]
    OBVIOUS
  <2>5. /\ e \in Handlers /\ e.at = "swapping" /\ e.set = m
        /\ e.targets = handler[h].targets
    BY <1>0, <2>3, <2>4 DEF Handlers, HandlerPlaces
  <2>6. handler' = [handler EXCEPT ![h] = e] /\ open' = open \cup {m}
    BY <1>2, <2>2, <2>3, <2>4 DEF PduCreate
  <2>7. /\ handler' \in [PduReload -> Handlers]
        /\ handler'[h] = e
        /\ \A k \in PduReload \ {h} : handler'[k] = handler[k]
    BY <2>5, <2>6, HandlerChanges DEF PduInv
  <2>8. UNCHANGED <<pduLoop, pduStop, pollers, snmpCfg, pduPace, pduTicker, detached, told>>
    BY <1>2 DEF PduCreate, pduLife, pduPacing, pduPast
  <2>9. /\ \A g \in 1 .. n : targetsOf'[g] = targetsOf[g]
        /\ targetsOf'[m] = handler[h].targets /\ Len(targetsOf') = m
        /\ pollers \in 0 .. n /\ detached.start \in 0 .. n /\ detached.stop \in 0 .. n
        /\ \A k \in PduReload : handler[k].set \in 0 .. n
    BY <2>2, <2>3 DEF PduInv, PduTypes, Numbered, Handlers
  <2>10. PduTypes' /\ Numbered'
    <3>1. open' \subseteq Nat \ {0}
      BY <2>6 DEF PduInv, PduTypes
    <3>2. PduTypes'
      BY <2>2, <2>7, <2>8, <3>1 DEF PduInv, PduTypes
    <3>3. \A k \in PduReload : handler'[k].set <= m
      BY <2>3, <2>5, <2>7, <2>9
    <3>4. Numbered'
      BY <2>3, <2>8, <2>9, <3>3 DEF Numbered
    <3> QED
      BY <3>2, <3>4
  <2>11. Taken' /\ Together'
    BY <2>3, <1>0, <2>5, <2>7, <2>8, <2>9 DEF PduInv, Taken, Together
  <2>12. PollersOwned' /\ OwnedOnce' /\ StaysDetached'
    <3>1. PollersOwned'
      <4> SUFFICES ASSUME NEW g \in open'
                   PROVE  \/ g = pollers' \/ g \in {detached'.start, detached'.stop}
                          \/ \E k \in PduReload : handler'[k].set = g
        BY DEF PollersOwned
      <4>1. g = m \/ g \in open
        BY <2>6
      <4>2. g \in open => g # 0
        BY DEF PduInv, PduTypes
      <4> QED
        BY <1>0, <2>5, <2>7, <2>8, <4>1, <4>2 DEF PduInv, PollersOwned
    <3>2. m \notin 0 .. n
      BY <2>3
    <3>3. OwnedOnce'
      BY <1>0, <2>5, <2>7, <2>8, <2>9, <3>2 DEF PduInv, OwnedOnce
    <3>4. StaysDetached'
      BY <2>8 DEF PduInv, StaysDetached
    <3> QED
      BY <3>1, <3>3, <3>4
  <2> QED
    BY <2>10, <2>11, <2>12 DEF PduInv
<1> QED
  BY <1>1, <1>2

\* A callback swaps its set in, unless Stop came first, and closes the other.
LEMMA HandlerEnds ==
  ASSUME PduInv, NEW h \in PduReload, PduSwap(h) \/ PduCloseOld(h)
  PROVE  PduInv'
<1>0. /\ handler[h] \in Handlers /\ handler[h].set \in Nat
      /\ handler[h].targets \in TargetLists \cup {0}
  BY DEF PduInv, PduTypes, Handlers
<1>1. CASE PduCloseOld(h)
  <2>1. Resting \in Handlers /\ Resting.set = 0 /\ Resting.at = "idle"
    BY DEF Resting, Handlers, HandlerPlaces
  <2>2. /\ handler' \in [PduReload -> Handlers]
        /\ handler'[h] = Resting
        /\ \A k \in PduReload \ {h} : handler'[k] = handler[k]
    BY <1>1, <2>1, HandlerChanges DEF PduInv, PduCloseOld
  <2>3. /\ UNCHANGED <<pduLoop, pduStop, targetsOf, pollers, snmpCfg, pduPace, pduTicker, detached, told>>
        /\ open' = open \ {handler[h].set}
    BY <1>1 DEF PduCloseOld, pduLife, pduPacing, pduPast
  <2>4. PduTypes' /\ Numbered' /\ Taken' /\ Together' /\ StaysDetached'
    <3>1. PduTypes' /\ Together' /\ StaysDetached'
      BY <2>2, <2>3 DEF PduInv, PduTypes, Together, StaysDetached
    <3>2. Numbered'
      BY <1>0, <2>1, <2>2, <2>3 DEF PduInv, Numbered
    <3>3. Taken'
      BY <2>1, <2>2, <2>3 DEF PduInv, Taken
    <3> QED
      BY <3>1, <3>2, <3>3
  <2>5. PollersOwned'
    BY <2>1, <2>2, <2>3 DEF PduInv, PollersOwned
  <2>6. OwnedOnce'
    BY <1>0, <2>1, <2>2, <2>3 DEF PduInv, OwnedOnce
  <2> QED
    BY <2>4, <2>5, <2>6 DEF PduInv
<1>2. CASE PduSwap(h) /\ pduStop # "idle"
  <2>1. PICK e : e = [handler[h] EXCEPT !.at = "closing"]
    OBVIOUS
  <2>2. e \in Handlers /\ e.set = handler[h].set /\ e.at = "closing"
    BY <1>0, <2>1 DEF Handlers, HandlerPlaces
  <2>3. /\ handler' \in [PduReload -> Handlers]
        /\ handler'[h] = e
        /\ \A k \in PduReload \ {h} : handler'[k] = handler[k]
    BY <1>2, <2>1, <2>2, HandlerChanges DEF PduInv, PduSwap
  <2>4. UNCHANGED <<pduLoop, pduStop, targetsOf, open, pollers, snmpCfg, pduPace, pduTicker, detached, told>>
    BY <1>2 DEF PduSwap, pduLife, pduPacing
  <2>5. PduTypes' /\ Together' /\ StaysDetached'
    BY <2>3, <2>4 DEF PduInv, PduTypes, Together, StaysDetached
  <2>6. Numbered'
    BY <1>0, <2>2, <2>3, <2>4 DEF PduInv, Numbered
  <2>7. Taken'
    BY <2>2, <2>3, <2>4 DEF PduInv, Taken
  <2>8. PollersOwned'
    BY <2>2, <2>3, <2>4 DEF PduInv, PollersOwned
  <2>9. OwnedOnce'
    BY <2>2, <2>3, <2>4 DEF PduInv, OwnedOnce
  <2> QED
    BY <2>5, <2>6, <2>7, <2>8, <2>9 DEF PduInv
<1>3. CASE PduSwap(h) /\ pduStop = "idle"
  <2>1. PICK e : e = [handler[h] EXCEPT !.at = "closing", !.set = pollers]
    OBVIOUS
  <2>2. e \in Handlers /\ e.set = pollers /\ e.at = "closing"
    BY <1>0, <2>1 DEF Handlers, HandlerPlaces, PduInv, PduTypes
  <2>3. /\ handler' \in [PduReload -> Handlers]
        /\ handler'[h] = e
        /\ \A k \in PduReload \ {h} : handler'[k] = handler[k]
    <3>1. handler' = [handler EXCEPT ![h] = e] /\ PduTypes
      BY <1>3, <2>1 DEF PduInv, PduSwap
    <3> QED
      BY <2>2, <3>1, HandlerChanges
  <2>4. /\ UNCHANGED <<pduLoop, pduStop, targetsOf, open, pduPace, pduTicker, detached>>
        /\ pollers' = handler[h].set /\ snmpCfg' = handler[h].targets /\ told' = snmpCfg'
        /\ handler[h].at = "swapping" /\ pduStop = "idle"
    BY <1>3 DEF PduSwap, pduLife, pduPacing
  <2>5. PduTypes' /\ Numbered' /\ Taken' /\ Together' /\ StaysDetached'
    BY <1>0, <2>2, <2>3, <2>4 DEF PduInv, PduTypes, Numbered, Taken, Together, StaysDetached
  <2>6. PollersOwned'
    BY <2>2, <2>3, <2>4 DEF PduInv, PollersOwned
  <2>7. OwnedOnce'
    BY <1>0, <2>2, <2>3, <2>4 DEF PduInv, OwnedOnce, PduTypes
  <2> QED
    BY <2>5, <2>6, <2>7 DEF PduInv
<1> QED
  BY <1>1, <1>2, <1>3

\* Every step of Start, Stop and the callbacks keeps it.
LEMMA PduSteps == PduInv /\ [PduNext]_pduVars => PduInv'
BY PduLoopKeeps, PduStopKeeps, HandlerBegins, HandlerCreates, HandlerEnds DEF PduNext

\* No set of pollers is without a thread that will close it.
LEMMA PduMeans == PduInv => NoPollerLeaked
BY DEF PduInv, NoPollerLeaked, PollersFollow, Together

-----------------------------------------------------------------------------
(* The fleet hub *)

AgentStates == [up : BOOLEAN, name : DeviceName, flushes : 0 .. Versions]
Seen == (0 .. Versions) \cup {Never}
Cached == (Address \X (0 .. Versions)) \cup {NotCached}

FleetTypes ==
  /\ DOMAIN peers \subseteq Address
  /\ peers \in [DOMAIN peers -> [id : Ids, healthy : BOOLEAN, version : Seen]]
  /\ peerMetrics \in [Ids -> Cached]
  /\ stage \in [Address -> {"idle", "queued", "fetching", "fetched", "updated"}]
  /\ answer \in [Address -> Seen]
  /\ agent \in [Address -> AgentStates]

\* A peer is known by the id that came with its version, and between a scrape's
\* two stores the answer is still the one that was listed.
IdFollows ==
  \A a \in DOMAIN peers :
    /\ peers[a].id = Id(a, IF peers[a].version = Never THEN 0 ELSE peers[a].version)
    /\ stage[a] = "updated" => answer[a] = peers[a].version /\ answer[a] # Never
    /\ stage[a] = "fetched" => answer[a] # Never

\* Nobody scrapes what is not registered.
StrangersUnknown == \A a \in Address \ DOMAIN peers : stage[a] = "idle"

\* A cycle begins when the last one has ended.
CycleEnds == scraper # "scraping" => \A a \in Address : stage[a] = "idle"

FleetInv == FleetTypes /\ IdFollows /\ StrangersUnknown /\ CycleEnds /\ ServesWhatItLists

\* An address is the id of that peer alone, and a name only of namesakes.
LEMMA IdsApart ==
  ASSUME FleetTypes, NEW a \in Address, NEW v
  PROVE  /\ Id(a, v) \in Ids
         /\ \A b \in Address : \A w : Id(a, v) = Id(b, w) =>
               a = b \/ (w # 0 /\ agent[b].name = agent[a].name)
<1>1. Id(a, v) \in Ids
  <2>1. agent[a].name \in DeviceName
    BY DEF FleetTypes, AgentStates
  <2> QED
    BY <2>1 DEF Id, Ids
<1>2. ASSUME NEW b \in Address, NEW w, Id(a, v) = Id(b, w)
      PROVE  a = b \/ (w # 0 /\ agent[b].name = agent[a].name)
  <2>1. \A x, y, z, t : <<x, y>> = <<z, t>> => x = z /\ y = t
    OBVIOUS
  <2>2. CASE v = 0 /\ w = 0
    BY <1>2, <2>1, <2>2 DEF Id
  <2>3. CASE v # 0 /\ w # 0
    BY <1>2, <2>1, <2>3 DEF Id
  <2>4. CASE (v = 0 /\ w # 0) \/ (v # 0 /\ w = 0)
    <3>1. "address" # "name"
      OBVIOUS
    <3> QED
      BY <1>2, <2>1, <2>4, <3>1 DEF Id
  <2> QED
    BY <2>2, <2>3, <2>4
<1> QED
  BY <1>1, <1>2

\* A peer stays well served while its registration, its namesakes' and the cached
\* metrics stay as they are and no store ends.
LEMMA ServedStays ==
  ASSUME FleetTypes, NEW a \in DOMAIN peers, ServedIsListed(a),
         agent' \in [Address -> AgentStates],
         \A b \in Address : agent'[b].name = agent[b].name,
         DOMAIN peers \subseteq DOMAIN peers',
         \A b \in DOMAIN peers : peers'[b].id = peers[b].id /\ peers'[b].version = peers[b].version,
         \A b \in DOMAIN peers : stage[b] = "updated" => stage'[b] = "updated",
         peerMetrics'[peers[a].id] = peerMetrics[peers[a].id]
  PROVE  ServedIsListed(a)'
<1>1. PICK b \in Namesakes(a), v \in 0 .. Versions :
           /\ peerMetrics[peers[a].id] = <<b, v>>
           /\ b # a => peers[a].version > 0
           /\ \/ v = peers[b].version
              \/ b # a /\ (stage[b] = "updated" \/ peers[b].id # peers[a].id)
  BY DEF ServedIsListed, Served
<1>2. b \in DOMAIN peers /\ agent[b].name = agent[a].name /\ a \in Address /\ b \in Address
  BY <1>1 DEF Namesakes, FleetTypes
<1>3. b \in Namesakes(a)'
  BY <1>2 DEF Namesakes
<1>4. /\ peers'[a].id = peers[a].id /\ peers'[a].version = peers[a].version
      /\ peers'[b].id = peers[b].id /\ peers'[b].version = peers[b].version
      /\ stage[b] = "updated" => stage'[b] = "updated"
  BY <1>2
<1>5. /\ peerMetrics'[peers'[a].id] = <<b, v>>
      /\ b # a => peers'[a].version > 0
      /\ \/ v = peers'[b].version
         \/ b # a /\ (stage'[b] = "updated" \/ peers'[b].id # peers'[a].id)
  BY <1>1, <1>4
<1> QED
  BY <1>3, <1>5 DEF ServedIsListed, Served

\* The same for all peers at once.
LEMMA AllServedStay ==
  ASSUME FleetInv,
         agent' \in [Address -> AgentStates],
         \A b \in Address : agent'[b].name = agent[b].name,
         DOMAIN peers' = DOMAIN peers,
         \A b \in DOMAIN peers : peers'[b].id = peers[b].id /\ peers'[b].version = peers[b].version,
         \A b \in DOMAIN peers : stage[b] = "updated" <=> stage'[b] = "updated",
         peerMetrics' = peerMetrics
  PROVE  ServesWhatItLists'
<1> SUFFICES ASSUME NEW a \in DOMAIN peers, peers'[a].version # Never, stage'[a] # "updated"
             PROVE  ServedIsListed(a)'
  BY DEF ServesWhatItLists
<1>1. ServedIsListed(a)
  BY DEF FleetInv, ServesWhatItLists
<1> QED
  BY <1>1, ServedStays DEF FleetInv

\* Marking peers unhealthy changes nothing else of them.
LEMMA MarkedAlike ==
  ASSUME FleetTypes, NEW gone, MarkUnhealthy(gone)
  PROVE  /\ DOMAIN peers' = DOMAIN peers
         /\ peers' \in [DOMAIN peers -> [id : Ids, healthy : BOOLEAN, version : Seen]]
         /\ \A b \in DOMAIN peers : peers'[b].id = peers[b].id /\ peers'[b].version = peers[b].version
<1>1. ASSUME NEW b \in DOMAIN peers, NEW e \in BOOLEAN
      PROVE  LET p == [peers[b] EXCEPT !.healthy = e]
             IN  /\ p \in [id : Ids, healthy : BOOLEAN, version : Seen]
                 /\ p.id = peers[b].id /\ p.version = peers[b].version
  BY DEF FleetTypes
<1>2. PICK well : well = [b \in DOMAIN peers |-> peers[b].healthy /\ b \notin gone]
  OBVIOUS
<1>3. \A b \in DOMAIN peers : well[b] \in BOOLEAN
  BY <1>2
<1>4. peers' = [b \in DOMAIN peers |-> [peers[b] EXCEPT !.healthy = well[b]]]
  BY <1>2 DEF MarkUnhealthy
<1> QED
  BY <1>1, <1>3, <1>4

\* The hub starts with the static peers, which it has not scraped.
LEMMA FleetStarts == FleetInit => FleetInv
<1> SUFFICES ASSUME FleetInit PROVE FleetInv
  OBVIOUS
<1>1. \A a \in Address : <<"address", a>> \in Ids
  BY DEF Ids
<1>2. /\ peers = [a \in Static |-> NewPeer(a)] /\ Static \subseteq Address
      /\ \A a \in Static : NewPeer(a) \in [id : Ids, healthy : BOOLEAN, version : Seen]
                           /\ NewPeer(a).id = <<"address", a>> /\ NewPeer(a).version = Never
  BY <1>1, FleetAssumption DEF FleetInit, NewPeer, Seen
<1>3. agent \in [Address -> AgentStates]
  <2>1. PICK net \in Networks, up \in [Address -> BOOLEAN] :
             agent = [a \in Address |->
                        [up |-> up[a], name |-> net.name[a], flushes |-> net.flushes[a]]]
    BY DEF FleetInit
  <2>2. net.name \in [Address -> DeviceName] /\ net.flushes \in [Address -> 0 .. Versions]
    BY FleetAssumption
  <2> QED
    BY ONLY <2>1, <2>2 DEF AgentStates
<1>4. FleetTypes
  BY <1>2, <1>3 DEF FleetInit, FleetTypes, Seen, Cached
<1>5. DOMAIN peers = Static /\ stage = [a \in Address |-> "idle"]
      /\ \A a \in Static : peers[a].id = <<"address", a>> /\ peers[a].version = Never
  BY <1>2 DEF FleetInit
<1>6. IdFollows
  BY <1>2, <1>5 DEF IdFollows, Id
<1>7. StrangersUnknown /\ CycleEnds /\ ServesWhatItLists
  BY <1>2, <1>5 DEF StrangersUnknown, CycleEnds, ServesWhatItLists
<1> QED
  BY <1>4, <1>6, <1>7 DEF FleetInv

\* Steps that touch neither the registry nor the cache nor a scrape.
LEMMA FleetIdle ==
  ASSUME FleetInv,
         \/ \E a \in Address : AgentRestarts(a)
         \/ ScrapeAllDone \/ ScraperStop \/ HubShutdown \/ ListenFails \/ UNCHANGED fleetVars
  PROVE  FleetInv'
<1>1. UNCHANGED <<peers, peerMetrics, stage, answer>>
  BY Zenon DEF AgentRestarts, ScrapeAllDone, ScraperStop, HubShutdown, ListenFails,
               fleetVars, scrapeVars
<1>2. /\ agent' \in [Address -> AgentStates]
      /\ \A b \in Address : agent'[b].name = agent[b].name
  <2>1. CASE \E a \in Address : AgentRestarts(a)
    <3>1. PICK a \in Address : agent' = [agent EXCEPT ![a].up = ~@]
      BY <2>1 DEF AgentRestarts
    <3>2. agent \in [Address -> AgentStates]
      BY DEF FleetInv, FleetTypes
    <3>3. ASSUME NEW b \in Address
          PROVE  agent'[b].name = agent[b].name /\ agent'[b] \in AgentStates
      <4>1. agent'[b] = IF b = a THEN [agent[b] EXCEPT !.up = ~agent[b].up] ELSE agent[b]
        BY <3>1, <3>2
      <4>2. agent[b] \in AgentStates
        BY <3>2
      <4> QED
        BY <4>1, <4>2 DEF AgentStates
    <3>4. DOMAIN agent' = Address /\ agent' = [b \in Address |-> agent'[b]]
      BY <3>1, <3>2
    <3> QED
      BY <3>3, <3>4
  <2>2. CASE ScrapeAllDone \/ ScraperStop \/ HubShutdown \/ ListenFails \/ UNCHANGED fleetVars
    <3>1. agent' = agent
      BY <2>2, Zenon DEF ScrapeAllDone, ScraperStop, HubShutdown, ListenFails, fleetVars
    <3> QED
      BY <3>1 DEF FleetInv, FleetTypes
  <2> QED
    BY <2>1, <2>2
<1>3. scraper' = scraper \/ \A a \in Address : stage[a] = "idle"
  BY DEF AgentRestarts, ScrapeAllDone, ScraperStop, HubShutdown, ListenFails,
         fleetVars, scrapeVars, FleetInv, CycleEnds
<1>4. ServesWhatItLists'
  BY <1>1, <1>2, AllServedStay
<1>5. FleetTypes' /\ StrangersUnknown' /\ CycleEnds'
  BY <1>1, <1>2, <1>3 DEF FleetInv, FleetTypes, StrangersUnknown, CycleEnds
<1>6. IdFollows'
  <2>1. \A a \in DOMAIN peers : agent'[a].name = agent[a].name
    BY <1>2 DEF FleetInv, FleetTypes
  <2>2. peers' = peers /\ stage' = stage /\ answer' = answer
    BY <1>1
  <2>3. IdFollows
    BY DEF FleetInv
  <2>4. ASSUME NEW a \in DOMAIN peers, NEW v PROVE Id(a, v)' = Id(a, v)
    BY <2>1 DEF Id
  <2>5. ASSUME NEW a \in DOMAIN peers'
        PROVE  /\ peers'[a].id = Id(a, IF peers[a].version = Never THEN 0 ELSE peers[a].version)
               /\ stage'[a] = "updated" => answer'[a] = peers'[a].version /\ answer'[a] # Never
               /\ stage'[a] = "fetched" => answer'[a] # Never
    BY <2>2, <2>3 DEF IdFollows
  <2>6. ASSUME NEW a \in DOMAIN peers'
        PROVE  peers'[a].id = Id(a, IF peers[a].version = Never THEN 0 ELSE peers[a].version)'
    BY <2>2, <2>4, <2>5 DEF Id
  <2> QED
    BY <2>5, <2>6 DEF IdFollows
<1> QED
  BY <1>4, <1>5, <1>6 DEF FleetInv

\* The browser registers a peer, which takes the place of none.
LEMMA BrowserKeeps ==
  ASSUME FleetInv, (\E a \in Advertised : BrowseFound(a)) \/ BrowseEnd
  PROVE  FleetInv'
<1>1. UNCHANGED <<agent, peerMetrics, scraper, stage, answer>>
  BY Zenon DEF BrowseFound, BrowseEnd, scrapeVars
<1>2. agent' \in [Address -> AgentStates]
      /\ \A b \in Address : agent'[b].name = agent[b].name
  BY <1>1 DEF FleetInv, FleetTypes
<1>3. CASE \E a \in Advertised : BrowseFound(a)
  <2>1. PICK a \in Advertised : BrowseFound(a)
    BY <1>3
  <2>2. CASE a = Self
    <3>1. peers' = peers
      BY <2>1, <2>2 DEF BrowseFound
    <3>2. ServesWhatItLists'
      BY <1>1, <1>2, <3>1, AllServedStay
    <3> QED
      BY <1>1, <3>1, <3>2 DEF FleetInv, FleetTypes, IdFollows, Id, StrangersUnknown, CycleEnds
  <2>3. CASE a # Self
    <3>1. a \in Address
      BY <2>3, FleetAssumption
    <3>2. peers' = [b \in DOMAIN peers \union {a} |-> IF b \in DOMAIN peers THEN peers[b] ELSE NewPeer(b)]
      BY <2>1, <2>3 DEF BrowseFound, AddPeer
    <3>3. NewPeer(a) \in [id : Ids, healthy : BOOLEAN, version : Seen]
          /\ NewPeer(a).id = <<"address", a>> /\ NewPeer(a).version = Never
      BY <3>1 DEF NewPeer, Seen, Ids
    <3>4. FleetTypes'
      BY <1>1, <3>1, <3>2, <3>3 DEF FleetInv, FleetTypes
    <3>5. IdFollows' /\ StrangersUnknown' /\ CycleEnds'
      BY <1>1, <3>1, <3>2, <3>3 DEF FleetInv, IdFollows, Id, StrangersUnknown, CycleEnds
    <3>6. ASSUME NEW b \in DOMAIN peers', peers'[b].version # Never, stage'[b] # "updated"
          PROVE  ServedIsListed(b)'
      <4>1. b \in DOMAIN peers /\ peers'[b] = peers[b]
        BY <3>2, <3>3, <3>6
      <4>2. ServedIsListed(b)
        BY <1>1, <3>6, <4>1 DEF FleetInv, ServesWhatItLists
      <4>3. DOMAIN peers \subseteq DOMAIN peers' /\ \A c \in DOMAIN peers : peers'[c] = peers[c]
        BY <3>2
      <4> QED
        BY <1>1, <1>2, <4>1, <4>2, <4>3, ServedStays DEF FleetInv
    <3> QED
      BY <3>4, <3>5, <3>6 DEF FleetInv, ServesWhatItLists
  <2> QED
    BY <2>2, <2>3
<1>4. CASE BrowseEnd
  <2>1. /\ DOMAIN peers' = DOMAIN peers
        /\ peers' \in [DOMAIN peers -> [id : Ids, healthy : BOOLEAN, version : Seen]]
        /\ \A b \in DOMAIN peers : peers'[b].id = peers[b].id /\ peers'[b].version = peers[b].version
    BY <1>4, MarkedAlike DEF BrowseEnd, FleetInv
  <2>2. ServesWhatItLists'
    BY <1>1, <1>2, <2>1, AllServedStay
  <2> QED
    BY <1>1, <2>1, <2>2 DEF FleetInv, FleetTypes, IdFollows, Id, StrangersUnknown, CycleEnds
<1> QED
  BY <1>3, <1>4

\* A cycle's goroutines, up to the answer.
LEMMA ScrapeAsks ==
  ASSUME FleetInv,
         ScrapeAll \/ \E a \in Address : ScrapeBegin(a) \/ ScrapePeer(a) \/ ScrapeFails(a)
  PROVE  FleetInv'
<1>1. agent' = agent /\ peerMetrics' = peerMetrics
  BY Zenon DEF ScrapeAll, ScrapeBegin, ScrapePeer, ScrapeFails
<1>2. agent' \in [Address -> AgentStates]
      /\ \A b \in Address : agent'[b].name = agent[b].name
  BY <1>1 DEF FleetInv, FleetTypes
<1>3. CASE ScrapeAll
  <2>1. /\ UNCHANGED <<agent, peers, peerMetrics, answer>>
        /\ scraper' = "scraping" /\ \A a \in Address : stage[a] = "idle"
        /\ stage' = [a \in Address |-> IF a \in DOMAIN peers THEN "queued" ELSE "idle"]
    BY <1>3 DEF ScrapeAll, FleetInv, CycleEnds
  <2>2. \A b \in DOMAIN peers : stage[b] # "updated" /\ stage'[b] # "updated"
    BY <2>1 DEF FleetInv, FleetTypes
  <2>3. ServesWhatItLists'
    BY <1>1, <1>2, <2>1, <2>2, AllServedStay
  <2> QED
    BY <2>1, <2>3 DEF FleetInv, FleetTypes, IdFollows, Id, StrangersUnknown, CycleEnds
<1>4. CASE \E a \in Address : ScrapeBegin(a) \/ ScrapePeer(a)
  <2>1. PICK a \in Address : ScrapeBegin(a) \/ ScrapePeer(a)
    BY <1>4
  <2>2. PICK next \in {"fetching", "fetched"} : stage' = [stage EXCEPT ![a] = next]
    BY <2>1 DEF ScrapeBegin, ScrapePeer
  <2>3. UNCHANGED <<agent, peers, peerMetrics, scraper>> /\ stage[a] \in {"queued", "fetching"}
    BY <2>1 DEF ScrapeBegin, ScrapePeer
  <2>4. /\ answer' \in [Address -> Seen] /\ \A b \in Address \ {a} : answer'[b] = answer[b]
        /\ next = "fetched" => answer'[a] # Never
    <3>1. CASE ScrapeBegin(a)
      BY <2>2, <3>1 DEF ScrapeBegin, FleetInv, FleetTypes
    <3>2. CASE ScrapePeer(a)
      <4>1. PICK v \in 0 .. agent[a].flushes : answer' = [answer EXCEPT ![a] = v]
        BY <3>2 DEF ScrapePeer
      <4>2. agent[a].flushes \in 0 .. Versions
        BY DEF FleetInv, FleetTypes, AgentStates
      <4>3. v \in 0 .. Versions /\ v # Never
        BY ONLY <4>1, <4>2, FleetAssumption DEF Never
      <4> QED
        BY <4>1, <4>3 DEF FleetInv, FleetTypes, Seen
    <3> QED
      BY <2>1, <3>1, <3>2
  <2>5. a \in DOMAIN peers /\ scraper = "scraping"
    BY <2>3 DEF FleetInv, StrangersUnknown, CycleEnds
  <2>6. \A b \in DOMAIN peers : stage[b] = "updated" <=> stage'[b] = "updated"
    BY <2>2, <2>3 DEF FleetInv, FleetTypes
  <2>7. ServesWhatItLists'
    BY <1>2, <2>3, <2>6, AllServedStay
  <2> QED
    BY <2>2, <2>3, <2>4, <2>5, <2>7
       DEF FleetInv, FleetTypes, IdFollows, Id, StrangersUnknown, CycleEnds
<1>5. CASE \E a \in Address : ScrapeFails(a)
  <2>1. PICK a \in Address : ScrapeFails(a)
    BY <1>5
  <2>2. /\ stage' = [stage EXCEPT ![a] = "idle"] /\ stage[a] = "fetching"
        /\ UNCHANGED <<agent, peerMetrics, scraper, answer>>
    BY <2>1 DEF ScrapeFails
  <2>3. /\ DOMAIN peers' = DOMAIN peers
        /\ peers' \in [DOMAIN peers -> [id : Ids, healthy : BOOLEAN, version : Seen]]
        /\ \A b \in DOMAIN peers : peers'[b].id = peers[b].id /\ peers'[b].version = peers[b].version
    BY <2>1, MarkedAlike DEF ScrapeFails, FleetInv
  <2>4. \A b \in DOMAIN peers : stage[b] = "updated" <=> stage'[b] = "updated"
    BY <2>2 DEF FleetInv, FleetTypes
  <2>5. ServesWhatItLists'
    BY <1>2, <2>2, <2>3, <2>4, AllServedStay
  <2> QED
    BY <2>2, <2>3, <2>5 DEF FleetInv, FleetTypes, IdFollows, Id, StrangersUnknown, CycleEnds
<1> QED
  BY <1>3, <1>4, <1>5

\* A scrape's first store: whoever is shown this peer's metrics in place of its
\* own is shown the listed ones again once the second is done.
LEMMA ScrapeUpdatesKeeps ==
  ASSUME FleetInv, NEW a \in Address, ScrapeUpdates(a)
  PROVE  FleetInv'
<1>1. /\ a \in DOMAIN peers /\ scraper = "scraping"
      /\ UNCHANGED <<agent, scraper, peerMetrics, answer>>
      /\ stage[a] = "fetched" /\ stage' = [stage EXCEPT ![a] = "updated"]
      /\ peers' = [peers EXCEPT ![a] = [id |-> Id(a, answer[a]), healthy |-> TRUE, version |-> answer[a]]]
  BY DEF FleetInv, StrangersUnknown, CycleEnds, ScrapeUpdates, UpdatePeer
<1>2. answer[a] \in Seen /\ answer[a] # Never /\ Id(a, answer[a]) \in Ids
  BY <1>1, IdsApart DEF FleetInv, FleetTypes, IdFollows
<1>3. FleetTypes' /\ IdFollows' /\ StrangersUnknown' /\ CycleEnds'
  BY <1>1, <1>2 DEF FleetInv, FleetTypes, IdFollows, Id, StrangersUnknown, CycleEnds
<1>4. ASSUME NEW c \in DOMAIN peers, c # a, peers[c].version # Never, stage[c] # "updated"
      PROVE  ServedIsListed(c)'
  <2>1. PICK b \in Namesakes(c), v \in 0 .. Versions :
             /\ peerMetrics[peers[c].id] = <<b, v>>
             /\ b # c => peers[c].version > 0
             /\ \/ v = peers[b].version
                \/ b # c /\ (stage[b] = "updated" \/ peers[b].id # peers[c].id)
    BY <1>4 DEF FleetInv, ServesWhatItLists, ServedIsListed, Served
  <2>2. b \in DOMAIN peers /\ b \in Address /\ b \in Namesakes(c)'
    BY <1>1, <2>1 DEF Namesakes, FleetInv, FleetTypes
  <2>3. peers'[c] = peers[c] /\ (b = a => stage'[b] = "updated")
        /\ (b # a => peers'[b] = peers[b] /\ stage'[b] = stage[b])
    BY <1>1, <1>4, <2>2 DEF FleetInv, FleetTypes
  <2>4. /\ peerMetrics'[peers'[c].id] = <<b, v>>
        /\ b # c => peers'[c].version > 0
        /\ \/ v = peers'[b].version
           \/ b # c /\ (stage'[b] = "updated" \/ peers'[b].id # peers'[c].id)
    BY <1>1, <1>4, <2>1, <2>3
  <2> QED
    BY <2>2, <2>4 DEF ServedIsListed, Served
<1>5. ASSUME NEW c \in DOMAIN peers', peers'[c].version # Never, stage'[c] # "updated"
      PROVE  ServedIsListed(c)'
  <2>1. c \in DOMAIN peers /\ c # a /\ peers'[c] = peers[c] /\ stage'[c] = stage[c]
    BY <1>1, <1>5 DEF FleetInv, FleetTypes
  <2> QED
    BY <1>4, <1>5, <2>1
<1> QED
  BY <1>3, <1>5 DEF FleetInv, ServesWhatItLists

\* A scrape's second store, which the peer may share with its namesakes.
LEMMA ScrapeNotifiesKeeps ==
  ASSUME FleetInv, NEW a \in Address, ScrapeNotifies(a)
  PROVE  FleetInv'
<1>1. PICK i : i = Id(a, answer[a])
  OBVIOUS
<1>2. /\ a \in DOMAIN peers /\ scraper = "scraping" /\ UNCHANGED <<agent, scraper, peers>>
      /\ stage[a] = "updated" /\ stage' = [stage EXCEPT ![a] = "idle"]
      /\ answer' = [answer EXCEPT ![a] = Never]
      /\ peerMetrics' = [peerMetrics EXCEPT ![i] = <<a, answer[a]>>]
  BY <1>1 DEF FleetInv, StrangersUnknown, CycleEnds, ScrapeNotifies
<1>3. /\ answer[a] \in 0 .. Versions /\ answer[a] = peers[a].version /\ peers[a].id = i
      /\ i \in Ids
  BY <1>1, <1>2, IdsApart DEF FleetInv, FleetTypes, IdFollows, Seen
<1>4. FleetTypes' /\ IdFollows' /\ StrangersUnknown' /\ CycleEnds'
  <2>1. <<a, answer[a]>> \in Cached
    BY <1>3 DEF Cached
  <2>2. FleetTypes'
    BY <1>2, <1>3, <2>1 DEF FleetInv, FleetTypes, Seen
  <2> QED
    BY <1>2, <2>2 DEF FleetInv, FleetTypes, IdFollows, Id, StrangersUnknown, CycleEnds
<1>5. ASSUME NEW c \in DOMAIN peers, peers[c].version # Never, c = a \/ stage[c] # "updated"
      PROVE  ServedIsListed(c)'
  <2>1. c \in Address /\ peers[c].id \in Ids /\ peers[c].id = Id(c, peers[c].version)
        /\ peers[c].version \in 0 .. Versions
    BY <1>5 DEF FleetInv, FleetTypes, IdFollows, Seen
  <2>2. CASE peers[c].id = i
    <3>1. c = a \/ (peers[c].version # 0 /\ agent[c].name = agent[a].name)
      <4>1. FleetTypes /\ c \in Address /\ Id(a, answer[a]) = Id(c, peers[c].version)
        BY <1>1, <2>1, <2>2 DEF FleetInv
      <4> QED
        BY ONLY <4>1, a \in Address, IdsApart
    <3>2. a \in Namesakes(c)' /\ (a # c => peers'[c].version > 0)
      BY <1>2, <2>1, <3>1, FleetAssumption DEF Namesakes
    <3>3. peerMetrics'[peers'[c].id] = <<a, answer[a]>> /\ answer[a] = peers'[a].version
      BY <1>2, <1>3, <2>2 DEF FleetInv, FleetTypes
    <3> QED
      BY <1>3, <3>2, <3>3 DEF ServedIsListed, Served
  <2>3. CASE peers[c].id # i
    <3>1. c # a
      BY <1>3, <2>3
    <3>2. PICK b \in Namesakes(c), v \in 0 .. Versions :
               /\ peerMetrics[peers[c].id] = <<b, v>>
               /\ b # c => peers[c].version > 0
               /\ \/ v = peers[b].version
                  \/ b # c /\ (stage[b] = "updated" \/ peers[b].id # peers[c].id)
      BY <1>5, <3>1 DEF FleetInv, ServesWhatItLists, ServedIsListed, Served
    <3>3. b \in DOMAIN peers /\ b \in Address /\ b \in Namesakes(c)'
      BY <1>2, <3>2 DEF Namesakes, FleetInv, FleetTypes
    <3>4. b # a => stage'[b] = stage[b]
      BY <1>2, <3>3 DEF FleetInv, FleetTypes
    <3>5. peerMetrics'[peers'[c].id] = <<b, v>>
      BY <1>2, <2>1, <2>3, <3>2 DEF FleetInv, FleetTypes
    <3>6. \/ v = peers'[b].version
          \/ b # c /\ (stage'[b] = "updated" \/ peers'[b].id # peers'[c].id)
      BY <1>2, <1>3, <2>3, <3>1, <3>2, <3>4
    <3> QED
      BY <1>2, <3>2, <3>3, <3>5, <3>6 DEF ServedIsListed, Served
  <2> QED
    BY <2>2, <2>3
<1>6. ASSUME NEW c \in DOMAIN peers', peers'[c].version # Never, stage'[c] # "updated"
      PROVE  ServedIsListed(c)'
  <2>1. c \in DOMAIN peers /\ peers'[c] = peers[c] /\ (c = a \/ stage'[c] = stage[c])
    BY <1>2 DEF FleetInv, FleetTypes
  <2> QED
    BY <1>5, <1>6, <2>1
<1> QED
  BY <1>4, <1>6 DEF FleetInv, ServesWhatItLists

\* Every step of the agents, the browser, the scraper and main keeps it.
LEMMA FleetSteps == FleetInv /\ [FleetNext]_fleetVars => FleetInv'
BY FleetIdle, BrowserKeeps, ScrapeAsks, ScrapeUpdatesKeeps, ScrapeNotifiesKeeps
   DEF FleetNext, ScrapeGoroutine

\* What is listed of a peer is what is served of it.
LEMMA FleetMeans == FleetInv => ServesWhatItLists
BY DEF FleetInv

-----------------------------------------------------------------------------
(* The settings *)

\* An accepted configuration's readings go somewhere: what it switches on in
\* local mode is a sink, and otherwise its key is.
LEMMA SomeSink == Accepted => ReadingsGoSomewhere
<1> SUFFICES ASSUME Accepted, ~setup.local, ~setup.quiet PROVE Sinks # {}
  BY DEF ReadingsGoSomewhere
<1>1. CASE Streams
  BY <1>1, Zenon DEF Sinks
<1>2. CASE ~Streams
  <2>1. ~HasKey /\ (Stdout \/ Prometheus)
    BY <1>2, Zenon DEF Streams, Accepted
  <2>2. Mode = "local"
    BY <2>1, Zenon DEF Mode, LocalMode
  <2>3. Sinks = {o \in {"prometheus", "stdout", "hub"} :
                   \/ o = "prometheus" /\ Prometheus
                   \/ o = "stdout" /\ Stdout /\ ~setup.quiet
                   \/ o = "hub" /\ Hub}
    BY <1>2, <2>2 DEF Sinks
  <2>4. CASE Prometheus
    <3>1. "prometheus" \in Sinks
      BY <2>3, <2>4, Zenon
    <3> QED
      BY <3>1
  <2>5. CASE Stdout
    <3>1. "stdout" \in Sinks
      BY <2>3, <2>5, Zenon
    <3> QED
      BY <3>1
  <2> QED
    BY <2>1, <2>4, <2>5, Zenon
<1> QED
  BY <1>1, <1>2, Zenon

\* What the stored login decides.
LEMMA LoginDecides == Accepted => LoginStreams
<1> SUFFICES ASSUME Accepted PROVE LoginStreams
  OBVIOUS
<1>1. Mode = "sender" => ~LocalMode /\ HasTarget
  BY DEF Mode
<1>2. ~LocalMode => HasKey
  BY Zenon DEF LocalMode, Accepted
<1>3. HasTarget => ~FromLogin
  BY Zenon DEF HasTarget
<1>4. HasKey /\ ~FromLogin => ConfiguredKey
  BY Zenon DEF HasKey
<1>5. FromLogin /\ ~setup.local => "cloud" \in Sinks
  <2>1. FromLogin /\ ~setup.local => Streams
    BY Zenon DEF HasKey, Streams
  <2> QED
    BY <2>1, Zenon DEF Sinks
<1> QED
  BY <1>1, <1>2, <1>3, <1>4, <1>5, Zenon DEF LoginStreams

\* The two pages of an agent in one of its modes.
LEMMA PagesTell == PagesAgree
<1> SUFFICES ASSUME NEW c \in Conditions
             PROVE  /\ Ready(c) => Status(c) # "unhealthy"
                    /\ Status(c) = "healthy" /\ Mode # "cloud" => Ready(c)
                    /\ ~c.running => ~Ready(c)
  BY Zenon DEF PagesAgree
<1>1. ~c.running => ~Ready(c) /\ Status(c) = "unhealthy"
  BY DEF Ready, Status
<1>2. c.running /\ LocalMode => Ready(c) /\ Status(c) # "unhealthy"
  BY DEF Ready, Status
<1>3. ASSUME c.running, ~LocalMode, Mode = "sender"
      PROVE  /\ c.connected => Ready(c) /\ Status(c) # "unhealthy"
             /\ ~c.connected => ~Ready(c) /\ Status(c) # "healthy"
  BY <1>3 DEF Ready, Status
<1>4. c.running /\ ~LocalMode /\ Mode # "sender" => ~Ready(c) /\ Mode = "cloud"
  BY DEF Ready, Mode
<1> QED
  BY <1>1, <1>2, <1>3, <1>4, Zenon

-----------------------------------------------------------------------------
(* The views of a batch *)

Batches == UNION {[1 .. n -> Point] : n \in 1 .. MaxBatch}

\* The ends of a nonempty set of places in a batch.
LEMMA EndsOf ==
  ASSUME NEW n \in Nat, NEW T \in SUBSET (1 .. n), T # {}
  PROVE  /\ Max(T) \in T /\ \A k \in T : k <= Max(T)
         /\ Min(T) \in T /\ \A k \in T : Min(T) <= k
<1>1. \E m \in T : \A k \in T : m >= k
  BY GreatestElement
<1>2. \E m \in T : \A k \in T : m <= k
  <2>1. T \in SUBSET Nat
    OBVIOUS
  <2> QED
    BY <2>1, LeastElement
<1>3. Max(T) \in T /\ \A k \in T : Max(T) >= k
  BY <1>1 DEF Max
<1>4. Min(T) \in T /\ \A k \in T : Min(T) <= k
  BY <1>2 DEF Min
<1> QED
  BY <1>3, <1>4

\* A batch of n points, as the lemmas below take it.
LEMMA BatchIs ==
  ASSUME viewed \in Batches
  PROVE  \E n \in Nat : DOMAIN viewed = 1 .. n /\ \A i \in 1 .. n : viewed[i] \in Point
BY ViewsAssumption DEF Batches

\* The first of the temperature keys that a point has, and the cloud's choice:
\* the keys behind them count for a point that has none of them.
LEMMA FirstKey ==
  ASSUME NEW i \in DOMAIN viewed, i \in Nat \ {0}
  PROVE  /\ FirstOf(i, TempKeys) # None => FirstOf(i, CloudKeys) = FirstOf(i, TempKeys)
         /\ FirstOf(i, TempKeys) = None => FirstOf(i, CloudKeys) = FirstOf(i, CloudOnlyKeys)
         /\ "temperature_c" \in viewed[i].keys =>
              /\ FirstOf(i, TempKeys) = <<i, "temperature_c">>
              /\ FirstOf(i, <<TempKeys[1]>>) = <<i, "temperature_c">>
         /\ "temperature_c" \notin viewed[i].keys => FirstOf(i, <<TempKeys[1]>>) = None
         /\ viewed[i].keys \cap Range(TempKeys) # {} =>
              FirstOf(i, <<TempKeys[2], TempKeys[3], TempKeys[1]>>)[1] = i
<1>1. PICK K : K = viewed[i].keys
  OBVIOUS
<1>2. PICK few, more, all : few = TempKeys /\ more = CloudOnlyKeys /\ all = CloudKeys
  OBVIOUS
<1>3. /\ DOMAIN few = 1 .. 3 /\ DOMAIN more = 1 .. 3 /\ DOMAIN all = 1 .. 6
      /\ few[1] = "temperature_c" /\ few[2] = "temperature_junction_c" /\ few[3] = "temperature_edge"
      /\ all[1] = few[1] /\ all[2] = few[2] /\ all[3] = few[3]
      /\ all[4] = more[1] /\ all[5] = more[2] /\ all[6] = more[3]
  BY <1>2 DEF TempKeys, CloudOnlyKeys, CloudKeys
<1>4. PICK here, there, any : /\ here = {k \in DOMAIN few : few[k] \in K}
                             /\ there = {k \in DOMAIN more : more[k] \in K}
                             /\ any = {k \in DOMAIN all : all[k] \in K}
  OBVIOUS
<1>5. /\ here \in SUBSET (1 .. 3) /\ there \in SUBSET (1 .. 3) /\ any \in SUBSET (1 .. 6)
      /\ \A k \in 1 .. 3 : (k \in any <=> k \in here) /\ (k + 3 \in any <=> k \in there)
  <2>1. \A k \in 1 .. 3 : /\ k \in 1 .. 6 /\ k + 3 \in 1 .. 6
                          /\ all[k] = few[k] /\ all[k + 3] = more[k]
    <3>1. \A k \in 1 .. 3 : k = 1 \/ k = 2 \/ k = 3
      OBVIOUS
    <3>2. 1 + 3 = 4 /\ 2 + 3 = 5 /\ 3 + 3 = 6
      OBVIOUS
    <3> QED
      BY <1>3, <3>1, <3>2
  <2> QED
    BY <1>3, <1>4, <2>1
<1>6. /\ FirstOf(i, few) = IF here = {} THEN None ELSE <<i, few[Min(here)]>>
      /\ FirstOf(i, more) = IF there = {} THEN None ELSE <<i, more[Min(there)]>>
      /\ FirstOf(i, all) = IF any = {} THEN None ELSE <<i, all[Min(any)]>>
  BY <1>1, <1>4 DEF FirstOf
<1>7. FirstOf(i, few) = None <=> here = {}
  BY <1>6 DEF None
<1>10. ASSUME here # {} PROVE FirstOf(i, all) = FirstOf(i, few)
  <2>1. PICK m \in 1 .. 3 : m = Min(here) /\ m \in here /\ \A k \in here : m <= k
    BY <1>5, <1>10, EndsOf
  <2>2. PICK w \in 1 .. 6 : w = Min(any) /\ w \in any /\ \A k \in any : w <= k
    BY <1>5, <2>1, EndsOf
  <2>3. w <= m
    BY <1>5, <2>1, <2>2
  <2>4. w \in 1 .. 3
    BY <2>3
  <2>5. w = m
    BY <1>5, <2>1, <2>2, <2>3, <2>4
  <2>6. all[m] = few[m]
    BY <1>3
  <2>7. any # {}
    BY <2>2
  <2> QED
    BY <1>6, <1>10, <2>1, <2>2, <2>5, <2>6, <2>7
<1>11. ASSUME here = {} PROVE FirstOf(i, all) = FirstOf(i, more)
  <2>1. \A k \in 1 .. 6 : k \in 1 .. 3 \/ (k - 3 \in 1 .. 3 /\ (k - 3) + 3 = k)
    OBVIOUS
  <2>2. \A k \in any : k - 3 \in there
    BY <1>5, <1>11, <2>1
  <2>3. CASE there = {}
    BY <1>6, <2>2, <2>3
  <2>4. CASE there # {}
    <3>1. PICK m \in 1 .. 3 : m = Min(there) /\ m \in there /\ \A k \in there : m <= k
      BY <1>5, <2>4, EndsOf
    <3>2. m + 3 \in any
      BY <1>5, <3>1
    <3>7. any # {}
      BY <3>2
    <3>3. PICK w \in 1 .. 6 : w = Min(any) /\ w \in any /\ \A k \in any : w <= k
      BY <1>5, <3>7, EndsOf
    <3>4. w <= m + 3 /\ m <= w - 3
      BY <2>2, <3>1, <3>2, <3>3
    <3>5. w = m + 3
      BY <3>4
    <3>6. all[m + 3] = more[m]
      <4>1. m = 1 \/ m = 2 \/ m = 3
        OBVIOUS
      <4>2. 1 + 3 = 4 /\ 2 + 3 = 5 /\ 3 + 3 = 6
        OBVIOUS
      <4> QED
        BY <1>3, <4>1, <4>2
    <3> QED
      BY <1>6, <2>4, <3>1, <3>3, <3>5, <3>6, <3>7
  <2> QED
    BY <2>3, <2>4
<1>8. ASSUME "temperature_c" \in K
      PROVE  FirstOf(i, few) = <<i, "temperature_c">> /\ FirstOf(i, <<few[1]>>) = <<i, "temperature_c">>
  <2>1. 1 \in here /\ here \in SUBSET (1 .. 3)
    BY <1>3, <1>4, <1>8
  <2>2. Min(here) = 1
    <3>1. Min(here) \in 1 .. 3 /\ Min(here) <= 1
      BY <2>1, EndsOf
    <3> QED
      BY <3>1
  <2>3. FirstOf(i, few) = <<i, few[Min(here)]>>
    BY <1>1, <1>4, <2>1 DEF FirstOf
  <2>4. PICK one : one = <<few[1]>>
    OBVIOUS
  <2>5. DOMAIN one = 1 .. 1 /\ one[1] = "temperature_c"
    BY <1>3, <2>4
  <2>6. {k \in DOMAIN one : one[k] \in K} = {1}
    BY <1>8, <2>5
  <2>7. Min({1}) = 1
    <3>1. {1} \in SUBSET (1 .. 1)
      OBVIOUS
    <3> QED
      BY <3>1, EndsOf
  <2>8. FirstOf(i, one) = <<i, one[1]>>
    BY <1>1, <2>6, <2>7 DEF FirstOf
  <2> QED
    BY <1>3, <2>2, <2>3, <2>4, <2>5, <2>8
<1>9. ASSUME K \cap Range(few) # {}
      PROVE  FirstOf(i, <<few[2], few[3], few[1]>>)[1] = i
  <2>1. PICK hot : hot = <<few[2], few[3], few[1]>>
    OBVIOUS
  <2>2. DOMAIN hot = 1 .. 3 /\ hot[1] = few[2] /\ hot[2] = few[3] /\ hot[3] = few[1]
    BY <2>1
  <2>3. {k \in DOMAIN hot : hot[k] \in K} # {}
    <3>1. Range(few) = {few[1], few[2], few[3]}
      BY <1>3 DEF Range
    <3> QED
      BY <1>9, <2>2, <3>1
  <2> QED
    BY <1>1, <2>1, <2>3 DEF FirstOf
<1>12. ASSUME "temperature_c" \notin K
       PROVE  FirstOf(i, <<few[1]>>) = None
  <2>1. PICK one : one = <<few[1]>>
    OBVIOUS
  <2>2. DOMAIN one = 1 .. 1 /\ one[1] = "temperature_c"
    BY <1>3, <2>1
  <2>3. {k \in DOMAIN one : one[k] \in K} = {}
    BY <1>12, <2>2
  <2> QED
    BY <1>1, <2>1, <2>3 DEF FirstOf
<1> QED
  BY <1>1, <1>2, <1>7, <1>8, <1>9, <1>10, <1>11, <1>12

\* The points of a device that is viewed: the last of them, the same by time
\* when they are in order, and the last that set a gauge.
LEMMA DeviceIs ==
  ASSUME NEW n \in Nat, DOMAIN viewed = 1 .. n, \A i \in 1 .. n : viewed[i] \in Point,
         NEW d \in ViewedDevices
  PROVE  /\ PointsOf(d) \in SUBSET (1 .. n) /\ PointsOf(d) # {}
         /\ LastPoint(d) \in PointsOf(d) /\ \A i \in PointsOf(d) : i <= LastPoint(d)
<1>1. PointsOf(d) \in SUBSET (1 .. n) /\ PointsOf(d) # {}
  BY DEF PointsOf, ViewedDevices
<1>2. LastPoint(d) \in PointsOf(d) /\ \A i \in PointsOf(d) : i <= LastPoint(d)
  BY <1>1, EndsOf DEF LastPoint
<1> QED
  BY <1>1, <1>2

\* Of the points of a device in order the newest is the last.
LEMMA NewestIsLast ==
  ASSUME NEW n \in Nat, DOMAIN viewed = 1 .. n, \A i \in 1 .. n : viewed[i] \in Point,
         NEW d \in ViewedDevices, InOrder(d)
  PROVE  /\ HealthTemp(d) = ScoreTemp(d)
         /\ d = StatusDevice => LatestViewed = LastPoint(d)
<1>1. PICK m : m = LastPoint(d)
  OBVIOUS
<1>2. /\ PointsOf(d) \in SUBSET (1 .. n)
      /\ m \in PointsOf(d) /\ \A i \in PointsOf(d) : i <= m
  BY <1>1, DeviceIs
<1>3. \A i \in 1 .. n : viewed[i].at \in 1 .. MaxTime
  BY DEF Point
<1>4. \A i \in PointsOf(d) : i # m => i < m /\ viewed[i].at < viewed[m].at
  BY <1>2 DEF InOrder
<1>5. HealthTemp(d) = ScoreTemp(d)
  <2>1. {i \in PointsOf(d) : \A j \in PointsOf(d) : viewed[j].at <= viewed[i].at} = {m}
    <3>1. \A j \in PointsOf(d) : viewed[j].at <= viewed[m].at
      BY <1>2, <1>3, <1>4
    <3>2. \A i \in PointsOf(d) : i # m => ~ (viewed[m].at <= viewed[i].at)
      BY <1>2, <1>3, <1>4
    <3> QED
      BY <1>2, <3>1, <3>2
  <2>2. Max({m}) = m
    <3>1. {m} \in SUBSET (1 .. n)
      BY <1>2
    <3> QED
      BY <3>1, EndsOf
  <2> QED
    BY <1>1, <2>1, <2>2 DEF HealthTemp, ScoreTemp
<1>6. ASSUME d = StatusDevice
      PROVE  LatestViewed = m
  <2>1. PICK latest : latest = {i \in DOMAIN viewed : \A j \in DOMAIN viewed : viewed[j].at <= viewed[i].at}
    OBVIOUS
  <2>2. latest # {}
    <3>1. PICK times : times = {viewed[i].at : i \in 1 .. n}
      OBVIOUS
    <3>2. times \in SUBSET (1 .. MaxTime) /\ times # {}
      BY <1>2, <1>3, <3>1
    <3>3. MaxTime \in Nat
      BY ViewsAssumption
    <3>4. PICK top \in times : \A t \in times : t <= top
      BY <3>2, <3>3, GreatestElement
    <3>5. PICK i \in 1 .. n : top = viewed[i].at
      BY <3>1
    <3>6. i \in latest
      BY <2>1, <3>1, <3>4, <3>5
    <3> QED
      BY <3>6
  <2>3. latest \in SUBSET (1 .. n) /\ LatestViewed = Min(latest)
    BY <2>1 DEF LatestViewed
  <2>4. LatestViewed \in latest
    BY <2>2, <2>3, EndsOf
  <2>5. LatestViewed \in PointsOf(d)
    BY <1>6, <2>1, <2>4 DEF PointsOf, StatusDevice
  <2>6. viewed[m].at <= viewed[LatestViewed].at
    BY <1>2, <2>1, <2>4
  <2>7. PICK l : l = LatestViewed
    OBVIOUS
  <2>8. l = m
    BY <1>2, <1>3, <1>4, <2>5, <2>6, <2>7
  <2> QED
    BY <2>7, <2>8
<1> QED
  BY <1>1, <1>5, <1>6

\* A gauge that a device set: the value is that of the last point to set it.
LEMMA GaugeIsLast ==
  ASSUME NEW n \in Nat, DOMAIN viewed = 1 .. n, \A i \in 1 .. n : viewed[i] \in Point,
         NEW d \in ViewedDevices
  PROVE  /\ GaugeTemp(d) = HubTemp(d)
         /\ GaugeTemp(d) # None => GaugeHotspot(d)[1] >= GaugeTemp(d)[1]
         /\ \A i \in PointsOf(d) : "temperature_c" \in viewed[i].keys => i <= GaugeTemp(d)[1]
         /\ "temperature_c" \in viewed[LastPoint(d)].keys =>
              GaugeTemp(d) = <<LastPoint(d), "temperature_c">>
<1>1. /\ PointsOf(d) \in SUBSET (1 .. n)
      /\ LastPoint(d) \in PointsOf(d) /\ \A i \in PointsOf(d) : i <= LastPoint(d)
  BY DeviceIs
<1>2. PICK warm, hot : /\ warm = {i \in PointsOf(d) : "temperature_c" \in viewed[i].keys}
                       /\ hot = {i \in PointsOf(d) : viewed[i].keys \cap Range(TempKeys) # {}}
  OBVIOUS
<1>3. warm \subseteq hot /\ warm \in SUBSET (1 .. n) /\ hot \in SUBSET (1 .. n)
  <2>1. "temperature_c" \in Range(TempKeys)
    <3>1. 1 \in DOMAIN TempKeys /\ TempKeys[1] = "temperature_c"
      BY DEF TempKeys
    <3> QED
      BY <3>1 DEF Range
  <2> QED
    BY <1>1, <1>2, <2>1
<1>4. /\ GaugeTemp(d) = IF warm = {} THEN None ELSE <<Max(warm), "temperature_c">>
      /\ HubTemp(d) = IF warm = {} THEN None ELSE FirstOf(Max(warm), <<TempKeys[1]>>)
      /\ GaugeHotspot(d) = IF hot = {} THEN None
                           ELSE FirstOf(Max(hot), <<TempKeys[2], TempKeys[3], TempKeys[1]>>)
  BY <1>2 DEF GaugeTemp, HubTemp, GaugeHotspot
<1>5. \A i \in 1 .. n : i \in DOMAIN viewed /\ i \in Nat \ {0}
  OBVIOUS
<1>6. warm # {} => GaugeTemp(d) = HubTemp(d) /\ GaugeHotspot(d)[1] >= GaugeTemp(d)[1]
  <2> SUFFICES ASSUME warm # {}
               PROVE  GaugeTemp(d) = HubTemp(d) /\ GaugeHotspot(d)[1] >= GaugeTemp(d)[1]
    OBVIOUS
  <2>1. PICK w, h : w = Max(warm) /\ h = Max(hot)
    OBVIOUS
  <2>2. w \in warm /\ h \in hot /\ w <= h
    BY <1>3, <2>1, EndsOf
  <2>3. FirstOf(w, <<TempKeys[1]>>) = <<w, "temperature_c">>
    BY <1>2, <1>3, <1>5, <2>2, FirstKey
  <2>4. FirstOf(h, <<TempKeys[2], TempKeys[3], TempKeys[1]>>)[1] = h
    BY <1>2, <1>3, <1>5, <2>2, FirstKey
  <2>5. w \in Nat /\ h \in Nat
    BY <1>3, <2>2
  <2>6. GaugeTemp(d) = <<w, "temperature_c">> /\ HubTemp(d) = <<w, "temperature_c">>
    BY <1>4, <2>1, <2>3
  <2>7. GaugeHotspot(d)[1] = h
    BY <1>4, <2>1, <2>2, <2>4
  <2>8. GaugeTemp(d)[1] = w
    BY <2>6
  <2>9. h >= w
    BY <2>2, <2>5
  <2> QED
    BY <2>6, <2>7, <2>8, <2>9
<1>7. ASSUME "temperature_c" \in viewed[LastPoint(d)].keys
      PROVE  GaugeTemp(d) = <<LastPoint(d), "temperature_c">>
  <2>1. PICK m, w : m = LastPoint(d) /\ w = Max(warm)
    OBVIOUS
  <2>2. m \in warm
    BY <1>1, <1>2, <1>7, <2>1
  <2>3. w \in warm /\ m <= w
    BY <1>3, <2>1, <2>2, EndsOf
  <2>4. w = m
    BY <1>1, <1>2, <2>1, <2>3
  <2> QED
    BY <1>4, <2>1, <2>2, <2>4
<1>8. ASSUME NEW i \in PointsOf(d), "temperature_c" \in viewed[i].keys
      PROVE  i <= GaugeTemp(d)[1]
  <2>1. PICK w : w = Max(warm)
    OBVIOUS
  <2>2. i \in warm
    BY <1>2, <1>8
  <2>3. i <= w
    BY <1>3, <2>1, <2>2, EndsOf
  <2> QED
    BY <1>4, <2>1, <2>2, <2>3
<1> QED
  BY <1>4, <1>6, <1>7, <1>8

\* Whatever a batch is, who shows a device shows the reading of its score.
LEMMA ViewsMean == viewed \in Batches => ReadersAgree
<1> SUFFICES ASSUME viewed \in Batches PROVE ReadersAgree
  OBVIOUS
<1>1. PICK n \in Nat : DOMAIN viewed = 1 .. n /\ \A i \in 1 .. n : viewed[i] \in Point
  BY BatchIs
<1> SUFFICES ASSUME NEW d \in ViewedDevices
             PROVE  /\ ScoreTemp(d) # None => CloudTemp(d) = ScoreTemp(d)
                    /\ ScoreTemp(d) = None => CloudTemp(d) = FirstOf(LastPoint(d), CloudOnlyKeys)
                    /\ InOrder(d) =>
                          /\ HealthTemp(d) = ScoreTemp(d)
                          /\ d = StatusDevice =>
                                {StatusTemp, SocketTemp, HistoryTemp} = {ScoreTemp(d)}
                    /\ "temperature_c" \in viewed[LastPoint(d)].keys =>
                          {GaugeTemp(d), StdoutTemp(d)} = {ScoreTemp(d)}
                    /\ "temperature_c" \notin viewed[LastPoint(d)].keys => StdoutTemp(d) = None
                    /\ GaugeTemp(d) = HubTemp(d)
                    /\ \A i \in PointsOf(d) :
                          "temperature_c" \in viewed[i].keys => i <= GaugeTemp(d)[1]
                    /\ GaugeTemp(d) # None => GaugeHotspot(d)[1] >= GaugeTemp(d)[1]
  BY DEF ReadersAgree
<1>2. PICK m : m = LastPoint(d)
  OBVIOUS
<1>3. m \in DOMAIN viewed /\ m \in Nat \ {0}
  BY <1>1, <1>2, DeviceIs
<1>4. /\ ScoreTemp(d) # None => CloudTemp(d) = ScoreTemp(d)
      /\ ScoreTemp(d) = None => CloudTemp(d) = FirstOf(LastPoint(d), CloudOnlyKeys)
  BY <1>2, <1>3, FirstKey DEF CloudTemp, ScoreTemp
<1>5. InOrder(d) => HealthTemp(d) = ScoreTemp(d)
  BY <1>1, NewestIsLast
<1>6. ASSUME InOrder(d), d = StatusDevice
      PROVE  {StatusTemp, SocketTemp, HistoryTemp} = {ScoreTemp(d)}
  <2>1. LatestViewed = m
    BY <1>1, <1>2, <1>6, NewestIsLast
  <2> QED
    BY <1>2, <2>1 DEF StatusTemp, SocketTemp, HistoryTemp, ScoreTemp
<1>7. StdoutTemp(d) = FirstOf(m, <<TempKeys[1]>>)
  <2>1. {i \in DOMAIN StdoutRows : StdoutRows[i].device = d} = PointsOf(d)
    BY DEF StdoutRows, PointsOf
  <2>2. StdoutTemp(d) = StdoutRows[m].temp
    BY <1>2, <2>1 DEF StdoutTemp, LastPoint
  <2> QED
    BY <1>3, <2>2 DEF StdoutRows
<1>8. ASSUME "temperature_c" \in viewed[m].keys
      PROVE  {GaugeTemp(d), StdoutTemp(d)} = {ScoreTemp(d)}
  <2>1. ScoreTemp(d) = <<m, "temperature_c">> /\ FirstOf(m, <<TempKeys[1]>>) = <<m, "temperature_c">>
    BY <1>2, <1>3, <1>8, FirstKey DEF ScoreTemp
  <2>2. GaugeTemp(d) = <<m, "temperature_c">>
    BY <1>1, <1>2, <1>8, GaugeIsLast
  <2> QED
    BY <1>7, <2>1, <2>2
<1>9. "temperature_c" \notin viewed[m].keys => StdoutTemp(d) = None
  BY <1>3, <1>7, FirstKey
<1>10. /\ GaugeTemp(d) = HubTemp(d)
       /\ \A i \in PointsOf(d) : "temperature_c" \in viewed[i].keys => i <= GaugeTemp(d)[1]
       /\ GaugeTemp(d) # None => GaugeHotspot(d)[1] >= GaugeTemp(d)[1]
  BY <1>1, GaugeIsLast
<1> QED
  BY <1>2, <1>4, <1>5, <1>6, <1>8, <1>9, <1>10

-----------------------------------------------------------------------------
(* The bridge's batches *)

Points == [device : Device, at : Nat]

BridgePlaces == {"receive", "store", "broadcast", "write", "outputs", "set", "flushed", "done"}

InFlush == bridge \notin {"receive", "store", "done"}

\* The next flush begins here.
Next1 == FlushedFrom(Len(flushed) + 1)

\* b is the run of arrivals from the f-th on.
RunAt(b, f) ==
  /\ f \in Nat \ {0} /\ f + Len(b) <= Len(arrived) + 1
  /\ \A k \in 1 .. Len(b) : b[k] = arrived[f + k - 1]

KeptTypes ==
  /\ arrived \in Seq(Points) /\ batch \in Seq(Points) /\ flushed \in Seq(Seq(Points))
  /\ bridge \in BridgePlaces
  /\ bridge = "store" => batch # <<>>

KeptRuns ==
  /\ \A k \in 1 .. Len(arrived) : arrived[k].at = k
  /\ \A i \in 1 .. Len(flushed) : Len(flushed[i]) > 0 /\ RunAt(flushed[i], FlushedFrom(i))

KeptRest ==
  /\ Next1 \in 1 .. Len(arrived) + 1
  /\ InFlush => Next1 = Len(arrived) + 1
  /\ ~InFlush => RunAt(batch, Next1) /\ Next1 + Len(batch) = Len(arrived) + 1

KeptInv == KeptTypes /\ KeptRuns /\ KeptRest

\* What the sequences are to the prover.
LEMMA KeptAre ==
  ASSUME KeptTypes
  PROVE  /\ Len(arrived) \in Nat /\ DOMAIN arrived = 1 .. Len(arrived)
         /\ Len(batch) \in Nat /\ DOMAIN batch = 1 .. Len(batch)
         /\ Len(flushed) \in Nat /\ DOMAIN flushed = 1 .. Len(flushed)
         /\ \A i \in 1 .. Len(flushed) : /\ flushed[i] \in Seq(Points) /\ Len(flushed[i]) \in Nat
                                         /\ DOMAIN flushed[i] = 1 .. Len(flushed[i])
<1>1. \A s \in Seq(Points) : Len(s) \in Nat /\ DOMAIN s = 1 .. Len(s)
  BY LenProperties
<1>2. Len(flushed) \in Nat /\ DOMAIN flushed = 1 .. Len(flushed)
  BY LenProperties DEF KeptTypes
<1>3. \A i \in 1 .. Len(flushed) : flushed[i] \in Seq(Points)
  BY ElementOfSeq DEF KeptTypes
<1> QED
  BY <1>1, <1>2, <1>3 DEF KeptTypes

\* The last point of a run has the number of the place where the run ends.
LEMMA RunEnds ==
  ASSUME KeptTypes, \A k \in 1 .. Len(arrived) : arrived[k].at = k,
         NEW b \in Seq(Points), NEW f, Len(b) > 0, RunAt(b, f)
  PROVE  Last(b).at = f + Len(b) - 1
<1>1. PICK n \in Nat, m \in Nat : n = Len(b) /\ m = Len(arrived)
  BY KeptAre, LenProperties
<1>2. f + n - 1 \in 1 .. m /\ b[n] = arrived[f + n - 1]
  BY <1>1 DEF RunAt
<1> QED
  BY <1>1, <1>2 DEF Last

\* The bridge begins with nothing.
LEMMA KeptStarts == DashboardInit => KeptInv
<1> SUFFICES ASSUME DashboardInit PROVE KeptInv
  OBVIOUS
<1>1. \A S : <<>> \in Seq(S) /\ Len(<<>>) = 0
  BY EmptySeq
<1>2. arrived = <<>> /\ batch = <<>> /\ flushed = <<>> /\ bridge = "receive"
  BY DEF DashboardInit
<1>3. KeptTypes /\ KeptRuns
  BY <1>1, <1>2 DEF KeptTypes, KeptRuns, BridgePlaces
<1>4. KeptRest
  BY <1>1, <1>2 DEF KeptRest, Next1, FlushedFrom, InFlush, RunAt
<1> QED
  BY <1>3, <1>4 DEF KeptInv

\* Steps that leave the points where they are.
LEMMA KeptAlike ==
  ASSUME KeptInv, UNCHANGED <<arrived, flushed>>, batch' = batch, bridge' \in BridgePlaces,
         InFlush' <=> InFlush, bridge' = "store" => batch # <<>>
  PROVE  KeptInv'
<1>1. KeptTypes'
  BY DEF KeptInv, KeptTypes
<1>2. KeptRuns'
  BY Zenon DEF KeptInv, KeptRuns, RunAt, FlushedFrom
<1>3. KeptRest'
  BY DEF KeptInv, KeptRest, Next1, FlushedFrom, RunAt
<1> QED
  BY <1>1, <1>2, <1>3 DEF KeptInv

\* A point arrives: it is the last of the arrivals and of the batch.
LEMMA ReceiveKeepsAll ==
  ASSUME KeptInv, NEW d \in Device, BridgeReceive(d)
  PROVE  KeptInv'
<1>. PICK n \in Nat, m \in Nat : n = Len(arrived) /\ m = Len(batch)
  BY KeptAre DEF KeptInv
<1>1. PICK p : n = Len(arrived) /\ m = Len(batch) /\ p = [device |-> d, at |-> n + 1]
  OBVIOUS
<1>2. p \in Points /\ p.at = n + 1
  BY <1>1 DEF Points
<1>3. /\ arrived' = Append(arrived, p) /\ batch' = Append(batch, p) /\ flushed' = flushed
      /\ bridge = "receive" /\ bridge' \in {"store", "receive"}
  <2>1. /\ arrived' = Append(arrived, p) /\ batch' = Append(batch, p) /\ flushed' = flushed
        /\ bridge = "receive"
    BY <1>1, Zenon DEF BridgeReceive
  <2>2. bridge' = "store" \/ bridge' = "receive"
    BY Zenon DEF BridgeReceive
  <2> QED
    BY <2>1, <2>2
<1>4. /\ arrived' \in Seq(Points) /\ Len(arrived') = n + 1 /\ arrived'[n + 1] = p
      /\ \A k \in 1 .. n : arrived'[k] = arrived[k]
  BY <1>1, <1>2, <1>3, AppendProperties DEF KeptInv, KeptTypes
<1>5. /\ batch' \in Seq(Points) /\ Len(batch') = m + 1 /\ batch'[m + 1] = p
      /\ \A k \in 1 .. m : batch'[k] = batch[k]
  <2>1. PICK s : s = Append(batch, p)
    OBVIOUS
  <2>2. batch \in Seq(Points) /\ p \in Points /\ Len(batch) = m
    BY <1>1, <1>2 DEF KeptInv, KeptTypes
  <2>3. /\ s \in Seq(Points) /\ Len(s) = m + 1 /\ s[m + 1] = p
        /\ \A k \in 1 .. m : s[k] = batch[k]
    BY ONLY <2>1, <2>2, AppendProperties
  <2>4. batch' = s
    BY <1>3, <2>1
  <2> QED
    BY ONLY <2>3, <2>4
<1>6. KeptTypes'
  <2>1. batch' # <<>>
    <3>1. Len(batch') # 0
      BY <1>5
    <3> QED
      BY <3>1, EmptySeq
  <2>2. bridge' \in BridgePlaces
    BY <1>3 DEF BridgePlaces
  <2> QED
    BY <1>3, <1>4, <1>5, <2>1, <2>2 DEF KeptInv, KeptTypes
<1>7. \A i : FlushedFrom(i)' = FlushedFrom(i)
  BY <1>3 DEF FlushedFrom
<1>8. KeptRuns'
  <2>1. \A k \in 1 .. n + 1 : arrived'[k].at = k
    <3>1. \A k \in 1 .. n : arrived[k].at = k
      BY <1>1 DEF KeptInv, KeptRuns
    <3>2. \A k \in 1 .. n : arrived'[k].at = k
      BY ONLY <1>4, <3>1
    <3>3. \A k \in 1 .. n + 1 : k \in 1 .. n \/ k = n + 1
      OBVIOUS
    <3> QED
      BY ONLY <1>2, <1>4, <3>2, <3>3
  <2>2. ASSUME NEW i \in 1 .. Len(flushed)
        PROVE  Len(flushed[i]) > 0 /\ RunAt(flushed[i], FlushedFrom(i))'
    <3>. PICK b \in Seq(Points), q \in Nat : b = flushed[i] /\ q = Len(flushed[i])
      BY KeptAre DEF KeptInv
    <3>1. PICK f : b = flushed[i] /\ q = Len(b) /\ f = FlushedFrom(i)
      OBVIOUS
    <3>2. RunAt(b, f) /\ q > 0
      BY <3>1 DEF KeptInv, KeptRuns
    <3>3. /\ f \in Nat \ {0} /\ f + q <= n + 1
          /\ \A k \in 1 .. q : b[k] = arrived[f + k - 1]
      BY <1>1, <3>1, <3>2 DEF RunAt
    <3>4. f \in Nat \ {0} /\ f + q <= n + 2
      BY <3>3
    <3>5. ASSUME NEW k \in 1 .. q PROVE b[k] = arrived'[f + k - 1]
      <4>1. f + k - 1 \in 1 .. n
        BY <3>3
      <4> QED
        BY <1>4, <3>3, <4>1
    <3>6. b = flushed'[i] /\ f = FlushedFrom(i)'
      BY <1>3, <1>7, <3>1
    <3>7. RunAt(b, f)'
      BY <1>4, <3>1, <3>4, <3>5 DEF RunAt
    <3>8. RunAt(flushed[i], FlushedFrom(i))'
      BY <3>6, <3>7
    <3> QED
      BY <3>1, <3>2, <3>6, <3>8
  <2> QED
    BY <1>3, <1>4, <1>7, <2>1, <2>2 DEF KeptRuns
<1>9. KeptRest'
  <2>1. PICK f : f = Next1 /\ f = Next1'
    BY <1>3 DEF Next1, FlushedFrom
  <2>2. /\ f \in Nat \ {0} /\ f + m = n + 1
        /\ \A k \in 1 .. m : batch[k] = arrived[f + k - 1]
    BY <1>1, <1>3, <2>1 DEF KeptInv, KeptRest, InFlush, RunAt
  <2>3. \A k \in 1 .. m : f + k - 1 \in 1 .. n
    BY <2>2
  <2>4. \A k \in 1 .. m + 1 : batch'[k] = arrived'[f + k - 1]
    <3>1. \A k \in 1 .. m : batch'[k] = arrived'[f + k - 1]
      BY <1>4, <1>5, <2>2, <2>3
    <3>2. f + (m + 1) - 1 = n + 1
      BY <2>2
    <3>3. \A k \in 1 .. m + 1 : k \in 1 .. m \/ k = m + 1
      OBVIOUS
    <3> QED
      BY <1>4, <1>5, <3>1, <3>2, <3>3
  <2>5. f \in 1 .. n + 2 /\ f + (m + 1) = n + 2
    BY <2>2
  <2>6. PICK c : c = batch'
    OBVIOUS
  <2>7. RunAt(c, f)'
    BY <1>4, <1>5, <2>2, <2>4, <2>5, <2>6 DEF RunAt
  <2>8. ~InFlush' /\ RunAt(batch, Next1)'
    BY <1>3, <2>1, <2>6, <2>7 DEF InFlush
  <2> QED
    BY <1>4, <1>5, <2>1, <2>5, <2>8 DEF KeptRest
<1> QED
  BY <1>6, <1>8, <1>9 DEF KeptInv

\* The batch is stored: the run of the rest of the arrivals is a flush.
LEMMA StoreKeepsAll ==
  ASSUME KeptInv, FlushStore
  PROVE  KeptInv'
<1>. PICK n \in Nat, m \in Nat : n = Len(flushed) /\ m = Len(arrived)
  BY KeptAre DEF KeptInv
<1>. PICK b \in Seq(Points) : b = batch
  BY DEF KeptInv, KeptTypes
<1>1. PICK f : n = Len(flushed) /\ m = Len(arrived) /\ b = batch /\ f = Next1
  OBVIOUS
<1>2. /\ flushed' = Append(flushed, b) /\ arrived' = arrived /\ batch' = b
      /\ bridge = "store" /\ bridge' = "broadcast"
  <2>1. flushed' = Append(flushed, b) /\ bridge = "store" /\ bridge' = "broadcast"
    BY <1>1, Zenon DEF FlushStore
  <2>2. arrived' = arrived /\ batch' = batch
    BY DEF FlushStore, inVars
  <2> QED
    BY <1>1, <2>1, <2>2
<1>3. /\ flushed' \in Seq(Seq(Points)) /\ Len(flushed') = n + 1 /\ flushed'[n + 1] = b
      /\ \A i \in 1 .. n : flushed'[i] = flushed[i]
  BY <1>1, <1>2, AppendProperties DEF KeptInv, KeptTypes
<1>4. Len(b) \in Nat \ {0}
  BY <1>1, <1>2, EmptySeq, LenProperties DEF KeptInv, KeptTypes
<1>5. RunAt(b, f) /\ f + Len(b) = m + 1 /\ f \in 1 .. m + 1
  BY <1>1, <1>2 DEF KeptInv, KeptRest, InFlush
<1>6. \A i \in 1 .. n + 1 : FlushedFrom(i)' = FlushedFrom(i)
  <2>1. ASSUME NEW i \in 1 .. n + 1, i # 1
        PROVE  flushed'[i - 1] = flushed[i - 1]
    <3>1. i - 1 \in 1 .. n
      BY <2>1
    <3> QED
      BY <1>3, <3>1
  <2> QED
    BY <2>1 DEF FlushedFrom
<1>7. \A c, g : RunAt(c, g) => (RunAt(c, g))'
  BY <1>2 DEF RunAt
<1>8. KeptTypes'
  BY <1>2, <1>3 DEF KeptInv, KeptTypes, BridgePlaces
<1>9. KeptRuns'
  <2>1. ASSUME NEW i \in 1 .. n + 1
        PROVE  (Len(flushed[i]) > 0 /\ RunAt(flushed[i], FlushedFrom(i)))'
    <3>1. PICK c, g : c = flushed'[i] /\ g = FlushedFrom(i)
      OBVIOUS
    <3>2. CASE i = n + 1
      <4>1. c = b /\ g = f
        BY <1>1, <1>3, <3>1, <3>2 DEF Next1
      <4>2. Len(c) > 0 /\ RunAt(c, g)
        BY <1>4, <1>5, <4>1
      <4> QED
        BY <1>6, <1>7, <3>1, <4>2
    <3>3. CASE i \in 1 .. n
      <4>1. c = flushed[i]
        BY <1>3, <3>1, <3>3
      <4>2. Len(c) > 0 /\ RunAt(c, g)
        BY <1>1, <3>1, <3>3, <4>1 DEF KeptInv, KeptRuns
      <4> QED
        BY <1>6, <1>7, <3>1, <4>2
    <3> QED
      BY <3>2, <3>3
  <2>2. \A k \in 1 .. Len(arrived') : arrived'[k].at = k
    BY <1>2 DEF KeptInv, KeptRuns
  <2>3. Len(flushed') = n + 1
    BY <1>3
  <2> QED
    BY <2>1, <2>2, <2>3 DEF KeptRuns
<1>10. KeptRest'
  <2>1. Last(b).at = f + Len(b) - 1
    BY <1>4, <1>5, RunEnds DEF KeptInv, KeptRuns
  <2>2. Next1' = Last(b).at + 1
    <3>1. Len(flushed') + 1 = n + 2 /\ n + 2 # 1 /\ (n + 2) - 1 = n + 1
      BY <1>3
    <3> QED
      BY <1>3, <3>1 DEF Next1, FlushedFrom
  <2>3. Next1' = m + 1
    BY <1>4, <1>5, <2>1, <2>2
  <2> QED
    BY <1>1, <1>2, <2>3 DEF KeptRest, InFlush
<1> QED
  BY <1>8, <1>9, <1>10 DEF KeptInv

\* The flush has ended, and the bridge takes an empty batch.
LEMMA NextRoundKeepsAll ==
  ASSUME KeptInv, BridgeNextRound
  PROVE  KeptInv'
<1>1. /\ batch' = <<>> /\ UNCHANGED <<arrived, flushed>> /\ bridge = "flushed"
      /\ bridge' \in {"done", "receive"}
  <2>1. bridge = "flushed" /\ batch' = <<>> /\ arrived' = arrived /\ flushed' = flushed
    BY Zenon DEF BridgeNextRound
  <2>2. bridge' = "done" \/ bridge' = "receive"
    BY Zenon DEF BridgeNextRound
  <2> QED
    BY <2>1, <2>2
<1>2. <<>> \in Seq(Points) /\ Len(<<>>) = 0
  BY EmptySeq
<1>3. Len(arrived) \in Nat
  BY KeptAre DEF KeptInv
<1>4. KeptTypes' /\ KeptRuns'
  BY <1>1, <1>2 DEF KeptInv, KeptTypes, KeptRuns, FlushedFrom, RunAt, BridgePlaces
<1>5. Next1' = Len(arrived) + 1 /\ Len(batch') = 0
  BY <1>1, <1>2 DEF KeptInv, KeptRest, InFlush, Next1, FlushedFrom
<1>6. KeptRest'
  BY <1>1, <1>2, <1>3, <1>5 DEF KeptRest, InFlush, RunAt
<1> QED
  BY <1>4, <1>6 DEF KeptInv

\* The bridge is cancelled or the channel is closed: it flushes what it has, or
\* is done with the round when it has nothing.
LEMMA StartKeepsAll ==
  ASSUME KeptInv, BridgeCancelled \/ BridgeClosed
  PROVE  KeptInv'
<1>1. UNCHANGED <<arrived, batch, flushed>> /\ bridge = "receive" /\ bridge' = StartFlush
  BY DEF BridgeCancelled, BridgeClosed
<1>2. CASE batch = <<>>
  <2>1. Len(batch) = 0 /\ bridge' = "flushed"
    BY <1>1, <1>2, EmptySeq DEF StartFlush
  <2>2. Len(arrived) \in Nat
    BY KeptAre DEF KeptInv
  <2>3. Next1 \in 1 .. Len(arrived) + 1 /\ Next1 = Len(arrived) + 1
    BY <1>1, <2>1, <2>2 DEF KeptInv, KeptRest, InFlush
  <2>4. Next1' = Next1
    BY <1>1 DEF Next1, FlushedFrom
  <2>5. KeptTypes' /\ KeptRuns'
    BY <1>1, <2>1 DEF KeptInv, KeptTypes, KeptRuns, FlushedFrom, RunAt, BridgePlaces
  <2>6. KeptRest'
    BY <1>1, <2>1, <2>3, <2>4 DEF KeptRest, InFlush
  <2> QED
    BY <2>5, <2>6 DEF KeptInv
<1>3. CASE batch # <<>>
  <2>1. bridge' = "store"
    BY <1>1, <1>3 DEF StartFlush
  <2> QED
    BY <1>1, <1>3, <2>1, KeptAlike DEF InFlush, BridgePlaces
<1> QED
  BY <1>2, <1>3

\* The rest of a flush, and the handlers of the browsers, leave the points alone.
LEMMA OthersKeepAll ==
  ASSUME KeptInv,
         \/ BridgeTick \/ FlushBroadcast \/ FlushHistory \/ FlushReset \/ FlushSet \/ WsCloseAll
         \/ \E c \in Client : FlushWrite(c)
         \/ \E c \in Client : WsAdd(c) \/ WsGet(c) \/ WsSend(c) \/ WsStuck(c) \/ WsDrop(c) \/ WsRemove(c)
         \/ UNCHANGED dashboardVars
  PROVE  KeptInv'
<1>1. UNCHANGED <<arrived, batch, flushed>>
  BY DEF BridgeTick, FlushBroadcast, FlushHistory, FlushReset, FlushSet, WsCloseAll, FlushWrite,
         WsAdd, WsGet, WsSend, WsStuck, WsDrop, WsRemove, dashboardVars, inVars
<1>2. \/ bridge = "receive" /\ bridge' = "store" /\ batch # <<>>
      \/ bridge = "broadcast" /\ bridge' = "write"
      \/ bridge = "write" /\ bridge' = "outputs"
      \/ bridge = "outputs" /\ bridge' = "set"
      \/ bridge = "set" /\ bridge' = "flushed"
      \/ bridge' = bridge
  BY DEF BridgeTick, FlushBroadcast, FlushHistory, FlushReset, FlushSet, WsCloseAll, FlushWrite,
         WsAdd, WsGet, WsSend, WsStuck, WsDrop, WsRemove, dashboardVars, inVars
<1>3. bridge \in BridgePlaces /\ (bridge = "store" => batch # <<>>)
  BY DEF KeptInv, KeptTypes
<1>4. bridge' \in BridgePlaces /\ (InFlush' <=> InFlush) /\ (bridge' = "store" => batch # <<>>)
  BY <1>2, <1>3 DEF InFlush, BridgePlaces
<1> QED
  BY <1>1, <1>4, KeptAlike

\* Whatever the bridge and the handlers do, the flushes follow the arrivals.
LEMMA KeptSteps == KeptInv /\ [DashboardNext]_dashboardVars => KeptInv'
<1> SUFFICES ASSUME KeptInv, [DashboardNext]_dashboardVars PROVE KeptInv'
  OBVIOUS
<1>1. ASSUME Flush PROVE KeptInv'
  BY <1>1, StoreKeepsAll, NextRoundKeepsAll, OthersKeepAll DEF Flush
<1>2. CASE DashboardNext
  BY <1>1, <1>2, ReceiveKeepsAll, StartKeepsAll, OthersKeepAll DEF DashboardNext
<1> QED
  BY <1>2, OthersKeepAll

\* A run of arrivals, cut out of them.
LEMMA RunIsCut ==
  ASSUME KeptTypes, NEW b \in Seq(Points), NEW f, NEW t, RunAt(b, f), t = f + Len(b) - 1
  PROVE  b = SubSeq(arrived, f, t)
<1>. PICK n \in Nat, q \in Nat : n = Len(arrived) /\ q = Len(b)
  BY KeptAre, LenProperties
<1>1. arrived \in Seq(Points) /\ n = Len(arrived) /\ q = Len(b)
  BY DEF KeptTypes
<1>2. /\ f \in Nat \ {0} /\ f + q <= n + 1 /\ t = f + q - 1
      /\ \A k \in 1 .. q : b[k] = arrived[f + k - 1]
  BY <1>1 DEF RunAt
<1>3. f \in Int /\ t \in Int /\ t <= n /\ f - 1 <= t
  BY <1>2
<1>4. /\ SubSeq(arrived, f, t) \in Seq(Points)
      /\ Len(SubSeq(arrived, f, t)) = q
      /\ \A k \in 1 .. q : SubSeq(arrived, f, t)[k] = arrived[f + k - 1]
  BY <1>1, <1>2
<1> QED
  BY <1>1, <1>2, <1>4, SeqEqual

\* What the bridge keeps means that every point is in one flush or waits.
LEMMA KeptMeans == KeptInv => BridgeKeepsAll
<1> SUFFICES ASSUME KeptInv PROVE BridgeKeepsAll
  OBVIOUS
<1>. PICK n \in Nat : n = Len(arrived)
  BY KeptAre DEF KeptInv
<1>1. n = Len(arrived) /\ KeptTypes
  BY DEF KeptInv
<1>2. ASSUME NEW i \in DOMAIN flushed
      PROVE  flushed[i] # <<>> /\ flushed[i] = SubSeq(arrived, FlushedFrom(i), Last(flushed[i]).at)
  <2>. PICK b \in Seq(Points) : b = flushed[i]
    BY <1>1, <1>2, KeptAre
  <2>1. PICK f, t : b = flushed[i] /\ f = FlushedFrom(i) /\ t = Last(b).at
    OBVIOUS
  <2>2. Len(b) > 0 /\ RunAt(b, f)
    BY <1>1, <1>2, <2>1, KeptAre DEF KeptInv, KeptRuns
  <2>3. t = f + Len(b) - 1
    BY <1>1, <2>1, <2>2, RunEnds DEF KeptInv, KeptRuns
  <2>4. b # <<>>
    BY <2>2, EmptySeq
  <2> QED
    BY <1>1, <2>1, <2>2, <2>3, <2>4, RunIsCut
<1>3. SubSeq(arrived, FlushedFrom(Version + 1), Len(arrived)) =
        IF bridge \notin {"receive", "store", "done"} THEN <<>> ELSE batch
  <2>1. PICK f : f = Next1 /\ f = FlushedFrom(Version + 1)
    BY DEF Next1, Version
  <2>2. CASE InFlush
    <3>1. f = n + 1
      BY <1>1, <2>1, <2>2 DEF KeptInv, KeptRest
    <3>2. SubSeq(arrived, n + 1, n) = <<>>
      BY <1>1 DEF KeptTypes
    <3> QED
      BY <1>1, <2>1, <2>2, <3>1, <3>2 DEF InFlush
  <2>3. CASE ~InFlush
    <3>1. RunAt(batch, f) /\ f + Len(batch) = n + 1 /\ f \in 1 .. n + 1 /\ batch \in Seq(Points)
      BY <1>1, <2>1, <2>3 DEF KeptInv, KeptRest, KeptTypes
    <3>2. n = f + Len(batch) - 1
      BY <1>1, <3>1, KeptAre
    <3>3. batch = SubSeq(arrived, f, n)
      BY <1>1, <3>1, <3>2, RunIsCut
    <3> QED
      BY <1>1, <2>1, <2>3, <3>3 DEF InFlush
  <2> QED
    BY <2>2, <2>3
<1> QED
  BY <1>2, <1>3, Zenon DEF BridgeKeepsAll

-----------------------------------------------------------------------------
(* What is shown of a flush *)

\* The state that is served is the latest flush, which a flush under way works
\* on; between two flushes the gauges and the devices are those of that state.
ShownInv ==
  /\ flushed # <<>> => holder = Last(flushed)
  /\ bridge \in {"broadcast", "write", "outputs", "set"} => flushed # <<>> /\ batch = Last(flushed)
  /\ bridge \in {"receive", "store", "flushed", "done"} /\ flushed # <<>> =>
       gauges = Devices(holder) /\ localDevices = Devices(holder)

\* A batch is flushed: it is the state from here on, and the flush works on it.
LEMMA StoreShows ==
  ASSUME KeptInv, FlushStore
  PROVE  flushed' # <<>> /\ Last(flushed') = batch
<1>. PICK n \in Nat : n = Len(flushed)
  BY KeptAre DEF KeptInv
<1>. PICK b \in Seq(Points) : b = batch
  BY DEF KeptInv, KeptTypes
<1>1. flushed' = Append(flushed, b)
  BY Zenon DEF FlushStore
<1>2. flushed' \in Seq(Seq(Points)) /\ Len(flushed') = n + 1 /\ flushed'[n + 1] = b
  BY <1>1, AppendProperties DEF KeptInv, KeptTypes
<1>3. Len(flushed') # 0
  BY <1>2
<1> QED
  BY <1>2, <1>3, EmptySeq DEF Last

\* Whatever is done, all are shown the latest flush.
LEMMA ShownSteps == KeptInv /\ ShownInv /\ [DashboardNext]_dashboardVars => ShownInv'
<1> SUFFICES ASSUME KeptInv, ShownInv, [DashboardNext]_dashboardVars PROVE ShownInv'
  OBVIOUS
<1>1. CASE FlushStore
  <2>1. holder' = batch /\ batch' = batch /\ bridge' = "broadcast"
    BY <1>1 DEF FlushStore, inVars
  <2> QED
    BY <1>1, <2>1, StoreShows DEF ShownInv
<1>2. CASE FlushSet
  <2>1. UNCHANGED <<batch, flushed, holder>> /\ bridge = "set" /\ bridge' = "flushed"
    BY <1>2 DEF FlushSet, inVars
  <2>2. gauges' = Devices(batch) /\ localDevices' = Devices(batch)
    BY <1>2 DEF FlushSet
  <2>3. batch = holder
    BY <2>1 DEF ShownInv
  <2> QED
    BY <2>1, <2>2, <2>3 DEF ShownInv, Devices
<1>3. CASE BridgeNextRound
  BY <1>3 DEF BridgeNextRound, ShownInv, Devices, outVars
<1>4. CASE BridgeTick \/ BridgeCancelled \/ BridgeClosed \/ \E d \in Device : BridgeReceive(d)
  <2>1. UNCHANGED <<flushed, holder, gauges, localDevices>>
    BY <1>4 DEF BridgeTick, BridgeCancelled, BridgeClosed, BridgeReceive, outVars
  <2>2. bridge = "receive" /\ bridge' \in {"receive", "store", "flushed"}
    BY <1>4 DEF BridgeTick, BridgeCancelled, BridgeClosed, BridgeReceive, StartFlush
  <2> QED
    BY <2>1, <2>2 DEF ShownInv, Devices
<1>5. CASE FlushReset
  BY <1>5 DEF FlushReset, ShownInv, inVars, outVars, Devices
<1>6. CASE FlushBroadcast \/ FlushHistory \/ \E c \in Client : FlushWrite(c)
  <2>1. UNCHANGED <<batch, flushed, holder>>
    BY <1>6 DEF FlushBroadcast, FlushHistory, FlushWrite, inVars
  <2>2. bridge \in {"broadcast", "write"} /\ bridge' \in {"write", "outputs"}
    BY <1>6 DEF FlushBroadcast, FlushHistory, FlushWrite
  <2> QED
    BY <2>1, <2>2 DEF ShownInv
<1>7. CASE \/ WsCloseAll \/ UNCHANGED dashboardVars
           \/ \E c \in Client : WsAdd(c) \/ WsGet(c) \/ WsSend(c) \/ WsStuck(c) \/ WsDrop(c) \/ WsRemove(c)
  <2>1. UNCHANGED <<batch, flushed, holder, bridge, gauges, localDevices>>
    BY <1>7 DEF WsCloseAll, WsAdd, WsGet, WsSend, WsStuck, WsDrop, WsRemove, dashboardVars, inVars, outVars
  <2> QED
    BY <2>1 DEF ShownInv, Devices
<1> QED
  BY <1>1, <1>2, <1>3, <1>4, <1>5, <1>6, <1>7 DEF DashboardNext, Flush

-----------------------------------------------------------------------------
(* The browsers *)

\* The broadcast under way has yet to write to c.
Awaits(c) == bridge = "broadcast" \/ (bridge = "write" /\ c \in targets)

WatchTypes ==
  /\ ws \in [Client -> {"away", "added", "read", "open", "stuck", "closed"}]
  /\ found \in [Client -> Nat] /\ got \in [Client -> SUBSET Nat]
  /\ clients \subseteq Client /\ targets \subseteq Client

\* A client of the hub that has read the state was or will be sent the latest.
WatchInv ==
  /\ WatchTypes
  /\ \A c \in clients :
       /\ ws[c] \in {"open", "stuck"} => Version \in got[c] \/ Awaits(c)
       /\ ws[c] = "read" => found[c] = Version \/ Version \in got[c] \/ Awaits(c)

\* The versions are numbered.
LEMMA VersionIs == KeptInv => Version \in Nat
BY KeptAre DEF KeptInv, Version

\* No client to begin with.
LEMMA WatchStarts == DashboardInit => WatchInv
BY DEF DashboardInit, WatchInv, WatchTypes

\* The steps of the bridge leave no client behind.
LEMMA BridgeWatches ==
  ASSUME KeptInv, WatchInv,
         \/ BridgeTick \/ BridgeCancelled \/ BridgeClosed \/ \E d \in Device : BridgeReceive(d)
         \/ Flush \/ UNCHANGED dashboardVars
  PROVE  WatchInv'
<1>1. CASE FlushStore
  <2>1. UNCHANGED <<clients, targets, ws, found, got>> /\ bridge' = "broadcast"
    BY <1>1 DEF FlushStore, wsVars
  <2> QED
    BY <2>1 DEF WatchInv, WatchTypes, Awaits
<1>2. CASE FlushBroadcast
  <2>1. UNCHANGED <<clients, ws, found, got>> /\ bridge' = "write" /\ targets' = clients
    BY <1>2 DEF FlushBroadcast, wsVars
  <2> QED
    BY <2>1 DEF WatchInv, WatchTypes, Awaits
<1>3. ASSUME NEW c \in Client, FlushWrite(c) PROVE WatchInv'
  <2>1. /\ UNCHANGED <<ws, found, flushed, bridge>> /\ bridge = "write" /\ ws[c] # "stuck"
        /\ targets' = targets \ {c}
    BY <1>3 DEF FlushWrite
  <2>2. Version' = Version /\ Version \in Nat
    BY <2>1, VersionIs DEF Version
  <2>3. CASE ws[c] \in {"closed", "away"}
    <3>1. clients' = clients \ {c} /\ got' = got
      BY <1>3, <2>3 DEF FlushWrite
    <3> QED
      BY <2>1, <2>2, <3>1 DEF WatchInv, WatchTypes, Awaits
  <2>4. CASE ws[c] \notin {"closed", "away"}
    <3>1. clients' = clients /\ got' = [got EXCEPT ![c] = @ \union {Version}]
      BY <1>3, <2>4 DEF FlushWrite
    <3>2. WatchTypes'
      BY <1>3, <2>1, <2>2, <3>1 DEF WatchInv, WatchTypes
    <3>3. \A x \in Client : got'[x] = IF x = c THEN got[c] \union {Version} ELSE got[x]
      BY <3>1 DEF WatchInv, WatchTypes
    <3>4. \A x \in clients : x = c \/ (Awaits(x) <=> Awaits(x)')
      BY <2>1 DEF Awaits
    <3> QED
      BY <2>1, <2>2, <3>1, <3>2, <3>3, <3>4 DEF WatchInv, WatchTypes
  <2> QED
    BY <2>3, <2>4
<1>4. CASE FlushHistory
  <2>1. /\ UNCHANGED <<clients, ws, found, got, targets, flushed>>
        /\ bridge = "write" /\ targets = {} /\ bridge' = "outputs"
    BY <1>4 DEF FlushHistory, wsVars
  <2> QED
    BY <2>1 DEF WatchInv, WatchTypes, Awaits, Version
<1>5. CASE \/ BridgeTick \/ BridgeCancelled \/ BridgeClosed \/ \E d \in Device : BridgeReceive(d)
           \/ FlushReset \/ FlushSet \/ BridgeNextRound \/ UNCHANGED dashboardVars
  <2>1. UNCHANGED <<clients, ws, found, got, targets, flushed>>
    BY <1>5 DEF BridgeTick, BridgeCancelled, BridgeClosed, BridgeReceive, FlushReset, FlushSet,
                BridgeNextRound, wsVars, dashboardVars
  <2>2. bridge' = bridge \/ bridge \notin {"broadcast", "write"}
    BY <1>5 DEF BridgeTick, BridgeCancelled, BridgeClosed, BridgeReceive, FlushReset, FlushSet,
                BridgeNextRound, dashboardVars
  <2> QED
    BY <2>1, <2>2 DEF WatchInv, WatchTypes, Awaits, Version
<1> QED
  BY <1>1, <1>2, <1>3, <1>4, <1>5 DEF Flush

\* The handlers of a client.
LEMMA HandlerWatches ==
  ASSUME KeptInv, WatchInv, NEW c \in Client,
         WsAdd(c) \/ WsGet(c) \/ WsSend(c) \/ WsStuck(c) \/ WsDrop(c) \/ WsRemove(c)
  PROVE  WatchInv'
<1>1. UNCHANGED <<bridge, flushed, targets>>
  BY DEF WsAdd, WsGet, WsSend, WsStuck, WsDrop, WsRemove
<1>2. Version' = Version /\ Version \in Nat /\ \A x : Awaits(x)' <=> Awaits(x)
  BY <1>1, VersionIs DEF Version, Awaits
<1>3. CASE WsAdd(c)
  BY <1>1, <1>2, <1>3 DEF WsAdd, WatchInv, WatchTypes
<1>4. CASE WsGet(c)
  BY <1>1, <1>2, <1>4 DEF WsGet, WatchInv, WatchTypes
<1>5. CASE WsSend(c)
  BY <1>1, <1>2, <1>5 DEF WsSend, WatchInv, WatchTypes
<1>6. CASE WsStuck(c)
  BY <1>1, <1>2, <1>6 DEF WsStuck, WatchInv, WatchTypes
<1>7. CASE WsDrop(c)
  BY <1>1, <1>2, <1>7 DEF WsDrop, WatchInv, WatchTypes
<1>8. CASE WsRemove(c)
  BY <1>1, <1>2, <1>8 DEF WsRemove, WatchInv, WatchTypes
<1> QED
  BY <1>3, <1>4, <1>5, <1>6, <1>7, <1>8

\* Closing them all.
LEMMA CloseAllWatches ==
  ASSUME KeptInv, WatchInv, WsCloseAll
  PROVE  WatchInv'
<1>1. UNCHANGED targets /\ clients' = {}
  BY DEF WsCloseAll
<1>2. WatchTypes'
  BY <1>1 DEF WsCloseAll, WatchInv, WatchTypes
<1> QED
  BY <1>1, <1>2 DEF WatchInv

\* Whatever is done, no client is left behind.
LEMMA WatchSteps == KeptInv /\ WatchInv /\ [DashboardNext]_dashboardVars => WatchInv'
<1> SUFFICES ASSUME KeptInv, WatchInv, [DashboardNext]_dashboardVars PROVE WatchInv'
  OBVIOUS
<1>1. CASE DashboardNext
  BY <1>1, BridgeWatches, HandlerWatches, CloseAllWatches DEF DashboardNext
<1> QED
  BY <1>1, BridgeWatches

\* What is watched means that nobody who reads missed the latest flush.
LEMMA WatchMeans == WatchInv => NoMissedUpdate
BY DEF WatchInv, NoMissedUpdate, Awaits

\* Nothing was flushed to begin with.
LEMMA ShownStarts == DashboardInit => ShownInv
BY DEF DashboardInit, ShownInv

-----------------------------------------------------------------------------
(* The history *)

\* So many flushes have been added to the history.
Added == IF bridge \in {"broadcast", "write"} THEN Len(flushed) - 1 ELSE Len(flushed)

\* The oldest point of the history is in this slot.
Start == IF count = MaxHistory THEN head ELSE 0

\* The ring of MaxHistory slots holds the latest point of each of the last flushes.
HistoryInv ==
  /\ MaxHistory = 0 => count = 0
  /\ MaxHistory > 0 =>
       /\ DOMAIN slots = 0 .. MaxHistory - 1
       /\ head \in 0 .. MaxHistory - 1 /\ count \in 0 .. MaxHistory /\ count <= Added
       /\ count < MaxHistory => head = count /\ count = Added
       /\ \A k \in 0 .. count - 1 :
            slots[At(MaxHistory, Start, k)] = LatestPoint(flushed[Added - count + k + 1])

\* An empty history.
LEMMA HistoryStarts == DashboardInit => HistoryInv
<1> SUFFICES ASSUME DashboardInit PROVE HistoryInv
  OBVIOUS
<1>1. head = 0 /\ count = 0 /\ flushed = <<>> /\ bridge = "receive" /\ DOMAIN slots = 0 .. MaxHistory - 1
  BY DEF DashboardInit
<1>2. Len(<<>>) = 0
  BY EmptySeq
<1> QED
  BY <1>1, <1>2, DashboardAssumption DEF HistoryInv, Added

\* Steps that neither add to the history nor store a batch.
LEMMA HistoryAlike ==
  ASSUME HistoryInv, UNCHANGED <<slots, head, count, flushed>>, Added' = Added
  PROVE  HistoryInv'
BY DEF HistoryInv, Start, LatestPoint

\* A batch is stored, and not yet in the history.
LEMMA StoreKeepsHistory ==
  ASSUME KeptInv, HistoryInv, FlushStore
  PROVE  HistoryInv'
<1>. PICK n \in Nat : n = Len(flushed)
  BY KeptAre DEF KeptInv
<1>. PICK b \in Seq(Points) : b = batch
  BY DEF KeptInv, KeptTypes
<1>1. flushed' = Append(flushed, b) /\ bridge = "store" /\ bridge' = "broadcast"
  BY Zenon DEF FlushStore
<1>2. UNCHANGED <<slots, head, count>>
  BY DEF FlushStore, historyVars
<1>3. Len(flushed') = n + 1 /\ \A i \in 1 .. n : flushed'[i] = flushed[i]
  BY <1>1, AppendProperties DEF KeptInv, KeptTypes
<1>4. Added' = n /\ Added = n
  BY <1>1, <1>3 DEF Added
<1>5. \A i \in 1 .. n : LatestPoint(flushed[i])' = LatestPoint(flushed[i])
  BY <1>3 DEF LatestPoint
<1>6. CASE MaxHistory > 0
  <2>1. count \in Nat /\ count <= n
    BY <1>4, <1>6 DEF HistoryInv
  <2>2. \A k \in 0 .. count - 1 : n - count + k + 1 \in 1 .. n
    BY <2>1
  <2>3. Start' = Start
    BY <1>2 DEF Start
  <2> QED
    BY <1>2, <1>4, <1>5, <1>6, <2>1, <2>2, <2>3 DEF HistoryInv
<1> QED
  BY <1>2, <1>6 DEF HistoryInv

\* The batch is added, in the place of the oldest when the history is full.
LEMMA AddKeepsHistory ==
  ASSUME KeptInv, ShownInv, HistoryInv, FlushHistory
  PROVE  HistoryInv'
<1>0. \A n, r \in Nat : \A k \in 0 .. r - 1 : r <= n => n - r + k + 1 \in 1 .. n
  OBVIOUS
<1>. PICK n \in Nat : n = Len(flushed)
  BY KeptAre DEF KeptInv
<1>1. /\ UNCHANGED <<flushed, batch>> /\ bridge = "write" /\ bridge' = "outputs"
      /\ n = Len(flushed)
  BY DEF FlushHistory, inVars
<1>2. Added = n - 1 /\ Added' = n
  BY <1>1 DEF Added
<1>3. batch = flushed[n]
  BY <1>1 DEF ShownInv, Last
<1>4. CASE MaxHistory = 0
  <2>1. count' = count
    BY <1>4 DEF FlushHistory, historyVars
  <2> QED
    BY <1>4, <2>1 DEF HistoryInv
<1>5. CASE MaxHistory > 0
  <2>. PICK m \in Nat \ {0} : m = MaxHistory
    BY <1>5, DashboardAssumption
  <2>. PICK c \in 0 .. m, h \in 0 .. m - 1 : c = count /\ h = head
    BY <1>5 DEF HistoryInv
  <2>1. PICK lp : /\ m = MaxHistory /\ c = count /\ h = head
                  /\ lp = [i \in 1 .. n |-> LatestPoint(flushed[i])]
    OBVIOUS
  <2>2. n > 0
    <3>1. flushed # <<>>
      BY <1>1 DEF ShownInv
    <3> QED
      BY <1>1, <3>1, EmptySeq DEF KeptInv, KeptTypes
  <2>3. c <= n - 1 /\ (c < m => h = c /\ c = n - 1) /\ DOMAIN slots = 0 .. m - 1
    BY <1>2, <1>5, <2>1 DEF HistoryInv
  <2>4. \A k \in 0 .. c - 1 : slots[At(m, Start, k)] = lp[(n - 1) - c + k + 1]
    <3>1. \A k \in 0 .. c - 1 : slots[At(m, Start, k)] = LatestPoint(flushed[(n - 1) - c + k + 1])
      BY <1>2, <1>5, <2>1 DEF HistoryInv
    <3>2. \A k \in 0 .. c - 1 : (n - 1) - c + k + 1 \in 1 .. n
      BY <2>3
    <3> QED
      BY <2>1, <3>1, <3>2
  <2>5. /\ slots' = [slots EXCEPT ![h] = lp[n]] /\ head' = (h + 1) % m
        /\ count' = IF c < m THEN c + 1 ELSE c
    <3>1. LatestPoint(batch) = lp[n]
      BY <1>3, <2>1, <2>2
    <3> QED
      BY <1>5, <2>1, <3>1 DEF FlushHistory
  <2>6. head' = At(m, h, 1) /\ At(m, h, 1) \in 0 .. m - 1
    <3>1. 1 \in 0 .. m
      OBVIOUS
    <3> QED
      BY <2>5, <3>1, ModAt
  <2>7. /\ DOMAIN slots' = 0 .. m - 1 /\ slots'[h] = lp[n]
        /\ \A x \in 0 .. m - 1 : x # h => slots'[x] = slots[x]
    BY <2>3, <2>5
  <2>8. \A i \in 1 .. n : lp[i] = LatestPoint(flushed[i])'
    BY <1>1, <2>1 DEF LatestPoint
  <2>9. ASSUME count' \in 1 .. m, count' <= n,
               count' < m => head' = count' /\ count' = n,
               \A k \in 0 .. count' - 1 : slots'[At(m, Start', k)] = lp[n - count' + k + 1]
        PROVE  HistoryInv'
    <3>. PICK r \in 1 .. m : r = count' /\ r <= n
      BY <2>9
    <3>1. PICK s : r = count' /\ s = Start' /\ r <= n
      OBVIOUS
    <3>2. \A k \in 0 .. r - 1 : slots'[At(m, s, k)] = lp[n - r + k + 1] /\ n - r + k + 1 \in 1 .. n
      <4>1. \A x \in 1 .. m : x \in Nat
        OBVIOUS
      <4>2. r \in Nat
        BY <4>1
      <4>3. \A k \in 0 .. r - 1 : n - r + k + 1 \in 1 .. n
        BY <1>0, <3>1, <4>2
      <4> QED
        BY <2>9, <3>1, <4>3
    <3>3. \A k \in 0 .. r - 1 : slots'[At(m, s, k)] = LatestPoint(flushed[n - r + k + 1])'
      BY <2>8, <3>2
    <3>4. /\ DOMAIN slots' = 0 .. m - 1 /\ head' \in 0 .. m - 1
          /\ r < m => head' = r /\ r = n
      BY <2>6, <2>7, <2>9, <3>1
    <3>5. m # 0 /\ r \in 0 .. m
      OBVIOUS
    <3> QED
      BY <1>2, <2>1, <3>1, <3>3, <3>4, <3>5 DEF HistoryInv
  <2>10. CASE c < m
    <3>1. Start = 0 /\ count' = c + 1 /\ h = c /\ c = n - 1
      BY <2>1, <2>3, <2>5, <2>10 DEF Start
    <3>2. Start' = 0 /\ (c + 1 < m => head' = c + 1)
      BY <2>1, <2>6, <3>1 DEF Start, At
    <3>3. \A k \in 0 .. c : At(m, 0, k) = k
      BY <2>10 DEF At
    <3>4. \A k \in 0 .. c - 1 : slots'[k] = lp[k + 1]
      <4>1. ASSUME NEW k \in 0 .. c - 1 PROVE slots'[k] = lp[k + 1]
        <5>1. slots[k] = lp[(n - 1) - c + k + 1] /\ (n - 1) - c + k + 1 = k + 1
          BY <2>4, <3>1, <3>3
        <5>2. k \in 0 .. m - 1 /\ k # h
          BY <2>10, <3>1
        <5> QED
          BY <2>7, <5>1, <5>2
      <4> QED
        BY <4>1
    <3>5. \A k \in 0 .. c : slots'[At(m, 0, k)] = lp[k + 1]
      BY <2>7, <3>1, <3>3, <3>4
    <3>6. \A k \in 0 .. count' - 1 : slots'[At(m, Start', k)] = lp[n - count' + k + 1]
      BY <3>1, <3>2, <3>5
    <3> QED
      BY <2>9, <2>10, <3>1, <3>2, <3>6
  <2>11. CASE c = m
    <3>1. Start = h /\ count' = m /\ Start' = At(m, h, 1)
      BY <2>1, <2>5, <2>6, <2>11 DEF Start
    <3>2. ASSUME NEW k \in 0 .. m - 1
          PROVE  slots'[At(m, At(m, h, 1), k)] = lp[n - m + k + 1]
      <4>1. At(m, At(m, h, 1), k) = At(m, h, k + 1)
        BY AtNext
      <4>2. CASE k < m - 1
        <5>. PICK j \in 1 .. m - 1 : j = k + 1
          BY <4>2
        <5>1. j \in 0 .. m - 1 /\ 0 \in 0 .. m - 1 /\ j \in 0 .. m /\ j = k + 1 /\ j # 0
          OBVIOUS
        <5>2. At(m, h, j) # h
          <6>1. At(m, h, 0) = h
            BY DEF At
          <6> QED
            BY <5>1, <6>1, AtInjective
        <5>3. At(m, h, j) \in 0 .. m - 1
          BY <5>1, ModAt
        <5>4. slots[At(m, h, j)] = lp[(n - 1) - m + j + 1]
          BY <2>4, <2>11, <3>1, <5>1
        <5>5. (n - 1) - m + j + 1 = n - m + k + 1
          BY <5>1
        <5> QED
          BY <2>7, <4>1, <5>1, <5>2, <5>3, <5>4, <5>5
      <4>3. CASE k = m - 1
        <5>1. At(m, h, k + 1) = h /\ n - m + k + 1 = n
          BY <4>3 DEF At
        <5> QED
          BY <2>7, <4>1, <5>1
      <4> QED
        BY <4>2, <4>3
    <3> QED
      BY <2>3, <2>9, <2>11, <3>1, <3>2
  <2> QED
    BY <2>10, <2>11
<1> QED
  BY <1>4, <1>5, DashboardAssumption

\* Whatever is done, the history holds the last flushes.
LEMMA HistorySteps ==
  KeptInv /\ ShownInv /\ HistoryInv /\ [DashboardNext]_dashboardVars => HistoryInv'
<1> SUFFICES ASSUME KeptInv, ShownInv, HistoryInv, [DashboardNext]_dashboardVars PROVE HistoryInv'
  OBVIOUS
<1>1. CASE \/ BridgeTick \/ BridgeCancelled \/ BridgeClosed \/ FlushBroadcast
           \/ FlushReset \/ FlushSet \/ BridgeNextRound \/ WsCloseAll \/ UNCHANGED dashboardVars
           \/ \E d \in Device : BridgeReceive(d)
           \/ \E c \in Client : FlushWrite(c)
           \/ \E c \in Client : WsAdd(c) \/ WsGet(c) \/ WsSend(c) \/ WsStuck(c) \/ WsDrop(c) \/ WsRemove(c)
  <2>1. UNCHANGED <<slots, head, count, flushed>>
    BY <1>1 DEF BridgeTick, BridgeCancelled, BridgeClosed, BridgeReceive, FlushBroadcast, FlushReset,
                FlushSet, BridgeNextRound, FlushWrite, WsCloseAll, WsAdd, WsGet, WsSend, WsStuck,
                WsDrop, WsRemove, historyVars, dashboardVars
  <2>2. bridge \in {"broadcast", "write"} <=> bridge' \in {"broadcast", "write"}
    BY <1>1 DEF BridgeTick, BridgeCancelled, BridgeClosed, BridgeReceive, FlushBroadcast, FlushReset,
                FlushSet, BridgeNextRound, FlushWrite, WsCloseAll, WsAdd, WsGet, WsSend, WsStuck,
                WsDrop, WsRemove, dashboardVars, StartFlush
  <2> QED
    BY <2>1, <2>2, HistoryAlike DEF Added
<1> QED
  BY <1>1, StoreKeepsHistory, AddKeepsHistory DEF DashboardNext, Flush

\* The slots, oldest first, are the latest points of the last flushes.
LEMMA HistoryIsLast ==
  ASSUME KeptInv, HistoryInv, bridge = "receive", flushed # <<>>
  PROVE  HistoryPoints = Lasts([i \in DOMAIN flushed |-> LatestPoint(flushed[i])], MaxHistory)
<1>0. \A n, c \in Nat : \A k \in 1 .. c : c <= n => n - c + k \in 1 .. n
  OBVIOUS
<1>. PICK n \in Nat : n = Len(flushed) /\ DOMAIN flushed = 1 .. n
  BY KeptAre DEF KeptInv
<1>. PICK M \in Nat : M = MaxHistory
  BY DashboardAssumption
<1>1. PICK lp : M = MaxHistory /\ lp = [i \in DOMAIN flushed |-> LatestPoint(flushed[i])]
  OBVIOUS
<1>2. DOMAIN lp = 1 .. n /\ \A i \in 1 .. n : lp[i] = LatestPoint(flushed[i])
  BY <1>1
<1>3. PICK S : S = {lp[i] : i \in 1 .. n}
  OBVIOUS
<1>4. lp \in Seq(S) /\ Len(lp) = n
  BY <1>1, <1>2, <1>3
<1>5. PICK hp : hp = HistoryPoints
  OBVIOUS
<1>6. ASSUME NEW c \in Nat, c = count, c <= n, c <= M, c = n \/ c = M,
             \A k \in 1 .. c : hp[k] = lp[n - c + k], DOMAIN hp = 1 .. c, hp = [k \in 1 .. c |-> hp[k]]
      PROVE  hp = Lasts(lp, M)
  <2>1. \A k \in 1 .. c : n - c + k \in 1 .. n /\ hp[k] \in S
    BY <1>0, <1>3, <1>6
  <2>2. hp \in Seq(S) /\ Len(hp) = c
    BY <1>6, <2>1
  <2>3. PICK f \in 1 .. n + 1 : f = n - c + 1
    BY <1>6
  <2>4. /\ SubSeq(lp, f, n) \in Seq(S)
        /\ Len(SubSeq(lp, f, n)) = c
        /\ \A k \in 1 .. c : SubSeq(lp, f, n)[k] = lp[f + k - 1]
    <3>1. \A i \in f .. n : lp[i] \in S
      BY <1>3
    <3>2. n - f + 1 = c /\ f \in Int /\ n \in Int
      BY <1>6, <2>3
    <3>3. /\ SubSeq(lp, f, n) \in Seq(S)
          /\ Len(SubSeq(lp, f, n)) = IF f <= n THEN n - f + 1 ELSE 0
          /\ \A i \in 1 .. n - f + 1 : SubSeq(lp, f, n)[i] = lp[f + i - 1]
      BY <3>1, <3>2, SubSeqProperties
    <3>4. f <= n <=> c > 0
      BY <1>6, <2>3
    <3> QED
      BY <3>2, <3>3, <3>4
  <2>5. hp = SubSeq(lp, f, n)
    <3>1. ASSUME NEW k \in 1 .. c PROVE hp[k] = SubSeq(lp, f, n)[k]
      <4>1. f + k - 1 = n - c + k
        BY <1>6, <2>3
      <4>2. hp[k] = lp[n - c + k]
        BY <1>6
      <4>3. SubSeq(lp, f, n)[k] = lp[f + k - 1]
        BY <2>4
      <4> QED
        BY ONLY <4>1, <4>2, <4>3
    <3> QED
      BY <2>2, <2>4, <3>1, SeqEqual
  <2>6. Lasts(lp, M) = SubSeq(lp, IF n > M THEN n - M + 1 ELSE 1, n)
    BY <1>4 DEF Lasts
  <2>7. f = IF n > M THEN n - M + 1 ELSE 1
    <3>1. /\ n > M => c = M
          /\ ~(n > M) => c = n
      BY <1>6
    <3> QED
      BY <2>3, <3>1
  <2> QED
    BY <2>5, <2>6, <2>7
<1>7. CASE M = 0
  <2>1. count = 0 /\ n > 0
    <3>1. n # 0
      BY <1>1, EmptySeq DEF KeptInv, KeptTypes
    <3> QED
      BY <1>1, <1>7, <3>1 DEF HistoryInv
  <2>2. hp = [k \in 1 .. 0 |-> hp[k]] /\ DOMAIN hp = 1 .. 0
    BY <1>5, <2>1, Zenon DEF HistoryPoints
  <2>3. 0 \in Nat /\ \A k \in 1 .. 0 : FALSE
    OBVIOUS
  <2> QED
    BY <1>1, <1>5, <1>6, <1>7, <2>1, <2>2, <2>3
<1>8. CASE M > 0
  <2>. PICK c \in 0 .. M, s \in 0 .. M - 1 : c = count /\ s = Start
    BY <1>1, <1>8 DEF HistoryInv, Start
  <2>1. c = count /\ s = Start /\ c <= n /\ (c < M => c = n)
    BY <1>1, <1>8 DEF HistoryInv, Added
  <2>2. \A k \in 0 .. c - 1 : slots[At(M, s, k)] = LatestPoint(flushed[n - c + k + 1])
    BY <1>1, <1>8, <2>1 DEF HistoryInv, Added
  <2>3. hp = [i \in 1 .. c |-> slots[(s + i - 1) % M]]
    BY <1>1, <1>5, <2>1 DEF HistoryPoints, Start
  <2>4. ASSUME NEW k \in 1 .. c
        PROVE  hp[k] = lp[n - c + k]
    <3>. PICK j \in 0 .. c - 1 : j = k - 1
      OBVIOUS
    <3>1. (s + j) % M = At(M, s, j)
      <4>1. M \in Nat \ {0} /\ j \in 0 .. M
        BY <1>8
      <4> QED
        BY <4>1, ModAt
    <3>2. s + k - 1 = s + j /\ n - c + j + 1 = n - c + k
      OBVIOUS
    <3>3. hp[k] = slots[At(M, s, j)]
      BY <2>3, <3>1, <3>2
    <3>4. n - c + k \in 1 .. n
      BY <1>0, <2>1
    <3> QED
      BY <1>2, <2>2, <3>2, <3>3, <3>4
  <2>5. DOMAIN hp = 1 .. c /\ hp = [k \in 1 .. c |-> hp[k]] /\ c \in Nat
    BY <2>3
  <2>6. c <= M /\ (c = n \/ c = M)
    BY <2>1
  <2> QED
    BY <1>1, <1>5, <1>6, <2>1, <2>4, <2>5, <2>6
<1> QED
  BY <1>7, <1>8

\* What is shown and what the history holds mean that all views agree.
LEMMA ShownMeans == KeptInv /\ ShownInv /\ HistoryInv => ViewsAgree
BY HistoryIsLast DEF ShownInv, ViewsAgree

-----------------------------------------------------------------------------
(* Sums of sequences *)

\* P adds up s.
AddsUp(P, s) == P = [i \in 0 .. Len(s) |-> IF i = 0 THEN 0 ELSE P[i - 1] + s[i]]

\* What SSum chooses, when there is something to choose.
LEMMA SumIs ==
  ASSUME NEW s, NEW Q, AddsUp(Q, s)
  PROVE  \E P : AddsUp(P, s) /\ SSum(s) = P[Len(s)]
<1>. DEFINE C == CHOOSE P : P = [i \in 0 .. Len(s) |-> IF i = 0 THEN 0 ELSE P[i - 1] + s[i]]
<1>1. C = [i \in 0 .. Len(s) |-> IF i = 0 THEN 0 ELSE C[i - 1] + s[i]]
  BY DEF AddsUp
<1>2. SSum(s) = C[Len(s)]
  BY DEF SSum
<1>3. AddsUp(C, s)
  BY <1>1 DEF AddsUp
<1> QED
  BY <1>2, <1>3

\* P adds up the first m elements of s.
Partial(P, s, m) ==
  /\ P \in [0 .. m -> Int] /\ P[0] = 0
  /\ \A i \in 1 .. m : P[i] = P[i - 1] + s[i]

\* There is always one: the shortest beginning without one would be one longer
\* than a beginning with one.
LEMMA PartialExists ==
  ASSUME NEW n \in Nat, NEW s, \A i \in 1 .. n : s[i] \in Int
  PROVE  \E P : Partial(P, s, n)
<1> SUFFICES ASSUME ~ \E P : Partial(P, s, n) PROVE FALSE
  OBVIOUS
<1>1. PICK T : T = {m \in 0 .. n : ~ \E P : Partial(P, s, m)}
  OBVIOUS
<1>2. T \in SUBSET Nat /\ n \in T
  BY <1>1
<1>3. PICK m \in T : \A k \in T : m <= k
  BY <1>2, LeastElement
<1>4. m \in 0 .. n /\ ~ \E P : Partial(P, s, m)
  BY <1>1, <1>3
<1>5. CASE m = 0
  <2>1. PICK P : P = [i \in 0 .. 0 |-> 0]
    OBVIOUS
  <2>2. Partial(P, s, 0)
    BY <2>1 DEF Partial
  <2> QED
    BY <1>4, <1>5, <2>2
<1>6. CASE m # 0
  <2>1. m - 1 \in 0 .. n /\ m \in 1 .. n /\ ~ (m <= m - 1)
    BY <1>4, <1>6
  <2>2. PICK P : Partial(P, s, m - 1)
    BY <1>1, <1>3, <2>1
  <2>3. PICK Q : Q = [i \in 0 .. m |-> IF i = m THEN P[m - 1] + s[m] ELSE P[i]]
    OBVIOUS
  <2>4. \A i \in 0 .. m : i # m => i \in 0 .. m - 1 /\ Q[i] = P[i] /\ P[i] \in Int
    BY <2>1, <2>2, <2>3 DEF Partial
  <2>5. Q[m] = P[m - 1] + s[m] /\ m - 1 \in 0 .. m /\ m - 1 # m
    BY <2>1, <2>3
  <2>6. Q[m] = Q[m - 1] + s[m] /\ Q[m] \in Int
    BY <2>1, <2>4, <2>5
  <2>7. Q \in [0 .. m -> Int]
    BY <2>3, <2>4, <2>6
  <2>8. \A i \in 1 .. m : Q[i] = Q[i - 1] + s[i]
    <3>1. ASSUME NEW i \in 1 .. m, i # m PROVE Q[i] = Q[i - 1] + s[i]
      <4>1. i \in 0 .. m /\ i - 1 \in 0 .. m /\ i - 1 # m /\ i \in 1 .. m - 1
        BY <2>1, <3>1
      <4> QED
        BY <2>2, <2>4, <3>1, <4>1 DEF Partial
    <3> QED
      BY <2>6, <3>1
  <2>9. Q[0] = 0
    <3>1. 0 \in 0 .. m /\ 0 # m
      BY <2>1
    <3> QED
      BY <2>2, <2>4, <3>1 DEF Partial
  <2>10. Partial(Q, s, m)
    BY <2>7, <2>8, <2>9 DEF Partial
  <2> QED
    BY <1>4, <2>10
<1> QED
  BY <1>5, <1>6

\* Two that add up the same sequence are the same.
LEMMA PartialUnique ==
  ASSUME NEW n \in Nat, NEW s, NEW P, NEW Q, Partial(P, s, n), Q[0] = 0,
         \A i \in 1 .. n : Q[i] = Q[i - 1] + s[i]
  PROVE  \A i \in 0 .. n : Q[i] = P[i]
<1>1. PICK T : T = {m \in 0 .. n : Q[m] # P[m]}
  OBVIOUS
<1>2. T \in SUBSET Nat
  BY <1>1
<1> SUFFICES ASSUME T # {} PROVE FALSE
  BY <1>1
<1>3. PICK m \in T : \A k \in T : m <= k
  BY <1>2, LeastElement
<1>4. m \in 1 .. n /\ m - 1 \in 0 .. n /\ ~ (m <= m - 1) /\ Q[m] # P[m]
  BY <1>1, <1>3 DEF Partial
<1>5. Q[m - 1] = P[m - 1]
  BY <1>1, <1>3, <1>4
<1> QED
  BY <1>4, <1>5 DEF Partial

\* SSum is what adding up gives.
LEMMA SumAddsUp ==
  ASSUME NEW n \in Nat, NEW s, n = Len(s), \A i \in 1 .. n : s[i] \in Int,
         NEW P, Partial(P, s, n)
  PROVE  SSum(s) = P[n]
<1>1. AddsUp(P, s)
  <2>1. PICK R : R = [i \in 0 .. n |-> IF i = 0 THEN 0 ELSE P[i - 1] + s[i]]
    OBVIOUS
  <2>2. \A i \in 0 .. n : R[i] = P[i]
    BY <2>1 DEF Partial
  <2>3. P = R
    BY <2>1, <2>2 DEF Partial
  <2> QED
    BY <2>1, <2>3 DEF AddsUp
<1>2. PICK Q : AddsUp(Q, s) /\ SSum(s) = Q[Len(s)]
  BY <1>1, SumIs
<1>3. /\ Q[0] = 0
      /\ \A i \in 1 .. n : Q[i] = Q[i - 1] + s[i]
  <2>1. PICK R : R = [i \in 0 .. n |-> IF i = 0 THEN 0 ELSE Q[i - 1] + s[i]]
    OBVIOUS
  <2>2. Q = R
    BY <1>2, <2>1 DEF AddsUp
  <2>3. R[0] = 0 /\ \A i \in 1 .. n : R[i] = Q[i - 1] + s[i]
    BY <2>1
  <2> QED
    BY ONLY <2>2, <2>3
<1>4. Q[n] = P[n]
  <2>1. n \in 0 .. n
    OBVIOUS
  <2> QED
    BY <1>3, <2>1, PartialUnique
<1> QED
  BY <1>2, <1>4

\* Multiplying an inequality by a number that is not negative.
LEMMA TimesKeeps ==
  ASSUME NEW m \in Nat, NEW a \in Int, NEW b \in Int, a <= b
  PROVE  m * a <= m * b
<1>1. m * (b - a) >= 0
  <2>1. PICK d \in Nat : d = b - a
    OBVIOUS
  <2>2. m * d >= 0
    OBVIOUS
  <2> QED
    BY <2>1, <2>2
<1>2. m * (b - a) = m * b - m * a
  OBVIOUS
<1>3. m * a \in Int /\ m * b \in Int
  OBVIOUS
<1> QED
  BY <1>1, <1>2, <1>3

\* One more reading that is no hotter than the last.
LEMMA FallingStep ==
  ASSUME NEW m \in Nat \ {0}, NEW a \in Int, NEW b \in Int, b <= a,
         NEW V \in Int, NEW XV \in Int, m * a <= V, 2 * XV <= (m - 1) * V
  PROVE  (m + 1) * b <= V + b /\ 2 * (XV + m * b) <= m * (V + b)
<1>1. PICK p \in Int, q \in Int, r \in Int : p = m * a /\ q = m * b /\ r = m * V
  OBVIOUS
<1>2. q <= p
  BY <1>1, TimesKeeps
<1>3. (m + 1) * b = q + b /\ (m - 1) * V = r - V /\ m * (V + b) = r + q
  BY <1>1
<1> QED
  BY <1>1, <1>2, <1>3

\* The sums of readings that never rise.
LEMMA FallingSums ==
  ASSUME NEW n \in Nat \ {0}, NEW v, \A i \in 1 .. n : v[i] \in Int,
         \A i \in 2 .. n : v[i] <= v[i - 1],
         NEW V, Partial(V, v, n),
         NEW XV, Partial(XV, [i \in 1 .. n |-> (i - 1) * v[i]], n)
  PROVE  2 * XV[n] <= (n - 1) * V[n]
<1>. DEFINE Good(m) == m * v[m] <= V[m] /\ 2 * XV[m] <= (m - 1) * V[m]
<1>1. \A m \in 0 .. n : V[m] \in Int /\ XV[m] \in Int
  BY DEF Partial
<1>2. ASSUME NEW m \in 1 .. n
      PROVE  V[m] = V[m - 1] + v[m] /\ XV[m] = XV[m - 1] + (m - 1) * v[m]
  <2>1. PICK w : w = [i \in 1 .. n |-> (i - 1) * v[i]]
    OBVIOUS
  <2>2. XV[m] = XV[m - 1] + w[m] /\ w[m] = (m - 1) * v[m]
    BY <2>1 DEF Partial
  <2> QED
    BY <2>2 DEF Partial
<1>3. PICK T : T = {m \in 1 .. n : ~ Good(m)}
  OBVIOUS
<1>4. T \in SUBSET Nat
  BY <1>3
<1> SUFFICES ASSUME T # {} PROVE FALSE
  <2>1. n \in 1 .. n
    OBVIOUS
  <2> QED
    BY <1>3, <2>1
<1>5. PICK m \in T : \A k \in T : m <= k
  BY <1>4, LeastElement
<1>6. m \in 1 .. n /\ ~ Good(m)
  BY <1>3, <1>5
<1>7. CASE m = 1
  <2>1. V[1] = V[0] + v[1] /\ XV[1] = XV[0] + 0 * v[1] /\ V[0] = 0 /\ XV[0] = 0 /\ v[1] \in Int
    BY <1>2, <1>6, <1>7 DEF Partial
  <2>2. V[1] = v[1] /\ XV[1] = 0
    BY <2>1
  <2>3. 1 * v[1] = v[1] /\ 0 * V[1] = 0
    BY <2>1, <2>2
  <2> QED
    BY <1>6, <1>7, <2>1, <2>2, <2>3
<1>8. CASE m # 1
  <2>1. PICK k \in 1 .. n : k = m - 1 /\ k \in Nat \ {0} /\ m = k + 1 /\ m \in 2 .. n
    BY <1>6, <1>8
  <2>2. Good(k)
    BY <1>3, <1>5, <2>1
  <2>3. /\ v[k] \in Int /\ v[m] \in Int /\ V[k] \in Int /\ XV[k] \in Int
        /\ v[m] <= v[k]
    BY <1>1, <2>1
  <2>4. V[m] = V[k] + v[m] /\ XV[m] = XV[k] + k * v[m]
    BY <1>2, <1>6, <2>1
  <2>5. (k + 1) * v[m] <= V[k] + v[m] /\ 2 * (XV[k] + k * v[m]) <= k * (V[k] + v[m])
    BY <2>1, <2>2, <2>3, FallingStep
  <2> QED
    BY <1>6, <2>1, <2>4, <2>5
<1> QED
  BY <1>7, <1>8

\* The sums of the times themselves.
LEMMA TimeSums ==
  ASSUME NEW n \in Nat \ {0},
         NEW X, Partial(X, [i \in 1 .. n |-> i - 1], n),
         NEW XX, Partial(XX, [i \in 1 .. n |-> (i - 1) * (i - 1)], n)
  PROVE  2 * X[n] = n * (n - 1) /\ (n - 1) * X[n] <= 2 * XX[n]
<1>. DEFINE Good(m) == 2 * X[m] = m * (m - 1) /\ (m - 1) * X[m] <= 2 * XX[m]
<1>1. \A m \in 0 .. n : X[m] \in Int /\ XX[m] \in Int
  BY DEF Partial
<1>2. ASSUME NEW m \in 1 .. n
      PROVE  X[m] = X[m - 1] + (m - 1) /\ XX[m] = XX[m - 1] + (m - 1) * (m - 1)
  <2>1. PICK w, z : w = [i \in 1 .. n |-> i - 1] /\ z = [i \in 1 .. n |-> (i - 1) * (i - 1)]
    OBVIOUS
  <2>2. X[m] = X[m - 1] + w[m] /\ w[m] = m - 1
    BY <2>1 DEF Partial
  <2>3. XX[m] = XX[m - 1] + z[m] /\ z[m] = (m - 1) * (m - 1)
    BY <2>1 DEF Partial
  <2> QED
    BY <2>2, <2>3
<1>3. PICK T : T = {m \in 1 .. n : ~ Good(m)}
  OBVIOUS
<1>4. T \in SUBSET Nat
  BY <1>3
<1> SUFFICES ASSUME T # {} PROVE FALSE
  <2>1. n \in 1 .. n
    OBVIOUS
  <2> QED
    BY <1>3, <2>1
<1>5. PICK m \in T : \A k \in T : m <= k
  BY <1>4, LeastElement
<1>6. m \in 1 .. n /\ ~ Good(m)
  BY <1>3, <1>5
<1>7. CASE m = 1
  <2>1. X[1] = 0 /\ XX[1] = 0
    BY <1>2, <1>6, <1>7 DEF Partial
  <2> QED
    BY <1>6, <1>7, <2>1
<1>8. CASE m # 1
  <2>1. PICK k \in 1 .. n : k = m - 1 /\ k \in Nat \ {0} /\ m = k + 1
    BY <1>6, <1>8
  <2>2. Good(k)
    BY <1>3, <1>5, <2>1
  <2>3. PICK x \in Int, y \in Int : x = X[k] /\ y = XX[k]
    <3>1. X[k] \in Int /\ XX[k] \in Int
      BY <1>1, <2>1
    <3> QED
      BY <3>1
  <2>4. X[m] = x + k /\ XX[m] = y + k * k
    BY <1>2, <1>6, <2>1, <2>3
  <2>5. PICK p \in Int, q \in Int : p = k * k /\ q = k * x
    OBVIOUS
  <2>6. k * (k - 1) = p - k /\ (k - 1) * x = q - x /\ (k + 1) * k = p + k /\ k * (x + k) = q + p
    BY <2>3, <2>5
  <2>7. 2 * x = p - k /\ q - x <= 2 * y
    BY <2>2, <2>3, <2>6
  <2>8. p >= 0
    BY <2>5
  <2>9. 2 * (x + k) = (k + 1) * k /\ k * (x + k) <= 2 * (y + k * k)
    BY <2>5, <2>6, <2>7, <2>8
  <2> QED
    BY <1>6, <2>1, <2>4, <2>9
<1> QED
  BY <1>7, <1>8

-----------------------------------------------------------------------------
(* The slope *)

\* Least squares over readings that never rise gives no rise.
LEMMA FallingSlope ==
  ASSUME NEW n \in Nat \ {0}, NEW x \in Int, NEW y \in Int, NEW v \in Int, NEW w \in Int,
         2 * x = n * (n - 1), (n - 1) * x <= 2 * y, 2 * w <= (n - 1) * v
  PROVE  n * w - x * v <= 0 /\ 0 <= n * y - x * x
<1>1. PICK a \in Int, b \in Int : a = (n - 1) * x /\ b = (n - 1) * v
  OBVIOUS
<1>2. n * a <= n * (2 * y) /\ n * (2 * w) <= n * b
  BY <1>1, TimesKeeps
<1>3. n * a = 2 * (x * x)
  <2>1. n * a = (n * (n - 1)) * x
    BY <1>1
  <2>2. (2 * x) * x = 2 * (x * x)
    OBVIOUS
  <2> QED
    BY <2>1, <2>2
<1>4. n * b = 2 * (x * v)
  <2>1. n * b = (n * (n - 1)) * v
    BY <1>1
  <2>2. (2 * x) * v = 2 * (x * v)
    OBVIOUS
  <2> QED
    BY <2>1, <2>2
<1>5. n * (2 * y) = 2 * (n * y) /\ n * (2 * w) = 2 * (n * w)
  OBVIOUS
<1>6. /\ n * y \in Int /\ n * w \in Int /\ x * x \in Int /\ x * v \in Int
  OBVIOUS
<1> QED
  BY <1>2, <1>3, <1>4, <1>5, <1>6

\* A time to the limit is told only of a device one of whose readings is hotter
\* than the one before.
LEMMA HotspotRises ==
  ASSUME ScoringAssumption, NEW rb, NEW t, NEW spec, ComputeTimeToHotspot(rb, t, spec) # Absent,
         rb.len \in 0 .. ThermalCap, \A i \in 1 .. ThermalCap : RingValues(rb)[i] \in Int
  PROVE  /\ rb.len = ThermalCap
         /\ \E i \in 2 .. ThermalCap : RingValues(rb)[i] > RingValues(rb)[i - 1]
<1>. PICK n \in Nat \ {0} : n = ThermalCap
  BY DEF ScoringAssumption
<1>. PICK v : v = RingValues(rb)
  OBVIOUS
<1>. DEFINE x  == [i \in 1 .. n |-> i - 1]
            xx == [i \in 1 .. n |-> (i - 1) * (i - 1)]
            xy == [i \in 1 .. n |-> (i - 1) * v[i]]
            denom == n * SSum(xx) - SSum(x) * SSum(x)
            slope == n * SSum(xy) - SSum(x) * SSum(v)
<1>1. ~ (rb.len < n) /\ ~ (20 * slope <= denom)
  BY DEF ComputeTimeToHotspot
<1>2. \A i \in 1 .. n : v[i] \in Int
  OBVIOUS
<1> SUFFICES ASSUME rb.len = n, ~ \E i \in 2 .. n : v[i] > v[i - 1] PROVE FALSE
  BY <1>1
<1>3. \A i \in 2 .. n : v[i] <= v[i - 1]
  <2>1. \A i \in 2 .. n : i \in 1 .. n /\ i - 1 \in 1 .. n
    OBVIOUS
  <2> QED
    BY <1>2, <2>1
<1>4. Len(v) = n
  BY DEF RingValues
<1>5. /\ Len(x) = n /\ Len(xx) = n /\ Len(xy) = n
      /\ \A i \in 1 .. n : x[i] \in Int /\ xx[i] \in Int /\ xy[i] \in Int
  BY <1>2
<1>6. PICK X : Partial(X, x, n)
  BY <1>5, PartialExists
<1>7. PICK XX : Partial(XX, xx, n)
  BY <1>5, PartialExists
<1>8. PICK V : Partial(V, v, n)
  BY <1>2, PartialExists
<1>9. PICK XV : Partial(XV, xy, n)
  BY <1>5, PartialExists
<1>10. SSum(x) = X[n] /\ SSum(xx) = XX[n] /\ SSum(v) = V[n] /\ SSum(xy) = XV[n]
  BY <1>2, <1>4, <1>5, <1>6, <1>7, <1>8, <1>9, SumAddsUp
<1>11. 2 * X[n] = n * (n - 1) /\ (n - 1) * X[n] <= 2 * XX[n]
  BY <1>6, <1>7, TimeSums
<1>12. 2 * XV[n] <= (n - 1) * V[n]
  BY <1>2, <1>3, <1>8, <1>9, FallingSums
<1>13. X[n] \in Int /\ XX[n] \in Int /\ V[n] \in Int /\ XV[n] \in Int
  BY <1>6, <1>7, <1>8, <1>9 DEF Partial
<1>14. slope <= 0 /\ 0 <= denom
  BY <1>10, <1>11, <1>12, <1>13, FallingSlope
<1>15. slope \in Int /\ denom \in Int
  <2>1. ASSUME NEW a \in Int, NEW b \in Int, NEW c \in Int, NEW d \in Int
        PROVE  n * a - b * c \in Int /\ n * d - b * b \in Int
    OBVIOUS
  <2>2. slope = n * XV[n] - X[n] * V[n] /\ denom = n * XX[n] - X[n] * X[n]
    BY <1>10, Zenon
  <2> QED
    BY <1>13, <2>1, <2>2, Zenon
<1> QED
  BY <1>1, <1>14, <1>15

-----------------------------------------------------------------------------
(* The steps of the sub-scores *)

\* A hotter reading has no lower square.
LEMMA SquareKeeps ==
  ASSUME NEW a \in Nat, NEW b \in Nat, a <= b
  PROVE  a * a <= b * b
<1>1. a * a <= a * b
  BY TimesKeeps
<1>2. b * a <= b * b
  BY TimesKeeps
<1>3. a * b = b * a /\ a * a \in Int /\ a * b \in Int /\ b * b \in Int
  OBVIOUS
<1> QED
  BY <1>1, <1>2, <1>3

\* The ramp over the last third below the limit.
LEMMA RampKeeps ==
  ASSUME NEW lim \in Nat, lim = 105 \/ lim = 90, NEW s \in Nat, NEW t \in Nat, s <= t
  PROVE  ThermalRamp(s, lim) \in Nat /\ ThermalRamp(s, lim) <= ThermalRamp(t, lim)
<1>. DEFINE X(r) == (100 * (10 * r - 7 * lim)) \div (3 * lim)
<1>1. ASSUME NEW r \in Nat, ~ (10 * r < 7 * lim)
      PROVE  X(r) \in Nat
  BY <1>1
<1>2. ASSUME ~ (10 * s < 7 * lim)
      PROVE  X(s) <= X(t)
  BY <1>2
<1>3. ASSUME NEW a \in Nat, NEW b \in Nat, a <= b
      PROVE  (a * a) \div 10 <= (b * b) \div 10
  <2>1. PICK p \in Nat, q \in Nat : p = a * a /\ q = b * b /\ p <= q
    BY <1>3, SquareKeeps
  <2>2. p \div 10 <= q \div 10
    BY <2>1
  <2> QED
    BY <2>1, <2>2
<1>4. ASSUME NEW a \in Nat PROVE (a * a) \div 10 \in Nat
  <2>1. PICK p \in Nat : p = a * a
    OBVIOUS
  <2>2. p \div 10 \in Nat
    OBVIOUS
  <2> QED
    BY <2>1, <2>2
<1>5. \A r \in Nat : ThermalRamp(r, lim) = IF 10 * r < 7 * lim THEN 0 ELSE (X(r) * X(r)) \div 10
  BY DEF ThermalRamp
<1>. HIDE DEF X
<1>6. CASE 10 * s < 7 * lim
  BY <1>1, <1>4, <1>5, <1>6
<1>7. CASE ~ (10 * s < 7 * lim)
  <2>1. ~ (10 * t < 7 * lim)
    BY <1>7
  <2> QED
    BY <1>1, <1>2, <1>3, <1>4, <1>5, <1>7, <2>1
<1> QED
  BY <1>6, <1>7

\* The power score.
LEMMA PowerKeeps ==
  ASSUME NEW spec \in GPUSpecs, NEW s \in Nat, NEW t \in Nat, s <= t, NEW util \in Nat
  PROVE  ComputePower(s, util, spec) <= ComputePower(t, util, spec)
<1>1. CASE spec.tdp = 55
  BY <1>1 DEF ComputePower, SMin, SMax
<1>2. CASE spec.tdp = 300
  BY <1>2 DEF ComputePower, SMin, SMax
<1> QED
  BY <1>1, <1>2 DEF GPUSpecs

\* The memory score.
LEMMA MemoryKeeps ==
  ASSUME NEW spec \in GPUSpecs, NEW s \in Nat, NEW t \in Nat, s <= t
  PROVE  ComputeMemory(s, spec) <= ComputeMemory(t, spec)
BY DEF ComputeMemory, SMin

\* The penalty for a rise.
LEMMA PenaltyKeeps ==
  ASSUME NEW s \in Int, NEW t \in Int, s <= t
  PROVE  RocPenalty(s) \in Nat /\ RocPenalty(s) <= RocPenalty(t)
BY DEF RocPenalty

\* What the pressure asks at least.
LEMMA FloorIs ==
  ASSUME NEW spec \in GPUSpecs, NEW load \in Loads
  PROVE  AppleFloor(spec, load.pressure) \in Nat
BY DEF AppleFloor, GPUSpecs, Loads

\* The scores beside the thermal one are whole tenths.
LEMMA SidesAre ==
  ASSUME NEW spec \in GPUSpecs, NEW load \in Loads
  PROVE  /\ ComputePower(load.power, load.util, spec) \in Int
         /\ ComputeMemory(load.mem, spec) \in Int
<1>1. ComputePower(load.power, load.util, spec) \in Int
  <2>1. CASE spec.tdp = 55
    BY <2>1 DEF ComputePower, SMin, SMax, Loads
  <2>2. CASE spec.tdp = 300
    BY <2>2 DEF ComputePower, SMin, SMax, Loads
  <2> QED
    BY <2>1, <2>2 DEF GPUSpecs
<1>2. ComputeMemory(load.mem, spec) \in Int
  BY DEF ComputeMemory, SMin, Loads
<1> QED
  BY <1>1, <1>2

-----------------------------------------------------------------------------
(* The volatility score *)

\* Numbers that are not negative have a sum that is not.
LEMMA SumNat ==
  ASSUME NEW n \in Nat, NEW s, n = Len(s), \A i \in 1 .. n : s[i] \in Nat
  PROVE  SSum(s) \in Nat
<1>0. \A i \in 1 .. n : s[i] \in Int
  OBVIOUS
<1>1. PICK P : Partial(P, s, n)
  BY <1>0, PartialExists
<1>2. SSum(s) = P[n]
  BY <1>0, <1>1, SumAddsUp
<1>3. PICK T : T = {m \in 0 .. n : P[m] < 0}
  OBVIOUS
<1>4. T \in SUBSET Nat
  BY <1>3
<1>5. T = {}
  <2> SUFFICES ASSUME T # {} PROVE FALSE
    OBVIOUS
  <2>1. PICK m \in T : \A k \in T : m <= k
    BY <1>4, LeastElement
  <2>2. m \in 1 .. n /\ m - 1 \in 0 .. n /\ ~ (m <= m - 1) /\ P[m] < 0
    BY <1>1, <1>3, <2>1 DEF Partial
  <2>3. ~ (P[m - 1] < 0)
    BY <1>3, <2>1, <2>2
  <2>4. P[m - 1] \in Int /\ P[m] = P[m - 1] + s[m] /\ s[m] \in Nat
    BY <1>1, <2>2 DEF Partial
  <2> QED
    BY <2>2, <2>3, <2>4
<1>6. n \in 0 .. n /\ P[n] \in Int
  BY <1>1 DEF Partial
<1>7. ~ (P[n] < 0)
  BY <1>3, <1>5, <1>6
<1> QED
  BY <1>2, <1>6, <1>7

\* A natural number has a whole square root.
LEMMA RootIs ==
  ASSUME NEW n \in Nat
  PROVE  Root(n) \in Nat
<1>1. PICK T : T = {k \in Nat : (k + 1) * (k + 1) > n}
  OBVIOUS
<1>2. (n + 1) * (n + 1) > n
  <2>1. 1 <= n + 1 /\ n + 1 \in Nat
    OBVIOUS
  <2>2. (n + 1) * 1 <= (n + 1) * (n + 1)
    BY <2>1, TimesKeeps
  <2>3. PICK q \in Int : q = (n + 1) * (n + 1)
    OBVIOUS
  <2> QED
    BY <2>2, <2>3
<1>3. T \in SUBSET Nat /\ n \in T
  BY <1>1, <1>2
<1>4. PICK m \in T : \A k \in T : m <= k
  BY <1>3, LeastElement
<1>5. m \in 0 .. n /\ (m + 1) * (m + 1) > n
  BY <1>1, <1>3, <1>4
<1>6. m * m <= n
  <2>1. CASE m = 0
    <3>1. m * m = 0
      BY <2>1
    <3> QED
      BY <3>1
  <2>2. CASE m # 0
    <3>1. PICK k \in Nat : k = m - 1 /\ ~ (m <= k) /\ k + 1 = m
      BY <1>5, <2>2
    <3>2. ~ ((k + 1) * (k + 1) > n)
      BY <1>1, <1>4, <3>1
    <3>3. ~ (m * m > n)
      BY ONLY <3>1, <3>2
    <3>4. PICK q \in Int : q = m * m
      BY <1>5
    <3> QED
      BY <3>3, <3>4
  <2> QED
    BY <2>1, <2>2
<1>7. \E r \in 0 .. n : r * r <= n /\ (r + 1) * (r + 1) > n
  BY <1>5, <1>6
<1>8. Root(n) \in 0 .. n
  BY <1>7 DEF Root
<1> QED
  BY <1>8

\* A natural number by a positive one.
LEMMA QuotientIs ==
  ASSUME NEW a \in Nat, NEW b \in Nat \ {0}
  PROVE  a \div b \in Nat
OBVIOUS

\* A product of natural numbers.
LEMMA ProductIs ==
  ASSUME NEW a \in Nat, NEW b \in Nat
  PROVE  /\ a * b \in Nat
         /\ a # 0 /\ b # 0 => a * b # 0
<1>1. a * b \in Nat
  OBVIOUS
<1>2. ASSUME a # 0, b # 0 PROVE a * b # 0
  <2>1. a * 1 <= a * b
    <3>1. 1 <= b
      BY <1>2
    <3> QED
      BY <3>1, TimesKeeps
  <2>2. PICK q \in Int : q = a * b
    OBVIOUS
  <2> QED
    BY <1>2, <2>1, <2>2
<1> QED
  BY <1>1, <1>2

\* The spread of the values around their mean has no sign.
LEMMA SquareIs ==
  ASSUME NEW x \in Int
  PROVE  x * x \in Nat
<1>1. CASE x >= 0
  BY <1>1
<1>2. CASE x < 0
  <2>1. PICK y \in Nat : y = 0 - x
    BY <1>2
  <2>2. x * x = y * y
    BY <2>1
  <2>3. y * y \in Nat
    OBVIOUS
  <2> QED
    BY <2>2, <2>3
<1> QED
  BY <1>1, <1>2

-----------------------------------------------------------------------------
(* The rings of the scores *)

\* A ring of c slots holds the last elements of h, oldest first.
Holds(rb, c, h) ==
  /\ rb.cap = c /\ rb.len \in 0 .. c /\ rb.start \in 0 .. c - 1
  /\ rb.data \in [0 .. c - 1 -> Int]
  /\ rb = [data |-> rb.data, cap |-> rb.cap, start |-> rb.start, len |-> rb.len]
  /\ rb.len = SMin(Len(h), c)
  /\ rb.len < c => rb.start = 0
  /\ \A k \in 0 .. rb.len - 1 : rb.data[At(c, rb.start, k)] = h[Len(h) - rb.len + k + 1]

\* A new ring holds nothing.
LEMMA NewHolds ==
  ASSUME NEW c \in Nat \ {0}
  PROVE  Holds(NewRing(c), c, << >>)
BY DEF Holds, NewRing, SMin

\* What is written where.
LEMMA RingAdded ==
  ASSUME NEW rb, NEW x,
         rb = [data |-> rb.data, cap |-> rb.cap, start |-> rb.start, len |-> rb.len]
  PROVE  RingAdd(rb, x) =
           IF rb.len < rb.cap
           THEN [data |-> [rb.data EXCEPT ![rb.len] = x],
                 cap |-> rb.cap, start |-> rb.start, len |-> rb.len + 1]
           ELSE [data |-> [rb.data EXCEPT ![rb.start] = x],
                 cap |-> rb.cap, start |-> (rb.start + 1) % rb.cap, len |-> rb.len]
<1>1. PICK c, d, s, l : rb.len = l /\ rb.cap = c /\ rb.start = s /\ rb.data = d
  OBVIOUS
<1>2. ASSUME NEW e
      PROVE  [rb EXCEPT !.data = e] = [data |-> e, cap |-> c, start |-> s, len |-> l]
  BY <1>1
<1>3. ASSUME NEW e, NEW m
      PROVE  /\ [[data |-> e, cap |-> c, start |-> s, len |-> l] EXCEPT !.len = m]
                   = [data |-> e, cap |-> c, start |-> s, len |-> m]
             /\ [[data |-> e, cap |-> c, start |-> s, len |-> l] EXCEPT !.start = m]
                   = [data |-> e, cap |-> c, start |-> m, len |-> l]
  OBVIOUS
<1>4. CASE l < c
  <2>1. RingAdd(rb, x) = [[rb EXCEPT !.data = [d EXCEPT ![l] = x]] EXCEPT !.len = l + 1]
    BY <1>1, <1>4, Zenon DEF RingAdd
  <2> QED
    BY <1>1, <1>2, <1>3, <1>4, <2>1, Zenon
<1>5. CASE ~ (l < c)
  <2>1. RingAdd(rb, x) = [[rb EXCEPT !.data = [d EXCEPT ![s] = x]] EXCEPT !.start = (s + 1) % c]
    BY <1>1, <1>5, Zenon DEF RingAdd
  <2> QED
    BY <1>1, <1>2, <1>3, <1>5, <2>1, Zenon
<1> QED
  BY <1>1, <1>4, <1>5

\* One more element.
LEMMA AddHolds ==
  ASSUME NEW c \in Nat \ {0}, NEW h \in Seq(Nat), NEW rb, Holds(rb, c, h), NEW x \in Nat
  PROVE  Holds(RingAdd(rb, x), c, Append(h, x))
<1>. PICK n \in Nat : n = Len(h)
  BY LenProperties
<1>. PICK d \in [0 .. c - 1 -> Int], l \in 0 .. c, s \in 0 .. c - 1 :
       d = rb.data /\ l = rb.len /\ s = rb.start
  BY DEF Holds
<1>1. /\ rb = [data |-> d, cap |-> c, start |-> s, len |-> l]
      /\ l = IF n < c THEN n ELSE c
      /\ l < c => s = 0
      /\ \A k \in 0 .. l - 1 : d[At(c, s, k)] = h[n - l + k + 1]
  BY DEF Holds, SMin
<1>2. PICK g : g = Append(h, x)
  OBVIOUS
<1>3. g \in Seq(Nat) /\ Len(g) = n + 1 /\ g[n + 1] = x /\ \A i \in 1 .. n : g[i] = h[i]
  BY <1>2, AppendProperties
<1>4. CASE l < c
  <2>1. l = n /\ s = 0 /\ l \in 0 .. c - 1
    BY <1>1, <1>4
  <2>2. PICK e : e = [d EXCEPT ![l] = x]
    OBVIOUS
  <2>3. e \in [0 .. c - 1 -> Int] /\ e[l] = x /\ \A i \in 0 .. c - 1 : i # l => e[i] = d[i]
    BY <2>1, <2>2
  <2>4. RingAdd(rb, x) = [data |-> e, cap |-> c, start |-> 0, len |-> l + 1]
    <3>1. l < c /\ s = 0 /\ rb = [data |-> d, cap |-> c, start |-> s, len |-> l]
      BY <1>1, <1>4, <2>1
    <3>2. rb.data = d /\ rb.cap = c /\ rb.start = s /\ rb.len = l
      BY <3>1
    <3>3. RingAdd(rb, x) =
            IF rb.len < rb.cap
            THEN [data |-> [rb.data EXCEPT ![rb.len] = x],
                  cap |-> rb.cap, start |-> rb.start, len |-> rb.len + 1]
            ELSE [data |-> [rb.data EXCEPT ![rb.start] = x],
                  cap |-> rb.cap, start |-> (rb.start + 1) % rb.cap, len |-> rb.len]
      BY ONLY <3>1, <3>2, RingAdded
    <3> QED
      BY ONLY <2>2, <3>1, <3>2, <3>3, Zenon
  <2>5. ASSUME NEW k \in 0 .. l PROVE e[At(c, 0, k)] = g[k + 1]
    <3>1. At(c, 0, k) = k /\ k \in 0 .. c - 1
      BY <1>4 DEF At
    <3>2. CASE k = l
      <4>1. e[k] = x /\ k + 1 = n + 1
        BY <2>1, <2>3, <3>2
      <4> QED
        BY <1>3, <3>1, <4>1
    <3>3. CASE k # l
      <4>1. k \in 0 .. l - 1 /\ n - l + k + 1 = k + 1 /\ k + 1 \in 1 .. n
        BY <2>1, <3>3
      <4>2. d[At(c, 0, k)] = h[n - l + k + 1]
        BY <1>1, <2>1, <4>1
      <4>3. e[k] = d[k] /\ g[k + 1] = h[k + 1]
        BY <1>3, <2>3, <3>1, <3>3, <4>1
      <4> QED
        BY <3>1, <4>1, <4>2, <4>3
    <3> QED
      BY ONLY <3>2, <3>3
  <2>6. PICK r : r = [data |-> e, cap |-> c, start |-> 0, len |-> l + 1]
    OBVIOUS
  <2>7. Holds(r, c, g)
    <3>1. /\ r.cap = c /\ r.len = l + 1 /\ r.start = 0 /\ r.data = e
          /\ r = [data |-> r.data, cap |-> r.cap, start |-> r.start, len |-> r.len]
      BY <2>6
    <3>2. l + 1 = SMin(Len(g), c)
      BY <1>3, <1>4, <2>1 DEF SMin
    <3>3. \A k \in 0 .. (l + 1) - 1 : e[At(c, 0, k)] = g[Len(g) - (l + 1) + k + 1]
      <4>1. ASSUME NEW k \in 0 .. (l + 1) - 1
            PROVE  k \in 0 .. l /\ Len(g) - (l + 1) + k + 1 = k + 1
        BY <1>3, <2>1
      <4> QED
        BY <2>5, <4>1
    <3>4. l + 1 \in 0 .. c /\ 0 \in 0 .. c - 1
      BY <1>4
    <3> QED
      BY <2>3, <3>1, <3>2, <3>3, <3>4 DEF Holds
  <2> QED
    BY <1>2, <2>4, <2>6, <2>7
<1>5. CASE l = c
  <2>1. n >= c
    BY <1>1, <1>5
  <2>2. PICK e : e = [d EXCEPT ![s] = x]
    OBVIOUS
  <2>3. e \in [0 .. c - 1 -> Int] /\ e[s] = x /\ \A i \in 0 .. c - 1 : i # s => e[i] = d[i]
    BY <2>2
  <2>4. PICK u \in 0 .. c - 1 : u = At(c, s, 1) /\ u = (s + 1) % c
    <3>1. 1 \in 0 .. c
      OBVIOUS
    <3> QED
      BY <3>1, ModAt
  <2>5. RingAdd(rb, x) = [data |-> e, cap |-> c, start |-> u, len |-> c]
    <3>1. ~ (l < c) /\ rb = [data |-> d, cap |-> c, start |-> s, len |-> l]
      BY <1>1, <1>5
    <3>2. rb.data = d /\ rb.cap = c /\ rb.start = s /\ rb.len = l
      BY <3>1
    <3>3. RingAdd(rb, x) =
            IF rb.len < rb.cap
            THEN [data |-> [rb.data EXCEPT ![rb.len] = x],
                  cap |-> rb.cap, start |-> rb.start, len |-> rb.len + 1]
            ELSE [data |-> [rb.data EXCEPT ![rb.start] = x],
                  cap |-> rb.cap, start |-> (rb.start + 1) % rb.cap, len |-> rb.len]
      BY ONLY <3>1, <3>2, RingAdded
    <3> QED
      <4>1. e = [d EXCEPT ![s] = x] /\ (s + 1) % c = u /\ l = c
        BY <1>5, <2>2, <2>4
      <4> QED
        BY ONLY <3>1, <3>2, <3>3, <4>1, Zenon
  <2>6. ASSUME NEW k \in 0 .. c - 1 PROVE e[At(c, u, k)] = g[n - c + k + 2]
    <3>1. At(c, u, k) = At(c, s, k + 1)
      BY <2>4, AtNext
    <3>2. CASE k = c - 1
      <4>0. n \in Nat /\ c \in Nat \ {0} /\ s \in 0 .. c - 1 /\ k = c - 1
        BY <3>2
      <4>1. At(c, s, k + 1) = s /\ n - c + k + 2 = n + 1
        BY ONLY <4>0 DEF At
      <4> QED
        BY <1>3, <2>3, <3>1, <4>1
    <3>3. CASE k # c - 1
      <4>5. k \in 0 .. c - 1 /\ k # c - 1 /\ c \in Nat \ {0}
        BY <3>3
      <4>6. k + 1 \in 1 .. c - 1
        BY ONLY <4>5
      <4>. PICK j \in 1 .. c - 1 : j = k + 1
        BY ONLY <4>6, Zenon
      <4>1. At(c, s, j) # s
        <5>1. At(c, s, 0) = s
          BY DEF At
        <5>2. 0 \in 0 .. c - 1 /\ j \in 0 .. c - 1 /\ j # 0
          OBVIOUS
        <5> QED
          BY <5>1, <5>2, AtInjective
      <4>2. At(c, s, j) \in 0 .. c - 1
        <5>1. j \in 0 .. c
          OBVIOUS
        <5> QED
          BY <5>1, ModAt
      <4>3. d[At(c, s, j)] = h[n - c + j + 1]
        BY <1>1, <1>5
      <4>4. n - c + j + 1 \in 1 .. n /\ n - c + j + 1 = n - c + k + 2
        <5>1. j \in Nat /\ j >= 1 /\ j <= c - 1 /\ j = k + 1 /\ c \in Nat /\ n \in Nat /\ n >= c
          BY <2>1
        <5> QED
          BY ONLY <5>1
      <4> QED
        BY <1>3, <2>3, <3>1, <4>1, <4>2, <4>3, <4>4
    <3> QED
      BY <3>2, <3>3
  <2>7. PICK r : r = [data |-> e, cap |-> c, start |-> u, len |-> c]
    OBVIOUS
  <2>8. Holds(r, c, g)
    <3>1. /\ r.cap = c /\ r.len = c /\ r.start = u /\ r.data = e
          /\ r = [data |-> r.data, cap |-> r.cap, start |-> r.start, len |-> r.len]
      BY <2>7
    <3>2. c = SMin(Len(g), c)
      BY <1>3, <2>1 DEF SMin
    <3>3. \A k \in 0 .. c - 1 : e[At(c, u, k)] = g[Len(g) - c + k + 1]
      <4>1. ASSUME NEW k \in 0 .. c - 1
            PROVE  Len(g) - c + k + 1 = n - c + k + 2
        BY <1>3
      <4> QED
        BY <2>6, <4>1
    <3> QED
      BY <2>3, <3>1, <3>2, <3>3 DEF Holds
  <2> QED
    BY <1>2, <2>5, <2>7, <2>8
<1> QED
  BY <1>4, <1>5

\* What a ring holds, in order.
LEMMA HeldValues ==
  ASSUME NEW c \in Nat \ {0}, NEW h \in Seq(Nat), NEW rb, Holds(rb, c, h)
  PROVE  /\ RingValues(rb) = SubSeq(h, SMax(1, Len(h) - c + 1), Len(h))
         /\ Len(RingValues(rb)) = rb.len
         /\ RingValues(rb) \in Seq(Nat)
         /\ \A i \in 1 .. rb.len : RingValues(rb)[i] = h[Len(h) - rb.len + i]
<1>. PICK n \in Nat : n = Len(h)
  BY LenProperties
<1>. PICK d \in [0 .. c - 1 -> Int], l \in 0 .. c, s \in 0 .. c - 1 :
       d = rb.data /\ l = rb.len /\ s = rb.start
  BY DEF Holds
<1>1. /\ rb.cap = c
      /\ l = IF n < c THEN n ELSE c
      /\ \A k \in 0 .. l - 1 : d[At(c, s, k)] = h[n - l + k + 1]
  BY DEF Holds, SMin
<1>2. PICK v : v = RingValues(rb) /\ v = [i \in 1 .. l |-> d[(s + i - 1) % c]]
  BY <1>1 DEF RingValues
<1>3. ASSUME NEW i \in 1 .. l PROVE v[i] = h[n - l + i] /\ n - l + i \in 1 .. n
  <2>. PICK j \in 0 .. l - 1 : j = i - 1
    OBVIOUS
  <2>1. (s + j) % c = At(c, s, j)
    <3>1. j \in 0 .. c
      OBVIOUS
    <3> QED
      BY <3>1, ModAt
  <2>2. s + i - 1 = s + j /\ n - l + j + 1 = n - l + i
    OBVIOUS
  <2>3. n - l + i \in 1 .. n
    BY <1>1
  <2>4. v[i] = d[At(c, s, j)]
    BY <1>2, <2>1, <2>2
  <2> QED
    BY <1>1, <2>2, <2>3, <2>4
<1>4. PICK f \in 1 .. n + 1 : f = n - l + 1 /\ f = SMax(1, n - c + 1)
  <2>0. n \in Nat /\ c \in Nat \ {0} /\ l = IF n < c THEN n ELSE c
    BY <1>1
  <2>1. l \in Nat /\ n - l + 1 \in 1 .. n + 1
    BY ONLY <2>0
  <2>2. n - l + 1 = SMax(1, n - c + 1)
    BY ONLY <2>0 DEF SMax
  <2> QED
    BY <2>1, <2>2
<1>5. \A i \in 1 .. n : h[i] \in Nat
  BY ElementOfSeq
<1>6. v \in Seq(Nat) /\ Len(v) = l
  <2>1. \A i \in 1 .. l : v[i] \in Nat
    BY <1>3, <1>5
  <2>2. v \in [1 .. l -> Nat] /\ l \in Nat
    <3>1. PICK w : w = [i \in 1 .. l |-> d[(s + i - 1) % c]] /\ w = v
      BY <1>2
    <3>2. DOMAIN v = 1 .. l /\ v = [i \in DOMAIN v |-> v[i]]
      BY ONLY <3>1
    <3> QED
      BY ONLY <2>1, <3>2
  <2>3. ASSUME NEW S, NEW m \in Nat, NEW w \in [1 .. m -> S]
        PROVE  w \in Seq(S) /\ Len(w) = m
    BY ONLY <2>3
  <2> QED
    BY <2>1, <2>2, <2>3
<1>7. /\ SubSeq(h, f, n) \in Seq(Nat)
      /\ Len(SubSeq(h, f, n)) = l
      /\ \A k \in 1 .. l : SubSeq(h, f, n)[k] = h[f + k - 1]
  <2>1. \A i \in f .. n : h[i] \in Nat
    BY <1>5
  <2>0. n \in Nat /\ l \in Nat /\ f \in 1 .. n + 1 /\ f = n - l + 1
    BY <1>4
  <2>2. n - f + 1 = l /\ f \in Int /\ n \in Int
    BY ONLY <2>0
  <2>3. /\ SubSeq(h, f, n) \in Seq(Nat)
        /\ Len(SubSeq(h, f, n)) = IF f <= n THEN n - f + 1 ELSE 0
        /\ \A i \in 1 .. n - f + 1 : SubSeq(h, f, n)[i] = h[f + i - 1]
    BY <2>1, <2>2, SubSeqProperties
  <2>4. f <= n <=> l > 0
    BY ONLY <2>0
  <2> QED
    BY <2>2, <2>3, <2>4
<1>8. ASSUME NEW k \in 1 .. l PROVE v[k] = SubSeq(h, f, n)[k]
  <2>0. n \in Nat /\ l \in Nat /\ k \in Nat /\ f = n - l + 1
    BY <1>4
  <2>1. f + k - 1 = n - l + k
    BY ONLY <2>0
  <2> QED
    BY <1>3, <1>7, <2>1
<1>9. v = SubSeq(h, f, n)
  BY <1>6, <1>7, <1>8, SeqEqual
<1> QED
  BY <1>2, <1>3, <1>4, <1>6, <1>9

\* The spread of natural numbers is one.
LEMMA SpreadIs ==
  ASSUME NEW n \in Nat, NEW v, n = Len(v), \A i \in 1 .. n : v[i] \in Nat
  PROVE  /\ SSum(v) \in Nat
         /\ SSum([i \in 1 .. n |-> (n * v[i] - SSum(v)) * (n * v[i] - SSum(v))]) \in Nat
<1>1. SSum(v) \in Nat
  BY SumNat
<1>2. PICK S \in Nat : S = SSum(v)
  BY <1>1
<1>3. PICK d : d = [i \in 1 .. n |-> (n * v[i] - S) * (n * v[i] - S)]
  OBVIOUS
<1>4. ASSUME NEW i \in 1 .. n PROVE d[i] \in Nat
  <2>1. PICK w \in Nat : w = v[i]
    OBVIOUS
  <2>2. PICK x \in Int : x = n * w - S
    <3>1. n * w \in Nat
      BY ProductIs
    <3>2. n * w - S \in Int
      BY ONLY <3>1, S \in Nat
    <3> QED
      BY <3>2
  <2>3. d[i] = x * x
    BY <1>3, <2>1, <2>2
  <2> QED
    BY <2>3, SquareIs
<1>5. Len(d) = n
  BY <1>3
<1>6. SSum(d) \in Nat
  BY <1>4, <1>5, SumNat
<1> QED
  BY <1>1, <1>2, <1>3, <1>6

\* The volatility score is a whole number of tenths.
LEMMA VolatilityIs ==
  ASSUME NEW c \in Nat \ {0}, NEW h \in Seq(Nat), NEW rb, Holds(rb, c, h),
         NEW spec \in GPUSpecs
  PROVE  ComputeVolatility(rb, spec).score \in Int
<1>. DEFINE v == RingValues(rb)
            n == rb.len
            spread == SSum([i \in 1 .. n |-> (n * v[i] - SSum(v)) * (n * v[i] - SSum(v))])
            stdev10 == Root((100 * spread) \div (n * n * (n - 1)))
            ratio == (10000 * stdev10 * n) \div (SSum(v) * spec.cvMax)
<1>1. /\ n \in Nat /\ v \in Seq(Nat) /\ Len(v) = n /\ VolatilityMin \in Nat \ {0, 1}
      /\ spec.cvMax \in Nat \ {0}
  <2>1. v \in Seq(Nat) /\ Len(v) = n
    BY ONLY c \in Nat \ {0}, h \in Seq(Nat), Holds(rb, c, h), HeldValues
  <2>2. n \in Nat
    BY DEF Holds
  <2>3. spec.cvMax \in Nat \ {0}
    BY DEF GPUSpecs
  <2> QED
    BY <2>1, <2>2, <2>3, ScoringAssumption DEF ScoringAssumption
<1>2. \A i \in 1 .. n : v[i] \in Nat
  BY <1>1, ElementOfSeq
<1>3. SSum(v) \in Nat /\ spread \in Nat
  <2>. HIDE DEF v, n
  <2> QED
    BY <1>1, <1>2, SpreadIs
<1>4. \/ ComputeVolatility(rb, spec).score = 0
      \/ /\ ~ (n < VolatilityMin) /\ ~ (SSum(v) < n)
         /\ ComputeVolatility(rb, spec).score = SMin(1000, ratio)
  <2>1. ComputeVolatility(rb, spec) =
          IF n < VolatilityMin THEN [score |-> 0, warming |-> TRUE]
          ELSE IF SSum(v) < n THEN [score |-> 0, warming |-> FALSE]
          ELSE IF spec.cvMax <= 0 THEN [score |-> 0, warming |-> n < VolatilityCap]
          ELSE [score |-> SMin(1000, ratio), warming |-> n < VolatilityCap]
    BY Zenon DEF ComputeVolatility
  <2>. HIDE DEF v, n, ratio
  <2> QED
    BY <2>1
<1>5. ASSUME ~ (n < VolatilityMin), ~ (SSum(v) < n)
      PROVE  ratio \in Nat
  <2>1. PICK m \in Nat \ {0, 1}, S \in Nat \ {0}, M \in Nat \ {0}, p \in Nat :
           m = n /\ S = SSum(v) /\ M = spec.cvMax /\ p = spread
    <3>. HIDE DEF v, n, spread
    <3> QED
      BY <1>1, <1>3, <1>5
  <2>2. PICK a \in Nat \ {0} : a = m * m
    BY ProductIs
  <2>3. PICK k \in Nat \ {0} : k = m - 1
    OBVIOUS
  <2>4. PICK q \in Nat \ {0} : q = a * k
    BY ProductIs
  <2>5. (100 * p) \div q \in Nat
    <3>1. 100 * p \in Nat
      OBVIOUS
    <3> QED
      BY <3>1, QuotientIs
  <2>6. PICK r \in Nat : r = Root((100 * p) \div q)
    BY <2>5, RootIs
  <2>7. r = stdev10
    <3>1. q = m * m * (m - 1)
      BY <2>2, <2>3, <2>4
    <3>. HIDE DEF v, n, spread
    <3> QED
      BY <2>1, <2>6, <3>1
  <2>8. PICK x \in Nat : x = 10000 * r * m
    OBVIOUS
  <2>9. PICK y \in Nat \ {0} : y = S * M
    BY ProductIs
  <2>10. x \div y \in Nat
    BY <2>8, <2>9, QuotientIs
  <2>. HIDE DEF v, n, spread, stdev10
  <2> QED
    BY <2>1, <2>7, <2>8, <2>9, <2>10
<1>. HIDE DEF v, n, ratio
<1> QED
  BY <1>4, <1>5 DEF SMin

\* How far a reading is above the oldest in the ring it was put into.
LEMMA RiseKeeps ==
  ASSUME NEW c \in Nat \ {0}, NEW h \in Seq(Nat), NEW rb, Holds(rb, c, h),
         NEW s \in Nat, NEW t \in Nat, s <= t
  PROVE  /\ RingFull(RingAdd(rb, s)) = RingFull(RingAdd(rb, t))
         /\ s - RingValues(RingAdd(rb, s))[1] \in Int
         /\ t - RingValues(RingAdd(rb, t))[1] \in Int
         /\ s - RingValues(RingAdd(rb, s))[1] <= t - RingValues(RingAdd(rb, t))[1]
<1>. PICK n \in Nat : n = Len(h)
  BY LenProperties
<1>. PICK l \in Nat : l = IF n + 1 < c THEN n + 1 ELSE c
  OBVIOUS
<1>0. l \in 1 .. n + 1 /\ l = SMin(n + 1, c)
  BY DEF SMin
<1>1. ASSUME NEW x \in Nat
      PROVE  /\ RingAdd(rb, x).len = l /\ RingAdd(rb, x).cap = c
             /\ RingValues(RingAdd(rb, x))[1] = IF l = 1 THEN x ELSE h[n + 2 - l]
  <2>. PICK r, g : r = RingAdd(rb, x) /\ g = Append(h, x)
    OBVIOUS
  <2>1. g \in Seq(Nat) /\ Len(g) = n + 1 /\ g[n + 1] = x /\ \A i \in 1 .. n : g[i] = h[i]
    BY AppendProperties
  <2>2. Holds(r, c, g)
    BY AddHolds
  <2>3. r.cap = c /\ r.len = l
    BY <1>0, <2>1, <2>2 DEF Holds
  <2>4. RingValues(r)[1] = g[(n + 1) - l + 1]
    <3>1. 1 \in 1 .. l
      BY <1>0
    <3>2. \A i \in 1 .. r.len : RingValues(r)[i] = g[Len(g) - r.len + i]
      <4>1. c \in Nat \ {0} /\ g \in Seq(Nat)
        BY <2>1
      <4> QED
        BY ONLY <4>1, <2>2, HeldValues
    <3>3. RingValues(r)[1] = g[Len(g) - r.len + 1]
      BY <2>3, <3>1, <3>2
    <3> QED
      BY <2>1, <2>3, <3>3
  <2>5. CASE l = 1
    <3>1. n \in Nat
      OBVIOUS
    <3>2. (n + 1) - l + 1 = n + 1
      BY ONLY <2>5, <3>1
    <3> QED
      BY <2>1, <2>3, <2>4, <2>5, <3>2
  <2>6. CASE l # 1
    <3>1. n + 2 - l \in 1 .. n /\ (n + 1) - l + 1 = n + 2 - l
      BY <1>0, <2>6
    <3> QED
      BY <2>1, <2>3, <2>4, <2>6, <3>1
  <2> QED
    BY <2>5, <2>6
<1>2. RingFull(RingAdd(rb, s)) = RingFull(RingAdd(rb, t))
  BY <1>1 DEF RingFull
<1>3. CASE l = 1
  <2>1. RingValues(RingAdd(rb, s))[1] = s /\ RingValues(RingAdd(rb, t))[1] = t
    BY <1>1, <1>3
  <2>2. s - s \in Int /\ t - t \in Int /\ s - s <= t - t
    OBVIOUS
  <2> QED
    BY <1>2, <2>1, <2>2
<1>4. CASE l # 1
  <2>1. n + 2 - l \in 1 .. n
    BY <1>0, <1>4
  <2>2. h[n + 2 - l] \in Nat
    BY <2>1, ElementOfSeq
  <2>3. PICK v \in Nat : /\ v = RingValues(RingAdd(rb, s))[1]
                         /\ v = RingValues(RingAdd(rb, t))[1]
    BY <1>1, <1>4, <2>2
  <2>4. s - v \in Int /\ t - v \in Int /\ s - v <= t - v
    OBVIOUS
  <2> QED
    BY <1>2, <2>3, <2>4
<1> QED
  BY <1>3, <1>4

\* The thermal score.
LEMMA ThermalKeeps ==
  ASSUME NEW c \in Nat \ {0}, NEW h \in Seq(Nat), NEW rb, Holds(rb, c, h),
         NEW spec \in GPUSpecs, NEW load \in Loads, NEW s \in Nat, NEW t \in Nat, s <= t
  PROVE  LET thS == ComputeThermal(s, RingAdd(rb, s), spec, load.pressure).score
             thT == ComputeThermal(t, RingAdd(rb, t), spec, load.pressure).score
         IN  thS \in Int /\ thT \in Int /\ thS <= thT
<1>. DEFINE Rise(x) == x - RingValues(RingAdd(rb, x))[1]
            Full(x) == RingFull(RingAdd(rb, x))
            P(x) == IF Full(x) THEN RocPenalty(Rise(x)) ELSE 0
            F == AppleFloor(spec, load.pressure)
            R(x) == ThermalRamp(x, spec.limit)
<1>1. spec.limit \in Nat /\ (spec.limit = 105 \/ spec.limit = 90)
  BY DEF GPUSpecs
<1>2. /\ R(s) \in Nat /\ R(t) \in Nat /\ R(s) <= R(t) /\ F \in Nat
      /\ P(s) \in Nat /\ P(t) \in Nat /\ P(s) <= P(t)
  <2>1. R(s) \in Nat /\ R(t) \in Nat /\ R(s) <= R(t)
    <3>1. t <= t
      OBVIOUS
    <3>2. ASSUME NEW lim \in Nat, lim = 105 \/ lim = 90
          PROVE  /\ ThermalRamp(s, lim) \in Nat /\ ThermalRamp(t, lim) \in Nat
                 /\ ThermalRamp(s, lim) <= ThermalRamp(t, lim)
      <4>1. s \in Nat /\ t \in Nat /\ s <= t /\ lim \in Nat /\ (lim = 105 \/ lim = 90)
        BY <3>2
      <4>2. ThermalRamp(s, lim) \in Nat /\ ThermalRamp(s, lim) <= ThermalRamp(t, lim)
        BY ONLY <4>1, RampKeeps
      <4>3. ThermalRamp(t, lim) \in Nat
        BY ONLY <4>1, <3>1, RampKeeps
      <4> QED
        BY <4>2, <4>3
    <3> QED
      BY <1>1, <3>2
  <2>2. P(s) \in Nat /\ P(t) \in Nat /\ P(s) <= P(t)
    <3>1. Full(s) = Full(t) /\ Rise(s) \in Int /\ Rise(t) \in Int /\ Rise(s) <= Rise(t)
      BY RiseKeeps
    <3>. HIDE DEF Full, Rise
    <3>2. RocPenalty(Rise(s)) \in Nat /\ RocPenalty(Rise(s)) <= RocPenalty(Rise(t))
      BY <3>1, PenaltyKeeps
    <3>3. RocPenalty(Rise(t)) \in Nat
      <4>1. Rise(t) <= Rise(t)
        BY <3>1
      <4> QED
        BY <3>1, <4>1, PenaltyKeeps
    <3> QED
      BY <3>1, <3>2, <3>3
  <2> QED
    BY <2>1, <2>2, FloorIs
<1>3. ASSUME NEW x \in Nat, R(x) \in Nat
      PROVE  ComputeThermal(x, RingAdd(rb, x), spec, load.pressure).score
               = SMin(1000, SMax(R(x) + P(x), F))
  <2>1. ~ (spec.limit <= 0)
    BY <1>1
  <2>2. ComputeThermal(x, RingAdd(rb, x), spec, load.pressure)
          = IF ~ Full(x) THEN [score |-> SMin(1000, SMax(R(x), F)), warming |-> TRUE]
            ELSE [score |-> SMin(1000, SMax(R(x) + RocPenalty(Rise(x)), F)), warming |-> FALSE]
    BY <2>1, Zenon DEF ComputeThermal
  <2>3. R(x) + 0 = R(x)
    BY <1>3
  <2>. HIDE DEF Full, Rise, F, R
  <2>4. CASE Full(x)
    BY <2>2, <2>4
  <2>5. CASE ~ Full(x)
    <3>1. P(x) = 0
      BY <2>5
    <3> QED
      BY <2>2, <2>3, <2>5, <3>1
  <2> QED
    BY <2>4, <2>5
<1>. HIDE DEF F, R, P
<1>4. /\ SMin(1000, SMax(R(s) + P(s), F)) \in Int
      /\ SMin(1000, SMax(R(t) + P(t), F)) \in Int
      /\ SMin(1000, SMax(R(s) + P(s), F)) <= SMin(1000, SMax(R(t) + P(t), F))
  BY <1>2 DEF SMin, SMax
<1> QED
  BY <1>2, <1>3, <1>4

\* A composite falls by no more than the fall in volatility weighs.
LEMMA CompositeKeeps ==
  ASSUME NEW thS \in Int, NEW thT \in Int, thS <= thT, NEW volS \in Int, NEW volT \in Int,
         NEW load \in Loads, gpu \in GPUSpecs
  PROVE  RLocal(thS, volS, load) - RLocal(thT, volT, load)
           <= (15 * SMax(0, volS - volT) + 99) \div 100
<1>1. PICK p \in Int, m \in Int : /\ p = ComputePower(load.power, load.util, gpu)
                                  /\ m = ComputeMemory(load.mem, gpu)
  BY SidesAre
<1>2. PICK x \in Int, y \in Int : /\ x = 40 * thS + 25 * p + 15 * volS + 20 * m
                                  /\ y = 40 * thT + 25 * p + 15 * volT + 20 * m
  OBVIOUS
<1>3. PICK f \in Nat : f = SMax(0, volS - volT)
  BY DEF SMax
<1>4. x <= y + 15 * f
  BY <1>2, <1>3 DEF SMax
<1>5. PICK i \in Int, j \in Int, k \in Int :
        i = x \div 100 /\ j = y \div 100 /\ k = (15 * f + 99) \div 100
  BY <1>3
<1>6. i <= j + k /\ k >= 0
  BY <1>3, <1>4, <1>5
<1>7. SMin(1000, i) - SMin(1000, j) <= k
  BY <1>6 DEF SMin
<1>8. /\ RLocal(thS, volS, load) = SMin(1000, i)
      /\ RLocal(thT, volT, load) = SMin(1000, j)
  BY <1>1, <1>2, <1>5 DEF RLocal, ComputeComposite
<1> QED
  BY <1>3, <1>5, <1>7, <1>8

-----------------------------------------------------------------------------
(* The score engine *)

\* Some reading in the full ring is hotter than the one before.
Rises(rb) ==
  /\ rb.len = ThermalCap
  /\ \E i \in 2 .. ThermalCap : RingValues(rb)[i] > RingValues(rb)[i - 1]

ScoringInv ==
  /\ gpu \in GPUSpecs
  /\ temps \in Seq(Nat)
  /\ Holds(thermalRing, ThermalCap, temps)
  /\ Holds(volRing, VolatilityCap, temps)
  /\ risk.hotspot # Absent => Rises(thermalRing)

\* A new device.
LEMMA ScoringStarts == ScoringInit => ScoringInv
<1> SUFFICES ASSUME ScoringInit PROVE ScoringInv
  OBVIOUS
<1>1. ThermalCap \in Nat \ {0} /\ VolatilityCap \in Nat \ {0}
  BY ScoringAssumption
<1>2. Holds(thermalRing, ThermalCap, << >>) /\ Holds(volRing, VolatilityCap, << >>)
  BY <1>1, NewHolds DEF ScoringInit
<1>3. risk.hotspot = Absent
  BY DEF ScoringInit, NoRisk
<1> QED
  BY <1>2, <1>3 DEF ScoringInit, ScoringInv

\* A ring in which some reading is said to be hotter than the one before.
LEMMA HotspotMeans ==
  ASSUME NEW h \in Seq(Nat), NEW rb, Holds(rb, ThermalCap, h), NEW t, NEW spec,
         ComputeTimeToHotspot(rb, t, spec) # Absent
  PROVE  Rises(rb)
<1>1. ThermalCap \in Nat \ {0}
  BY ScoringAssumption
<1>2. rb.len \in 0 .. ThermalCap
  BY DEF Holds
<1>3. CASE rb.len < ThermalCap
  BY <1>3 DEF ComputeTimeToHotspot
<1>4. CASE rb.len = ThermalCap
  <2>1. RingValues(rb) \in Seq(Nat) /\ Len(RingValues(rb)) = ThermalCap
    BY <1>1, <1>4, HeldValues
  <2>2. \A i \in 1 .. ThermalCap : RingValues(rb)[i] \in Int
    <3>1. \A i \in 1 .. ThermalCap : RingValues(rb)[i] \in Nat
      BY <2>1, ElementOfSeq
    <3> QED
      BY <3>1
  <2> QED
    BY <1>2, <2>2, ScoringAssumption, HotspotRises DEF Rises
<1> QED
  BY <1>1, <1>2, <1>3, <1>4

\* One more reading.
LEMMA ScoringSteps == ScoringInv /\ [ScoringNext]_scoringVars => ScoringInv'
<1>0. ThermalCap \in Nat \ {0} /\ VolatilityCap \in Nat \ {0} /\ ScoredTemps \subseteq Nat
  BY ScoringAssumption
<1> SUFFICES ASSUME ScoringInv, [ScoringNext]_scoringVars PROVE ScoringInv'
  OBVIOUS
<1>1. CASE UNCHANGED scoringVars
  BY <1>1 DEF ScoringInv, scoringVars
<1>2. CASE ScoringNext
  <2>1. PICK t \in ScoredTemps \cup {Absent}, load \in Loads : Score(t, load)
    BY <1>2 DEF ScoringNext
  <2>2. /\ gpu' = gpu
        /\ risk'.hotspot = ComputeTimeToHotspot(thermalRing', t, gpu)
    BY <2>1 DEF Score, Assess
  <2>3. /\ temps' \in Seq(Nat)
        /\ Holds(thermalRing', ThermalCap, temps')
        /\ Holds(volRing', VolatilityCap, temps')
    <3>1. CASE t = Absent
      <4>1. temps' = temps /\ thermalRing' = thermalRing /\ volRing' = volRing
        BY <2>1, <3>1 DEF Score
      <4> QED
        BY <4>1 DEF ScoringInv
    <3>2. CASE t # Absent
      <4>1. t \in Nat /\ temps \in Seq(Nat)
        BY <1>0, <2>1, <3>2 DEF ScoringInv
      <4>2. /\ temps' = Append(temps, t) /\ thermalRing' = RingAdd(thermalRing, t)
            /\ volRing' = RingAdd(volRing, t)
        BY <2>1, <3>2 DEF Score
      <4>3. temps' \in Seq(Nat)
        BY <4>1, <4>2, AppendProperties
      <4> QED
        BY <1>0, <4>1, <4>2, <4>3, AddHolds DEF ScoringInv
    <3> QED
      BY <3>1, <3>2
  <2>4. risk'.hotspot # Absent => Rises(thermalRing')
    BY <2>2, <2>3, HotspotMeans
  <2>5. Rises(thermalRing)' <=> Rises(thermalRing')
    BY DEF Rises, RingValues
  <2> QED
    BY <2>2, <2>3, <2>4, <2>5 DEF ScoringInv
<1> QED
  BY <1>1, <1>2

\* What the rings hold and what a rise needs mean that no step goes down.
LEMMA ScoringMeans == ScoringInv => NoStepDown
<1>0. ThermalCap \in Nat \ {0} /\ VolatilityCap \in Nat \ {0} /\ ScoredTemps \subseteq Nat
  BY ScoringAssumption
<1> SUFFICES ASSUME ScoringInv PROVE NoStepDown
  OBVIOUS
<1>1. /\ RingValues(thermalRing) = LatestTemps(ThermalCap)
      /\ Len(RingValues(thermalRing)) = thermalRing.len
      /\ RingValues(thermalRing) \in Seq(Nat)
      /\ RingValues(volRing) = LatestTemps(VolatilityCap)
  BY <1>0, HeldValues DEF ScoringInv, LatestTemps
<1>2. ASSUME NEW s \in ScoredTemps, NEW t \in ScoredTemps, NEW load \in Loads, s < t
      PROVE  LET volS == ComputeVolatility(RingAdd(volRing, s), gpu).score
                 volT == ComputeVolatility(RingAdd(volRing, t), gpu).score
                 thS == ComputeThermal(s, RingAdd(thermalRing, s), gpu, load.pressure).score
                 thT == ComputeThermal(t, RingAdd(thermalRing, t), gpu, load.pressure).score
             IN  /\ thS <= thT
                 /\ ComputePower(s, load.util, gpu) <= ComputePower(t, load.util, gpu)
                 /\ ComputeMemory(s, gpu) <= ComputeMemory(t, gpu)
                 /\ RLocal(thS, volS, load) - RLocal(thT, volT, load)
                      <= (15 * SMax(0, volS - volT) + 99) \div 100
  <2>1. s \in Nat /\ t \in Nat /\ s <= t
    BY <1>0, <1>2
  <2>2. load.util \in Nat
    BY DEF Loads
  <2>3. /\ gpu \in GPUSpecs /\ temps \in Seq(Nat)
        /\ Holds(thermalRing, ThermalCap, temps) /\ Holds(volRing, VolatilityCap, temps)
    BY DEF ScoringInv
  <2>. DEFINE Th(x) == ComputeThermal(x, RingAdd(thermalRing, x), gpu, load.pressure).score
              Vol(x) == ComputeVolatility(RingAdd(volRing, x), gpu).score
  <2>4. Th(s) \in Int /\ Th(t) \in Int /\ Th(s) <= Th(t)
    BY <1>0, <2>1, <2>3, ThermalKeeps
  <2>5. ASSUME NEW x \in Nat PROVE Vol(x) \in Int
    <3>0. Append(temps, x) \in Seq(Nat)
      BY <2>3, AppendProperties
    <3>1. PICK h, rb : h = Append(temps, x) /\ rb = RingAdd(volRing, x) /\ h \in Seq(Nat)
      BY <3>0
    <3>2. Holds(rb, VolatilityCap, h)
      BY <1>0, <2>3, <3>1, AddHolds
    <3>3. ComputeVolatility(rb, gpu).score \in Int
      <4>1. VolatilityCap \in Nat \ {0} /\ h \in Seq(Nat) /\ gpu \in GPUSpecs
        BY <1>0, <2>3, <3>1
      <4> QED
        BY ONLY <3>2, <4>1, VolatilityIs
    <3> QED
      BY <3>1, <3>3
  <2>6. PICK thS \in Int, thT \in Int, volS \in Int, volT \in Int :
          thS = Th(s) /\ thT = Th(t) /\ volS = Vol(s) /\ volT = Vol(t)
    BY <2>1, <2>4, <2>5
  <2>7. RLocal(thS, volS, load) - RLocal(thT, volT, load)
          <= (15 * SMax(0, volS - volT) + 99) \div 100
    BY <2>3, <2>4, <2>6, CompositeKeeps
  <2>8. /\ ComputePower(s, load.util, gpu) <= ComputePower(t, load.util, gpu)
        /\ ComputeMemory(s, gpu) <= ComputeMemory(t, gpu)
    BY <2>1, <2>2, <2>3, PowerKeeps, MemoryKeeps
  <2> QED
    BY <2>4, <2>6, <2>7, <2>8, Zenon
<1>3. ASSUME risk.hotspot # Absent
      PROVE  \E i \in DOMAIN LatestTemps(ThermalCap) :
                i > 1 /\ LatestTemps(ThermalCap)[i] > LatestTemps(ThermalCap)[i - 1]
  <2>1. Rises(thermalRing)
    BY <1>3 DEF ScoringInv
  <2>2. PICK i \in 2 .. ThermalCap : RingValues(thermalRing)[i] > RingValues(thermalRing)[i - 1]
    BY <2>1 DEF Rises
  <2>3. DOMAIN RingValues(thermalRing) = 1 .. ThermalCap
    BY <1>1, <2>1, LenProperties DEF Rises
  <2>4. i \in 1 .. ThermalCap /\ i > 1
    BY <1>0
  <2> QED
    BY <1>1, <2>2, <2>3, <2>4
<1> QED
  BY <1>1, <1>2, <1>3 DEF NoStepDown

-----------------------------------------------------------------------------
(* The health engine: the series of one device *)

HSample == [at : Nat, temp : Nat \cup {Missing}, util : {0, 80}, power : {0, 2}]

\* t is ss without its first d samples.
Dropped(t, ss, d) ==
  /\ t \in Seq(HSample) /\ d \in 0 .. Len(ss) /\ Len(t) = Len(ss) - d
  /\ \A i \in 1 .. Len(t) : t[i] = ss[i + d]

\* The samples from f on.
LEMMA DroppedFrom ==
  ASSUME NEW ss \in Seq(HSample), NEW f \in 1 .. Len(ss) + 1
  PROVE  Dropped(SubSeq(ss, f, Len(ss)), ss, f - 1)
<1>. PICK n \in Nat : n = Len(ss)
  BY LenProperties
<1>1. \A i \in f .. n : ss[i] \in HSample
  BY ElementOfSeq
<1>2. n - f + 1 \in 0 .. n /\ f \in Int /\ n \in Int /\ f - 1 \in 0 .. n
  OBVIOUS
<1>. PICK t : t = SubSeq(ss, f, n)
  OBVIOUS
<1>3. /\ t \in Seq(HSample)
      /\ Len(t) = IF f <= n THEN n - f + 1 ELSE 0
      /\ \A i \in 1 .. n - f + 1 : t[i] = ss[f + i - 1]
  BY <1>1, <1>2, SubSeqProperties
<1>4. Len(t) = n - f + 1 /\ Len(t) = n - (f - 1)
  BY <1>2, <1>3
<1>5. \A i \in 1 .. n - f + 1 : f + i - 1 = i + (f - 1)
  OBVIOUS
<1>6. \A i \in 1 .. Len(t) : t[i] = ss[i + (f - 1)]
  BY <1>3, <1>4, <1>5
<1> QED
  BY <1>2, <1>3, <1>4, <1>6 DEF Dropped

\* Dropping twice.
LEMMA DroppedTwice ==
  ASSUME NEW ss, NEW t, NEW u, NEW d, NEW e, Dropped(t, ss, d), Dropped(u, t, e), Len(ss) \in Nat
  PROVE  Dropped(u, ss, d + e)
<1>1. d \in 0 .. Len(ss) /\ e \in 0 .. Len(t) /\ Len(t) = Len(ss) - d /\ Len(u) = Len(t) - e
  BY DEF Dropped
<1>2. d + e \in 0 .. Len(ss) /\ Len(u) = Len(ss) - (d + e)
  BY <1>1
<1>3. ASSUME NEW i \in 1 .. Len(u) PROVE u[i] = ss[i + (d + e)]
  <2>1. i + e \in 1 .. Len(t) /\ (i + e) + d = i + (d + e)
    BY <1>1
  <2>2. u[i] = t[i + e] /\ t[i + e] = ss[(i + e) + d]
    BY <2>1 DEF Dropped
  <2> QED
    BY <2>1, <2>2
<1> QED
  BY <1>2, <1>3 DEF Dropped

\* The least of a set of positions.
LEMMA MinIs ==
  ASSUME NEW T \in SUBSET Nat, T # {}
  PROVE  Min(T) \in T /\ \A k \in T : Min(T) <= k
BY LeastElement DEF Min

\* The greatest of a set of positions.
LEMMA MaxIs ==
  ASSUME NEW n \in Nat, NEW T \in SUBSET (1 .. n), T # {}
  PROVE  Max(T) \in T /\ \A k \in T : Max(T) >= k
<1>1. PICK m \in T : \A k \in T : k <= m
  BY GreatestElement
<1>2. \A k \in T : m >= k
  BY <1>1
<1> QED
  BY <1>2 DEF Max

\* Pruning drops from the front, and not the last sample while it is recent.
LEMMA PruneDrops ==
  ASSUME NEW ss \in Seq(HSample), NEW now \in Nat, HealthSpan \in Nat
  PROVE  \E d \in 0 .. Len(ss) :
           /\ Dropped(Prune(ss, now), ss, d)
           /\ Len(ss) > 0 /\ ss[Len(ss)].at >= now - HealthSpan => d < Len(ss)
<1>. PICK n \in Nat : n = Len(ss)
  BY LenProperties
<1>. PICK K : K = {i \in DOMAIN ss : ss[i].at >= now - HealthSpan}
  OBVIOUS
<1>1. DOMAIN ss = 1 .. n /\ K \in SUBSET Nat /\ K \subseteq 1 .. n
  BY LenProperties
<1>2. CASE K = {}
  <2>1. Prune(ss, now) = << >>
    BY <1>2 DEF Prune
  <2>2. << >> \in Seq(HSample) /\ Len(<< >>) = 0
    BY EmptySeq
  <2>3. Dropped(<< >>, ss, n)
    BY <2>2 DEF Dropped
  <2>4. ~ (n > 0 /\ ss[n].at >= now - HealthSpan)
    BY <1>1, <1>2
  <2> QED
    BY <2>1, <2>3, <2>4
<1>3. CASE K # {}
  <2>. PICK f \in 1 .. n : f = Min(K) /\ \A k \in K : f <= k
    BY <1>1, <1>3, MinIs
  <2>1. Prune(ss, now) = SubSeq(ss, f, n)
    BY <1>3 DEF Prune
  <2>2. Dropped(SubSeq(ss, f, n), ss, f - 1) /\ f - 1 \in 0 .. n /\ f - 1 < n
    <3>1. f \in 1 .. n + 1
      OBVIOUS
    <3> QED
      BY <3>1, DroppedFrom
  <2> QED
    BY <2>1, <2>2
<1> QED
  BY <1>2, <1>3

\* So does the cap.
LEMMA CapDrops ==
  ASSUME NEW ss \in Seq(HSample), MaxSamples \in Nat \ {0}
  PROVE  \E d \in 0 .. Len(ss) : Dropped(Cap(ss), ss, d) /\ (Len(ss) > 0 => d < Len(ss))
<1>. PICK n \in Nat : n = Len(ss)
  BY LenProperties
<1>. PICK f : f = IF n > MaxSamples THEN n - MaxSamples + 1 ELSE 1
  OBVIOUS
<1>1. f \in 1 .. n + 1 /\ (n > 0 => f - 1 < n) /\ f - 1 \in 0 .. n
  OBVIOUS
<1>2. Cap(ss) = SubSeq(ss, f, n)
  BY DEF Cap
<1> QED
  BY <1>1, <1>2, DroppedFrom

\* And both.
LEMMA TrimDrops ==
  ASSUME NEW ss \in Seq(HSample), NEW now \in Nat
  PROVE  \E d \in 0 .. Len(ss) :
           /\ Dropped(Cap(Prune(ss, now)), ss, d)
           /\ Len(ss) > 0 /\ ss[Len(ss)].at >= now - HealthSpan => d < Len(ss)
<1>. PICK n \in Nat : n = Len(ss)
  BY LenProperties
<1>1. HealthSpan \in Nat /\ MaxSamples \in Nat \ {0}
  BY HealthAssumption
<1>2. PICK d \in 0 .. n :
        /\ Dropped(Prune(ss, now), ss, d)
        /\ n > 0 /\ ss[n].at >= now - HealthSpan => d < n
  BY <1>1, PruneDrops
<1>. PICK t : t = Prune(ss, now)
  OBVIOUS
<1>3. t \in Seq(HSample) /\ Len(t) = n - d
  BY <1>2 DEF Dropped
<1>4. PICK e \in 0 .. Len(t) : Dropped(Cap(t), t, e) /\ (Len(t) > 0 => e < Len(t))
  BY <1>1, <1>3, CapDrops
<1>5. Dropped(Cap(t), ss, d + e) /\ d + e \in 0 .. n /\ (d < n => d + e < n)
  <2>1. Dropped(Cap(t), ss, d + e)
    BY <1>2, <1>4, DroppedTwice
  <2>2. Len(t) = n - d /\ e \in 0 .. n - d
    BY <1>3, <1>4
  <2>3. d + e \in 0 .. n
    BY <2>2
  <2>4. d < n => d + e < n
    BY <1>4, <2>2
  <2> QED
    BY <2>1, <2>3, <2>4
<1> QED
  BY <1>2, <1>5

\* The times of the samples rise.
TimesRise(ss) == \A i, j \in DOMAIN ss : i < j => ss[i].at < ss[j].at

\* The lower of the target for the limit l and of the one for no known model.
LowTarget(l) == IF Target(l) < Target(DefaultLimit) THEN Target(l) ELSE Target(DefaultLimit)

\* What the start of a spike tells: no sample since then is below the lower
\* target; and, unless the limit went down, the sample before it was missing or
\* below the target, or has left the window.
SpikeFrom(ss, l, start) ==
  start # NoTime =>
    /\ \A i \in DOMAIN ss : ss[i].at >= start /\ Present(ss[i]) => ss[i].temp >= LowTarget(l)
    /\ Target(DefaultLimit) <= Target(l) =>
         /\ \A i \in DOMAIN ss : ss[i].at > start \/ \E p \in DOMAIN ss : ss[p].at = start
         /\ \A i \in DOMAIN ss : i > 1 /\ ss[i].at = start =>
              (Present(ss[i - 1]) => ss[i - 1].temp < Target(l))

\* The series of a device whose last reading is not after now.
SeriesInv(ss, l, start, now) ==
  /\ ss \in Seq(HSample) /\ l \in {DefaultLimit, ModelLimit}
  /\ start \in Nat \cup {NoTime} /\ start <= now
  /\ TimesRise(ss) /\ \A i \in DOMAIN ss : ss[i].at <= now
  /\ SpikeFrom(ss, l, start)

\* Targets are numbers.
LEMMA TargetIn ==
  ASSUME NEW l \in Nat
  PROVE  Target(l) \in Nat
BY DEF Target, EffectiveLimit, Baseline

\* A series that loses its first samples keeps what it kept.
LEMMA SeriesDropped ==
  ASSUME NEW ss, NEW t, NEW d, NEW l, NEW start, NEW now, SeriesInv(ss, l, start, now),
         Dropped(t, ss, d)
  PROVE  SeriesInv(t, l, start, now)
<1>. PICK n \in Nat, m \in Nat :
       /\ n = Len(ss) /\ m = Len(t) /\ DOMAIN ss = 1 .. n /\ DOMAIN t = 1 .. m
  BY LenProperties DEF SeriesInv, Dropped
<1>1. d \in 0 .. n /\ m = n - d /\ \A i \in 1 .. m : i + d \in 1 .. n /\ t[i] = ss[i + d]
  <2>1. d \in 0 .. n /\ m = n - d /\ \A i \in 1 .. m : t[i] = ss[i + d]
    BY DEF Dropped
  <2>2. \A i \in 1 .. m : i + d \in 1 .. n
    BY <2>1
  <2> QED
    BY <2>1, <2>2
<1>2. \A i \in 1 .. n : ss[i] \in HSample /\ ss[i].at \in Nat
  <2>1. ASSUME NEW i \in 1 .. n PROVE ss[i] \in HSample
    BY ElementOfSeq DEF SeriesInv
  <2> QED
    BY <2>1 DEF HSample
<1>3. TimesRise(t)
  <2>1. ASSUME NEW i \in 1 .. m, NEW j \in 1 .. m, i < j PROVE t[i].at < t[j].at
    <3>1. i + d < j + d /\ i + d \in 1 .. n /\ j + d \in 1 .. n
      BY <1>1, <2>1
    <3> QED
      BY <1>1, <3>1 DEF SeriesInv, TimesRise
  <2> QED
    BY <2>1 DEF TimesRise
<1>4. \A i \in 1 .. m : t[i].at <= now
  BY <1>1 DEF SeriesInv
<1>5. SpikeFrom(t, l, start)
  <2> SUFFICES ASSUME start # NoTime
               PROVE  /\ \A i \in 1 .. m : t[i].at >= start /\ Present(t[i]) => t[i].temp >= LowTarget(l)
                      /\ Target(DefaultLimit) <= Target(l) =>
                           /\ \A i \in 1 .. m : t[i].at > start \/ \E p \in 1 .. m : t[p].at = start
                           /\ \A i \in 1 .. m : i > 1 /\ t[i].at = start =>
                                (Present(t[i - 1]) => t[i - 1].temp < Target(l))
    BY DEF SpikeFrom
  <2>0. start \in Nat
    BY DEF SeriesInv
  <2>1. /\ \A i \in 1 .. n : ss[i].at >= start /\ Present(ss[i]) => ss[i].temp >= LowTarget(l)
        /\ Target(DefaultLimit) <= Target(l) =>
             /\ \A i \in 1 .. n : ss[i].at > start \/ \E p \in 1 .. n : ss[p].at = start
             /\ \A i \in 1 .. n : i > 1 /\ ss[i].at = start =>
                  (Present(ss[i - 1]) => ss[i - 1].temp < Target(l))
    BY DEF SeriesInv, SpikeFrom
  <2>2. \A i \in 1 .. m : t[i].at >= start /\ Present(t[i]) => t[i].temp >= LowTarget(l)
    BY <1>1, <2>1
  <2>3. ASSUME Target(DefaultLimit) <= Target(l), NEW i \in 1 .. m,
               ~ \E p \in 1 .. m : t[p].at = start
        PROVE  t[i].at > start
    <3>1. ss[i + d].at > start \/ \E p \in 1 .. n : ss[p].at = start
      BY <1>1, <2>1, <2>3
    <3>2. ASSUME NEW p \in 1 .. n, ss[p].at = start PROVE ss[i + d].at > start
      <4>1. p <= d
        <5>1. SUFFICES ASSUME p > d PROVE FALSE
          BY <1>1
        <5>2. p - d \in 1 .. m /\ (p - d) + d = p
          BY <1>1, <5>1
        <5>3. t[p - d] = ss[(p - d) + d]
          BY <1>1, <5>2
        <5> QED
          BY <2>3, <3>2, <5>2, <5>3
      <4>2. p < i + d
        BY <1>1, <4>1
      <4> QED
        BY <1>1, <3>2, <4>2 DEF SeriesInv, TimesRise
    <3> QED
      BY <1>1, <3>1, <3>2
  <2>4. ASSUME Target(DefaultLimit) <= Target(l), NEW i \in 1 .. m, i > 1, t[i].at = start,
               Present(t[i - 1])
        PROVE  t[i - 1].temp < Target(l)
    <3>1. i - 1 \in 1 .. m /\ i + d \in 1 .. n /\ i + d > 1 /\ (i + d) - 1 = (i - 1) + d
      BY <1>1, <2>4
    <3>2. t[i - 1] = ss[(i + d) - 1] /\ ss[i + d].at = start
      BY <1>1, <2>4, <3>1
    <3> QED
      BY <2>1, <2>4, <3>1, <3>2
  <2> QED
    BY <2>2, <2>3, <2>4
<1> QED
  BY <1>3, <1>4, <1>5 DEF SeriesInv, Dropped

\* The limits a device may have, and their targets.
LEMMA LimitsAre ==
  ASSUME NEW l \in {DefaultLimit, ModelLimit}, NEW s
  PROVE  /\ ResolvedLimit(l, s) \in {DefaultLimit, ModelLimit}
         /\ Target(l) \in Nat /\ Target(DefaultLimit) \in Nat /\ Target(ResolvedLimit(l, s)) \in Nat
         /\ LowTarget(ResolvedLimit(l, s)) <= LowTarget(l)
         /\ Target(DefaultLimit) <= Target(ResolvedLimit(l, s))
              => /\ Target(DefaultLimit) <= Target(l)
                 /\ Target(l) <= Target(ResolvedLimit(l, s))
         /\ LowTarget(ResolvedLimit(l, s)) <= Target(ResolvedLimit(l, s))
         /\ LowTarget(l) \in Nat /\ LowTarget(ResolvedLimit(l, s)) \in Nat
<1>1. DefaultLimit \in Nat /\ ModelLimit \in Nat
  BY HealthAssumption
<1>2. Target(DefaultLimit) \in Nat /\ Target(ModelLimit) \in Nat
  BY <1>1, TargetIn
<1>3. ResolvedLimit(l, s) = ModelLimit \/ ResolvedLimit(l, s) = l
  BY DEF ResolvedLimit
<1>4. l = DefaultLimit \/ l = ModelLimit
  OBVIOUS
<1> QED
  BY <1>2, <1>3, <1>4 DEF LowTarget

\* One more sample, later than all before.
LEMMA AppendRises ==
  ASSUME NEW ss \in Seq(HSample), NEW now, NEW smp \in HSample, TimesRise(ss),
         \A i \in DOMAIN ss : ss[i].at <= now, now \in Nat, now < smp.at
  PROVE  /\ Append(ss, smp) \in Seq(HSample) /\ Len(Append(ss, smp)) = Len(ss) + 1
         /\ Append(ss, smp)[Len(ss) + 1] = smp
         /\ \A i \in 1 .. Len(ss) : Append(ss, smp)[i] = ss[i]
         /\ TimesRise(Append(ss, smp))
         /\ \A i \in DOMAIN Append(ss, smp) : Append(ss, smp)[i].at <= smp.at
<1>. PICK n \in Nat : n = Len(ss) /\ DOMAIN ss = 1 .. n
  BY LenProperties
<1>. PICK a : a = Append(ss, smp)
  OBVIOUS
<1>1. /\ a \in Seq(HSample) /\ Len(a) = n + 1 /\ a[n + 1] = smp
      /\ \A i \in 1 .. n : a[i] = ss[i]
  BY AppendProperties
<1>2. DOMAIN a = 1 .. n + 1
  BY <1>1, LenProperties
<1>3. smp.at \in Nat /\ \A i \in 1 .. n : ss[i].at \in Nat
  <2>1. ASSUME NEW i \in 1 .. n PROVE ss[i] \in HSample
    BY ElementOfSeq
  <2> QED
    BY <2>1 DEF HSample
<1>4. \A i \in 1 .. n : a[i].at <= smp.at /\ a[i].at < smp.at
  BY <1>1, <1>3
<1>5. \A i \in 1 .. n + 1 : a[i].at <= smp.at
  <2>1. ASSUME NEW i \in 1 .. n + 1 PROVE a[i].at <= smp.at
    <3>1. i \in 1 .. n \/ i = n + 1
      OBVIOUS
    <3> QED
      BY <1>1, <1>3, <1>4, <3>1
  <2> QED
    BY <2>1
<1>6. TimesRise(a)
  <2>1. ASSUME NEW i \in 1 .. n + 1, NEW j \in 1 .. n + 1, i < j PROVE a[i].at < a[j].at
    <3>1. i \in 1 .. n /\ (j \in 1 .. n \/ j = n + 1)
      BY <2>1
    <3> QED
      BY <1>1, <1>4, <2>1, <3>1 DEF TimesRise
  <2> QED
    BY <1>2, <2>1 DEF TimesRise
<1> QED
  BY <1>1, <1>2, <1>5, <1>6

\* What is left of the series after one more sample ends with that sample.
LEMMA AppendShape ==
  ASSUME NEW ss \in Seq(HSample), NEW smp \in HSample
  PROVE  \E m \in 1 .. Len(ss) + 1 :
           LET t == Cap(Prune(Append(ss, smp), smp.at))
           IN  /\ Dropped(t, Append(ss, smp), Len(ss) + 1 - m)
               /\ Len(t) = m /\ DOMAIN t = 1 .. m /\ t[m] = smp
               /\ m > 1 => Len(ss) \in 1 .. Len(ss) /\ t[m - 1] = ss[Len(ss)]
<1>. PICK n \in Nat : n = Len(ss)
  BY LenProperties
<1>. PICK a : a = Append(ss, smp)
  OBVIOUS
<1>. PICK now \in Nat : now = smp.at
  BY DEF HSample
<1>. PICK t : t = Cap(Prune(a, now))
  OBVIOUS
<1>1. a \in Seq(HSample) /\ Len(a) = n + 1 /\ a[n + 1] = smp /\ \A i \in 1 .. n : a[i] = ss[i]
  BY AppendProperties
<1>2. PICK d \in 0 .. n : Dropped(t, a, d)
  <2>1. HealthSpan \in Nat
    BY HealthAssumption
  <2>2. a[n + 1].at >= now - HealthSpan /\ n + 1 > 0
    BY <1>1, <2>1
  <2>3. PICK d \in 0 .. Len(a) :
          /\ Dropped(t, a, d)
          /\ Len(a) > 0 /\ a[Len(a)].at >= now - HealthSpan => d < Len(a)
    BY <1>1, TrimDrops
  <2>4. d < n + 1 /\ d \in 0 .. n + 1
    BY <1>1, <2>2, <2>3
  <2>5. d \in 0 .. n
    BY <2>4
  <2> QED
    BY <2>3, <2>5
<1>3. PICK m \in 1 .. n + 1 : m = n + 1 - d /\ d = n + 1 - m
  <2>1. n \in Nat /\ d \in 0 .. n
    OBVIOUS
  <2>2. n + 1 - d \in 1 .. n + 1 /\ d = n + 1 - (n + 1 - d)
    BY ONLY <2>1
  <2> QED
    BY ONLY <2>2
<1>4. Len(t) = m /\ t \in Seq(HSample) /\ \A i \in 1 .. m : t[i] = a[i + d]
  BY <1>1, <1>2, <1>3 DEF Dropped
<1>5. m \in 1 .. m /\ m + d = n + 1
  BY <1>3
<1>6. t[m] = smp
  BY <1>1, <1>4, <1>5
<1>7. m > 1 => m - 1 \in 1 .. m /\ (m - 1) + d = n /\ n \in 1 .. n
  BY <1>3
<1>8. m > 1 => t[m - 1] = ss[n]
  BY <1>1, <1>4, <1>7
<1>9. DOMAIN t = 1 .. m
  BY <1>4, LenProperties
<1> QED
  BY <1>2, <1>3, <1>4, <1>6, <1>7, <1>8, <1>9

\* A spike that goes on, or is not seen to end.
LEMMA SpikeStays ==
  ASSUME NEW ss \in Seq(HSample), NEW a \in Seq(HSample), Len(a) = Len(ss) + 1,
         \A i \in 1 .. Len(ss) : a[i] = ss[i],
         NEW l \in {DefaultLimit, ModelLimit}, NEW s,
         NEW start \in Nat, SpikeFrom(ss, l, start), start < a[Len(ss) + 1].at,
         Present(a[Len(ss) + 1]) => a[Len(ss) + 1].temp >= LowTarget(ResolvedLimit(l, s))
  PROVE  SpikeFrom(a, ResolvedLimit(l, s), start)
<1>. PICK n \in Nat : n = Len(ss)
  BY LenProperties
<1>. PICK k : k = ResolvedLimit(l, s)
  OBVIOUS
<1>0. /\ Len(a) = n + 1 /\ \A i \in 1 .. n : a[i] = ss[i]
      /\ start < a[n + 1].at
      /\ Present(a[n + 1]) => a[n + 1].temp >= LowTarget(k)
  OBVIOUS
<1>. USE <1>0
<1>1. DOMAIN ss = 1 .. n /\ DOMAIN a = 1 .. n + 1
  BY LenProperties
<1>2. /\ \A i \in 1 .. n : ss[i].at >= start /\ Present(ss[i]) => ss[i].temp >= LowTarget(l)
      /\ Target(DefaultLimit) <= Target(l) =>
           /\ \A i \in 1 .. n : ss[i].at > start \/ \E p \in 1 .. n : ss[p].at = start
           /\ \A i \in 1 .. n : i > 1 /\ ss[i].at = start =>
                (Present(ss[i - 1]) => ss[i - 1].temp < Target(l))
  <2>1. start # NoTime
    BY DEF NoTime
  <2> QED
    BY <1>1, <2>1 DEF SpikeFrom
<1>3. /\ Target(l) \in Nat /\ Target(k) \in Nat /\ LowTarget(l) \in Nat /\ LowTarget(k) \in Nat
      /\ LowTarget(k) <= LowTarget(l)
      /\ Target(DefaultLimit) <= Target(k)
           => Target(DefaultLimit) <= Target(l) /\ Target(l) <= Target(k)
  BY LimitsAre
<1>4. ASSUME NEW i \in 1 .. n PROVE ss[i].at \in Nat /\ (Present(ss[i]) => ss[i].temp \in Nat)
  <2>1. ss[i] \in HSample
    BY ElementOfSeq
  <2> QED
    BY <2>1 DEF HSample, Present
<1>5. ASSUME NEW i \in 1 .. n + 1, a[i].at >= start, Present(a[i])
      PROVE  a[i].temp >= LowTarget(k)
  <2>1. CASE i = n + 1
    BY <1>5, <2>1
  <2>2. CASE i # n + 1
    <3>1. i \in 1 .. n
      BY <2>2
    <3>2. a[i] = ss[i] /\ ss[i].temp >= LowTarget(l) /\ ss[i].temp \in Nat
      BY <1>2, <1>4, <1>5, <3>1
    <3> QED
      BY ONLY <1>3, <3>2
  <2> QED
    BY <2>1, <2>2
<1>6. ASSUME Target(DefaultLimit) <= Target(k), NEW i \in 1 .. n + 1
      PROVE  a[i].at > start \/ \E p \in 1 .. n + 1 : a[p].at = start
  <2>0. a[n + 1] \in HSample /\ n + 1 \in 1 .. n + 1
    BY ElementOfSeq
  <2>1. a[n + 1].at > start
    BY <2>0 DEF HSample
  <2>2. CASE i = n + 1
    BY <2>1, <2>2
  <2>3. CASE i # n + 1
    <3>1. i \in 1 .. n
      BY <2>3
    <3>2. a[i] = ss[i] /\ (ss[i].at > start \/ \E p \in 1 .. n : ss[p].at = start)
      BY <1>2, <1>3, <1>6, <3>1
    <3>3. ASSUME NEW p \in 1 .. n, ss[p].at = start PROVE \E q \in 1 .. n + 1 : a[q].at = start
      <4>1. p \in 1 .. n + 1 /\ a[p] = ss[p]
        OBVIOUS
      <4> QED
        BY <3>3, <4>1
    <3> QED
      BY <3>2, <3>3
  <2> QED
    BY <2>2, <2>3
<1>7. ASSUME Target(DefaultLimit) <= Target(k), NEW i \in 1 .. n + 1, i > 1, a[i].at = start,
             Present(a[i - 1])
      PROVE  a[i - 1].temp < Target(k)
  <2>1. i # n + 1
    BY <1>7
  <2>2. i \in 1 .. n /\ i - 1 \in 1 .. n
    BY <1>7, <2>1
  <2>3. a[i] = ss[i] /\ a[i - 1] = ss[i - 1]
    BY <2>2
  <2>4. ss[i - 1].temp < Target(l) /\ ss[i - 1].temp \in Nat
    BY <1>2, <1>3, <1>4, <1>7, <2>2, <2>3
  <2> QED
    BY ONLY <1>3, <1>7, <2>3, <2>4
<1> QED
  BY <1>1, <1>5, <1>6, <1>7 DEF SpikeFrom

\* A spike that the last sample starts.
LEMMA SpikeBegins ==
  ASSUME NEW m \in Nat \ {0}, NEW t \in Seq(HSample), m = Len(t), TimesRise(t), NEW k,
         Present(t[m]) => t[m].temp >= LowTarget(k),
         m > 1 => (Present(t[m - 1]) => t[m - 1].temp < Target(k))
  PROVE  SpikeFrom(t, k, t[m].at)
<1>1. DOMAIN t = 1 .. m /\ m \in 1 .. m
  BY LenProperties
<1>2. ASSUME NEW i \in 1 .. m PROVE t[i].at \in Nat
  <2>1. t[i] \in HSample
    BY ElementOfSeq
  <2> QED
    BY <2>1 DEF HSample
<1>3. ASSUME NEW i \in 1 .. m, i # m PROVE ~ (t[i].at >= t[m].at) /\ t[i].at # t[m].at
  <2>1. i < m
    BY <1>3
  <2>2. t[i].at < t[m].at
    BY <1>1, <2>1 DEF TimesRise
  <2>3. t[i].at \in Nat /\ t[m].at \in Nat
    BY <1>1, <1>2
  <2> QED
    BY ONLY <2>2, <2>3
<1>4. \A i \in 1 .. m : t[i].at >= t[m].at /\ Present(t[i]) => t[i].temp >= LowTarget(k)
  BY <1>3
<1>5. \A i \in 1 .. m : i > 1 /\ t[i].at = t[m].at => (Present(t[i - 1]) => t[i - 1].temp < Target(k))
  BY <1>3
<1> QED
  BY <1>1, <1>4, <1>5 DEF SpikeFrom

\* What a reading looks like.
HReading == [at : Nat, temp : Nat \cup {Missing}, known : BOOLEAN, util : {0, 80}, power : {0, 2}]

\* A reading that is appended keeps what the series keeps.
LEMMA SeriesAppend ==
  ASSUME NEW series, NEW now \in Nat,
         SeriesInv(series.samples, series.limit, series.start, now),
         NEW s \in HReading, now < s.at
  PROVE  SeriesInv(AppendSample(series, s).samples, AppendSample(series, s).limit,
                   AppendSample(series, s).start, s.at)
<1>. PICK ss, l, start : ss = series.samples /\ l = series.limit /\ start = series.start
  OBVIOUS
<1>. PICK k : k = ResolvedLimit(l, s)
  OBVIOUS
<1>1. PICK smp \in HSample :
        smp = [at |-> s.at, temp |-> s.temp, util |-> s.util, power |-> s.power]
  BY DEF HSample, HReading
<1>. PICK at \in Nat : at = s.at /\ at = smp.at
  BY <1>1 DEF HReading
<1>2. /\ ss \in Seq(HSample) /\ l \in {DefaultLimit, ModelLimit} /\ TimesRise(ss)
      /\ start \in Nat \cup {NoTime} /\ start <= now
      /\ \A i \in DOMAIN ss : ss[i].at <= now
      /\ SpikeFrom(ss, l, start)
  BY DEF SeriesInv
<1>. PICK n \in Nat : n = Len(ss)
  BY <1>2, LenProperties
<1>3. /\ k \in {DefaultLimit, ModelLimit} /\ Target(k) \in Nat
      /\ LowTarget(k) \in Nat /\ LowTarget(k) <= Target(k)
  BY <1>2, LimitsAre
<1>. PICK a : a = Append(ss, smp)
  OBVIOUS
<1>4. /\ a \in Seq(HSample) /\ Len(a) = n + 1 /\ a[n + 1] = smp
      /\ \A i \in 1 .. n : a[i] = ss[i]
      /\ TimesRise(a) /\ \A i \in DOMAIN a : a[i].at <= at
  <2>1. ss \in Seq(HSample) /\ now \in Nat /\ now < smp.at /\ TimesRise(ss)
        /\ \A i \in DOMAIN ss : ss[i].at <= now
    BY <1>2
  <2>2. /\ Append(ss, smp) \in Seq(HSample) /\ Len(Append(ss, smp)) = Len(ss) + 1
        /\ Append(ss, smp)[Len(ss) + 1] = smp
        /\ \A i \in 1 .. Len(ss) : Append(ss, smp)[i] = ss[i]
        /\ TimesRise(Append(ss, smp))
        /\ \A i \in DOMAIN Append(ss, smp) : Append(ss, smp)[i].at <= smp.at
    BY ONLY <1>1, <2>1, AppendRises
  <2> QED
    BY <2>2
<1>. PICK t : t = Cap(Prune(a, at))
  OBVIOUS
<1>5. PICK m \in 1 .. n + 1 :
        /\ Dropped(t, a, n + 1 - m) /\ Len(t) = m /\ DOMAIN t = 1 .. m /\ t[m] = smp
        /\ m > 1 => t[m - 1] = ss[n]
  <2>1. PICK m \in 1 .. Len(ss) + 1 :
          LET u == Cap(Prune(Append(ss, smp), smp.at))
          IN  /\ Dropped(u, Append(ss, smp), Len(ss) + 1 - m)
              /\ Len(u) = m /\ DOMAIN u = 1 .. m /\ u[m] = smp
              /\ m > 1 => Len(ss) \in 1 .. Len(ss) /\ u[m - 1] = ss[Len(ss)]
    BY ONLY <1>1, <1>2, AppendShape
  <2> QED
    BY <2>1
<1>. PICK st : st = UpdatedStart(t, Target(k), start)
  OBVIOUS
<1>6. /\ AppendSample(series, s).samples = t
      /\ AppendSample(series, s).limit = k
      /\ AppendSample(series, s).start = st
  BY <1>1 DEF AppendSample
<1>7. \/ st = NoTime
      \/ st = start /\ (Present(smp) => smp.temp >= LowTarget(k))
      \/ /\ st = at /\ (Present(smp) => smp.temp >= LowTarget(k))
         /\ m > 1 => (Present(t[m - 1]) => t[m - 1].temp < Target(k))
  <2>1. st = IF ~ Present(smp) THEN start
             ELSE IF smp.temp <= Target(k) THEN NoTime
             ELSE IF m = 1 \/ ~ Present(t[m - 1]) \/ t[m - 1].temp < Target(k) THEN smp.at ELSE start
    BY <1>5 DEF UpdatedStart
  <2>2. Present(smp) => smp.temp \in Nat
    BY DEF Present, HSample
  <2>3. Present(smp) /\ ~ (smp.temp <= Target(k)) => smp.temp >= LowTarget(k)
    BY ONLY <1>3, <2>2
  <2>4. CASE ~ Present(smp)
    BY <2>1, <2>4
  <2>5. CASE Present(smp) /\ smp.temp <= Target(k)
    BY <2>1, <2>5
  <2>6. CASE Present(smp) /\ ~ (smp.temp <= Target(k))
    <3>1. CASE m = 1 \/ ~ Present(t[m - 1]) \/ t[m - 1].temp < Target(k)
      <4>1. m = 1 => ~ (m > 1)
        OBVIOUS
      <4> QED
        BY <2>1, <2>3, <2>6, <3>1, <4>1
    <3>2. CASE ~ (m = 1 \/ ~ Present(t[m - 1]) \/ t[m - 1].temp < Target(k))
      BY <2>1, <2>3, <2>6, <3>2
    <3> QED
      BY <3>1, <3>2
  <2> QED
    BY <2>4, <2>5, <2>6
<1>8. NoTime <= at /\ NoTime \in Nat \cup {NoTime}
  BY DEF NoTime
<1>9. ASSUME NEW u \in Nat \cup {NoTime}, u <= at, SpikeFrom(a, k, u)
      PROVE  SeriesInv(t, k, u, at)
  <2>1. SeriesInv(a, k, u, at)
    BY <1>3, <1>4, <1>9 DEF SeriesInv
  <2> QED
    BY <1>5, <2>1, SeriesDropped
<1>10. SeriesInv(t, k, NoTime, at)
  <2>1. SpikeFrom(a, k, NoTime)
    BY DEF SpikeFrom
  <2> QED
    BY <1>8, <1>9, <2>1
<1>11. ASSUME st = start, st # NoTime, Present(smp) => smp.temp >= LowTarget(k)
       PROVE  SeriesInv(t, k, st, at)
  <2>1. start \in Nat /\ start <= now
    BY <1>2, <1>11
  <2>2. start < at /\ start <= at
    BY <2>1
  <2>3. n = Len(ss) /\ n \in Nat /\ k = ResolvedLimit(l, s) /\ start < a[n + 1].at
        /\ (Present(a[n + 1]) => a[n + 1].temp >= LowTarget(k))
    BY <1>4, <1>11, <2>2
  <2>4. SpikeFrom(a, k, start)
    <3>1. /\ ss \in Seq(HSample) /\ a \in Seq(HSample) /\ Len(a) = Len(ss) + 1
          /\ \A i \in 1 .. Len(ss) : a[i] = ss[i]
      BY <1>2, <1>4, <2>3
    <3>2. /\ l \in {DefaultLimit, ModelLimit}
          /\ start \in Nat /\ SpikeFrom(ss, l, start)
      BY <1>2, <2>1, <2>3
    <3>3. /\ start < a[Len(ss) + 1].at
          /\ Present(a[Len(ss) + 1]) => a[Len(ss) + 1].temp >= LowTarget(ResolvedLimit(l, s))
      BY <2>3
    <3>4. SpikeFrom(a, ResolvedLimit(l, s), start)
      BY ONLY <3>1, <3>2, <3>3, SpikeStays
    <3> QED
      BY ONLY <2>3, <3>4
  <2> QED
    BY <1>9, <1>11, <2>1, <2>2, <2>4
<1>12. ASSUME st = at, Present(smp) => smp.temp >= LowTarget(k),
              m > 1 => (Present(t[m - 1]) => t[m - 1].temp < Target(k))
       PROVE  SeriesInv(t, k, st, at)
  <2>1. t \in Seq(HSample) /\ TimesRise(t) /\ m \in Nat \ {0}
    BY <1>10 DEF SeriesInv
  <2>2. SpikeFrom(t, k, t[m].at)
    BY <1>5, <1>12, <2>1, SpikeBegins
  <2>3. at \in Nat \cup {NoTime} /\ at <= at /\ t[m].at = at
    BY <1>5
  <2> QED
    BY <1>10, <1>12, <2>2, <2>3 DEF SeriesInv
<1>13. SeriesInv(t, k, st, at)
  BY <1>7, <1>10, <1>11, <1>12
<1> QED
  BY <1>6, <1>13

-----------------------------------------------------------------------------
(* A taken *)

\* A has the series after each beginning of the batch, up to the m-th.
Appends(A, series, taken, m) ==
  A = [i \in 0 .. m |-> IF i = 0 THEN series ELSE AppendSample(A[i - 1], taken[i])]

\* There is always one: the shortest beginning without one would be one longer
\* than a beginning with one.
LEMMA AppendsExists ==
  ASSUME NEW n \in Nat, NEW series, NEW taken
  PROVE  \E A : Appends(A, series, taken, n)
<1> SUFFICES ASSUME ~ \E A : Appends(A, series, taken, n) PROVE FALSE
  OBVIOUS
<1>1. PICK T : T = {m \in 0 .. n : ~ \E A : Appends(A, series, taken, m)}
  OBVIOUS
<1>2. T \in SUBSET Nat /\ n \in T
  BY <1>1
<1>3. PICK m \in T : \A k \in T : m <= k
  BY <1>2, LeastElement
<1>4. m \in 0 .. n /\ ~ \E A : Appends(A, series, taken, m)
  BY <1>1, <1>3
<1>5. CASE m = 0
  <2>1. PICK A : A = [i \in 0 .. 0 |-> series]
    OBVIOUS
  <2>2. PICK R : R = [i \in 0 .. 0 |-> IF i = 0 THEN series ELSE AppendSample(A[i - 1], taken[i])]
    OBVIOUS
  <2>3. \A i \in 0 .. 0 : R[i] = A[i]
    BY <2>1, <2>2
  <2>4. A = R
    BY <2>1, <2>2, <2>3
  <2>5. Appends(A, series, taken, 0)
    BY <2>2, <2>4 DEF Appends
  <2> QED
    BY <1>4, <1>5, <2>5
<1>6. CASE m # 0
  <2>1. m - 1 \in 0 .. n /\ m \in 1 .. n /\ ~ (m <= m - 1)
    BY <1>4, <1>6
  <2>2. PICK P : Appends(P, series, taken, m - 1)
    BY <1>1, <1>3, <2>1
  <2>3. \A i \in 0 .. m - 1 : P[i] = IF i = 0 THEN series ELSE AppendSample(P[i - 1], taken[i])
    <3>1. PICK R : R = [i \in 0 .. m - 1 |-> IF i = 0 THEN series ELSE AppendSample(P[i - 1], taken[i])]
      OBVIOUS
    <3>2. P = R
      BY <2>2, <3>1 DEF Appends
    <3>3. \A i \in 0 .. m - 1 : R[i] = IF i = 0 THEN series ELSE AppendSample(P[i - 1], taken[i])
      BY <3>1
    <3> QED
      BY ONLY <3>2, <3>3
  <2>4. PICK A : A = [i \in 0 .. m |-> IF i = m THEN AppendSample(P[m - 1], taken[m]) ELSE P[i]]
    OBVIOUS
  <2>5. \A i \in 0 .. m : A[i] = IF i = m THEN AppendSample(P[m - 1], taken[m]) ELSE P[i]
    BY <2>4
  <2>6. PICK R : R = [i \in 0 .. m |-> IF i = 0 THEN series ELSE AppendSample(A[i - 1], taken[i])]
    OBVIOUS
  <2>7. ASSUME NEW i \in 0 .. m PROVE R[i] = A[i]
    <3>1. R[i] = IF i = 0 THEN series ELSE AppendSample(A[i - 1], taken[i])
      BY <2>6
    <3>2. CASE i = 0
      <4>1. i # m /\ i \in 0 .. m - 1
        BY <2>1, <3>2
      <4> QED
        BY <2>3, <2>5, <3>1, <3>2, <4>1
    <3>3. CASE i = m
      <4>1. m - 1 \in 0 .. m /\ m - 1 # m
        BY <2>1
      <4> QED
        BY <1>6, <2>5, <3>1, <3>3, <4>1
    <3>4. CASE i # 0 /\ i # m
      <4>1. i - 1 \in 0 .. m /\ i - 1 # m /\ i \in 0 .. m - 1
        BY <2>1, <3>4
      <4>2. A[i - 1] = P[i - 1] /\ A[i] = P[i] /\ P[i] = AppendSample(P[i - 1], taken[i])
        BY <2>3, <2>5, <3>4, <4>1
      <4> QED
        BY <3>1, <3>4, <4>2
    <3> QED
      BY <3>2, <3>3, <3>4
  <2>8. A = R
    BY <2>4, <2>6, <2>7
  <2>9. Appends(A, series, taken, m)
    BY <2>6, <2>8 DEF Appends
  <2> QED
    BY <1>4, <2>9
<1> QED
  BY <1>5, <1>6

\* A has the series after each of the n readings of the batch.
AppendsOf(A, series, taken, n) ==
  /\ AppendAll(series, taken) = A[n] /\ A[0] = series
  /\ \A i \in 1 .. n : A[i] = AppendSample(A[i - 1], taken[i])

\* The readings of a batch, one after the other.
LEMMA AppendAllIs ==
  ASSUME NEW n \in Nat, NEW series, NEW taken, n = Len(taken)
  PROVE  \E A : AppendsOf(A, series, taken, n)
<1>. DEFINE C == CHOOSE A : A = [i \in 0 .. Len(taken) |->
                                   IF i = 0 THEN series ELSE AppendSample(A[i - 1], taken[i])]
<1>1. \E A : A = [i \in 0 .. Len(taken) |-> IF i = 0 THEN series ELSE AppendSample(A[i - 1], taken[i])]
  <2>1. PICK A : Appends(A, series, taken, n)
    BY AppendsExists
  <2> QED
    BY <2>1 DEF Appends
<1>2. C = [i \in 0 .. Len(taken) |-> IF i = 0 THEN series ELSE AppendSample(C[i - 1], taken[i])]
  BY <1>1
<1>3. AppendAll(series, taken) = C[Len(taken)]
  BY DEF AppendAll
<1>. HIDE DEF C
<1>4. PICK R : R = [i \in 0 .. n |-> IF i = 0 THEN series ELSE AppendSample(C[i - 1], taken[i])]
  OBVIOUS
<1>5. C = R
  BY <1>2, <1>4
<1>6. R[0] = series /\ \A i \in 1 .. n : R[i] = AppendSample(C[i - 1], taken[i])
  <2>1. 0 \in 0 .. n /\ \A i \in 1 .. n : i \in 0 .. n /\ i # 0
    OBVIOUS
  <2> QED
    BY <1>4, <2>1
<1>7. C[0] = series /\ \A i \in 1 .. n : C[i] = AppendSample(C[i - 1], taken[i])
  BY ONLY <1>5, <1>6
<1> QED
  BY <1>3, <1>7 DEF AppendsOf

\* Readings of one batch that are later and later.
Later(taken, now) ==
  /\ taken \in Seq(HReading)
  /\ \A i \in 1 .. Len(taken) : now < taken[i].at
  /\ \A i, j \in 1 .. Len(taken) : i < j => taken[i].at < taken[j].at

\* They keep what the series keeps.
LEMMA AppendAllKeeps ==
  ASSUME NEW n \in Nat \ {0}, NEW taken, n = Len(taken), NEW now \in Nat, Later(taken, now),
         NEW series, SeriesInv(series.samples, series.limit, series.start, now)
  PROVE  SeriesInv(AppendAll(series, taken).samples, AppendAll(series, taken).limit,
                   AppendAll(series, taken).start, taken[n].at)
<1>. DEFINE Kept(r, at) == SeriesInv(r.samples, r.limit, r.start, at)
<1>1. PICK A : AppendsOf(A, series, taken, n)
  BY ONLY n \in Nat, n = Len(taken), AppendAllIs
<1>2. ASSUME NEW i \in 1 .. n PROVE taken[i] \in HReading /\ taken[i].at \in Nat
  <2>1. taken[i] \in HReading
    BY ElementOfSeq DEF Later
  <2> QED
    BY <2>1 DEF HReading
<1>3. PICK T : T = {i \in 1 .. n : ~ Kept(A[i], taken[i].at)}
  OBVIOUS
<1>4. T \in SUBSET Nat
  BY <1>3
<1>5. n \in 1 .. n
  OBVIOUS
<1> SUFFICES ASSUME T # {} PROVE FALSE
  BY <1>1, <1>3, <1>5 DEF AppendsOf
<1>6. PICK m \in T : \A k \in T : m <= k
  BY <1>4, LeastElement
<1>7. m \in 1 .. n /\ ~ Kept(A[m], taken[m].at)
  BY <1>3, <1>6
<1>8. ASSUME NEW at \in Nat, Kept(A[m - 1], at), at < taken[m].at
      PROVE  FALSE
  <2>1. Kept(AppendSample(A[m - 1], taken[m]), taken[m].at)
    BY <1>2, <1>7, <1>8, SeriesAppend
  <2> QED
    BY <1>1, <1>7, <2>1 DEF AppendsOf
<1>9. CASE m = 1
  <2>1. m - 1 = 0 /\ Kept(A[0], now) /\ now < taken[m].at
    BY <1>1, <1>7, <1>9 DEF Later, AppendsOf
  <2> QED
    BY <1>8, <2>1
<1>10. CASE m # 1
  <2>1. m - 1 \in 1 .. n /\ m - 1 < m /\ ~ (m <= m - 1)
    BY <1>7, <1>10
  <2>2. Kept(A[m - 1], taken[m - 1].at)
    BY <1>3, <1>6, <2>1
  <2>3. taken[m - 1].at < taken[m].at /\ taken[m - 1].at \in Nat
    BY <1>2, <1>7, <2>1 DEF Later
  <2> QED
    BY <1>8, <2>2, <2>3
<1> QED
  BY <1>9, <1>10

\* A batch that can be put in order is.
LEMMA ByTimeOrders ==
  ASSUME NEW taken \in Seq(HReading), NEW now, \A i \in 1 .. Len(taken) : now < taken[i].at,
         NEW o \in [1 .. Len(taken) -> Range(taken)],
         \A i, j \in 1 .. Len(taken) : i < j => o[i].at < o[j].at
  PROVE  Later(ByTime(taken), now) /\ Len(ByTime(taken)) = Len(taken)
<1>. PICK n \in Nat : n = Len(taken) /\ DOMAIN taken = 1 .. n
  BY LenProperties
<1>. PICK t : t = ByTime(taken)
  OBVIOUS
<1>1. \E u \in [1 .. n -> Range(taken)] : \A i, j \in 1 .. n : i < j => u[i].at < u[j].at
  OBVIOUS
<1>2. t \in [1 .. n -> Range(taken)] /\ \A i, j \in 1 .. n : i < j => t[i].at < t[j].at
  BY <1>1 DEF ByTime
<1>3. ASSUME NEW x \in Range(taken) PROVE x \in HReading /\ now < x.at
  <2>1. PICK i \in 1 .. n : x = taken[i]
    BY DEF Range
  <2> QED
    BY <2>1, ElementOfSeq
<1>4. t \in [1 .. n -> HReading] /\ \A i \in 1 .. n : now < t[i].at
  BY <1>2, <1>3
<1>5. t \in Seq(HReading) /\ Len(t) = n
  BY <1>4
<1> QED
  BY <1>2, <1>4, <1>5 DEF Later

-----------------------------------------------------------------------------
(* Every step *)

\* The series kept is one of this device's, up to now.
HealthInv == clock \in Nat /\ SeriesInv(samples, limit, spikeStart, clock)

LEMMA HealthStarts ==
  HealthInit => HealthInv
<1> SUFFICES ASSUME HealthInit PROVE HealthInv
  OBVIOUS
<1>1. samples = << >> /\ spikeStart = NoTime /\ limit = DefaultLimit /\ clock = 0
  BY DEF HealthInit
<1>2. << >> \in Seq(HSample) /\ Len(<< >>) = 0
  BY EmptySeq
<1>3. DOMAIN samples = {}
  BY <1>1
<1>4. TimesRise(samples) /\ SpikeFrom(samples, limit, spikeStart)
  BY <1>1, <1>3 DEF TimesRise, SpikeFrom
<1> QED
  BY <1>1, <1>2, <1>3, <1>4 DEF HealthInv, SeriesInv, NoTime

\* What is kept is kept at any later time.
LEMMA SeriesLater ==
  ASSUME NEW ss, NEW l, NEW start, NEW now \in Nat, NEW u \in Nat, now <= u,
         SeriesInv(ss, l, start, now)
  PROVE  SeriesInv(ss, l, start, u)
<1>1. ASSUME NEW i \in DOMAIN ss PROVE ss[i].at <= u
  <2>1. ss[i] \in HSample
    BY ElementOfSeq, LenProperties DEF SeriesInv
  <2>2. ss[i].at \in Nat /\ ss[i].at <= now
    BY <2>1 DEF HSample, SeriesInv
  <2> QED
    BY ONLY <2>2, u \in Nat, now \in Nat, now <= u
<1>2. start <= u
  BY DEF SeriesInv, NoTime
<1> QED
  BY <1>1, <1>2 DEF SeriesInv

\* A batch, and the pruning after it.
LEMMA UpdateKeeps ==
  ASSUME HealthInv, NEW taken \in Seq(HReading), NEW n \in Nat \ {0}, n = Len(taken),
         \A i \in 1 .. Len(taken) : clock < taken[i].at,
         NEW o \in [1 .. Len(taken) -> Range(taken)],
         \A i, j \in 1 .. Len(taken) : i < j => o[i].at < o[j].at,
         HealthUpdate(taken)
  PROVE  HealthInv'
<1>. PICK b : b = ByTime(taken)
  OBVIOUS
<1>. PICK old : old = [samples |-> samples, limit |-> limit, start |-> spikeStart]
  OBVIOUS
<1>. PICK new : new = AppendAll(old, b)
  OBVIOUS
<1>1. clock \in Nat /\ SeriesInv(old.samples, old.limit, old.start, clock)
  BY DEF HealthInv
<1>2. Later(b, clock) /\ Len(b) = n
  BY ByTimeOrders
<1>3. n \in 1 .. n
  OBVIOUS
<1>4. b[n] \in HReading
  BY <1>2, <1>3, ElementOfSeq DEF Later
<1>. PICK now \in Nat : now = b[n].at
  BY <1>4 DEF HReading
<1>5. SeriesInv(new.samples, new.limit, new.start, now)
  BY <1>1, <1>2, AppendAllKeeps
<1>6. /\ clock' = now /\ samples' = Cap(Prune(new.samples, now))
      /\ spikeStart' = new.start /\ limit' = new.limit
  BY <1>2 DEF HealthUpdate
<1>7. PICK d : Dropped(samples', new.samples, d)
  BY <1>5, <1>6, TrimDrops DEF SeriesInv
<1>8. SeriesInv(samples', new.limit, new.start, now)
  BY <1>5, <1>7, SeriesDropped
<1> QED
  BY <1>6, <1>8 DEF HealthInv

\* A reading, at a time.
LEMMA SampleIs ==
  ASSUME NEW r \in Readings, NEW t \in Nat
  PROVE  SampleAt(r, t) \in HReading /\ SampleAt(r, t).at = t
<1>1. PICK c \in Temps \cup {Missing}, known \in BOOLEAN : r = Reading(c, known)
  BY DEF Readings
<1>2. c \in Nat \cup {Missing}
  BY HealthAssumption
<1>3. r.temp = c /\ r.known = known /\ r.util \in {0, 80} /\ r.power \in {0, 2}
  BY <1>1 DEF Reading
<1> QED
  BY <1>2, <1>3 DEF SampleAt, HReading

LEMMA HealthSteps ==
  HealthInv /\ [HealthNext]_healthVars => HealthInv'
<1> SUFFICES ASSUME HealthInv, [HealthNext]_healthVars PROVE HealthInv'
  OBVIOUS
<1>0. clock \in Nat /\ clock + 1 \in Nat /\ clock + 2 \in Nat /\ clock < clock + 1 /\ clock < clock + 2
      /\ clock + 1 < clock + 2 /\ clock <= clock + 1
  BY DEF HealthInv
<1>1. ASSUME NEW r \in Readings, HealthUpdate(<<SampleAt(r, clock + 1)>>) PROVE HealthInv'
  <2>. PICK s \in HReading : s = SampleAt(r, clock + 1) /\ s.at = clock + 1
    BY <1>0, SampleIs
  <2>. PICK b : b = <<s>>
    OBVIOUS
  <2>1. b \in Seq(HReading) /\ Len(b) = 1 /\ b[1] = s /\ DOMAIN b = 1 .. 1
    OBVIOUS
  <2>2. \A i \in 1 .. Len(b) : clock < b[i].at
    BY <1>0, <2>1
  <2>3. PICK o : o = [i \in 1 .. 1 |-> s]
    OBVIOUS
  <2>4. s \in Range(b)
    BY <2>1 DEF Range
  <2>5. o \in [1 .. Len(b) -> Range(b)]
    BY <2>1, <2>3, <2>4
  <2>6. \A i, j \in 1 .. Len(b) : i < j => o[i].at < o[j].at
    BY <2>1
  <2>7. HealthUpdate(b)
    BY <1>1
  <2>8. b \in Seq(HReading) /\ 1 \in Nat \ {0} /\ 1 = Len(b)
    BY <2>1
  <2> QED
    BY ONLY HealthInv, <2>2, <2>5, <2>6, <2>7, <2>8, UpdateKeeps
<1>2. ASSUME NEW q \in Readings, NEW r \in Readings,
             HealthUpdate(<<SampleAt(q, clock + 2), SampleAt(r, clock + 1)>>)
      PROVE  HealthInv'
  <2>. PICK s \in HReading : s = SampleAt(r, clock + 1) /\ s.at = clock + 1
    BY <1>0, SampleIs
  <2>. PICK u \in HReading : u = SampleAt(q, clock + 2) /\ u.at = clock + 2
    BY <1>0, SampleIs
  <2>. PICK b : b = <<u, s>>
    OBVIOUS
  <2>1. b \in Seq(HReading) /\ Len(b) = 2 /\ b[1] = u /\ b[2] = s /\ DOMAIN b = 1 .. 2
    OBVIOUS
  <2>2. \A i \in 1 .. Len(b) : clock < b[i].at
    <3>1. \A i \in 1 .. 2 : i = 1 \/ i = 2
      OBVIOUS
    <3> QED
      BY <1>0, <2>1, <3>1
  <2>3. PICK o : o = [i \in 1 .. 2 |-> IF i = 1 THEN s ELSE u]
    OBVIOUS
  <2>4. s \in Range(b) /\ u \in Range(b)
    BY <2>1 DEF Range
  <2>5. o \in [1 .. Len(b) -> Range(b)]
    BY <2>1, <2>3, <2>4
  <2>6. o[1] = s /\ o[2] = u
    BY <2>3
  <2>7. \A i, j \in 1 .. Len(b) : i < j => o[i].at < o[j].at
    <3>1. \A i, j \in 1 .. 2 : i < j => i = 1 /\ j = 2
      OBVIOUS
    <3> QED
      BY <1>0, <2>1, <2>6, <3>1
  <2>8. HealthUpdate(b)
    BY <1>2
  <2>9. b \in Seq(HReading) /\ 2 \in Nat \ {0} /\ 2 = Len(b)
    BY <2>1
  <2> QED
    BY ONLY HealthInv, <2>2, <2>5, <2>7, <2>8, <2>9, UpdateKeeps
<1>3. CASE HealthSnapshot
  <2>1. clock' = clock + 1 /\ samples' = Cap(Prune(samples, clock + 1))
        /\ spikeStart' = spikeStart /\ limit' = limit
    BY <1>3 DEF HealthSnapshot
  <2>2. SeriesInv(samples, limit, spikeStart, clock + 1)
    BY <1>0, SeriesLater DEF HealthInv
  <2>3. PICK d : Dropped(samples', samples, d)
    BY <1>0, <2>1, TrimDrops DEF HealthInv, SeriesInv
  <2>4. SeriesInv(samples', limit, spikeStart, clock + 1)
    BY <2>2, <2>3, SeriesDropped
  <2> QED
    BY <1>0, <2>1, <2>4 DEF HealthInv
<1>4. CASE UNCHANGED healthVars
  BY <1>4 DEF healthVars, HealthInv
<1> QED
  BY <1>1, <1>2, <1>3, <1>4 DEF HealthNext
-----------------------------------------------------------------------------
(* The scan for past spikes *)

\* A has what the scan knows after each beginning of the series, up to the m-th.
Scans(A, start, ss, target, m) ==
  A = [i \in 0 .. m |-> IF i = 0 THEN start ELSE ScanStep(A[i - 1], ss[i], target)]

\* There is always one: the shortest beginning without one would be one longer
\* than a beginning with one.
LEMMA ScansExist ==
  ASSUME NEW n \in Nat, NEW start, NEW ss, NEW target
  PROVE  \E A : Scans(A, start, ss, target, n)
<1> SUFFICES ASSUME ~ \E A : Scans(A, start, ss, target, n) PROVE FALSE
  OBVIOUS
<1>1. PICK T : T = {m \in 0 .. n : ~ \E A : Scans(A, start, ss, target, m)}
  OBVIOUS
<1>2. T \in SUBSET Nat /\ n \in T
  BY <1>1
<1>3. PICK m \in T : \A k \in T : m <= k
  BY <1>2, LeastElement
<1>4. m \in 0 .. n /\ ~ \E A : Scans(A, start, ss, target, m)
  BY <1>1, <1>3
<1>5. CASE m = 0
  <2>1. PICK A : A = [i \in 0 .. 0 |-> start]
    OBVIOUS
  <2>2. PICK R : R = [i \in 0 .. 0 |-> IF i = 0 THEN start ELSE ScanStep(A[i - 1], ss[i], target)]
    OBVIOUS
  <2>3. \A i \in 0 .. 0 : R[i] = A[i]
    BY <2>1, <2>2
  <2>4. A = R
    BY <2>1, <2>2, <2>3
  <2>5. Scans(A, start, ss, target, 0)
    BY <2>2, <2>4 DEF Scans
  <2> QED
    BY <1>4, <1>5, <2>5
<1>6. CASE m # 0
  <2>1. m - 1 \in 0 .. n /\ m \in 1 .. n /\ ~ (m <= m - 1)
    BY <1>4, <1>6
  <2>2. PICK P : Scans(P, start, ss, target, m - 1)
    BY <1>1, <1>3, <2>1
  <2>3. \A i \in 0 .. m - 1 : P[i] = IF i = 0 THEN start ELSE ScanStep(P[i - 1], ss[i], target)
    <3>1. PICK R : R = [i \in 0 .. m - 1 |-> IF i = 0 THEN start ELSE ScanStep(P[i - 1], ss[i], target)]
      OBVIOUS
    <3>2. P = R
      BY <2>2, <3>1 DEF Scans
    <3>3. \A i \in 0 .. m - 1 : R[i] = IF i = 0 THEN start ELSE ScanStep(P[i - 1], ss[i], target)
      BY <3>1
    <3> QED
      BY ONLY <3>2, <3>3
  <2>4. PICK A : A = [i \in 0 .. m |-> IF i = m THEN ScanStep(P[m - 1], ss[m], target) ELSE P[i]]
    OBVIOUS
  <2>5. \A i \in 0 .. m : A[i] = IF i = m THEN ScanStep(P[m - 1], ss[m], target) ELSE P[i]
    BY <2>4
  <2>6. PICK R : R = [i \in 0 .. m |-> IF i = 0 THEN start ELSE ScanStep(A[i - 1], ss[i], target)]
    OBVIOUS
  <2>7. ASSUME NEW i \in 0 .. m PROVE R[i] = A[i]
    <3>1. R[i] = IF i = 0 THEN start ELSE ScanStep(A[i - 1], ss[i], target)
      BY <2>6
    <3>2. CASE i = 0
      <4>1. i # m /\ i \in 0 .. m - 1
        BY <2>1, <3>2
      <4> QED
        BY <2>3, <2>5, <3>1, <3>2, <4>1
    <3>3. CASE i = m
      <4>1. m - 1 \in 0 .. m /\ m - 1 # m
        BY <2>1
      <4> QED
        BY <1>6, <2>5, <3>1, <3>3, <4>1
    <3>4. CASE i # 0 /\ i # m
      <4>1. i - 1 \in 0 .. m /\ i - 1 # m /\ i \in 0 .. m - 1
        BY <2>1, <3>4
      <4>2. A[i - 1] = P[i - 1] /\ A[i] = P[i] /\ P[i] = ScanStep(P[i - 1], ss[i], target)
        BY <2>3, <2>5, <3>4, <4>1
      <4> QED
        BY <3>1, <3>4, <4>2
    <3> QED
      BY <3>2, <3>3, <3>4
  <2>8. A = R
    BY <2>4, <2>6, <2>7
  <2>9. Scans(A, start, ss, target, m)
    BY <2>6, <2>8 DEF Scans
  <2> QED
    BY <1>4, <2>9
<1> QED
  BY <1>5, <1>6

\* What a scan begins with.
ScanStart(ss) == [inSpike |-> FALSE, spiked |-> FALSE, peak |-> ss[1],
                  done |-> NoTime, sec |-> 0, peakTemp |-> 0]

\* A has what the scan of ss knows after each of its n samples.
ScanOf(A, ss, target, n) ==
  /\ ScanRecoveries(ss, target) = A[n] /\ A[0] = ScanStart(ss)
  /\ \A i \in 1 .. n : A[i] = ScanStep(A[i - 1], ss[i], target)

\* The scan goes from each sample to the next.
LEMMA ScanIs ==
  ASSUME NEW n \in Nat, NEW ss, NEW target, n = Len(ss), n >= 2
  PROVE  \E A : ScanOf(A, ss, target, n)
<1>. PICK start : start = ScanStart(ss)
  OBVIOUS
<1>0. start = [inSpike |-> FALSE, spiked |-> FALSE, peak |-> ss[1],
               done |-> NoTime, sec |-> 0, peakTemp |-> 0]
  BY DEF ScanStart
<1>. DEFINE C == CHOOSE A : A = [k \in 0 .. Len(ss) |->
                    IF k = 0 THEN [inSpike |-> FALSE, spiked |-> FALSE, peak |-> ss[1],
                                   done |-> NoTime, sec |-> 0, peakTemp |-> 0]
                    ELSE ScanStep(A[k - 1], ss[k], target)]
<1>1. \E A : A = [k \in 0 .. Len(ss) |->
                    IF k = 0 THEN [inSpike |-> FALSE, spiked |-> FALSE, peak |-> ss[1],
                                   done |-> NoTime, sec |-> 0, peakTemp |-> 0]
                    ELSE ScanStep(A[k - 1], ss[k], target)]
  <2>1. PICK A : Scans(A, start, ss, target, n)
    BY ScansExist
  <2> QED
    BY <1>0, <2>1 DEF Scans
<1>2. C = [k \in 0 .. Len(ss) |->
             IF k = 0 THEN [inSpike |-> FALSE, spiked |-> FALSE, peak |-> ss[1],
                            done |-> NoTime, sec |-> 0, peakTemp |-> 0]
             ELSE ScanStep(C[k - 1], ss[k], target)]
  BY <1>1
<1>3. ScanRecoveries(ss, target) = C[Len(ss)]
  <2>1. ~ (Len(ss) < 2)
    OBVIOUS
  <2> QED
    BY <2>1 DEF ScanRecoveries
<1>. HIDE DEF C
<1>4. PICK R : R = [i \in 0 .. n |-> IF i = 0 THEN start ELSE ScanStep(C[i - 1], ss[i], target)]
  OBVIOUS
<1>5. C = R
  BY <1>0, <1>2, <1>4
<1>6. R[0] = start /\ \A i \in 1 .. n : R[i] = ScanStep(C[i - 1], ss[i], target)
  <2>1. 0 \in 0 .. n /\ \A i \in 1 .. n : i \in 0 .. n /\ i # 0
    OBVIOUS
  <2> QED
    BY <1>4, <2>1
<1>7. C[0] = start /\ \A i \in 1 .. n : C[i] = ScanStep(C[i - 1], ss[i], target)
  BY ONLY <1>5, <1>6
<1> QED
  BY <1>3, <1>7 DEF ScanOf

\* The sample i is in the run of samples, none below the target, that ends with
\* the k-th.
InRun(ss, target, k, i) ==
  /\ i \in 1 .. k /\ Present(ss[i]) /\ ss[i].temp >= target
  /\ \A j \in i .. k : Present(ss[j]) => ss[j].temp >= target

\* It is the last of the hottest of that run, and above the target.
TopOf(ss, target, k, p) ==
  /\ InRun(ss, target, k, p) /\ ss[p].temp > target
  /\ \A i \in 1 .. k : InRun(ss, target, k, i) =>
        ss[i].temp <= ss[p].temp /\ (ss[i].temp = ss[p].temp => i <= p)

\* The sample r ends a spike.
EndsSpike(ss, target, r) ==
  /\ Present(ss[r]) /\ ss[r].temp < target
  /\ \E i \in 1 .. r - 1 : InRun(ss, target, r - 1, i) /\ ss[i].temp > target

\* It is the last of the first k that does.
LastEnd(ss, target, k, r) ==
  /\ r \in 1 .. k /\ EndsSpike(ss, target, r)
  /\ \A q \in 1 .. k : EndsSpike(ss, target, q) => q <= r

\* What the scan knows after k samples: whether a spike is on, its last peak,
\* and the last spike that ended.
Knows(acc, ss, target, k) ==
  /\ acc.inSpike => \E p \in 1 .. k : TopOf(ss, target, k, p) /\ acc.peak = ss[p]
  /\ ~ acc.inSpike => \A i \in 1 .. k : InRun(ss, target, k, i) => ~ (ss[i].temp > target)
  /\ \/ acc.done = NoTime /\ \A r \in 1 .. k : ~ EndsSpike(ss, target, r)
     \/ \E r \in 1 .. k : \E p \in 1 .. r - 1 :
          /\ LastEnd(ss, target, k, r) /\ TopOf(ss, target, r - 1, p)
          /\ acc.done = ss[r].at /\ acc.sec = ss[r].at - ss[p].at
          /\ acc.peakTemp = ss[p].temp

\* A sample that does not end a spike leaves what is known of the last one.
LEMMA EndStays ==
  ASSUME NEW ss, NEW target, NEW k \in Nat \ {0}, ~ EndsSpike(ss, target, k),
         NEW acc, Knows(acc, ss, target, k - 1),
         NEW new, new.done = acc.done, new.sec = acc.sec, new.peakTemp = acc.peakTemp
  PROVE  \/ new.done = NoTime /\ \A r \in 1 .. k : ~ EndsSpike(ss, target, r)
         \/ \E r \in 1 .. k : \E p \in 1 .. r - 1 :
              /\ LastEnd(ss, target, k, r) /\ TopOf(ss, target, r - 1, p)
              /\ new.done = ss[r].at /\ new.sec = ss[r].at - ss[p].at
              /\ new.peakTemp = ss[p].temp
<1>1. \A r \in 1 .. k : r \in 1 .. k - 1 \/ r = k
  OBVIOUS
<1>2. \A r \in 1 .. k - 1 : r \in 1 .. k
  OBVIOUS
<1>3. CASE acc.done = NoTime /\ \A r \in 1 .. k - 1 : ~ EndsSpike(ss, target, r)
  BY <1>1, <1>3
<1>4. ASSUME NEW r \in 1 .. k - 1, NEW p \in 1 .. r - 1, LastEnd(ss, target, k - 1, r),
             TopOf(ss, target, r - 1, p), acc.done = ss[r].at,
             acc.sec = ss[r].at - ss[p].at, acc.peakTemp = ss[p].temp
      PROVE  \E q \in 1 .. k : \E u \in 1 .. q - 1 :
              /\ LastEnd(ss, target, k, q) /\ TopOf(ss, target, q - 1, u)
              /\ new.done = ss[q].at /\ new.sec = ss[q].at - ss[u].at
              /\ new.peakTemp = ss[u].temp
  <2>1. LastEnd(ss, target, k, r)
    BY <1>1, <1>2, <1>4 DEF LastEnd
  <2> QED
    BY <1>2, <1>4, <2>1
<1> QED
  BY <1>3, <1>4 DEF Knows

\* The run goes on through a sample that is missing or not below the target.
LEMMA RunGoesOn ==
  ASSUME NEW ss, NEW target, NEW k \in Nat \ {0},
         Present(ss[k]) => ss[k].temp >= target
  PROVE  /\ \A i \in 1 .. k - 1 : InRun(ss, target, k, i) <=> InRun(ss, target, k - 1, i)
         /\ InRun(ss, target, k, k) <=> Present(ss[k])
<1>1. ASSUME NEW i \in 1 .. k - 1 PROVE InRun(ss, target, k, i) <=> InRun(ss, target, k - 1, i)
  <2>1. i \in 1 .. k /\ (\A j \in i .. k : j \in i .. k - 1 \/ j = k)
        /\ (\A j \in i .. k - 1 : j \in i .. k)
    OBVIOUS
  <2> QED
    BY <2>1 DEF InRun
<1>2. k \in 1 .. k /\ \A j \in k .. k : j = k
  OBVIOUS
<1> QED
  BY <1>1, <1>2 DEF InRun

\* What a scan keeps.
ScanState == [inSpike : BOOLEAN, spiked : BOOLEAN, peak : HSample,
              done : Nat \cup {NoTime}, sec : Int, peakTemp : Int]

\* Order among three temperatures.
LEMMA AtMost ==
  ASSUME NEW x \in Nat, NEW y \in Nat, NEW z \in Nat, x <= y, z >= y
  PROVE  x <= z
OBVIOUS

\* A sample in the run, or one that is missing.
LEMMA ScanKeepsRun ==
  ASSUME NEW n \in Nat, NEW ss \in Seq(HSample), n = Len(ss), NEW k \in 1 .. n,
         NEW target \in Nat, NEW acc \in ScanState, Knows(acc, ss, target, k - 1),
         Present(ss[k]) => ss[k].temp >= target
  PROVE  /\ ScanStep(acc, ss[k], target) \in ScanState
         /\ Knows(ScanStep(acc, ss[k], target), ss, target, k)
<1>. PICK new : new = ScanStep(acc, ss[k], target)
  OBVIOUS
<1>1. k \in Nat \ {0} /\ (\A i \in 1 .. k : i \in 1 .. k - 1 \/ i = k)
      /\ (\A i \in 1 .. k - 1 : i \in 1 .. k /\ i <= k) /\ k <= k /\ k \in 1 .. k
  OBVIOUS
<1>2. /\ \A i \in 1 .. k - 1 : InRun(ss, target, k, i) <=> InRun(ss, target, k - 1, i)
      /\ InRun(ss, target, k, k) <=> Present(ss[k])
  BY <1>1, RunGoesOn
<1>3. \A i \in 1 .. k : ss[i] \in HSample /\ (Present(ss[i]) => ss[i].temp \in Nat)
  <2>1. ASSUME NEW i \in 1 .. k PROVE ss[i] \in HSample
    <3>1. i \in 1 .. n
      OBVIOUS
    <3> QED
      BY <3>1, ElementOfSeq
  <2> QED
    BY <2>1 DEF HSample, Present
<1>4. ~ EndsSpike(ss, target, k)
  <2>1. Present(ss[k]) => ~ (ss[k].temp < target)
    BY <1>1, <1>3
  <2> QED
    BY <2>1 DEF EndsSpike
<1>5. ASSUME new.done = acc.done, new.sec = acc.sec, new.peakTemp = acc.peakTemp,
             new.inSpike => \E p \in 1 .. k : TopOf(ss, target, k, p) /\ new.peak = ss[p],
             ~ new.inSpike => \A i \in 1 .. k : InRun(ss, target, k, i) => ~ (ss[i].temp > target)
      PROVE  Knows(new, ss, target, k)
  <2>1. \/ new.done = NoTime /\ \A r \in 1 .. k : ~ EndsSpike(ss, target, r)
        \/ \E r \in 1 .. k : \E p \in 1 .. r - 1 :
             /\ LastEnd(ss, target, k, r) /\ TopOf(ss, target, r - 1, p)
             /\ new.done = ss[r].at /\ new.sec = ss[r].at - ss[p].at
             /\ new.peakTemp = ss[p].temp
    BY <1>1, <1>4, <1>5, EndStays
  <2> QED
    BY <1>5, <2>1 DEF Knows
<1>6. ASSUME NEW p \in 1 .. k - 1, TopOf(ss, target, k - 1, p),
             Present(ss[k]) => ss[k].temp < ss[p].temp
      PROVE  TopOf(ss, target, k, p)
  <2>1. InRun(ss, target, k, p) /\ ss[p].temp > target
    BY <1>2, <1>6 DEF TopOf
  <2>2. ASSUME NEW i \in 1 .. k, InRun(ss, target, k, i)
        PROVE  ss[i].temp <= ss[p].temp /\ (ss[i].temp = ss[p].temp => i <= p)
    <3>1. CASE i = k
      <4>1. Present(ss[k]) /\ Present(ss[p])
        BY <1>2, <2>1, <2>2, <3>1 DEF InRun
      <4>2. ss[k].temp < ss[p].temp /\ ss[k].temp \in Nat /\ ss[p].temp \in Nat
        BY <1>1, <1>3, <1>6, <4>1
      <4> QED
        BY ONLY <3>1, <4>2
    <3>2. CASE i # k
      BY <1>1, <1>2, <1>6, <2>2, <3>2 DEF TopOf
    <3> QED
      BY <3>1, <3>2
  <2> QED
    BY <2>1, <2>2 DEF TopOf
<1>7. ASSUME Present(ss[k]), ss[k].temp > target,
             \A i \in 1 .. k - 1 : InRun(ss, target, k - 1, i) => ss[i].temp <= ss[k].temp
      PROVE  TopOf(ss, target, k, k)
  <2>1. InRun(ss, target, k, k)
    BY <1>2, <1>7
  <2>2. ASSUME NEW i \in 1 .. k, InRun(ss, target, k, i)
        PROVE  ss[i].temp <= ss[k].temp /\ (ss[i].temp = ss[k].temp => i <= k)
    <3>1. CASE i = k
      BY <1>1, <1>3, <1>7, <3>1
    <3>2. CASE i # k
      BY <1>1, <1>2, <1>7, <2>2, <3>2
    <3> QED
      BY <3>1, <3>2
  <2> QED
    BY <1>7, <2>1, <2>2 DEF TopOf
<1>8. CASE ~ Present(ss[k])
  <2>1. new = acc
    BY <1>8 DEF ScanStep
  <2>2. new.inSpike => \E p \in 1 .. k : TopOf(ss, target, k, p) /\ new.peak = ss[p]
    <3> SUFFICES ASSUME acc.inSpike PROVE \E p \in 1 .. k : TopOf(ss, target, k, p) /\ acc.peak = ss[p]
      BY <2>1
    <3>1. PICK p \in 1 .. k - 1 : TopOf(ss, target, k - 1, p) /\ acc.peak = ss[p]
      BY DEF Knows
    <3> QED
      BY <1>1, <1>6, <1>8, <3>1
  <2>3. ~ new.inSpike => \A i \in 1 .. k : InRun(ss, target, k, i) => ~ (ss[i].temp > target)
    BY <1>1, <1>2, <1>8, <2>1 DEF Knows
  <2> QED
    BY <1>5, <2>1, <2>2, <2>3
<1>9. CASE Present(ss[k]) /\ acc.inSpike
  <2>1. PICK p \in 1 .. k - 1 : TopOf(ss, target, k - 1, p) /\ acc.peak = ss[p]
    BY <1>9 DEF Knows
  <2>2. ss[k].temp \in Nat /\ ss[p].temp \in Nat /\ ss[p].temp > target
    <3>1. Present(ss[p]) /\ ss[p].temp > target
      BY <2>1 DEF TopOf, InRun
    <3> QED
      BY <1>1, <1>3, <1>9, <3>1
  <2>3. new = [acc EXCEPT !.peak = IF ss[k].temp >= ss[p].temp THEN ss[k] ELSE ss[p]]
    BY <1>9, <2>1 DEF ScanStep, LaterPeak
  <2>4. /\ new \in ScanState /\ new.inSpike /\ new.done = acc.done /\ new.sec = acc.sec
        /\ new.peakTemp = acc.peakTemp
        /\ new.peak = IF ss[k].temp >= ss[p].temp THEN ss[k] ELSE ss[p]
    <3>1. ss[k] \in HSample /\ ss[p] \in HSample
      BY <1>1, <1>3
    <3> QED
      BY <1>9, <2>3, <3>1 DEF ScanState
  <2>5. CASE ss[k].temp >= ss[p].temp
    <3>1. ss[k].temp > target
      BY <2>2, <2>5
    <3>2. ASSUME NEW i \in 1 .. k - 1, InRun(ss, target, k - 1, i)
          PROVE  ss[i].temp <= ss[k].temp
      <4>1. ss[i].temp <= ss[p].temp /\ Present(ss[i])
        BY <2>1, <3>2 DEF TopOf, InRun
      <4>2. ss[i].temp \in Nat /\ ss[p].temp \in Nat /\ ss[k].temp \in Nat
        BY <1>1, <1>3, <2>2, <4>1
      <4> QED
        BY ONLY <2>5, <4>1, <4>2, AtMost, Zenon
    <3>3. TopOf(ss, target, k, k)
      BY <1>7, <1>9, <3>1, <3>2
    <3> QED
      BY <1>1, <1>5, <2>4, <2>5, <3>3
  <2>6. CASE ~ (ss[k].temp >= ss[p].temp)
    <3>1. ss[k].temp < ss[p].temp
      BY <2>2, <2>6
    <3>2. TopOf(ss, target, k, p)
      BY <1>6, <2>1, <3>1
    <3> QED
      BY <1>1, <1>5, <2>4, <2>6, <3>2
  <2> QED
    BY <2>5, <2>6
<1>10. CASE Present(ss[k]) /\ ~ acc.inSpike
  <2>1. \A i \in 1 .. k - 1 : InRun(ss, target, k - 1, i) => ~ (ss[i].temp > target)
    BY <1>10 DEF Knows
  <2>2. CASE ss[k].temp > target
    <3>1. new = [acc EXCEPT !.inSpike = TRUE, !.spiked = TRUE, !.peak = ss[k]]
      BY <1>10, <2>2 DEF ScanStep
    <3>2. /\ new \in ScanState /\ new.inSpike /\ new.done = acc.done /\ new.sec = acc.sec
          /\ new.peakTemp = acc.peakTemp /\ new.peak = ss[k]
      <4>1. ss[k] \in HSample
        BY <1>1, <1>3
      <4> QED
        BY <3>1, <4>1 DEF ScanState
    <3>3. ASSUME NEW i \in 1 .. k - 1, InRun(ss, target, k - 1, i)
          PROVE  ss[i].temp <= ss[k].temp
      <4>1. Present(ss[i]) /\ ~ (ss[i].temp > target)
        BY <2>1, <3>3 DEF InRun
      <4>2. ss[i].temp \in Nat /\ ss[k].temp \in Nat
        BY <1>1, <1>3, <1>10, <4>1
      <4> QED
        BY ONLY <2>2, <4>1, <4>2, target \in Nat
    <3>4. TopOf(ss, target, k, k)
      BY <1>7, <1>10, <2>2, <3>3
    <3> QED
      BY <1>1, <1>5, <3>2, <3>4
  <2>3. CASE ~ (ss[k].temp > target)
    <3>1. new = acc
      BY <1>10, <2>3 DEF ScanStep
    <3>2. \A i \in 1 .. k : InRun(ss, target, k, i) => ~ (ss[i].temp > target)
      BY <1>1, <1>2, <2>1, <2>3
    <3> QED
      BY <1>5, <1>10, <3>1, <3>2
  <2> QED
    BY <2>2, <2>3
<1> QED
  BY <1>8, <1>9, <1>10

\* A sample below the target.
LEMMA ScanKeepsEnd ==
  ASSUME NEW n \in Nat, NEW ss \in Seq(HSample), n = Len(ss), TimesRise(ss), NEW k \in 1 .. n,
         NEW target \in Nat, NEW acc \in ScanState, Knows(acc, ss, target, k - 1),
         Present(ss[k]), ~ (ss[k].temp >= target)
  PROVE  /\ ScanStep(acc, ss[k], target) \in ScanState
         /\ Knows(ScanStep(acc, ss[k], target), ss, target, k)
<1>. PICK new : new = ScanStep(acc, ss[k], target)
  OBVIOUS
<1>1. k \in Nat \ {0} /\ (\A i \in 1 .. k : i \in 1 .. k - 1 \/ i = k)
      /\ (\A i \in 1 .. k - 1 : i \in 1 .. k /\ i < k) /\ k \in 1 .. k
  OBVIOUS
<1>2. ASSUME NEW i \in 1 .. k PROVE ~ InRun(ss, target, k, i)
  <2>1. k \in i .. k
    OBVIOUS
  <2> QED
    BY <2>1 DEF InRun
<1>3. ASSUME NEW i \in 1 .. k PROVE ss[i] \in HSample /\ ss[i].at \in Nat /\ ss[i].temp \in Int
  <2>1. i \in 1 .. n
    OBVIOUS
  <2>2. ss[i] \in HSample
    BY <2>1, ElementOfSeq
  <2> QED
    BY <2>2 DEF HSample, Missing
<1>4. ss[k].temp < target /\ ~ (ss[k].temp > target)
  BY <1>1, <1>3
<1>5. CASE ~ acc.inSpike
  <2>1. new = acc
    BY <1>4, <1>5 DEF ScanStep
  <2>2. ~ EndsSpike(ss, target, k)
    BY <1>5 DEF EndsSpike, Knows
  <2>3. \/ new.done = NoTime /\ \A r \in 1 .. k : ~ EndsSpike(ss, target, r)
        \/ \E r \in 1 .. k : \E p \in 1 .. r - 1 :
             /\ LastEnd(ss, target, k, r) /\ TopOf(ss, target, r - 1, p)
             /\ new.done = ss[r].at /\ new.sec = ss[r].at - ss[p].at
             /\ new.peakTemp = ss[p].temp
    BY <1>1, <2>1, <2>2, EndStays
  <2> QED
    BY <1>2, <1>5, <2>1, <2>3 DEF Knows
<1>6. CASE acc.inSpike
  <2>1. PICK p \in 1 .. k - 1 : TopOf(ss, target, k - 1, p) /\ acc.peak = ss[p]
    BY <1>6 DEF Knows
  <2>2. acc.done = NoTime \/ ss[k].at > acc.done
    <3>1. ASSUME NEW r \in 1 .. k - 1, acc.done = ss[r].at PROVE ss[k].at > acc.done
      <4>1. r \in DOMAIN ss /\ k \in DOMAIN ss /\ r < k
        BY LenProperties
      <4>2. ss[r].at < ss[k].at
        BY <4>1 DEF TimesRise
      <4> QED
        BY <1>1, <1>3, <3>1, <4>2
    <3> QED
      BY <3>1 DEF Knows
  <2>3. new = [inSpike |-> FALSE, spiked |-> TRUE, peak |-> ss[p], done |-> ss[k].at,
               sec |-> ss[k].at - ss[p].at, peakTemp |-> ss[p].temp]
    BY <1>6, <2>1, <2>2 DEF ScanStep
  <2>4. /\ ss[k] \in HSample /\ ss[k].at \in Nat
        /\ ss[p] \in HSample /\ ss[p].at \in Nat /\ ss[p].temp \in Int
    BY <1>1, <1>3
  <2>5. new \in ScanState
    BY <2>3, <2>4 DEF ScanState
  <2>6. EndsSpike(ss, target, k)
    BY <1>4, <2>1 DEF EndsSpike, TopOf
  <2>7. LastEnd(ss, target, k, k)
    <3>1. \A q \in 1 .. k : q <= k
      OBVIOUS
    <3> QED
      BY <1>1, <2>6, <3>1 DEF LastEnd
  <2>8. ~ new.inSpike /\ new.done = ss[k].at /\ new.sec = ss[k].at - ss[p].at
        /\ new.peakTemp = ss[p].temp
    BY <2>3
  <2> QED
    BY <1>1, <1>2, <2>1, <2>5, <2>7, <2>8 DEF Knows
<1> QED
  BY <1>5, <1>6

\* So a scan of the whole series knows its last spike.
LEMMA ScanKnows ==
  ASSUME NEW n \in Nat, NEW ss \in Seq(HSample), n = Len(ss), n >= 2, TimesRise(ss),
         NEW target \in Nat
  PROVE  /\ ScanRecoveries(ss, target) \in ScanState
         /\ Knows(ScanRecoveries(ss, target), ss, target, n)
<1>. DEFINE Good(acc, k) == acc \in ScanState /\ Knows(acc, ss, target, k)
<1>1. PICK A : ScanOf(A, ss, target, n)
  BY ONLY n \in Nat, n = Len(ss), n >= 2, ScanIs
<1>2. Good(A[0], 0)
  <2>1. ss[1] \in HSample
    <3>1. 1 \in 1 .. n
      OBVIOUS
    <3> QED
      BY <3>1, ElementOfSeq
  <2>2. A[0] = [inSpike |-> FALSE, spiked |-> FALSE, peak |-> ss[1],
                done |-> NoTime, sec |-> 0, peakTemp |-> 0]
    BY <1>1 DEF ScanStart, ScanOf
  <2>3. A[0] \in ScanState /\ ~ A[0].inSpike /\ A[0].done = NoTime
    BY <2>1, <2>2 DEF ScanState
  <2>4. 1 .. 0 = {}
    OBVIOUS
  <2> QED
    BY <2>3, <2>4 DEF Knows
<1>3. ASSUME NEW k \in 1 .. n, Good(A[k - 1], k - 1) PROVE Good(A[k], k)
  <2>1. A[k] = ScanStep(A[k - 1], ss[k], target)
    BY <1>1 DEF ScanOf
  <2>2. CASE Present(ss[k]) => ss[k].temp >= target
    <3>1. Good(ScanStep(A[k - 1], ss[k], target), k)
      BY <1>3, <2>2, ScanKeepsRun
    <3> QED
      BY <2>1, <3>1
  <2>3. CASE Present(ss[k]) /\ ~ (ss[k].temp >= target)
    <3>1. Good(ScanStep(A[k - 1], ss[k], target), k)
      BY <1>3, <2>3, ScanKeepsEnd
    <3> QED
      BY <2>1, <3>1
  <2> QED
    BY <2>2, <2>3
<1>4. PICK T : T = {k \in 0 .. n : ~ Good(A[k], k)}
  OBVIOUS
<1>5. n \in 0 .. n /\ T \in SUBSET Nat
  BY <1>4
<1> SUFFICES ASSUME T # {} PROVE FALSE
  BY <1>1, <1>4, <1>5 DEF ScanOf
<1>6. PICK k \in T : \A q \in T : k <= q
  BY <1>5, LeastElement
<1>7. k \in 0 .. n /\ ~ Good(A[k], k)
  BY <1>4, <1>6
<1>8. k \in 1 .. n /\ k - 1 \in 0 .. n /\ ~ (k <= k - 1)
  <2>1. k # 0
    BY <1>2, <1>7
  <2> QED
    BY <1>7, <2>1
<1>9. Good(A[k - 1], k - 1)
  BY <1>4, <1>6, <1>8
<1> QED
  BY <1>3, <1>7, <1>8, <1>9

-----------------------------------------------------------------------------
(* What the panel shows *)

\* The greatest of a set.
LEMMA MaxUnique ==
  ASSUME NEW T \in SUBSET Int, NEW m \in T, \A k \in T : k <= m
  PROVE  Max(T) = m
<1>1. \A k \in T : m >= k
  OBVIOUS
<1>. PICK x : x = Max(T)
  OBVIOUS
<1>2. x \in T /\ \A k \in T : x >= k
  BY <1>1 DEF Max
<1>3. x >= m /\ m >= x /\ x \in Int /\ m \in Int
  BY <1>1, <1>2
<1> QED
  BY ONLY <1>3, x = Max(T)

\* The limit has a target, and the samples are numbers.
LEMMA HealthHolds ==
  ASSUME HealthInv
  PROVE  /\ RT \in Nat /\ Target(DefaultLimit) \in Nat
         /\ samples \in Seq(HSample) /\ Len(samples) \in Nat /\ DOMAIN samples = 1 .. Len(samples)
         /\ \A i \in 1 .. Len(samples) :
              /\ samples[i].at \in Nat /\ samples[i].temp \in Int
              /\ Present(samples[i]) => samples[i].temp \in Nat
<1>1. samples \in Seq(HSample) /\ limit \in {DefaultLimit, ModelLimit}
  BY DEF HealthInv, SeriesInv
<1>2. Len(samples) \in Nat /\ DOMAIN samples = 1 .. Len(samples)
  BY <1>1, LenProperties
<1>3. RT \in Nat /\ Target(DefaultLimit) \in Nat
  BY <1>1, LimitsAre DEF RT
<1>4. ASSUME NEW i \in 1 .. Len(samples) PROVE samples[i] \in HSample
  BY <1>1, <1>2, ElementOfSeq
<1> QED
  BY <1>1, <1>2, <1>3, <1>4 DEF HSample, Present, Missing

LEMMA LatestMeans ==
  HealthInv => RecoveryIsLatest
<1> SUFFICES ASSUME HealthInv, Panel.panel = "recovered", Recovered # {}
             PROVE  LET k == Max(Recovered)
                        top == Max({samples[i].temp : i \in RunBefore(k)})
                        i == Max({j \in RunBefore(k) : samples[j].temp = top})
                    IN  Panel.peak = top /\ Panel.sec = samples[k].at - samples[i].at
  BY DEF RecoveryIsLatest
<1>. PICK n \in Nat : n = Len(samples) /\ DOMAIN samples = 1 .. n
  BY HealthHolds
<1>. PICK ss \in Seq(HSample) : ss = samples
  BY HealthHolds
<1>. PICK target \in Nat : target = RT
  BY HealthHolds
<1>0. /\ \A i \in 1 .. n : ss[i].at \in Nat /\ ss[i].temp \in Int
      /\ \A i \in 1 .. n : Present(ss[i]) => ss[i].temp \in Nat
  BY HealthHolds
<1>1. TimesRise(ss)
  BY DEF HealthInv, SeriesInv
<1>2. ASSUME NEW k \in 1 .. n PROVE RunBefore(k) = {i \in 1 .. k - 1 : InRun(ss, target, k - 1, i)}
  BY DEF RunBefore, InRun
<1>3. Recovered = {k \in 1 .. n : EndsSpike(ss, target, k)}
  <2>1. ASSUME NEW k \in 1 .. n
        PROVE  EndsSpike(ss, target, k) <=>
                 /\ Present(samples[k]) /\ samples[k].temp < RT
                 /\ \E i \in RunBefore(k) : samples[i].temp > RT
    BY <1>2 DEF EndsSpike
  <2> QED
    BY <2>1 DEF Recovered
<1>4. n >= 2
  <2>1. PICK k \in 1 .. n : EndsSpike(ss, target, k)
    BY <1>3
  <2>2. PICK i \in 1 .. k - 1 : InRun(ss, target, k - 1, i)
    BY <2>1 DEF EndsSpike
  <2> QED
    BY <2>2
<1>. PICK scan : scan = ScanRecoveries(ss, target)
  OBVIOUS
<1>5. Panel.peak = scan.peakTemp /\ Panel.sec = scan.sec
  <2>. PICK active : active = (ss # << >> /\ Present(ss[Len(ss)]) /\ ss[Len(ss)].temp > target)
    OBVIOUS
  <2>. PICK from : from = IF spikeStart # NoTime THEN spikeStart ELSE FoundStart(ss, target)
    OBVIOUS
  <2>1. Panel = IF active
                THEN [panel |-> "active", sec |-> clock - from, peak |-> ss[Len(ss)].temp,
                      rating |-> RecoveryRating(clock - from)]
                ELSE IF ~ scan.spiked
                THEN [panel |-> "none", sec |-> 0, peak |-> 0, rating |-> "good"]
                ELSE [panel |-> "recovered", sec |-> scan.sec, peak |-> scan.peakTemp,
                      rating |-> RecoveryRating(scan.sec)]
    BY DEF Panel, Recovery, RT
  <2> QED
    BY <2>1
<1>6. Knows(scan, ss, target, n)
  BY <1>1, <1>4, ScanKnows
<1>7. PICK r \in 1 .. n, p \in 1 .. n :
        /\ p \in 1 .. r - 1 /\ LastEnd(ss, target, n, r) /\ TopOf(ss, target, r - 1, p)
        /\ scan.sec = ss[r].at - ss[p].at /\ scan.peakTemp = ss[p].temp
  <2>1. ~ \A r \in 1 .. n : ~ EndsSpike(ss, target, r)
    BY <1>3
  <2>2. PICK r \in 1 .. n : \E p \in 1 .. r - 1 :
          /\ LastEnd(ss, target, n, r) /\ TopOf(ss, target, r - 1, p)
          /\ scan.done = ss[r].at /\ scan.sec = ss[r].at - ss[p].at
          /\ scan.peakTemp = ss[p].temp
    BY <1>6, <2>1 DEF Knows
  <2>3. \A p \in 1 .. r - 1 : p \in 1 .. n
    OBVIOUS
  <2> QED
    BY <2>2, <2>3
<1>8. Max(Recovered) = r
  <2>1. Recovered \in SUBSET Int /\ r \in Recovered /\ \A k \in Recovered : k <= r
    BY <1>3, <1>7 DEF LastEnd
  <2> QED
    BY <2>1, MaxUnique
<1>9. RunBefore(r) = {i \in 1 .. r - 1 : InRun(ss, target, r - 1, i)} /\ p \in RunBefore(r)
  BY <1>2, <1>7 DEF TopOf
<1>10. Max({samples[i].temp : i \in RunBefore(r)}) = ss[p].temp
  <2>. PICK T : T = {samples[i].temp : i \in RunBefore(r)}
    OBVIOUS
  <2>1. \A i \in RunBefore(r) : ss[i].temp \in Int /\ ss[i].temp <= ss[p].temp
    BY <1>0, <1>7, <1>9 DEF TopOf
  <2>2. T \in SUBSET Int /\ ss[p].temp \in T /\ \A t \in T : t <= ss[p].temp
    BY <1>9, <2>1
  <2> QED
    BY <2>2, MaxUnique
<1>11. Max({j \in RunBefore(r) : samples[j].temp = ss[p].temp}) = p
  <2>. PICK T : T = {j \in RunBefore(r) : samples[j].temp = ss[p].temp}
    OBVIOUS
  <2>1. T \in SUBSET Int /\ p \in T /\ \A j \in T : j <= p
    BY <1>7, <1>9 DEF TopOf
  <2> QED
    BY <2>1, MaxUnique
<1> QED
  BY <1>5, <1>7, <1>8, <1>10, <1>11

\* The last of the series is above the target: where its run starts.
LEMMA FoundIs ==
  ASSUME NEW n \in Nat \ {0}, NEW ss \in Seq(HSample), n = Len(ss), NEW target \in Nat,
         Present(ss[n]), ss[n].temp > target
  PROVE  \E m \in 1 .. n :
           /\ FoundStart(ss, target) = ss[m].at
           /\ \A i \in m .. n : Present(ss[i]) => ~ (ss[i].temp < target)
<1>1. DOMAIN ss = 1 .. n /\ n \in 1 .. n
  BY LenProperties
<1>2. ASSUME NEW i \in 1 .. n, Present(ss[i]) PROVE ss[i].temp \in Nat
  <2>1. ss[i] \in HSample
    BY <1>2, ElementOfSeq
  <2> QED
    BY <1>2, <2>1 DEF HSample, Present
<1>. PICK below : below = {i \in DOMAIN ss : Present(ss[i]) /\ ss[i].temp < target}
  OBVIOUS
<1>. PICK after : after = {i \in DOMAIN ss : /\ Present(ss[i]) /\ ss[i].temp >= target
                                             /\ \A j \in below : j < i}
  OBVIOUS
<1>3. n \in after
  <2>1. ss[n].temp >= target /\ ~ (ss[n].temp < target)
    BY <1>1, <1>2
  <2>2. ASSUME NEW j \in below PROVE j < n
    <3>1. j \in 1 .. n /\ j # n
      BY <1>1, <2>1
    <3> QED
      BY <3>1
  <2> QED
    BY <1>1, <2>1, <2>2
<1>4. after \in SUBSET Nat /\ after \subseteq 1 .. n
  BY <1>1
<1>. PICK m : m = Min(after)
  OBVIOUS
<1>5. m \in after /\ m \in 1 .. n
  BY <1>3, <1>4, MinIs
<1>6. FoundStart(ss, target) = ss[m].at
  BY <1>3 DEF FoundStart
<1>7. ASSUME NEW i \in m .. n, Present(ss[i]), ss[i].temp < target PROVE FALSE
  <2>1. i \in below
    BY <1>1, <1>5, <1>7
  <2> QED
    BY <1>5, <1>7, <2>1
<1> QED
  BY <1>5, <1>6, <1>7

\* The lowest target the device has had.
LEMMA LowestIs ==
  ASSUME HealthInv
  PROVE  LowestTarget = LowTarget(limit) /\ LowestTarget \in Nat /\ LowestTarget <= RT
<1>. PICK a \in Nat, b \in Nat : a = RT /\ b = Target(DefaultLimit)
  BY HealthHolds
<1>. PICK T : T = {a, b}
  OBVIOUS
<1>. PICK m : m = Min(T)
  OBVIOUS
<1>1. m \in T /\ \A k \in T : m <= k
  BY MinIs
<1>2. m = IF a < b THEN a ELSE b
  BY ONLY <1>1, a \in Nat, b \in Nat, T = {a, b}
<1>3. LowestTarget = m /\ LowTarget(limit) = IF a < b THEN a ELSE b
  BY DEF LowestTarget, LowTarget, RT
<1> QED
  BY <1>2, <1>3

LEMMA NotOverstated ==
  HealthInv => SpikeNotOverstated
<1> SUFFICES ASSUME HealthInv, Panel.panel = "active"
             PROVE  LET from == clock - Panel.sec
                        all == \A i \in DOMAIN samples : Present(samples[i])
                    IN  /\ Panel.sec >= 0
                        /\ \A i \in DOMAIN samples :
                              samples[i].at >= from /\ Present(samples[i])
                                 => samples[i].temp >= LowestTarget
                        /\ all /\ Target(DefaultLimit) <= RT => from <= FoundStart(samples, RT)
  BY DEF SpikeNotOverstated
<1>. PICK n \in Nat : n = Len(samples) /\ DOMAIN samples = 1 .. n
  BY HealthHolds
<1>. PICK ss \in Seq(HSample) : ss = samples
  BY HealthHolds
<1>. PICK target \in Nat : target = RT
  BY HealthHolds
<1>. PICK low \in Nat : low = LowestTarget /\ low = LowTarget(limit) /\ low <= target
  BY LowestIs
<1>0. /\ \A i \in 1 .. n : ss[i].at \in Nat /\ ss[i].temp \in Int
      /\ \A i \in 1 .. n : Present(ss[i]) => ss[i].temp \in Nat
  BY HealthHolds
<1>1. /\ TimesRise(ss) /\ clock \in Nat /\ \A i \in 1 .. n : ss[i].at <= clock
      /\ spikeStart \in Nat \cup {NoTime} /\ spikeStart <= clock
      /\ SpikeFrom(ss, limit, spikeStart)
  BY DEF HealthInv, SeriesInv
<1>2. ASSUME NEW i \in 1 .. n, NEW j \in 1 .. n, ss[i].at <= ss[j].at PROVE i <= j
  <2> SUFFICES ASSUME j < i PROVE FALSE
    OBVIOUS
  <2>1. ss[j].at < ss[i].at
    BY <1>1 DEF TimesRise
  <2>2. ss[i].at \in Nat /\ ss[j].at \in Nat /\ ss[i].at <= ss[j].at
    BY <1>0, <1>2
  <2> QED
    BY ONLY <2>1, <2>2
<1>. PICK from : from = IF spikeStart # NoTime THEN spikeStart ELSE FoundStart(ss, target)
  OBVIOUS
<1>3. n > 0 /\ Present(ss[n]) /\ ss[n].temp > target /\ Panel.sec = clock - from
  <2>. PICK scan : scan = ScanRecoveries(ss, target)
    OBVIOUS
  <2>. PICK active : active = (ss # << >> /\ Present(ss[Len(ss)]) /\ ss[Len(ss)].temp > target)
    OBVIOUS
  <2>1. Panel = IF active
                THEN [panel |-> "active", sec |-> clock - from, peak |-> ss[Len(ss)].temp,
                      rating |-> RecoveryRating(clock - from)]
                ELSE IF ~ scan.spiked
                THEN [panel |-> "none", sec |-> 0, peak |-> 0, rating |-> "good"]
                ELSE [panel |-> "recovered", sec |-> scan.sec, peak |-> scan.peakTemp,
                      rating |-> RecoveryRating(scan.sec)]
    BY DEF Panel, Recovery, RT
  <2>2. active /\ Panel.sec = clock - from
    BY <2>1
  <2>3. ss # << >>
    BY <2>2
  <2>4. n > 0
    BY <2>3, EmptySeq
  <2> QED
    BY <2>2, <2>4
<1>4. PICK m \in 1 .. n :
        /\ FoundStart(ss, target) = ss[m].at
        /\ \A i \in m .. n : Present(ss[i]) => ~ (ss[i].temp < target)
  <2>1. n \in Nat \ {0}
    BY <1>3
  <2> QED
    BY <1>3, <2>1, FoundIs
<1>5. from \in Nat /\ from <= clock
  <2>1. ss[m].at \in Nat /\ ss[m].at <= clock
    BY <1>0, <1>1
  <2> QED
    BY <1>1, <1>4, <2>1
<1>6. Panel.sec >= 0 /\ clock - Panel.sec = from
  BY <1>1, <1>3, <1>5
<1>7. ASSUME NEW i \in 1 .. n, ss[i].at >= from, Present(ss[i]) PROVE ss[i].temp >= low
  <2>1. CASE spikeStart # NoTime
    BY <1>1, <1>7, <2>1 DEF SpikeFrom
  <2>2. CASE spikeStart = NoTime
    <3>1. ss[m].at <= ss[i].at
      BY <1>0, <1>4, <1>7, <2>2
    <3>2. i \in m .. n
      BY <1>2, <3>1
    <3>3. ~ (ss[i].temp < target) /\ ss[i].temp \in Nat
      BY <1>0, <1>4, <1>7, <3>2
    <3> QED
      BY ONLY <3>3, low \in Nat, target \in Nat, low <= target
  <2> QED
    BY <2>1, <2>2
<1>8. ASSUME \A i \in 1 .. n : Present(ss[i]), Target(DefaultLimit) <= target
      PROVE  from <= ss[m].at
  <2>1. CASE spikeStart # NoTime
    <3> SUFFICES ASSUME ~ (spikeStart <= ss[m].at) PROVE FALSE
      BY <2>1
    <3>1. Target(DefaultLimit) <= Target(limit) /\ target = Target(limit)
      BY <1>8 DEF RT
    <3>2. PICK p \in 1 .. n : ss[p].at = spikeStart
      <4>1. ss[m].at > spikeStart \/ \E p \in 1 .. n : ss[p].at = spikeStart
        BY <1>1, <2>1, <3>1 DEF SpikeFrom
      <4>2. spikeStart \in Nat /\ ss[m].at \in Nat
        BY <1>0, <1>1, <2>1
      <4> QED
        BY <4>1, <4>2
    <3>3. m < p
      <4> SUFFICES ASSUME p <= m PROVE FALSE
        OBVIOUS
      <4>1. CASE p = m
        BY <1>0, <3>2, <4>1
      <4>2. CASE p # m
        <5>1. p < m
          BY <4>2
        <5>2. ss[p].at < ss[m].at
          BY <1>1, <5>1 DEF TimesRise
        <5> QED
          BY <1>0, <3>2, <5>2
      <4> QED
        BY <4>1, <4>2
    <3>4. p > 1 /\ p - 1 \in m .. n /\ p - 1 \in 1 .. n
      BY <3>3
    <3>5. ss[p - 1].temp < target
      BY <1>1, <1>8, <2>1, <3>1, <3>2, <3>4 DEF SpikeFrom
    <3> QED
      BY <1>4, <1>8, <3>4, <3>5
  <2>2. CASE spikeStart = NoTime
    BY <1>0, <1>4, <2>2
  <2> QED
    BY <2>1, <2>2
<1> QED
  BY <1>4, <1>6, <1>7, <1>8

\* Both.
LEMMA HealthMeans ==
  HealthInv => RecoveryIsLatest /\ SpikeNotOverstated
BY LatestMeans, NotOverstated

-----------------------------------------------------------------------------
(* The parts together *)

DashboardInv == KeptInv /\ ShownInv /\ HistoryInv /\ WatchInv

ReadingsInv ==
  /\ PduInv /\ FleetInv /\ DashboardInv /\ ScoringInv /\ HealthInv
  /\ subject = "views" => viewed \in Batches

\* The bridge, its history and the hub of browsers keep what they keep together.
LEMMA DashboardSteps == DashboardInv /\ [DashboardNext]_dashboardVars => DashboardInv'
BY KeptSteps, ShownSteps, HistorySteps, WatchSteps DEF DashboardInv

\* What each part starts with.
LEMMA ReadingsStart == ReadingsInit => ReadingsInv
<1> SUFFICES ASSUME ReadingsInit PROVE ReadingsInv
  OBVIOUS
<1>1. PduInit /\ FleetInit /\ DashboardInit /\ ScoringInit /\ HealthInit /\ (subject = "views" => ViewsInit)
  BY DEF ReadingsInit
<1>2. DashboardInv
  BY <1>1, KeptStarts, ShownStarts, HistoryStarts, WatchStarts DEF DashboardInv
<1>3. subject = "views" => viewed \in Batches
  BY <1>1 DEF ViewsInit, Batches
<1> QED
  BY <1>1, <1>2, <1>3, PduStarts, FleetStarts, ScoringStarts, HealthStarts DEF ReadingsInv

\* The parts share no variable, so that a step is one of the subject's.
LEMMA ReadingsStep ==
  [ReadingsNext]_readingsVars
    => /\ [PduNext]_pduVars /\ [FleetNext]_fleetVars /\ [DashboardNext]_dashboardVars
       /\ [ScoringNext]_scoringVars /\ [HealthNext]_healthVars
       /\ UNCHANGED <<subject, viewed>>
BY DEF ReadingsNext, readingsVars

\* In every state the PDU adapter's pollers, the fleet hub's registry and cache,
\* and the bridge with its holder, history and browsers are as above.
THEOREM ReadingsAlways == Spec => []ReadingsInv
<1>1. ReadingsInit => ReadingsInv
  BY ReadingsStart
<1>2. ReadingsInv /\ [ReadingsNext]_readingsVars => ReadingsInv'
  <2> SUFFICES ASSUME ReadingsInv, [ReadingsNext]_readingsVars PROVE ReadingsInv'
    OBVIOUS
  <2>1. /\ [PduNext]_pduVars /\ [FleetNext]_fleetVars /\ [DashboardNext]_dashboardVars
        /\ [ScoringNext]_scoringVars /\ [HealthNext]_healthVars
        /\ subject' = subject /\ viewed' = viewed
    BY ReadingsStep
  <2>2. PduInv' /\ FleetInv' /\ DashboardInv' /\ ScoringInv' /\ HealthInv'
    BY <2>1, PduSteps, FleetSteps, DashboardSteps, ScoringSteps, HealthSteps DEF ReadingsInv
  <2>3. Batches' = Batches
    BY DEF Batches, Point
  <2> QED
    BY <2>1, <2>2, <2>3 DEF ReadingsInv
<1> QED
  BY <1>1, <1>2, PTL DEF Spec

\* No connection to a PDU outlives the adapter: however reloads, Stop and the
\* end of Start overtake each other (handleConfigChange, closePollers), every
\* open set of pollers has exactly one thread that will close it.
THEOREM ReadingsClosePollers == Spec => []NoPollerLeaked
<1>1. ReadingsInv => NoPollerLeaked
  BY PduMeans DEF ReadingsInv
<1> QED
  BY <1>1, ReadingsAlways, PTL

\* Once a peer's scrape is over the hub serves the very metrics whose devices
\* its registry lists (scrapePeer fills the registry and the cache in two steps);
\* where peers share a device_name, perhaps those listed of its namesake.  The
\* peers, their names and the limit of concurrent scrapes are arbitrary.
THEOREM ReadingsServe == Spec => []ServesWhatItLists
<1>1. ReadingsInv => ServesWhatItLists
  BY FleetMeans DEF ReadingsInv
<1> QED
  BY <1>1, ReadingsAlways, PTL

\* Every point that runOutputBridge receives is in exactly one flush, in the
\* order of arrival, and none is left when the bridge is done, however often it
\* is cancelled on the way.
THEOREM ReadingsFlush == Spec => []BridgeKeepsAll
<1>1. ReadingsInv => BridgeKeepsAll
  BY KeptMeans DEF ReadingsInv, DashboardInv
<1> QED
  BY <1>1, ReadingsAlways, PTL

\* Between two flushes the state of the API, the history ring (HistoryBuffer.Add
\* and Points), the gauges and the hub's devices are those of the latest flush,
\* for any number of history slots.
THEOREM ReadingsAgree == Spec => []ViewsAgree
<1>1. ReadingsInv => ViewsAgree
  BY ShownMeans DEF ReadingsInv, DashboardInv
<1> QED
  BY <1>1, ReadingsAlways, PTL

\* A browser that was sent the state and reads has been sent the latest flush,
\* whenever its handler came between the steps of wsHub.broadcast.
THEOREM ReadingsReach == Spec => []NoMissedUpdate
<1>1. ReadingsInv => NoMissedUpdate
  BY WatchMeans DEF ReadingsInv, DashboardInv
<1> QED
  BY <1>1, ReadingsAlways, PTL

\* The rings hold the device's latest temperatures in order; a hotter reading does
\* not lower the thermal score, nor do more watts or less memory lower theirs; it
\* lowers the composite by no more than the fall of the volatility weighs; and a
\* time to the limit is told only of a device that became hotter.  For rings of any
\* length (RingBuffer, ComputeThermal, ComputePower, ComputeMemory,
\* ComputeVolatility, ComputeComposite, ComputeTimeToHotspot).
THEOREM ReadingsScore == Spec => []OnlySteadierIsSafer
<1>1. ReadingsInv => OnlySteadierIsSafer
  BY ScoringMeans DEF ReadingsInv, OnlySteadierIsSafer
<1> QED
  BY <1>1, ReadingsAlways, PTL

\* The recovery shown is that of the latest spike that ended, timed from its last
\* peak, and an active spike is not shown to be longer than it has been, whatever
\* readings are missing, pruned or out of order in their batch and whenever the
\* device's limit is learned (scanRecoveries, computeThermalRecovery, Engine.Update).
THEOREM ReadingsSpike == Spec => []SpikeReported
<1>1. ReadingsInv => SpikeReported
  BY HealthMeans DEF ReadingsInv, SpikeReported
<1> QED
  BY <1>1, ReadingsAlways, PTL

\* Whoever shows a device shows the reading its risk was computed from, for
\* batches of any length and any of the keys: the score, the cloud's sample and
\* the health engine's, the dashboard's pages, the gauges and the hub.  Only where
\* the score read no temperature may the cloud show one (ConvertToSamples), and the
\* gauges and the hub the last temperature_c of the batch.
THEOREM ReadingsShowScored == Spec => []ViewsShowScoredReading
<1>1. ReadingsInv => ViewsShowScoredReading
  BY ViewsMean DEF ReadingsInv, ViewsShowScoredReading
<1> QED
  BY <1>1, ReadingsAlways, PTL

\* An accepted configuration starts an agent whose readings go somewhere, a
\* stored login means streaming, and /ready and /health agree, whatever the YAML
\* file, the environment and the flags say.
THEOREM ReadingsSettings == Spec => []SettingsRespected
<1>1. SettingsRespected
  BY SomeSink, LoginDecides, PagesTell DEF SettingsRespected
<1> QED
  BY <1>1, PTL
=============================================================================
