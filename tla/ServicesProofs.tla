---------------------------- MODULE ServicesProofs ----------------------------
(***************************************************************************)
(* What the services keep true for every set of adapters, subscribers,      *)
(* reloads, sensors and callbacks, every interval and every capacity.       *)
(*                                                                         *)
(* Each service is proved by itself, from its own Init and Next; a step of  *)
(* the union is a step of one of them and leaves the others' variables      *)
(* alone.                                                                   *)
(***************************************************************************)
EXTENDS Services, Lemmas

-----------------------------------------------------------------------------
(* The poll loop *)

\* The interval the ticker will run at once what is under way has arrived.
Arriving == IF relaying # 0 THEN relaying ELSE IF resetCh # 0 THEN resetCh ELSE ticker

LoopInv ==
  /\ kind \in Kinds /\ configured \in Intervals /\ interval \in Intervals
  /\ relaying # 0 => relaying = configured
  /\ kind \notin Relayed => relaying = 0 /\ resetCh = 0
  /\ following => loop \in {"polling", "sending", "waiting", "returned"}
  /\ loop \in {"new", "started"} => relaying = 0 /\ resetCh = 0 /\ ~lost
  /\ loop = "started" /\ ~disabled => ticker = interval
  /\ loop \in {"polling", "sending", "waiting"} /\ following /\ ~missed /\ ~lost
       => Arriving = configured

\* The loop starts with nothing under way.
LEMMA LoopStarts == LoopInit => LoopInv
BY DEF LoopInit, LoopInv

\* Every step of the loop, of a callback and of main keeps it.
LEMMA LoopSteps == LoopInv /\ [LoopNext]_loopVars => LoopInv'
<1> SUFFICES ASSUME LoopInv, [LoopNext]_loopVars PROVE LoopInv'
  OBVIOUS
<1> USE PollLoopAssumption DEF LoopInv, Arriving
<1>1. CASE LoopStart
  BY <1>1 DEF LoopStart, stopVars
<1>2. CASE LoopSubscribe
  BY <1>2 DEF LoopSubscribe, stopVars
<1>3. CASE LoopTick \/ PollCollects \/ PollFails \/ PollSend
  BY <1>3 DEF LoopTick, PollCollects, PollFails, PollSend, paceVars, stopVars
<1>4. CASE TakeReset
  BY <1>4 DEF TakeReset, stopVars
<1>5. CASE LoopReturn
  BY <1>5 DEF LoopReturn, stopVars
<1>6. CASE \E i \in Intervals : Configure(i)
  <2>1. PICK i \in Intervals : Configure(i)
    BY <1>6
  <2>2. i # 0
    OBVIOUS
  <2>3. CASE following /\ kind \in Relayed
    BY <2>1, <2>2, <2>3 DEF Configure, Update, stopVars
  <2>4. CASE following /\ kind \notin Relayed
    BY <2>1, <2>2, <2>4 DEF Configure, Update, stopVars
  <2>5. CASE ~following
    BY <2>1, <2>2, <2>5 DEF Configure, stopVars
  <2> QED
    BY <2>3, <2>4, <2>5
<1>7. CASE Relay
  BY <1>7 DEF Relay, stopVars
<1>8. CASE LoopStop \/ LoopCancel \/ ReadOne \/ UNCHANGED loopVars
  <2>1. UNCHANGED <<kind, disabled, loop, configured, interval, ticker, resetCh, relaying,
                    missed, lost>>
    BY <1>8 DEF LoopStop, LoopCancel, ReadOne, loopVars, paceVars
  <2>2. following' => following
    <3>1. LoopStop => (following' => following)
      BY Zenon DEF LoopStop
    <3>2. ~LoopStop => following' = following
      BY <1>8 DEF LoopCancel, ReadOne, loopVars
    <3> QED
      BY <3>1, <3>2
  <2> QED
    BY <2>1, <2>2
<1> QED
  BY <1>1, <1>2, <1>3, <1>4, <1>5, <1>6, <1>7, <1>8 DEF LoopNext, LoopStep

\* A loop that follows its configuration and missed nothing runs at its interval.
LEMMA LoopMeans == LoopInv => TickerFollows
BY DEF LoopInv, Arriving, TickerFollows

-----------------------------------------------------------------------------
(* The temperature sensors *)

SensorPlaces == {"new", "joining", "first", "waiting", "polling", "rejoining", "resetting", "returned"}

SensorsInv ==
  /\ channel \in Nat
  /\ place \in [Sensor -> SensorPlaces]
  /\ joined \in [Sensor -> Nat] /\ \A s \in Sensor : joined[s] <= channel
  /\ beat \in [Sensor -> Paces \cup {0}]
  /\ ~badSend
  /\ shut => \A s \in Sensor : place[s] = "returned"
  /\ \A s \in Sensor :
       place[s] \in {"first", "waiting", "polling"} /\ joined[s] = channel /\ announcing = {}
         /\ s \notin raced
       => beat[s] = pace
  /\ pace \in Paces

\* The sensors start before any change.
LEMMA SensorsStart == SensorsInit => SensorsInv
BY DEF SensorsInit, SensorsInv, SensorPlaces

\* Every step of a sensor, of a callback and of main keeps it.
LEMMA SensorsSteps == SensorsInv /\ [SensorsNext]_sensorsVars => SensorsInv'
<1> SUFFICES ASSUME SensorsInv, [SensorsNext]_sensorsVars PROVE SensorsInv'
  OBVIOUS
<1> USE DEF SensorsInv, SensorPlaces
<1>1. ASSUME NEW s \in Sensor, SensorTicker(s) PROVE SensorsInv'
  BY <1>1 DEF SensorTicker, paceState, endState
<1>2. ASSUME NEW s \in Sensor, SensorJoin(s) PROVE SensorsInv'
  BY <1>2 DEF SensorJoin, paceState, endState
<1>3. ASSUME NEW s \in Sensor, SensorPolls(s) PROVE SensorsInv'
  <2>0. UNCHANGED <<pace, channel, announcing, beat, raced, shut>> /\ ~shut
    BY <1>3 DEF SensorPolls, paceState, endState
  <2>a. badSend' = (badSend \/ shut)
    BY <1>3 DEF SensorPolls
  <2>b. ~badSend'
    BY <2>0, <2>a, Zenon
  <2>1. UNCHANGED <<pace, channel, announcing, beat, raced, shut>> /\ ~shut /\ ~badSend'
    BY <2>0, <2>b
  <2>2. CASE place[s] = "polling" /\ joined[s] # channel
    <3>1. joined' = [joined EXCEPT ![s] = channel] /\ place' = [place EXCEPT ![s] = "resetting"]
      BY <1>3, <2>2 DEF SensorPolls
    <3> QED
      BY <2>1, <3>1
  <2>3. CASE ~(place[s] = "polling" /\ joined[s] # channel)
    <3>1. /\ joined' = joined /\ place' = [place EXCEPT ![s] = "waiting"]
          /\ place[s] \in {"first", "polling"}
      BY <1>3, <2>3 DEF SensorPolls
    <3> QED
      BY <2>1, <2>3, <3>1
  <2> QED
    BY <2>2, <2>3
<1>4. ASSUME NEW s \in Sensor, SensorTick(s) \/ SensorWoken(s) \/ SensorReturn(s) PROVE SensorsInv'
  BY <1>4 DEF SensorTick, SensorWoken, SensorReturn, paceState, endState
<1>5. ASSUME NEW s \in Sensor, SensorRejoins(s) PROVE SensorsInv'
  <2>1. /\ DOMAIN RejoinOrder = {"rejoining", "resetting"}
        /\ RejoinOrder["rejoining"] = "channel" /\ RejoinOrder["resetting"] = "interval"
    BY DEF RejoinOrder
  <2>2. UNCHANGED <<pace, channel, announcing, ended, shut, listening, badSend>>
    BY <1>5 DEF SensorRejoins, paceState, endState
  <2>3. CASE place[s] = "rejoining"
    <3>1. /\ joined' = [joined EXCEPT ![s] = channel] /\ beat' = beat
          /\ place' = [place EXCEPT ![s] = "resetting"] /\ raced' = raced \ {s}
      BY <1>5, <2>1, <2>3 DEF SensorRejoins
    <3> QED
      BY <2>2, <2>3, <3>1
  <2>4. CASE place[s] = "resetting"
    <3>1. /\ beat' = [beat EXCEPT ![s] = pace] /\ joined' = joined
          /\ place' = [place EXCEPT ![s] = "waiting"] /\ raced' = raced \ {s}
      BY <1>5, <2>1, <2>4 DEF SensorRejoins
    <3> QED
      BY <2>2, <2>4, <3>1
  <2> QED
    BY <1>5, <2>1, <2>3, <2>4 DEF SensorRejoins
<1>6. ASSUME NEW u \in Updater, Announce(u) PROVE SensorsInv'
  BY <1>6 DEF Announce, endState
<1>7. ASSUME NEW u \in Updater, NEW p \in Paces, SetPace(u, p) PROVE SensorsInv'
  BY <1>7 DEF SetPace, endState
<1>8. CASE SensorsCancel \/ SensorsStop \/ SensorsEnd \/ UNCHANGED sensorsVars
  BY <1>8 DEF SensorsCancel, SensorsStop, SensorsEnd, sensorsVars, paceState
<1> QED
  BY <1>1, <1>2, <1>3, <1>4, <1>5, <1>6, <1>7, <1>8 DEF SensorsNext, Sense

\* A sensor that has rejoined runs at the pace, or was raced.
LEMMA SensorsMean == SensorsInv => SensorsFollow
BY DEF SensorsInv, SensorsFollow

-----------------------------------------------------------------------------
(* The configuration's reload *)

\* What a slot of the holder's list may hold.
Slots == Subscriber \cup {Nobody}

ReloadPlaces == {"idle", "load", "store", "snapshot", "call"}

ReloadTypes ==
  /\ file \in Nat /\ current \in Nat
  /\ subs \in Seq(Slots)
  /\ reload \in [Reload -> [place : ReloadPlaces, cfg : Nat, calls : Seq(Slots)]]
  /\ phase \in [Subscriber -> {"new", "built", "subscribed", "gone"}]
  /\ slot \in [Subscriber -> Nat]
  /\ applied \in [Subscriber -> Nat]

\* A subscriber's slot holds it, so that nobody else is put there.
SlotsHold ==
  \A s \in Subscriber : phase[s] = "subscribed" => slot[s] \in DOMAIN subs /\ subs[slot[s]] = s

\* Unless two have overlapped, one reload is under way at a time, and once it
\* has stored its configuration that is the holder's.
OneReload ==
  ~overlapped =>
    /\ \A q, r \in Reload : Busy(q) /\ Busy(r) => q = r
    /\ \A r \in Reload : reload[r].place \in {"snapshot", "call"} => reload[r].cfg = current

\* A subscriber that missed nothing is up to date, or will be called.
Informed ==
  \A s \in Subscriber :
    phase[s] = "subscribed" /\ ~overlapped /\ s \notin late =>
      \/ applied[s] = current
      \/ \E r \in Reload :
           \/ reload[r].place = "snapshot"
           \/ reload[r].place = "call" /\ s \in ToSet(reload[r].calls)

ReloadInv == ReloadTypes /\ SlotsHold /\ OneReload /\ Informed

\* Where a subscriber goes: a slot that is nil, or one behind the last.
LEMMA SlotIsFree ==
  ASSUME ReloadTypes
  PROVE  /\ Len(subs) \in Nat /\ DOMAIN subs = 1 .. Len(subs)
         /\ \/ FreeSlot \in DOMAIN subs /\ subs[FreeSlot] = Nobody
            \/ FreeSlot = Len(subs) + 1
<1>1. Len(subs) \in Nat /\ DOMAIN subs = 1 .. Len(subs)
  BY LenProperties DEF ReloadTypes
<1>2. PICK free : free = {i \in DOMAIN subs : subs[i] = Nobody}
  OBVIOUS
<1>3. FreeSlot = IF free = {} THEN Len(subs) + 1
                 ELSE CHOOSE i \in free : \A j \in free : i <= j
  BY <1>2 DEF FreeSlot
<1>4. CASE free = {}
  BY <1>1, <1>3, <1>4
<1>5. CASE free # {}
  <2>1. free \in SUBSET Nat
    BY <1>1, <1>2
  <2>2. \E i \in free : \A j \in free : i <= j
    BY <1>5, <2>1, LeastElement
  <2>3. FreeSlot \in free
    BY <1>3, <1>5, <2>2
  <2> QED
    BY <1>1, <1>2, <2>3
<1> QED
  BY <1>4, <1>5

\* The holder starts without subscribers.
LEMMA ReloadStarts == ReloadInit => ReloadInv
<1> SUFFICES ASSUME ReloadInit PROVE ReloadInv
  OBVIOUS
<1>1. <<>> \in Seq(Slots)
  BY EmptySeq
<1>2. ReloadTypes
  BY <1>1 DEF ReloadInit, ReloadTypes, Idle, ReloadPlaces
<1>3. SlotsHold /\ OneReload /\ Informed
  BY DEF ReloadInit, SlotsHold, OneReload, Informed, Busy, Idle
<1> QED
  BY <1>2, <1>3 DEF ReloadInv

\* A change of one reload's entry, seen from every reload.
LEMMA EntryChanges ==
  ASSUME ReloadTypes, NEW r \in Reload, NEW e, Step(r, e),
         e \in [place : ReloadPlaces, cfg : Nat, calls : Seq(Slots)]
  PROVE  /\ reload' \in [Reload -> [place : ReloadPlaces, cfg : Nat, calls : Seq(Slots)]]
         /\ reload'[r] = e
         /\ \A q \in Reload \ {r} : reload'[q] = reload[q]
BY DEF ReloadTypes, Step

\* The file, its notifications and the timer.
LEMMA WatchKeeps ==
  ASSUME ReloadInv, Edit \/ WatchStart \/ WatchEvent \/ WatchStop \/ UNCHANGED reloadVars
  PROVE  ReloadInv'
<1>1. UNCHANGED <<reload, holderVars, clientVars, overlapped>> /\ (file' = file \/ file' = file + 1)
  BY DEF Edit, WatchStart, WatchEvent, WatchStop, reloadVars, watchVars
<1> QED
  BY <1>1 DEF ReloadInv, ReloadTypes, SlotsHold, OneReload, Informed, Busy, holderVars, clientVars

\* A reload begins, alone or beside another.
LEMMA FiresKeeps ==
  ASSUME ReloadInv, NEW r \in Reload, TimerFires(r)
  PROVE  ReloadInv'
<1>1. PICK e : e = [Idle EXCEPT !.place = "load"]
  OBVIOUS
<1>2. /\ e.place = "load" /\ e.cfg = 0 /\ e.calls = <<>>
      /\ e \in [place : ReloadPlaces, cfg : Nat, calls : Seq(Slots)]
  BY <1>1, EmptySeq DEF Idle, ReloadPlaces
<1>3. /\ reload' \in [Reload -> [place : ReloadPlaces, cfg : Nat, calls : Seq(Slots)]]
      /\ reload'[r] = e
      /\ \A q \in Reload \ {r} : reload'[q] = reload[q]
  BY <1>1, <1>2, EntryChanges DEF TimerFires, ReloadInv
<1>4. /\ UNCHANGED <<file, holderVars, clientVars>> /\ ~Busy(r)
      /\ ~overlapped' => ~overlapped /\ \A q \in Reload : ~Busy(q)
  BY Zenon DEF TimerFires
<1>5. ReloadTypes' /\ SlotsHold'
  BY <1>3, <1>4 DEF ReloadInv, ReloadTypes, SlotsHold, holderVars, clientVars
<1>6. OneReload'
  <2> SUFFICES ASSUME ~overlapped' PROVE OneReload'
    BY DEF OneReload
  <2>1. \A q \in Reload : reload[q].place = "idle"
    BY <1>4 DEF Busy
  <2>2. \A q \in Reload \ {r} : reload'[q].place = "idle"
    BY <1>3, <2>1
  <2> QED
    BY <1>2, <1>3, <2>2 DEF OneReload, Busy
<1>7. Informed'
  <2> SUFFICES ASSUME NEW s \in Subscriber, phase'[s] = "subscribed", ~overlapped', s \notin late'
               PROVE  applied'[s] = current'
    BY DEF Informed
  <2>1. \A q \in Reload : reload[q].place = "idle"
    BY <1>4 DEF Busy
  <2> QED
    BY <1>4, <2>1 DEF ReloadInv, Informed, holderVars, clientVars
<1> QED
  BY <1>5, <1>6, <1>7 DEF ReloadInv

\* The reload reads the file.
LEMMA LoadKeeps ==
  ASSUME ReloadInv, NEW r \in Reload, ReloadLoad(r)
  PROVE  ReloadInv'
<1>1. PICK e : e = IF file \in Refused THEN Idle
                   ELSE [place |-> "store", cfg |-> file, calls |-> <<>>]
  OBVIOUS
<1>2. /\ e.place \in {"idle", "store"}
      /\ e \in [place : ReloadPlaces, cfg : Nat, calls : Seq(Slots)]
  BY <1>1, EmptySeq DEF Idle, ReloadPlaces, ReloadInv, ReloadTypes
<1>3. /\ reload' \in [Reload -> [place : ReloadPlaces, cfg : Nat, calls : Seq(Slots)]]
      /\ reload'[r] = e
      /\ \A q \in Reload \ {r} : reload'[q] = reload[q]
  BY <1>1, <1>2, EntryChanges DEF ReloadLoad, ReloadInv
<1>4. UNCHANGED <<file, holderVars, clientVars, overlapped>> /\ reload[r].place = "load"
  BY DEF ReloadLoad, watchVars
<1>5. ReloadTypes' /\ SlotsHold'
  <2>1. ReloadTypes'
    BY <1>3, <1>4 DEF ReloadInv, ReloadTypes, holderVars, clientVars
  <2>2. SlotsHold'
    BY <1>4 DEF ReloadInv, SlotsHold, holderVars, clientVars
  <2> QED
    BY <2>1, <2>2
<1>6. OneReload'
  <2>1. current' = current /\ overlapped' = overlapped /\ OneReload
    BY <1>4 DEF ReloadInv, holderVars
  <2>2. \A q \in Reload : Busy(q)' => Busy(q)
    BY <1>3, <1>4 DEF Busy
  <2>3. \A q \in Reload : reload'[q].place \in {"snapshot", "call"}
          => reload[q].place \in {"snapshot", "call"} /\ reload'[q].cfg = reload[q].cfg
    BY <1>2, <1>3, <1>4
  <2> QED
    BY ONLY <2>1, <2>2, <2>3 DEF OneReload
<1>7. Informed'
  <2>1. \A q \in Reload : reload[q].place \in {"snapshot", "call"} => reload'[q] = reload[q]
    BY <1>3, <1>4
  <2> QED
    BY <1>4, <2>1 DEF ReloadInv, Informed, holderVars, clientVars
<1> QED
  BY <1>5, <1>6, <1>7 DEF ReloadInv

\* The configuration is stored; whoever subscribes is called with it yet.
LEMMA StoreKeeps ==
  ASSUME ReloadInv, NEW r \in Reload, ReloadStore(r)
  PROVE  ReloadInv'
<1>1. PICK e : e = [reload[r] EXCEPT !.place = "snapshot"]
  OBVIOUS
<1>0. reload[r] \in [place : ReloadPlaces, cfg : Nat, calls : Seq(Slots)]
  BY DEF ReloadInv, ReloadTypes
<1>2. /\ e.place = "snapshot" /\ e.cfg = reload[r].cfg
      /\ e \in [place : ReloadPlaces, cfg : Nat, calls : Seq(Slots)]
  BY <1>0, <1>1 DEF ReloadPlaces
<1>3. /\ reload' \in [Reload -> [place : ReloadPlaces, cfg : Nat, calls : Seq(Slots)]]
      /\ reload'[r] = e
      /\ \A q \in Reload \ {r} : reload'[q] = reload[q]
  BY <1>1, <1>2, EntryChanges DEF ReloadStore, ReloadInv
<1>4. /\ UNCHANGED <<file, subs, clientVars, overlapped>> /\ reload[r].place = "store"
      /\ current' = reload[r].cfg
  BY DEF ReloadStore, watchVars
<1>5. ReloadTypes' /\ SlotsHold'
  BY <1>0, <1>3, <1>4 DEF ReloadInv, ReloadTypes, SlotsHold, clientVars
<1>6. OneReload'
  <2> SUFFICES ASSUME ~overlapped' PROVE OneReload'
    BY DEF OneReload
  <2>1. \A q \in Reload \ {r} : reload[q].place = "idle"
    BY <1>4 DEF ReloadInv, OneReload, Busy
  <2>2. \A q \in Reload \ {r} : reload'[q].place = "idle"
    BY <1>3, <2>1
  <2>3. reload'[r].cfg = current'
    BY <1>2, <1>3, <1>4
  <2>4. \A q \in Reload : q # r => ~Busy(q)'
    BY <2>2 DEF Busy
  <2> QED
    BY <2>2, <2>3, <2>4 DEF OneReload
<1>7. Informed'
  BY <1>2, <1>3 DEF Informed
<1> QED
  BY <1>5, <1>6, <1>7 DEF ReloadInv

\* The list is copied, and everybody subscribed is in it.
LEMMA CopyKeeps ==
  ASSUME ReloadInv, NEW r \in Reload, ReloadSnapshot(r)
  PROVE  ReloadInv'
<1>1. PICK e : e = [reload[r] EXCEPT !.place = "call", !.calls = subs]
  OBVIOUS
<1>0. reload[r] \in [place : ReloadPlaces, cfg : Nat, calls : Seq(Slots)] /\ subs \in Seq(Slots)
  BY DEF ReloadInv, ReloadTypes
<1>2. /\ e.place = "call" /\ e.cfg = reload[r].cfg /\ e.calls = subs
      /\ e \in [place : ReloadPlaces, cfg : Nat, calls : Seq(Slots)]
  BY <1>0, <1>1 DEF ReloadPlaces
<1>3. /\ reload' \in [Reload -> [place : ReloadPlaces, cfg : Nat, calls : Seq(Slots)]]
      /\ reload'[r] = e
      /\ \A q \in Reload \ {r} : reload'[q] = reload[q]
  BY <1>1, <1>2, EntryChanges DEF ReloadSnapshot, ReloadInv
<1>4. UNCHANGED <<file, holderVars, clientVars, overlapped>> /\ reload[r].place = "snapshot"
  BY DEF ReloadSnapshot, watchVars
<1>5. ReloadTypes' /\ SlotsHold'
  BY <1>3, <1>4 DEF ReloadInv, ReloadTypes, SlotsHold, holderVars, clientVars
<1>6. OneReload'
  <2>1. current' = current /\ overlapped' = overlapped /\ OneReload
    BY <1>4 DEF ReloadInv, holderVars
  <2>2. \A q \in Reload : Busy(q)' => Busy(q)
    BY <1>3, <1>4 DEF Busy
  <2>3. \A q \in Reload : reload'[q].place \in {"snapshot", "call"}
          => reload[q].place \in {"snapshot", "call"} /\ reload'[q].cfg = reload[q].cfg
    BY <1>2, <1>3, <1>4
  <2> QED
    BY ONLY <2>1, <2>2, <2>3 DEF OneReload
<1>7. Informed'
  <2>1. \A s \in Subscriber : phase[s] = "subscribed" => s \in ToSet(e.calls)
    BY <1>2 DEF ReloadInv, SlotsHold, ToSet
  <2> QED
    BY <1>2, <1>3, <1>4, <2>1 DEF Informed, holderVars, clientVars
<1> QED
  BY <1>5, <1>6, <1>7 DEF ReloadInv

\* One subscriber is called.
LEMMA CallKeeps ==
  ASSUME ReloadInv, NEW r \in Reload, ReloadCall(r)
  PROVE  ReloadInv'
<1>1. PICK e : e = [reload[r] EXCEPT !.calls = Tail(@)]
  OBVIOUS
<1>0. /\ reload[r] \in [place : ReloadPlaces, cfg : Nat, calls : Seq(Slots)]
      /\ reload[r].place = "call" /\ reload[r].calls # <<>>
      /\ reload[r].cfg \in Nat
  BY DEF ReloadInv, ReloadTypes, ReloadCall
<1>a. PICK calls \in Seq(Slots) : calls = reload[r].calls
  BY <1>0
<1>b. /\ Tail(calls) \in Seq(Slots) /\ Head(calls) \in Slots
      /\ \A x \in ToSet(calls) : x = Head(calls) \/ x \in ToSet(Tail(calls))
  <2>1. /\ Head(calls) = calls[1] /\ Head(calls) \in Slots
        /\ Tail(calls) \in Seq(Slots) /\ Len(Tail(calls)) = Len(calls) - 1
        /\ \A i \in 1 .. Len(Tail(calls)) : Tail(calls)[i] = calls[i + 1]
    BY <1>0, <1>a, HeadTailProperties
  <2>2. /\ DOMAIN calls = 1 .. Len(calls) /\ Len(calls) \in Nat
        /\ DOMAIN Tail(calls) = 1 .. Len(Tail(calls))
    BY <2>1, LenProperties
  <2>3. ASSUME NEW i \in DOMAIN calls, i # 1
        PROVE  calls[i] \in ToSet(Tail(calls))
    <3>1. i - 1 \in 1 .. Len(Tail(calls)) /\ i - 1 + 1 = i
      BY <2>1, <2>2, <2>3
    <3>2. Tail(calls)[i - 1] = calls[i]
      BY <2>1, <3>1
    <3> QED
      BY <2>2, <3>1, <3>2 DEF ToSet
  <2>4. ASSUME NEW x \in ToSet(calls)
        PROVE  x = Head(calls) \/ x \in ToSet(Tail(calls))
    <3>1. PICK i \in DOMAIN calls : x = calls[i]
      BY DEF ToSet
    <3> QED
      BY <2>1, <2>3, <3>1
  <2> QED
    BY <2>1, <2>4
<1>2. /\ e.place = "call" /\ e.cfg = reload[r].cfg /\ e.calls = Tail(calls)
      /\ e \in [place : ReloadPlaces, cfg : Nat, calls : Seq(Slots)]
  BY <1>0, <1>1, <1>a, <1>b DEF ReloadPlaces
<1>3. /\ reload' \in [Reload -> [place : ReloadPlaces, cfg : Nat, calls : Seq(Slots)]]
      /\ reload'[r] = e
      /\ \A q \in Reload \ {r} : reload'[q] = reload[q]
  BY <1>1, <1>2, EntryChanges DEF ReloadCall, ReloadInv
<1>4. /\ UNCHANGED <<file, holderVars, phase, slot, late, overlapped>>
      /\ applied' = IF Head(calls) = Nobody THEN applied
                    ELSE [applied EXCEPT ![Head(calls)] = reload[r].cfg]
  BY <1>a DEF ReloadCall, watchVars
<1>5. /\ applied' \in [Subscriber -> Nat]
      /\ \A s \in Subscriber : applied'[s] = IF s = Head(calls) THEN reload[r].cfg ELSE applied[s]
  <2>1. applied \in [Subscriber -> Nat] /\ \A s \in Subscriber : s # Nobody
    BY ReloadAssumption DEF ReloadInv, ReloadTypes
  <2>2. CASE Head(calls) = Nobody
    BY <1>4, <2>1, <2>2
  <2>3. CASE Head(calls) # Nobody
    <3>1. Head(calls) \in Subscriber
      BY <1>b, <2>3 DEF Slots
    <3> QED
      BY <1>0, <1>4, <2>1, <2>3, <3>1
  <2> QED
    BY <2>2, <2>3
<1>6. ReloadTypes' /\ SlotsHold'
  BY <1>3, <1>4, <1>5 DEF ReloadInv, ReloadTypes, SlotsHold, holderVars
<1>7. OneReload'
  BY <1>0, <1>2, <1>3, <1>4 DEF ReloadInv, OneReload, Busy, holderVars
<1>8. Informed'
  <2> SUFFICES ASSUME NEW s \in Subscriber, phase[s] = "subscribed", ~overlapped, s \notin late
               PROVE  \/ applied'[s] = current
                      \/ s \in ToSet(reload'[r].calls)
    BY <1>2, <1>3, <1>4 DEF Informed, holderVars
  <2>1. reload[r].cfg = current /\ \A q \in Reload : Busy(q) => q = r
    BY <1>0 DEF ReloadInv, OneReload, Busy
  <2>2. applied[s] = current \/ s \in ToSet(calls)
    BY <1>0, <1>a, <2>1 DEF ReloadInv, Informed, Busy
  <2> QED
    BY <1>2, <1>3, <1>5, <1>b, <2>1, <2>2
<1> QED
  BY <1>6, <1>7, <1>8 DEF ReloadInv

\* The reload ends when everybody has been called.
LEMMA ReturnKeeps ==
  ASSUME ReloadInv, NEW r \in Reload, ReloadReturn(r)
  PROVE  ReloadInv'
<1>1. /\ Idle.place = "idle"
      /\ Idle \in [place : ReloadPlaces, cfg : Nat, calls : Seq(Slots)]
  BY EmptySeq DEF Idle, ReloadPlaces
<1>2. /\ reload' \in [Reload -> [place : ReloadPlaces, cfg : Nat, calls : Seq(Slots)]]
      /\ reload'[r] = Idle
      /\ \A q \in Reload \ {r} : reload'[q] = reload[q]
  BY <1>1, EntryChanges DEF ReloadReturn, ReloadInv
<1>3. /\ UNCHANGED <<file, holderVars, clientVars, overlapped>>
      /\ reload[r].place = "call" /\ reload[r].calls = <<>>
  BY DEF ReloadReturn, watchVars
<1>4. ReloadTypes' /\ SlotsHold'
  BY <1>2, <1>3 DEF ReloadInv, ReloadTypes, SlotsHold, holderVars, clientVars
<1>5. OneReload'
  BY <1>1, <1>2, <1>3 DEF ReloadInv, OneReload, Busy, holderVars
<1>6. Informed'
  <2> SUFFICES ASSUME NEW s \in Subscriber, phase[s] = "subscribed", ~overlapped, s \notin late
               PROVE  applied[s] = current
    BY <1>3 DEF Informed, holderVars, clientVars
  <2>1. \A q \in Reload : Busy(q) => q = r
    BY <1>3 DEF ReloadInv, OneReload, Busy
  <2>2. ToSet(reload[r].calls) = {}
    BY <1>3 DEF ToSet
  <2> QED
    BY <1>3, <2>1, <2>2 DEF ReloadInv, Informed, Busy
<1> QED
  BY <1>4, <1>5, <1>6 DEF ReloadInv

\* A subscriber is built, with the configuration of that moment.
LEMMA BuildKeeps ==
  ASSUME ReloadInv, NEW s \in Subscriber, Build(s)
  PROVE  ReloadInv'
<1>1. /\ UNCHANGED <<file, reload, holderVars, slot, late, overlapped>>
      /\ phase' = [phase EXCEPT ![s] = "built"]
      /\ applied' \in [Subscriber -> Nat]
      /\ \A t \in Subscriber \ {s} : applied'[t] = applied[t]
  BY DEF Build, watchVars, holderVars, ReloadInv, ReloadTypes
<1>2. /\ phase' \in [Subscriber -> {"new", "built", "subscribed", "gone"}]
      /\ \A t \in Subscriber : phase'[t] = "subscribed" => t # s /\ phase[t] = "subscribed"
  BY <1>1 DEF ReloadInv, ReloadTypes
<1>3. ReloadTypes' /\ SlotsHold' /\ OneReload'
  BY <1>1, <1>2 DEF ReloadInv, ReloadTypes, SlotsHold, OneReload, Busy, holderVars
<1>4. Informed'
  BY <1>1, <1>2 DEF ReloadInv, Informed, holderVars
<1> QED
  BY <1>3, <1>4 DEF ReloadInv

\* The list with somebody put in the slot that is free: nobody else moves.
LEMMA ListGrows ==
  ASSUME ReloadTypes, NEW s \in Subscriber,
         subs' = IF FreeSlot > Len(subs) THEN Append(subs, s) ELSE [subs EXCEPT ![FreeSlot] = s]
  PROVE  /\ FreeSlot \in Nat
         /\ subs' \in Seq(Slots)
         /\ FreeSlot \in DOMAIN subs' /\ subs'[FreeSlot] = s
         /\ \A i \in DOMAIN subs : subs[i] # Nobody => i \in DOMAIN subs' /\ subs'[i] = subs[i]
<1>1. PICK list \in Seq(Slots) : list = subs
  BY DEF ReloadTypes
<1>2. PICK free : free = FreeSlot
  OBVIOUS
<1>3. /\ Len(list) \in Nat /\ DOMAIN list = 1 .. Len(list)
      /\ \/ free \in DOMAIN list /\ list[free] = Nobody
         \/ free = Len(list) + 1
  BY <1>1, <1>2, SlotIsFree
<1>4. s \in Slots
  BY DEF Slots
<1>a. subs' = IF free > Len(list) THEN Append(list, s) ELSE [list EXCEPT ![free] = s]
  BY <1>1, <1>2, Zenon
<1>5. CASE free = Len(list) + 1
  <2>0. free > Len(list)
    BY <1>3, <1>5
  <2>1. subs' = Append(list, s)
    BY <1>a, <2>0, Zenon
  <2>2. /\ Append(list, s) \in Seq(Slots) /\ Len(Append(list, s)) = Len(list) + 1
        /\ \A i \in 1 .. Len(list) : Append(list, s)[i] = list[i]
        /\ Append(list, s)[Len(list) + 1] = s
    BY <1>4, AppendProperties
  <2>3. DOMAIN Append(list, s) = 1 .. Len(list) + 1
    BY <2>2, LenProperties
  <2>4. PICK longer : longer = Append(list, s)
    OBVIOUS
  <2>5. /\ longer \in Seq(Slots) /\ DOMAIN longer = 1 .. Len(list) + 1
        /\ \A i \in 1 .. Len(list) : longer[i] = list[i]
        /\ longer[Len(list) + 1] = s
    BY <2>2, <2>3, <2>4
  <2>6. free \in Nat /\ free \in DOMAIN longer /\ longer[free] = s
    BY <1>3, <1>5, <2>5
  <2>7. \A i \in DOMAIN list : i \in DOMAIN longer /\ longer[i] = list[i]
    BY <1>3, <2>5
  <2> QED
    BY <1>1, <1>2, <2>1, <2>4, <2>5, <2>6, <2>7
<1>6. CASE free \in DOMAIN list /\ list[free] = Nobody
  <2>0. ~ (free > Len(list))
    BY <1>3, <1>6
  <2>1. subs' = [list EXCEPT ![free] = s]
    BY <1>a, <2>0, Zenon
  <2>2. [list EXCEPT ![free] = s] \in Seq(Slots)
    BY <1>3, <1>4, <1>6, ExceptSeq
  <2> QED
    BY <1>1, <1>2, <1>3, <1>6, <2>1, <2>2
<1> QED
  BY <1>3, <1>5, <1>6

\* A subscriber comes; if it missed a store, it is written down as late.
LEMMA SubscribeKeeps ==
  ASSUME ReloadInv, NEW s \in Subscriber, Subscribe(s)
  PROVE  ReloadInv'
<1>1. /\ FreeSlot \in Nat
      /\ subs' \in Seq(Slots)
      /\ FreeSlot \in DOMAIN subs' /\ subs'[FreeSlot] = s
      /\ \A i \in DOMAIN subs : subs[i] # Nobody => i \in DOMAIN subs' /\ subs'[i] = subs[i]
  BY ListGrows DEF Subscribe, ReloadInv
<1>2. /\ UNCHANGED <<file, reload, current, applied, overlapped>>
      /\ phase' = [phase EXCEPT ![s] = "subscribed"]
      /\ late' = IF Misses(s) THEN late \union {s} ELSE late
  BY DEF Subscribe, watchVars
<1>3. /\ slot' \in [Subscriber -> Nat] /\ slot'[s] = FreeSlot
      /\ \A t \in Subscriber \ {s} : slot'[t] = slot[t]
  <2>1. PICK free \in Nat : free = FreeSlot
    BY <1>1
  <2>2. slot' = [slot EXCEPT ![s] = free] /\ slot \in [Subscriber -> Nat]
    BY <2>1 DEF Subscribe, ReloadInv, ReloadTypes
  <2> QED
    BY <2>1, <2>2
<1>4. /\ phase' \in [Subscriber -> {"new", "built", "subscribed", "gone"}]
      /\ \A t \in Subscriber \ {s} : phase'[t] = phase[t]
  BY <1>2 DEF ReloadInv, ReloadTypes
<1>5. ReloadTypes' /\ OneReload'
  BY <1>1, <1>2, <1>3, <1>4 DEF ReloadInv, ReloadTypes, OneReload, Busy
<1>6. SlotsHold'
  <2>1. ASSUME NEW t \in Subscriber \ {s}, phase[t] = "subscribed"
        PROVE  slot[t] \in DOMAIN subs' /\ subs'[slot[t]] = t
    <3>1. slot[t] \in DOMAIN subs /\ subs[slot[t]] = t /\ t # Nobody
      BY <2>1, ReloadAssumption DEF ReloadInv, SlotsHold
    <3> QED
      BY <1>1, <3>1
  <2> QED
    BY <1>1, <1>3, <1>4, <2>1 DEF SlotsHold
<1>7. Informed'
  <2>1. s \notin late' => applied[s] = current \/ \E r \in Reload : reload[r].place = "snapshot"
    BY <1>2 DEF Misses
  <2>2. \A t \in Subscriber \ {s} : t \notin late' => t \notin late
    BY <1>2
  <2> QED
    BY <1>2, <1>4, <2>1, <2>2 DEF ReloadInv, Informed
<1> QED
  BY <1>5, <1>6, <1>7 DEF ReloadInv

\* A subscriber goes: the slot it clears is its own.
LEMMA UnsubscribeKeeps ==
  ASSUME ReloadInv, NEW s \in Subscriber, Unsubscribe(s)
  PROVE  ReloadInv'
<1>1. PICK n : n = slot[s]
  OBVIOUS
<1>2. n \in DOMAIN subs /\ subs[n] = s
  BY <1>1 DEF Unsubscribe, ReloadInv, SlotsHold
<1>3. /\ UNCHANGED <<file, reload, current, slot, applied, late, overlapped>>
      /\ subs' = [subs EXCEPT ![n] = Nobody]
      /\ phase' = [phase EXCEPT ![s] = "gone"]
  BY <1>1 DEF Unsubscribe, watchVars
<1>4. /\ subs' \in Seq(Slots) /\ DOMAIN subs' = DOMAIN subs
      /\ \A i \in DOMAIN subs : i # n => subs'[i] = subs[i]
  <2>1. subs \in Seq(Slots) /\ Nobody \in Slots /\ DOMAIN subs = 1 .. Len(subs)
    BY LenProperties DEF ReloadInv, ReloadTypes, Slots
  <2>2. [subs EXCEPT ![n] = Nobody] \in Seq(Slots)
    BY <1>2, <2>1, ExceptSeq
  <2> QED
    BY <1>3, <2>2
<1>5. /\ phase' \in [Subscriber -> {"new", "built", "subscribed", "gone"}]
      /\ \A t \in Subscriber : phase'[t] = "subscribed" => t # s /\ phase[t] = "subscribed"
  BY <1>3 DEF ReloadInv, ReloadTypes
<1>6. ReloadTypes' /\ OneReload'
  BY <1>3, <1>4, <1>5 DEF ReloadInv, ReloadTypes, OneReload, Busy
<1>7. SlotsHold'
  BY <1>2, <1>3, <1>4, <1>5 DEF ReloadInv, SlotsHold
<1>8. Informed'
  BY <1>3, <1>5 DEF ReloadInv, Informed
<1> QED
  BY <1>6, <1>7, <1>8 DEF ReloadInv

\* Every step of the file, of a reload and of a subscriber keeps it.
LEMMA ReloadSteps == ReloadInv /\ [ReloadNext]_reloadVars => ReloadInv'
<1> SUFFICES ASSUME ReloadInv, [ReloadNext]_reloadVars PROVE ReloadInv'
  OBVIOUS
<1>1. CASE Edit \/ WatchStart \/ WatchEvent \/ WatchStop \/ UNCHANGED reloadVars
  BY <1>1, WatchKeeps
<1>2. CASE \E r \in Reload : TimerFires(r) \/ ReloadStep(r)
  BY <1>2, FiresKeeps, LoadKeeps, StoreKeeps, CopyKeeps, CallKeeps, ReturnKeeps DEF ReloadStep
<1>3. CASE \E s \in Subscriber : Build(s) \/ Subscribe(s) \/ Unsubscribe(s)
  BY <1>3, BuildKeeps, SubscribeKeeps, UnsubscribeKeeps
<1> QED
  BY <1>1, <1>2, <1>3 DEF ReloadNext

\* When no reload is under way nobody waits for a call.
LEMMA ReloadMeans == ReloadInv => SubscribersFollow
<1> SUFFICES ASSUME ReloadInv, NEW s \in Subscriber, phase[s] = "subscribed"
             PROVE  /\ s \in ToSet(subs)
                    /\ (\A r \in Reload : ~Busy(r)) /\ ~overlapped /\ s \notin late
                         => applied[s] = current
  BY DEF SubscribersFollow
<1>1. s \in ToSet(subs)
  BY DEF ReloadInv, SlotsHold, ToSet
<1>2. (\A r \in Reload : ~Busy(r)) /\ ~overlapped /\ s \notin late => applied[s] = current
  BY DEF ReloadInv, Informed, Busy
<1> QED
  BY <1>1, <1>2

-----------------------------------------------------------------------------
(* The valid readings of a sequence *)

\* How many of the places come no later than i.
Upto(places, i) == Cardinality({j \in places : j <= i})

\* A set of places among the first m.
Between(places, m) == \A j \in places : j \in Int /\ 1 <= j /\ j <= m

\* The places up to some place are finitely many.
LEMMA UptoCounts ==
  ASSUME NEW m \in Nat, NEW K, Between(K, m), NEW i \in Int
  PROVE  /\ Upto(K, i) \in Nat /\ IsFiniteSet({j \in K : j <= i})
         /\ IsFiniteSet(K) /\ Cardinality(K) \in Nat
         /\ i >= m => Upto(K, i) = Cardinality(K)
         /\ i < 1 => Upto(K, i) = 0
<1>1. \A j \in K : j \in Int /\ 1 <= j /\ j <= m
  BY DEF Between
<1>2. IsFiniteSet(1 .. m)
  BY FS_Interval
<1>3. IsFiniteSet(K) /\ IsFiniteSet({j \in K : j <= i})
  <2>1. K \in SUBSET (1 .. m) /\ {j \in K : j <= i} \in SUBSET (1 .. m)
    BY <1>1
  <2> QED
    BY <1>2, <2>1, FS_Subset
<1>4. i >= m => {j \in K : j <= i} = K
  BY <1>1
<1>5. i < 1 => {j \in K : j <= i} = {}
  BY <1>1
<1> QED
  BY <1>3, <1>4, <1>5, FS_CardinalityType, FS_EmptySet DEF Upto

\* One place further there is at most one more.
LEMMA UptoNext ==
  ASSUME NEW m \in Nat, NEW K, Between(K, m), NEW i \in Int
  PROVE  Upto(K, i) = Upto(K, i - 1) + (IF i \in K THEN 1 ELSE 0)
<1>1. \A j \in K : j \in Int /\ 1 <= j /\ j <= m
  BY DEF Between
<1>2. IsFiniteSet({j \in K : j <= i - 1}) /\ Upto(K, i - 1) \in Nat
  <2>1. i - 1 \in Int
    OBVIOUS
  <2> QED
    BY <2>1, UptoCounts
<1>3. CASE i \in K
  <2>1. {j \in K : j <= i} = {j \in K : j <= i - 1} \cup {i}
    <3>1. \A j \in K : j <= i <=> j <= i - 1 \/ j = i
      BY <1>1
    <3> QED
      BY <1>3, <3>1, Zenon
  <2>2. PICK D : D = {j \in K : j <= i - 1}
    OBVIOUS
  <2>3. i \notin D
    BY <2>2
  <2>4. Cardinality(D \cup {i}) = Cardinality(D) + 1
    BY <1>2, <2>2, <2>3, FS_AddElement
  <2>5. Upto(K, i) = Cardinality(D \cup {i}) /\ Upto(K, i - 1) = Cardinality(D)
    BY <2>1, <2>2, Zenon DEF Upto
  <2> QED
    BY <1>3, <2>4, <2>5
<1>4. CASE i \notin K
  <2>1. {j \in K : j <= i} = {j \in K : j <= i - 1}
    BY <1>1, <1>4
  <2>2. Upto(K, i) = Upto(K, i - 1)
    BY <2>1, Zenon DEF Upto
  <2> QED
    BY <1>2, <1>4, <2>2
<1> QED
  BY <1>3, <1>4

\* A later place has more places up to it.
LEMMA UptoGrows ==
  ASSUME NEW m \in Nat, NEW K, Between(K, m), NEW i \in Int, NEW k \in K, i < k
  PROVE  Upto(K, i) < Upto(K, k)
<1>1. \A j \in K : j \in Int
  BY DEF Between
<1>2. /\ IsFiniteSet({j \in K : j <= k}) /\ Upto(K, k) \in Nat /\ Upto(K, i) \in Nat
  BY <1>1, UptoCounts
<1>3. {j \in K : j <= i} \in SUBSET {j \in K : j <= k}
  BY <1>1
<1>4. {j \in K : j <= i} # {j \in K : j <= k}
  BY <1>1
<1>5. Upto(K, i) <= Upto(K, k) /\ Upto(K, i) # Upto(K, k)
  BY <1>2, <1>3, <1>4, FS_Subset DEF Upto
<1> QED
  BY <1>2, <1>5

\* The place with n places up to it is the n-th.
LEMMA PlaceOnly ==
  ASSUME NEW m \in Nat, NEW K, Between(K, m), NEW i \in K
  PROVE  Place(K, Upto(K, i)) = i
<1>1. \A j \in K : j \in Int
  BY DEF Between
<1>2. PICK n : n = Upto(K, i)
  OBVIOUS
<1>3. Place(K, n) \in K /\ Upto(K, Place(K, n)) = n
  BY <1>2 DEF Place, Upto
<1>4. i \in Int /\ Place(K, n) \in Int
  BY <1>1, <1>3
<1>5. Upto(K, i) \in Nat /\ Upto(K, Place(K, n)) \in Nat
  BY <1>4, UptoCounts
<1>6. ~(i < Place(K, n))
  BY <1>2, <1>3, <1>4, <1>5, UptoGrows
<1>7. ~(Place(K, n) < i)
  BY <1>2, <1>3, <1>4, <1>5, UptoGrows
<1> QED
  BY <1>2, <1>4, <1>6, <1>7

\* There is an n-th place for every n up to their number.
LEMMA PlaceFound ==
  ASSUME NEW m \in Nat, NEW K, Between(K, m), NEW n \in 1 .. Cardinality(K)
  PROVE  Place(K, n) \in K /\ Upto(K, Place(K, n)) = n
<1>. DEFINE T == {i \in Nat : Upto(K, i) >= n}
<1>1. /\ n \in Nat /\ n >= 1 /\ n <= Cardinality(K) /\ Cardinality(K) \in Nat
      /\ \A i \in Int : Upto(K, i) \in Nat
      /\ Upto(K, m) = Cardinality(K) /\ Upto(K, 0) = 0
  <2>1. Cardinality(K) \in Nat
    <3>1. 0 \in Int
      OBVIOUS
    <3> QED
      BY <3>1, UptoCounts
  <2>2. \A i \in Int : Upto(K, i) \in Nat
    BY UptoCounts
  <2>3. m \in Int /\ m >= m /\ 0 \in Int /\ 0 < 1
    OBVIOUS
  <2>4. Upto(K, m) = Cardinality(K) /\ Upto(K, 0) = 0
    BY <2>3, UptoCounts
  <2> QED
    BY <2>1, <2>2, <2>4
<1>2. m \in T
  BY <1>1
<1>3. PICK i \in T : \A k \in T : i <= k
  BY <1>2, LeastElement
<1>4. /\ i \in Nat /\ Upto(K, i) \in Nat /\ Upto(K, i) >= n
      /\ Upto(K, i - 1) \in Nat
  <2>1. i - 1 \in Int /\ i \in Int
    BY <1>3
  <2> QED
    BY <1>1, <1>3, <2>1
<1>5. i >= 1
  BY <1>1, <1>4
<1>6. ~(Upto(K, i - 1) >= n)
  <2>1. i - 1 \in Nat
    BY <1>4, <1>5
  <2> QED
    BY <1>3, <1>4, <2>1
<1>7. i \in K /\ Upto(K, i) = n
  <2>1. Upto(K, i) = Upto(K, i - 1) + (IF i \in K THEN 1 ELSE 0)
    BY <1>4, UptoNext
  <2> QED
    BY <1>1, <1>4, <1>6, <2>1
<1> QED
  BY <1>7, PlaceOnly

\* What the valid readings of a sequence are.
LEMMA ValidType ==
  ASSUME NEW s \in Seq(Int)
  PROVE  /\ Len(s) \in Nat /\ Between(Places(s), Len(s))
         /\ Cardinality(Places(s)) \in Nat
         /\ Valid(s) \in Seq(Int) /\ Len(Valid(s)) = Cardinality(Places(s))
         /\ \A n \in 1 .. Cardinality(Places(s)) :
              /\ Place(Places(s), n) \in Places(s) /\ s[Place(Places(s), n)] \in Int
              /\ Valid(s)[n] = s[Place(Places(s), n)]
<1>1. Len(s) \in Nat /\ DOMAIN s = 1 .. Len(s) /\ \A i \in 1 .. Len(s) : s[i] \in Int
  BY LenProperties, ElementOfSeq
<1>2. Between(Places(s), Len(s))
  BY <1>1 DEF Places, Between
<1>3. Cardinality(Places(s)) \in Nat
  <2>1. 0 \in Int
    OBVIOUS
  <2> QED
    BY <1>1, <1>2, <2>1, UptoCounts
<1>4. \A n \in 1 .. Cardinality(Places(s)) :
        Place(Places(s), n) \in Places(s) /\ s[Place(Places(s), n)] \in Int
  <2>1. \A n \in 1 .. Cardinality(Places(s)) : Place(Places(s), n) \in Places(s)
    BY <1>1, <1>2, PlaceFound
  <2> QED
    BY <1>1, <2>1 DEF Places
<1>5. PICK c \in Nat : c = Cardinality(Places(s))
  BY <1>3
<1>. DEFINE f == [n \in 1 .. c |-> s[Place(Places(s), n)]]
<1>6. Valid(s) = f
  BY <1>5 DEF Valid
<1>7. f \in [1 .. c -> Int]
  BY <1>4, <1>5
<1>8. f \in Seq(Int) /\ Len(f) = c
  BY <1>5, <1>7
<1> QED
  BY <1>1, <1>2, <1>3, <1>4, <1>5, <1>6, <1>8

\* Two sequences with the same readings at their n-th valid places have the same valid
\* readings.
LEMMA ValidIs ==
  ASSUME NEW s \in Seq(Int), NEW v \in Seq(Int), Len(v) = Cardinality(Places(s)),
         \A n \in 1 .. Len(v) : v[n] = s[Place(Places(s), n)]
  PROVE  Valid(s) = v
BY ValidType, SeqEqual

\* No reading, none valid.
LEMMA ValidNone == Valid(<<>>) = <<>>
<1>1. <<>> \in Seq(Int)
  OBVIOUS
<1>2. Places(<<>>) = {}
  BY DEF Places
<1>3. Len(Valid(<<>>)) = 0 /\ Valid(<<>>) \in Seq(Int)
  BY <1>1, <1>2, ValidType, FS_EmptySet
<1> QED
  BY <1>3, EmptySeq

\* One reading.
LEMMA ValidOne ==
  ASSUME NEW x \in Int
  PROVE  Valid(<<x>>) = IF x > 0 THEN <<x>> ELSE <<>>
<1>1. PICK s : s = <<x>>
  OBVIOUS
<1>2. s \in Seq(Int) /\ Len(s) = 1 /\ DOMAIN s = {1} /\ s[1] = x
  BY <1>1
<1>3. CASE x > 0
  <2>1. Places(s) = {1}
    BY <1>2, <1>3 DEF Places
  <2>2. Cardinality({1}) = 1
    BY FS_Singleton
  <2>3. 1 \in 1 .. Cardinality(Places(s))
    BY <2>1, <2>2
  <2>4. Place(Places(s), 1) \in Places(s)
    BY <1>2, <2>3, ValidType
  <2>5. Place(Places(s), 1) = 1
    BY <2>1, <2>4
  <2>6. Len(s) = Cardinality(Places(s)) /\ \A n \in 1 .. Len(s) : s[n] = s[Place(Places(s), n)]
    BY <1>2, <2>1, <2>2, <2>5
  <2>7. Valid(s) = s
    BY <1>2, <2>6, ValidIs
  <2> QED
    BY <1>1, <1>3, <2>7
<1>4. CASE ~(x > 0)
  <2>1. Places(s) = {}
    BY <1>2, <1>4 DEF Places
  <2>2. Len(Valid(s)) = 0 /\ Valid(s) \in Seq(Int)
    BY <1>2, <2>1, ValidType, FS_EmptySet
  <2>3. Valid(s) = <<>>
    BY <2>2, EmptySeq
  <2> QED
    BY <1>1, <1>4, <2>3
<1> QED
  BY <1>3, <1>4

\* A reading behind the others.
LEMMA ValidBehind ==
  ASSUME NEW s \in Seq(Int), NEW x \in Int
  PROVE  Valid(s \o <<x>>) = Valid(s) \o Valid(<<x>>)
<1>1. PICK m, K : m = Len(s) /\ K = Places(s)
  OBVIOUS
<1>2. PICK t, L : t = s \o <<x>> /\ L = Places(t)
  OBVIOUS
<1>3. /\ m \in Nat /\ DOMAIN s = 1 .. m /\ \A i \in 1 .. m : s[i] \in Int
      /\ \A i : i \in K <=> i \in 1 .. m /\ s[i] > 0
  BY <1>1, LenProperties, ElementOfSeq DEF Places
<1>4. /\ t \in Seq(Int) /\ Len(t) = m + 1 /\ t[m + 1] = x
      /\ \A i \in 1 .. m : t[i] = s[i]
      /\ DOMAIN t = 1 .. m + 1
  <2>1. PICK o \in Seq(Int) : o = <<x>> /\ Len(o) = 1 /\ o[1] = x
    <3>1. <<x>> \in Seq(Int) /\ Len(<<x>>) = 1 /\ <<x>>[1] = x
      OBVIOUS
    <3> QED
      BY <3>1, Zenon
  <2>2. /\ s \o o \in Seq(Int) /\ Len(s \o o) = m + 1
        /\ \A i \in 1 .. m + 1 : (s \o o)[i] = IF i <= m THEN s[i] ELSE o[i - m]
    BY <1>1, <2>1, ConcatProperties
  <2>3. t = s \o o
    BY <1>2, <2>1
  <2>4. DOMAIN t = 1 .. Len(t)
    BY <2>2, <2>3, LenProperties
  <2>5. t[m + 1] = x
    BY <1>3, <2>1, <2>2, <2>3
  <2> QED
    BY <1>3, <2>2, <2>3, <2>4, <2>5
<1>5. /\ Between(K, m) /\ Cardinality(K) \in Nat /\ IsFiniteSet(K)
      /\ Valid(s) \in Seq(Int) /\ Len(Valid(s)) = Cardinality(K)
      /\ \A n \in 1 .. Cardinality(K) : Valid(s)[n] = s[Place(K, n)]
  <2>1. Between(K, m)
    BY <1>1, ValidType
  <2>2. 0 \in Int
    OBVIOUS
  <2> QED
    BY <1>1, <1>3, <2>1, <2>2, ValidType, UptoCounts
<1>6. \A k \in K : k \in 1 .. m
  BY <1>5 DEF Between
<1>7. CASE x > 0
  <2>1. L = K \cup {m + 1}
    <3>1. \A i : i \in L <=> i \in 1 .. m + 1 /\ t[i] > 0
      BY <1>2, <1>4 DEF Places
    <3>2. \A i : i \in 1 .. m + 1 <=> i \in 1 .. m \/ i = m + 1
      BY <1>3
    <3>3. \A i : i \in L <=> i \in K \/ i = m + 1
      BY <1>3, <1>4, <1>7, <3>1, <3>2
    <3> QED
      BY <3>3, Zenon
  <2>2. m + 1 \notin K
    BY <1>3, <1>6
  <2>3. Cardinality(L) = Cardinality(K) + 1
    BY <1>5, <2>1, <2>2, FS_AddElement
  <2>4. Between(L, m + 1)
    BY <1>3, <1>6, <2>1 DEF Between
  <2>5. ASSUME NEW n \in 1 .. Cardinality(K) PROVE t[Place(L, n)] = s[Place(K, n)]
    <3>1. Place(K, n) \in K /\ Upto(K, Place(K, n)) = n
      BY <1>3, <1>5, PlaceFound
    <3>2. PICK i \in 1 .. m : i = Place(K, n)
      BY <1>6, <3>1
    <3>3. {j \in L : j <= i} = {j \in K : j <= i}
      BY <1>3, <2>1
    <3>4. Upto(L, i) = n /\ i \in L
      BY <2>1, <3>1, <3>2, <3>3 DEF Upto
    <3>5. Place(L, n) = i
      <4>1. m + 1 \in Nat
        BY <1>3
      <4> QED
        BY <2>4, <3>4, <4>1, PlaceOnly
    <3> QED
      BY <1>4, <3>2, <3>5
  <2>6. Place(L, Cardinality(K) + 1) = m + 1
    <3>1. m + 1 \in Nat /\ m + 1 \in Int /\ m + 1 >= m + 1
      BY <1>3
    <3>2. Upto(L, m + 1) = Cardinality(L)
      BY <2>4, <3>1, UptoCounts
    <3>3. m + 1 \in L
      BY <2>1
    <3> QED
      BY <2>3, <2>4, <3>1, <3>2, <3>3, PlaceOnly
  <2>7. PICK v, o : v = Valid(s) \o <<x>> /\ o = <<x>>
    OBVIOUS
  <2>8. o \in Seq(Int) /\ Len(o) = 1 /\ o[1] = x
    BY <2>7
  <2>9. /\ v \in Seq(Int) /\ Len(v) = Cardinality(K) + 1
        /\ \A n \in 1 .. Cardinality(K) + 1 :
             v[n] = IF n <= Cardinality(K) THEN Valid(s)[n] ELSE o[n - Cardinality(K)]
    <3>1. PICK w \in Seq(Int) : w = Valid(s) /\ Len(w) = Cardinality(K)
      BY <1>5
    <3>2. v = w \o o
      BY <2>7, <3>1
    <3>3. /\ w \o o \in Seq(Int) /\ Len(w \o o) = Len(w) + Len(o)
          /\ \A n \in 1 .. Len(w) + Len(o) :
               (w \o o)[n] = IF n <= Len(w) THEN w[n] ELSE o[n - Len(w)]
      BY <2>8, ConcatProperties
    <3> QED
      BY <1>5, <2>8, <3>1, <3>2, <3>3
  <2>10. \A n \in 1 .. Len(v) : v[n] = t[Place(L, n)]
    <3>1. ASSUME NEW n \in 1 .. Cardinality(K) + 1 PROVE v[n] = t[Place(L, n)]
      <4>1. CASE n <= Cardinality(K)
        <5>1. n \in 1 .. Cardinality(K)
          BY <1>5, <4>1
        <5> QED
          BY <1>5, <2>5, <2>9, <4>1, <5>1
      <4>2. CASE n = Cardinality(K) + 1
        BY <1>4, <1>5, <2>6, <2>8, <2>9, <4>2
      <4> QED
        BY <1>5, <4>1, <4>2
    <3> QED
      BY <2>9, <3>1
  <2>11. Valid(t) = v
    BY <1>2, <1>4, <2>3, <2>9, <2>10, ValidIs
  <2>12. Valid(<<x>>) = <<x>>
    BY <1>7, ValidOne
  <2> QED
    BY <1>2, <2>7, <2>11, <2>12
<1>8. CASE ~(x > 0)
  <2>1. L = K
    <3>1. \A i : i \in L <=> i \in 1 .. m + 1 /\ t[i] > 0
      BY <1>2, <1>4 DEF Places
    <3>2. \A i : i \in 1 .. m + 1 <=> i \in 1 .. m \/ i = m + 1
      BY <1>3
    <3>3. \A i : i \in L <=> i \in K
      BY <1>3, <1>4, <1>8, <3>1, <3>2
    <3> QED
      BY <3>3, Zenon
  <2>2. \A n \in 1 .. Cardinality(K) : Place(K, n) \in 1 .. m
    BY <1>3, <1>5, <1>6, PlaceFound
  <2>3. Valid(t) = Valid(s)
    <3>1. PICK v \in Seq(Int) : v = Valid(s) /\ Len(v) = Cardinality(K)
      BY <1>5
    <3>2. \A n \in 1 .. Len(v) : v[n] = t[Place(L, n)]
      BY <1>4, <1>5, <2>1, <2>2, <3>1
    <3> QED
      BY <1>2, <1>4, <2>1, <3>1, <3>2, ValidIs
  <2>4. Valid(<<x>>) = <<>>
    BY <1>8, ValidOne
  <2>5. Valid(s) \o <<>> = Valid(s)
    BY <1>5, ConcatEmptySeq
  <2> QED
    BY <1>2, <2>3, <2>4, <2>5
<1> QED
  BY <1>7, <1>8

\* A set of places and the same one further on.
LEMMA UptoShifted ==
  ASSUME NEW m \in Nat, NEW K, Between(K, m), NEW d \in {0, 1}, NEW i \in Int, i >= 1,
         NEW L, \A k : k \in L <=> (d = 1 /\ k = 1) \/ (k \in Int /\ k - 1 \in K)
  PROVE  Upto(L, i) = d + Upto(K, i - 1)
<1>1. PICK A, B : A = {j \in K : j <= i - 1} /\ B = {j + 1 : j \in A}
  OBVIOUS
<1>2. \A j \in K : j \in Int /\ 1 <= j /\ j <= m
  BY DEF Between
<1>3. IsFiniteSet(A) /\ Cardinality(A) \in Nat /\ Upto(K, i - 1) = Cardinality(A)
  <2>1. i - 1 \in Int
    OBVIOUS
  <2>2. IsFiniteSet({j \in K : j <= i - 1})
    BY <2>1, UptoCounts
  <2>3. IsFiniteSet(A)
    BY <1>1, <2>2, Zenon
  <2> QED
    BY <1>1, <2>3, FS_CardinalityType, Zenon DEF Upto
<1>4. IsFiniteSet(B) /\ Cardinality(B) = Cardinality(A)
  <2>1. PICK f : f = [j \in A |-> j + 1]
    OBVIOUS
  <2>2. f \in Bijection(A, B)
    <3>1. \A j \in A : j \in Int
      BY <1>1, <1>2
    <3>2. f \in [A -> B] /\ \A j \in A : f[j] = j + 1
      BY <1>1, <2>1
    <3>3. \A j, k \in A : f[j] = f[k] => j = k
      BY <3>1, <3>2
    <3>4. \A b \in B : \E j \in A : f[j] = b
      BY <1>1, <3>2
    <3> QED
      BY <3>2, <3>3, <3>4, Zenon DEF Bijection, Injection, Surjection, IsInjective
  <2>3. ExistsBijection(A, B)
    BY <2>2, Zenon DEF ExistsBijection
  <2> QED
    BY <1>3, <2>3, FS_Bijection
<1>5. \A k \in B : k \in Int /\ k >= 2 /\ k - 1 \in K /\ k <= i
  BY <1>1, <1>2
<1>6. \A k : k \in Int /\ k - 1 \in K /\ k <= i => k \in B
  <2>1. ASSUME NEW k \in Int, k - 1 \in K, k <= i PROVE k \in B
    <3>1. PICK j : j = k - 1
      OBVIOUS
    <3>2. j \in K /\ j <= i - 1 /\ k = j + 1
      BY <2>1, <3>1
    <3> QED
      BY <1>1, <3>2
  <2> QED
    BY <2>1
<1>7. CASE d = 1
  <2>1. {k \in L : k <= i} = B \cup {1}
    <3>1. \A k : k \in {l \in L : l <= i} <=> k \in B \/ k = 1
      BY <1>5, <1>6, <1>7
    <3> QED
      BY <3>1, Zenon
  <2>2. 1 \notin B
    BY <1>5
  <2>3. Cardinality(B \cup {1}) = Cardinality(B) + 1
    BY <1>4, <2>2, FS_AddElement
  <2>4. Upto(L, i) = Cardinality(B \cup {1})
    BY <2>1, Zenon DEF Upto
  <2> QED
    BY <1>3, <1>4, <1>7, <2>3, <2>4
<1>8. CASE d = 0
  <2>1. {k \in L : k <= i} = B
    <3>1. \A k : k \in {l \in L : l <= i} <=> k \in B
      BY <1>5, <1>6, <1>8
    <3> QED
      BY <3>1, Zenon
  <2>2. Upto(L, i) = Cardinality(B)
    BY <2>1, Zenon DEF Upto
  <2> QED
    BY <1>3, <1>4, <1>8, <2>2
<1> QED
  BY <1>7, <1>8

\* A reading in front of the others.
LEMMA ValidBefore ==
  ASSUME NEW s \in Seq(Int), NEW x \in Int
  PROVE  Valid(<<x>> \o s) = Valid(<<x>>) \o Valid(s)
<1>1. PICK m, K : m = Len(s) /\ K = Places(s)
  OBVIOUS
<1>2. PICK t, L : t = <<x>> \o s /\ L = Places(t)
  OBVIOUS
<1>3. /\ m \in Nat /\ DOMAIN s = 1 .. m /\ \A i \in 1 .. m : s[i] \in Int
      /\ \A i : i \in K <=> i \in 1 .. m /\ s[i] > 0
  BY <1>1, LenProperties, ElementOfSeq DEF Places
<1>4. /\ t \in Seq(Int) /\ Len(t) = m + 1 /\ t[1] = x
      /\ \A i \in 1 .. m : t[i + 1] = s[i]
      /\ DOMAIN t = 1 .. m + 1
  <2>1. PICK o \in Seq(Int) : o = <<x>> /\ Len(o) = 1 /\ o[1] = x
    <3>1. <<x>> \in Seq(Int) /\ Len(<<x>>) = 1 /\ <<x>>[1] = x
      OBVIOUS
    <3> QED
      BY <3>1, Zenon
  <2>2. /\ o \o s \in Seq(Int) /\ Len(o \o s) = 1 + m
        /\ \A i \in 1 .. 1 + m : (o \o s)[i] = IF i <= 1 THEN o[i] ELSE s[i - 1]
    BY <1>1, <2>1, ConcatProperties
  <2>3. t = o \o s
    BY <1>2, <2>1
  <2> QED
    BY <1>3, <2>1, <2>2, <2>3, LenProperties
<1>5. PICK d, o : d = (IF x > 0 THEN 1 ELSE 0) /\ o = Valid(<<x>>)
  OBVIOUS
<1>6. d \in {0, 1} /\ (d = 1 <=> x > 0) /\ o \in Seq(Int) /\ Len(o) = d /\ (d = 1 => o[1] = x)
  <2>1. CASE x > 0
    <3>1. o = <<x>>
      BY <1>5, <2>1, ValidOne
    <3>2. o \in Seq(Int) /\ Len(o) = 1 /\ o[1] = x
      BY <3>1
    <3> QED
      BY <1>5, <2>1, <3>2
  <2>2. CASE ~(x > 0)
    <3>1. o = <<>>
      BY <1>5, <2>2, ValidOne
    <3>2. o \in Seq(Int) /\ Len(o) = 0
      BY <3>1
    <3> QED
      BY <1>5, <2>2, <3>2
  <2> QED
    BY <2>1, <2>2
<1>7. PICK c, w : c = Cardinality(K) /\ w = Valid(s)
  OBVIOUS
<1>8. /\ Between(K, m) /\ c \in Nat /\ IsFiniteSet(K)
      /\ w \in Seq(Int) /\ Len(w) = c
      /\ \A n \in 1 .. c : w[n] = s[Place(K, n)]
  <2>1. Between(K, m)
    BY <1>1, ValidType
  <2>2. 0 \in Int
    OBVIOUS
  <2>3. IsFiniteSet(K)
    BY <1>3, <2>1, <2>2, UptoCounts
  <2> QED
    BY <1>1, <1>7, <2>1, <2>3, ValidType
<1>9. \A k : k \in L <=> (d = 1 /\ k = 1) \/ (k \in Int /\ k - 1 \in K)
  <2>1. \A i : i \in L <=> i \in 1 .. m + 1 /\ t[i] > 0
    BY <1>2, <1>4 DEF Places
  <2>2. ASSUME NEW k \in Int, k # 1 PROVE k \in L <=> k - 1 \in K
    <3>1. k \in 1 .. m + 1 <=> k - 1 \in 1 .. m
      BY <1>3, <2>2
    <3>2. k - 1 \in 1 .. m => t[k] = s[k - 1]
      <4>1. PICK i : i = k - 1
        OBVIOUS
      <4>2. i \in 1 .. m => t[i + 1] = s[i]
        BY <1>4
      <4>3. i + 1 = k
        BY <4>1
      <4> QED
        BY <4>1, <4>2, <4>3
    <3> QED
      BY <1>3, <2>1, <3>1, <3>2
  <2>3. 1 \in L <=> d = 1
    BY <1>3, <1>4, <1>6, <2>1
  <2>4. 1 - 1 \notin K
    BY <1>3
  <2>5. \A k \in L : k \in Int
    BY <2>1
  <2> QED
    BY <2>2, <2>3, <2>4, <2>5
<1>10. \A i \in Int : i >= 1 => Upto(L, i) = d + Upto(K, i - 1)
  BY <1>3, <1>8, <1>9, <1>6, UptoShifted
<1>11. /\ Between(L, m + 1) /\ m + 1 \in Nat
      /\ Cardinality(L) = d + c
  <2>1. Between(L, m + 1) /\ m + 1 \in Nat
    BY <1>3, <1>9 DEF Between
  <2>2. m + 1 \in Int /\ m + 1 >= m + 1 /\ m + 1 >= 1 /\ (m + 1) - 1 = m /\ m >= m /\ m \in Int
    BY <1>3
  <2>3. Upto(L, m + 1) = Cardinality(L)
    BY <2>1, <2>2, UptoCounts
  <2>4. Upto(K, m) = c
    BY <1>3, <1>7, <1>8, <2>2, UptoCounts
  <2>5. Upto(L, m + 1) = d + Upto(K, m)
    <3>1. Upto(L, m + 1) = d + Upto(K, (m + 1) - 1)
      BY <1>10, <2>2
    <3> QED
      BY <2>2, <3>1
  <2> QED
    BY <2>1, <2>3, <2>4, <2>5
<1>12. ASSUME NEW n \in 1 .. c PROVE t[Place(L, d + n)] = s[Place(K, n)]
  <2>1. Place(K, n) \in K /\ Upto(K, Place(K, n)) = n
    BY <1>3, <1>7, <1>8, PlaceFound
  <2>2. PICK i \in 1 .. m : i = Place(K, n)
    BY <1>3, <2>1
  <2>3. i + 1 \in Int /\ i + 1 >= 1 /\ (i + 1) - 1 = i
    OBVIOUS
  <2>4. Upto(L, i + 1) = d + n
    <3>0. PICK k \in Int : k = i + 1 /\ k >= 1
      BY <2>3
    <3>1. Upto(L, k) = d + Upto(K, k - 1)
      BY <1>10, <3>0
    <3> QED
      BY <2>1, <2>2, <2>3, <3>0, <3>1
  <2>5. i + 1 \in L
    BY <1>9, <2>1, <2>2, <2>3
  <2>6. Place(L, d + n) = i + 1
    BY <1>11, <2>4, <2>5, PlaceOnly
  <2> QED
    BY <1>4, <2>2, <2>6
<1>13. d = 1 => t[Place(L, 1)] = x
  <2>1. ASSUME d = 1 PROVE Place(L, 1) = 1
    <3>1. Upto(L, 1) = d + Upto(K, 1 - 1)
      <4>1. 1 \in Int /\ 1 >= 1
        OBVIOUS
      <4> QED
        BY <1>10, <4>1
    <3>2. Upto(K, 0) = 0
      <4>1. 0 \in Int /\ 0 < 1
        OBVIOUS
      <4> QED
        BY <1>3, <1>8, <4>1, UptoCounts
    <3>3. Upto(L, 1) = 1 /\ 1 \in L
      <4>1. 1 - 1 = 0
        OBVIOUS
      <4> QED
        BY <1>9, <2>1, <3>1, <3>2, <4>1
    <3> QED
      BY <1>11, <3>3, PlaceOnly
  <2> QED
    BY <1>4, <2>1
<1>14. PICK v : v = o \o w
  OBVIOUS
<1>15. /\ v \in Seq(Int) /\ Len(v) = d + c
       /\ \A n \in 1 .. d + c : v[n] = IF n <= d THEN o[n] ELSE w[n - d]
  <2>1. /\ o \o w \in Seq(Int) /\ Len(o \o w) = Len(o) + Len(w)
        /\ \A n \in 1 .. Len(o) + Len(w) :
             (o \o w)[n] = IF n <= Len(o) THEN o[n] ELSE w[n - Len(o)]
    BY <1>6, <1>8, ConcatProperties
  <2> QED
    BY <1>6, <1>8, <1>14, <2>1
<1>16. ASSUME NEW n \in 1 .. Len(v) PROVE v[n] = t[Place(L, n)]
  <2>1. CASE n <= d
    <3>1. n = 1 /\ d = 1
      BY <1>8, <1>15, <1>6, <2>1
    <3> QED
      BY <1>6, <1>13, <1>15, <2>1, <3>1
  <2>2. CASE n > d
    <3>1. PICK k : k = n - d
      OBVIOUS
    <3>2. k \in 1 .. c /\ n = d + k /\ n \in 1 .. d + c /\ ~(n <= d)
      BY <1>8, <1>15, <1>6, <2>2, <3>1
    <3>3. v[n] = w[k] /\ w[k] = s[Place(K, k)]
      BY <1>8, <1>15, <3>1, <3>2
    <3>4. t[Place(L, d + k)] = s[Place(K, k)]
      BY <1>12, <3>2
    <3> QED
      BY <3>2, <3>3, <3>4
  <2> QED
    BY <1>8, <1>15, <1>6, <2>1, <2>2
<1>17. Valid(t) = v
  BY <1>2, <1>4, <1>11, <1>15, <1>16, ValidIs
<1> QED
  BY <1>2, <1>5, <1>7, <1>14, <1>17

-----------------------------------------------------------------------------
(* The pipeline: what its variables hold *)

PipeStands == {"starting", "failed", "ready", "bridge", "servers", "buffer", "returned",
               "absent", "open", "running", "receiving", "buf", "cloud", "looping",
               "draining", "waiting", "flushBatch", "flushCancelled", "flushClosed"}

PipeTypes ==
  /\ mode \in Modes
  /\ chan \in [Adapter \cup Pipes -> Seq(Int)]
  /\ hand \in [Adapter \cup Goroutines -> Seq(Int)]
  /\ at \in [Adapter \cup Goroutines -> PipeStands]
  /\ started \in SUBSET Adapter
  /\ made \in Nat
  /\ accepted \in Seq(Int) /\ buffered \in Seq(Int)
  /\ shown \in Seq(Int) /\ uploaded \in Seq(Int)

\* Every queue is empty at first.
LEMMA PipeTypesStart == PipelineInit => PipeTypes
<1> SUFFICES ASSUME PipelineInit PROVE PipeTypes
  OBVIOUS
<1>1. <<>> \in Seq(Int)
  OBVIOUS
<1> QED
  BY <1>1 DEF PipelineInit, PipeTypes, PipeStands, Pipes, Goroutines

\* The channels and the hands of the goroutines are queues.
LEMMA PipeQueues ==
  ASSUME PipeTypes
  PROVE  /\ \A c \in Pipes : chan[c] \in Seq(Int)
         /\ \A g \in Goroutines : hand[g] \in Seq(Int)
         /\ \A a \in Adapter : chan[a] \in Seq(Int) /\ hand[a] \in Seq(Int)
BY DEF PipeTypes

\* An adapter and its fan-in put readings in queues of readings.
LEMMA PipeTypesFanIn ==
  ASSUME PipeTypes, NEW a \in Adapter, Emit(a) \/ AdapterCloses(a) \/ FanIn(a)
  PROVE  PipeTypes'
<1>1. chan[a] \in Seq(Int) /\ hand[a] \in Seq(Int) /\ chan["merged"] \in Seq(Int)
  BY DEF PipeTypes, Pipes
<1>2. CASE Emit(a)
  <2>1. PICK r \in {made + 1, -(made + 1)} : chan' = [chan EXCEPT ![a] = Append(@, r)]
    BY <1>2 DEF Emit
  <2>2. Append(chan[a], r) \in Seq(Int)
    BY <1>1, <2>1 DEF PipeTypes
  <2>3. made' \in Nat
    BY <1>2 DEF Emit, PipeTypes
  <2>4. chan' \in [Adapter \cup Pipes -> Seq(Int)]
    BY <1>2, <2>1, <2>2 DEF PipeTypes
  <2>5. UNCHANGED <<mode, hand, at, started, accepted, buffered, shown, uploaded>>
    BY <1>2 DEF Emit, histVars
  <2> QED
    BY <2>3, <2>4, <2>5 DEF PipeTypes
<1>3. CASE AdapterCloses(a)
  BY <1>3 DEF AdapterCloses, PipeTypes, histVars
<1>4. CASE FanInReceive(a)
  <2>1. <<Head(chan[a])>> \in Seq(Int) /\ Tail(chan[a]) \in Seq(Int)
    BY <1>1, <1>4, HeadInFront DEF FanInReceive
  <2> QED
    BY <1>4, <2>1 DEF FanInReceive, PipeTypes, histVars
<1>5. CASE FanInSend(a)
  <2>1. chan["merged"] \o hand[a] \in Seq(Int) /\ <<>> \in Seq(Int)
    BY <1>1, ConcatProperties, EmptySeq
  <2>2. accepted \o Valid(hand[a]) \in Seq(Int)
    BY <1>1, ValidType, ConcatProperties DEF PipeTypes
  <2> QED
    BY <1>5, <2>1, <2>2 DEF FanInSend, PipeTypes
<1>6. CASE FanInReturn(a)
  <2>1. <<>> \in Seq(Int)
    OBVIOUS
  <2> QED
    BY <1>6, <2>1 DEF FanInReturn, Move, PipeTypes, PipeStands, histVars
<1> QED
  BY <1>2, <1>3, <1>4, <1>5, <1>6 DEF FanIn

\* So does the normalizer.
LEMMA PipeTypesNorm ==
  ASSUME PipeTypes, Norm
  PROVE  PipeTypes'
<1>1. chan["merged"] \in Seq(Int) /\ chan["output"] \in Seq(Int)
  BY DEF PipeTypes, Pipes
<1>2. CASE NormProcess
  <2>1. PICK v : v = Valid(<<Head(chan["merged"])>>)
    OBVIOUS
  <2>2. <<Head(chan["merged"])>> \in Seq(Int) /\ Tail(chan["merged"]) \in Seq(Int)
    BY <1>1, <1>2, HeadInFront DEF NormProcess
  <2>3. v \in Seq(Int) /\ chan["output"] \o v \in Seq(Int)
    BY <1>1, <2>1, <2>2, ValidType, ConcatProperties
  <2>4. chan' = [chan EXCEPT !["merged"] = Tail(@), !["output"] = @ \o v]
    BY <1>2, <2>1, Zenon DEF NormProcess
  <2>5. chan' \in [Adapter \cup Pipes -> Seq(Int)]
    BY <2>2, <2>3, <2>4 DEF PipeTypes
  <2>6. UNCHANGED <<mode, hand, at, started, made, accepted, buffered, shown, uploaded>>
    BY <1>2, Zenon DEF NormProcess, histVars
  <2> QED
    BY <2>5, <2>6 DEF PipeTypes
<1>3. CASE NormReturn
  BY <1>3 DEF NormReturn, Move, PipeTypes, PipeStands, histVars
<1> QED
  BY <1>2, <1>3 DEF Norm

\* So does the tee.
LEMMA PipeTypesTee ==
  ASSUME PipeTypes, TeeStep
  PROVE  PipeTypes'
<1>1. /\ chan["output"] \in Seq(Int) /\ chan["buf"] \in Seq(Int)
      /\ chan["bridge"] \in Seq(Int) /\ chan["cloud"] \in Seq(Int)
      /\ hand["tee"] \in Seq(Int) /\ <<>> \in Seq(Int)
  BY EmptySeq DEF PipeTypes, Pipes, Goroutines
<1>2. \A c \in {"buf", "bridge", "cloud"} : chan[c] \o hand["tee"] \in Seq(Int)
  BY <1>1, ConcatProperties
<1>3. CASE TeeReceive
  <2>1. <<Head(chan["output"])>> \in Seq(Int) /\ Tail(chan["output"]) \in Seq(Int)
    BY <1>1, <1>3, HeadInFront DEF TeeReceive
  <2> QED
    BY <1>3, <2>1 DEF TeeReceive, Move, PipeTypes, PipeStands, histVars
<1>4. CASE TeeToBuffer
  BY <1>2, <1>4 DEF TeeToBuffer, Move, PipeTypes, PipeStands, histVars
<1>5. CASE TeeToBridge
  <2>1. chan' \in [Adapter \cup Pipes -> Seq(Int)]
    BY <1>2, <1>5 DEF TeeToBridge, PipeTypes
  <2>2. hand' \in [Adapter \cup Goroutines -> Seq(Int)]
    BY <1>1, <1>5 DEF TeeToBridge, PipeTypes
  <2>3. at' \in [Adapter \cup Goroutines -> PipeStands]
    BY <1>5 DEF TeeToBridge, Move, PipeTypes, PipeStands
  <2> QED
    BY <1>5, <2>1, <2>2, <2>3 DEF TeeToBridge, PipeTypes, histVars
<1>6. CASE TeeToCloud
  BY <1>1, <1>2, <1>6 DEF TeeToCloud, Move, PipeTypes, PipeStands, histVars
<1>7. CASE TeeReturn
  BY <1>7 DEF TeeReturn, Move, PipeTypes, PipeStands, histVars
<1> QED
  BY <1>3, <1>4, <1>5, <1>6, <1>7 DEF TeeStep

\* So does the buffer manager.
LEMMA PipeTypesBuffer ==
  ASSUME PipeTypes, BufferReceive \/ BufferReturn
  PROVE  PipeTypes'
<1>1. BufferIn \in Pipes /\ chan[BufferIn] \in Seq(Int)
  BY DEF PipeTypes, Pipes, BufferIn
<1>2. CASE BufferReceive
  <2>1. Head(chan[BufferIn]) \in Int /\ Tail(chan[BufferIn]) \in Seq(Int)
    BY <1>1, <1>2, HeadInFront DEF BufferReceive
  <2>2. Append(buffered, Head(chan[BufferIn])) \in Seq(Int)
    BY <2>1 DEF PipeTypes
  <2> QED
    BY <1>1, <1>2, <2>1, <2>2 DEF BufferReceive, PipeTypes
<1>3. CASE BufferReturn
  BY <1>3 DEF BufferReturn, Move, PipeTypes, PipeStands, histVars
<1> QED
  BY <1>2, <1>3

\* Where the bridge goes behind a flush, and what a flush of its batch leaves.
LEMMA PipeTypesFlush ==
  ASSUME PipeTypes, FlushBridge
  PROVE  /\ hand' \in [Adapter \cup Goroutines -> Seq(Int)]
         /\ at' \in [Adapter \cup Goroutines -> PipeStands]
         /\ shown' \in Seq(Int) /\ uploaded' \in Seq(Int)
<1>1. PICK batch \in Seq(Int) : batch = hand["bridge"]
  BY DEF PipeTypes, Goroutines
<1>2. shown \o batch \in Seq(Int) /\ uploaded \o batch \in Seq(Int) /\ <<>> \in Seq(Int)
  BY ConcatProperties, EmptySeq DEF PipeTypes
<1>3. hand' = [hand EXCEPT !["bridge"] = <<>>] /\ shown' = shown \o batch
      /\ (uploaded' = uploaded \/ uploaded' = uploaded \o batch)
  BY <1>1 DEF FlushBridge, Upload
<1>4. at' \in [Adapter \cup Goroutines -> PipeStands]
  BY DEF FlushBridge, Flushing, AfterFlush, Move, PipeTypes, PipeStands
<1> QED
  BY <1>2, <1>3, <1>4 DEF PipeTypes

\* So does the bridge.
LEMMA PipeTypesBridge ==
  ASSUME PipeTypes, Bridge \/ FlushBridge
  PROVE  PipeTypes'
<1>1. /\ BridgeIn \in Pipes /\ chan[BridgeIn] \in Seq(Int)
      /\ hand["bridge"] \in Seq(Int)
  BY DEF PipeTypes, Pipes, BridgeIn, Goroutines
<1>2. chan[BridgeIn] # <<>>
        => /\ Head(chan[BridgeIn]) \in Int /\ Tail(chan[BridgeIn]) \in Seq(Int)
           /\ Append(hand["bridge"], Head(chan[BridgeIn])) \in Seq(Int)
  <2>1. chan[BridgeIn] # <<>>
          => Head(chan[BridgeIn]) \in Int /\ Tail(chan[BridgeIn]) \in Seq(Int)
    BY <1>1, HeadInFront
  <2> QED
    BY <1>1, <2>1
<1>3. CASE BridgeReceive
  <2>1. at' \in [Adapter \cup Goroutines -> PipeStands]
    BY <1>3 DEF BridgeReceive, Move, PipeTypes, PipeStands
  <2> QED
    BY <1>1, <1>2, <1>3, <2>1 DEF BridgeReceive, PipeTypes, histVars
<1>4. CASE BridgeTick \/ BridgeCancelled \/ BridgeClosed
  <2>1. at' \in [Adapter \cup Goroutines -> PipeStands]
    BY <1>4 DEF BridgeTick, BridgeCancelled, BridgeClosed, ToFlush, AfterFlush, Move,
                PipeTypes, PipeStands
  <2> QED
    BY <1>4, <2>1 DEF BridgeTick, BridgeCancelled, BridgeClosed, PipeTypes, histVars
<1>5. CASE FlushBridge
  BY <1>5, PipeTypesFlush DEF FlushBridge, PipeTypes
<1>6. CASE BridgeDrain
  BY <1>1, <1>2, <1>6 DEF BridgeDrain, PipeTypes, histVars
<1>7. CASE BridgeReturn
  BY <1>7 DEF BridgeReturn, Move, PipeTypes, PipeStands, histVars
<1> QED
  BY <1>3, <1>4, <1>5, <1>6, <1>7 DEF Bridge

\* So does the uploader.
LEMMA PipeTypesUploader ==
  ASSUME PipeTypes, Uploader \/ SendEnds
  PROVE  PipeTypes'
<1>1. chan["cloud"] \in Seq(Int) /\ hand["uploader"] \in Seq(Int) /\ <<>> \in Seq(Int)
  BY EmptySeq DEF PipeTypes, Pipes, Goroutines
<1>2. uploaded \o hand["uploader"] \in Seq(Int)
  BY <1>1, ConcatProperties DEF PipeTypes
<1>3. CASE UploaderReceive
  <2>1. Head(chan["cloud"]) \in Int /\ Tail(chan["cloud"]) \in Seq(Int)
    BY <1>1, <1>3, HeadInFront DEF UploaderReceive
  <2>2. Append(hand["uploader"], Head(chan["cloud"])) \in Seq(Int)
    BY <1>1, <2>1
  <2> QED
    BY <1>3, <2>1, <2>2 DEF UploaderReceive, PipeTypes, histVars
<1>4. CASE UploaderTick
  BY <1>1, <1>2, <1>4 DEF UploaderTick, Upload, PipeTypes
<1>5. CASE UploaderReturn
  BY <1>1, <1>2, <1>5 DEF UploaderReturn, Upload, Move, PipeTypes, PipeStands
<1>6. CASE SendEnds
  BY <1>6 DEF SendEnds, PipeTypes, histVars
<1> QED
  BY <1>3, <1>4, <1>5, <1>6 DEF Uploader

\* main moves goroutines only.
LEMMA PipeTypesMain ==
  ASSUME PipeTypes, Main \/ CloseServers \/ StartAdapterFails \/ LaunchFails \/ Signal
  PROVE  PipeTypes'
<1>1. ASSUME NEW a \in Adapter, StartAdapter(a) PROVE PipeTypes'
  BY <1>1 DEF StartAdapter, Move, PipeTypes, PipeStands, histVars
<1>2. CASE Launch
  <2>1. \A g \in DOMAIN at : Launched(g) \in PipeStands
    BY DEF Launched, PipeStands, PipeTypes
  <2>2. DOMAIN at = Adapter \cup Goroutines
    BY DEF PipeTypes
  <2>3. at' \in [Adapter \cup Goroutines -> PipeStands]
    BY <1>2, <2>1, <2>2 DEF Launch
  <2> QED
    BY <1>2, <2>3 DEF Launch, PipeTypes, histVars
<1>3. CASE \/ StopAdapters \/ AwaitBridge \/ CloseServers \/ AwaitBuffer
           \/ StartAdapterFails \/ LaunchFails
  BY <1>3 DEF StopAdapters, AwaitBridge, CloseServers, AwaitBuffer, StartAdapterFails,
              LaunchFails, Move, PipeTypes, PipeStands, histVars
<1>4. CASE Signal
  BY <1>4 DEF Signal, PipeTypes, histVars
<1> QED
  BY <1>1, <1>2, <1>3, <1>4 DEF Main

\* Every step of the pipeline keeps the types.
LEMMA PipeTypesSteps == PipeTypes /\ [PipelineNext]_pipelineVars => PipeTypes'
<1>1. PipeTypes /\ UNCHANGED pipelineVars => PipeTypes'
  BY DEF PipeTypes, pipelineVars
<1> QED
  BY <1>1, PipeTypesFanIn, PipeTypesNorm, PipeTypesTee, PipeTypesBuffer, PipeTypesBridge,
     PipeTypesUploader, PipeTypesMain DEF PipelineNext

-----------------------------------------------------------------------------
(* The pipeline: where its goroutines stand *)

FanInStands ==
  /\ \A a \in Adapter : hand[a] # <<>> => at[a] = "open" /\ \E x \in Int : hand[a] = <<x>>
  /\ \A a \in Adapter : at[a] = "open" => a \in started
  /\ at["norm"] = "returned"
       => /\ chan["merged"] = <<>> /\ at["main"] # "starting"
          /\ \A a \in started : at[a] = "returned"
  /\ "output" \in closed => at["norm"] = "returned"

ModeStands ==
  /\ at["main"] = "starting" => \A g \in Goroutines \ {"main"} : at[g] = "absent"
  /\ at["tee"] # "absent" => Tee
  /\ at["tee"] = "cloud" => mode = "teeCloud"
  /\ at["buffer"] # "absent" => ~Direct
  /\ at["bridge"] # "absent" => Bridged
  /\ at["uploader"] # "absent" => mode = "teeCloud"
  /\ ~Tee => chan["buf"] = <<>>

EndStands ==
  /\ at["bridge"] \in {"waiting", "returned"} => hand["bridge"] = <<>>
  /\ Direct /\ at["bridge"] \in {"flushClosed", "waiting", "returned"}
       => "output" \in closed /\ chan["output"] = <<>>
  /\ Direct /\ at["main"] \notin {"starting", "failed"} => at["bridge"] # "absent"
  /\ Direct /\ at["main"] \in {"servers", "buffer", "returned"} => at["bridge"] = "returned"

Stands == FanInStands /\ ModeStands /\ EndStands

\* The names of the adapters, of the pipes and of the other goroutines differ.
LEMMA PipeNames ==
  ASSUME NEW a \in Adapter
  PROVE  /\ a # "merged" /\ a # "output" /\ a # "buf" /\ a # "bridge" /\ a # "cloud"
         /\ a # "main" /\ a # "norm" /\ a # "tee" /\ a # "buffer" /\ a # "uploader"
         /\ a \notin Goroutines
BY PipelineAssumption DEF Pipes, Goroutines

\* Before the start no goroutine but main is there.
LEMMA StandsStart == PipelineInit => Stands
<1> SUFFICES ASSUME PipelineInit PROVE Stands
  OBVIOUS
<1>1. /\ \A g \in Goroutines \ {"main"} : at[g] = "absent"
      /\ at["main"] = "starting" /\ closed = {}
      /\ \A c \in Pipes : chan[c] = <<>>
      /\ \A a \in Adapter : at[a] = "absent" /\ hand[a] = <<>>
  BY PipeNames DEF PipelineInit, Pipes, Goroutines
<1>2. /\ at["norm"] = "absent" /\ at["tee"] = "absent" /\ at["buffer"] = "absent"
      /\ at["bridge"] = "absent" /\ at["uploader"] = "absent" /\ chan["buf"] = <<>>
  BY <1>1 DEF Pipes, Goroutines
<1> QED
  BY <1>1, <1>2 DEF Stands, FanInStands, ModeStands, EndStands

\* An adapter and its fan-in: a fan-in that holds a reading has not returned, so that the
\* normalizer has not either.
LEMMA StandsFanIn ==
  ASSUME PipeTypes, Stands, NEW a \in Adapter, Emit(a) \/ AdapterCloses(a) \/ FanIn(a)
  PROVE  Stands'
<1>1. CASE Emit(a)
  <2>1. \A c \in Pipes : chan'[c] = chan[c]
    BY <1>1, PipeNames DEF Emit, PipeTypes, Pipes
  <2>2. chan'["merged"] = chan["merged"] /\ chan'["output"] = chan["output"]
        /\ chan'["buf"] = chan["buf"]
    BY <2>1 DEF Pipes
  <2>3. UNCHANGED <<mode, closed, hand, at, started>>
    BY <1>1 DEF Emit
  <2> QED
    BY <2>2, <2>3 DEF Stands, FanInStands, ModeStands, EndStands, Tee, Direct, Bridged
<1>2. CASE AdapterCloses(a)
  <2>1. UNCHANGED <<mode, chan, hand, at, started>> /\ ("output" \in closed' <=> "output" \in closed)
    BY <1>2, PipeNames DEF AdapterCloses
  <2> QED
    BY <2>1 DEF Stands, FanInStands, ModeStands, EndStands, Tee, Direct, Bridged
<1>3. CASE FanInReceive(a)
  <2>1. UNCHANGED <<mode, closed, at, started>> /\ at[a] = "open"
    BY <1>3 DEF FanInReceive
  <2>2. chan'["merged"] = chan["merged"] /\ chan'["output"] = chan["output"]
        /\ chan'["buf"] = chan["buf"]
    BY <1>3, PipeNames DEF FanInReceive, PipeTypes, Pipes
  <2>3. /\ Head(chan[a]) \in Int /\ hand'[a] = <<Head(chan[a])>>
        /\ \A b \in Adapter : b # a => hand'[b] = hand[b]
        /\ hand'["bridge"] = hand["bridge"]
    BY <1>3, PipeNames, PipeQueues, HeadInFront DEF FanInReceive, PipeTypes, Goroutines
  <2>4. FanInStands'
    BY <2>1, <2>2, <2>3 DEF Stands, FanInStands
  <2> QED
    BY <2>1, <2>2, <2>3, <2>4 DEF Stands, ModeStands, EndStands, Tee, Direct, Bridged
<1>4. CASE FanInSend(a)
  <2>1. UNCHANGED <<mode, closed, at, started>> /\ at[a] = "open" /\ at["norm"] # "returned"
    BY <1>4 DEF FanInSend, Stands, FanInStands
  <2>2. chan'["output"] = chan["output"] /\ chan'["buf"] = chan["buf"]
    BY <1>4 DEF FanInSend, PipeTypes, Pipes
  <2>3. /\ hand'[a] = <<>> /\ \A b \in Adapter : b # a => hand'[b] = hand[b]
        /\ hand'["bridge"] = hand["bridge"]
    BY <1>4, PipeNames DEF FanInSend, PipeTypes, Goroutines
  <2>4. FanInStands'
    BY <2>1, <2>2, <2>3 DEF Stands, FanInStands
  <2> QED
    BY <2>1, <2>2, <2>3, <2>4 DEF Stands, ModeStands, EndStands, Tee, Direct, Bridged
<1>5. CASE FanInReturn(a)
  <2>1. UNCHANGED <<mode, chan, closed, started>>
    BY <1>5 DEF FanInReturn
  <2>2. /\ hand'[a] = <<>> /\ \A b \in Adapter : b # a => hand'[b] = hand[b]
        /\ hand'["bridge"] = hand["bridge"]
    BY <1>5, PipeNames DEF FanInReturn, PipeTypes, Goroutines
  <2>3. /\ at'[a] = "returned" /\ \A b \in Adapter : b # a => at'[b] = at[b]
        /\ \A g \in Goroutines : at'[g] = at[g]
    BY <1>5, PipeNames DEF FanInReturn, Move, PipeTypes, Goroutines
  <2>4. FanInStands'
    <3>1. at'["norm"] = at["norm"] /\ at'["main"] = at["main"]
      BY <2>3 DEF Goroutines
    <3>2. \A b \in started : b \in Adapter
      BY DEF PipeTypes
    <3> QED
      BY <2>1, <2>2, <2>3, <3>1, <3>2 DEF Stands, FanInStands
  <2>5. ModeStands'
    BY <2>1, <2>3 DEF Stands, ModeStands, Goroutines, Tee, Direct, Bridged
  <2> QED
    BY <2>1, <2>2, <2>3, <2>4, <2>5 DEF Stands, EndStands, Direct, Goroutines
<1> QED
  BY <1>1, <1>2, <1>3, <1>4, <1>5 DEF FanIn

\* A step that moves no adapter's reading and leaves the normalizer and main where they are
\* leaves the fan-in's part as it is.
LEMMA FanInStandsKept ==
  ASSUME PipeTypes, FanInStands, UNCHANGED started,
         \A a \in Adapter : at'[a] = at[a] /\ hand'[a] = hand[a],
         at'["norm"] = at["norm"], at["main"] # "starting" => at'["main"] # "starting",
         at["norm"] = "returned" => chan'["merged"] = chan["merged"],
         "output" \in closed' => "output" \in closed
  PROVE  FanInStands'
BY DEF FanInStands, PipeTypes

\* The normalizer, which returns after every fan-in.
LEMMA StandsNorm ==
  ASSUME PipeTypes, Stands, Norm
  PROVE  Stands'
<1>1. CASE NormProcess
  <2>1. /\ UNCHANGED <<mode, closed, hand, at, started>>
        /\ at["norm"] = "running"
    BY <1>1, Zenon DEF NormProcess
  <2>2. chan'["buf"] = chan["buf"]
    <3>1. PICK v : chan' = [chan EXCEPT !["merged"] = Tail(@), !["output"] = @ \o v]
      BY <1>1, Zenon DEF NormProcess
    <3> QED
      BY <3>1 DEF PipeTypes, Pipes
  <2>3. "output" \notin closed
    BY <2>1 DEF Stands, FanInStands
  <2>4. FanInStands'
    BY <2>1, <2>3 DEF Stands, FanInStands
  <2> QED
    BY <2>1, <2>2, <2>3, <2>4 DEF Stands, ModeStands, EndStands, Tee, Direct, Bridged
<1>2. CASE NormReturn
  <2>1. /\ UNCHANGED <<mode, chan, hand, started>>
        /\ at["norm"] = "running" /\ at'["norm"] = "returned" /\ chan["merged"] = <<>>
        /\ "output" \in closed'
        /\ \A a \in started : at[a] = "returned"
        /\ \A a \in Adapter : at'[a] = at[a]
        /\ \A g \in Goroutines : g # "norm" => at'[g] = at[g]
    BY <1>2, PipeNames DEF NormReturn, Move, PipeTypes, Goroutines
  <2>2. at["main"] # "starting"
    BY <2>1 DEF Stands, ModeStands, Goroutines
  <2>3. FanInStands'
    BY <2>1, <2>2 DEF Stands, FanInStands, PipeTypes, Goroutines
  <2> QED
    BY <2>1, <2>2, <2>3 DEF Stands, ModeStands, EndStands, Tee, Direct, Bridged, Goroutines
<1> QED
  BY <1>1, <1>2 DEF Norm

\* The tee, which only some modes start.
LEMMA StandsTee ==
  ASSUME PipeTypes, Stands, TeeStep
  PROVE  Stands'
<1>1. /\ UNCHANGED <<mode, started>>
      /\ at["tee"] # "absent" /\ Tee /\ at["main"] # "starting"
  <2>1. UNCHANGED <<mode, started>> /\ at["tee"] # "absent"
    BY DEF TeeStep, TeeReceive, TeeToBuffer, TeeToBridge, TeeToCloud, TeeReturn, TeeMayReturn
  <2> QED
    BY <2>1 DEF Stands, ModeStands, Goroutines
<1>2. /\ \A a \in Adapter : hand'[a] = hand[a]
      /\ hand'["bridge"] = hand["bridge"]
  BY PipeNames DEF TeeStep, TeeReceive, TeeToBuffer, TeeToBridge, TeeToCloud, TeeReturn,
                   PipeTypes, Goroutines
<1>3. /\ \A a \in Adapter : at'[a] = at[a]
      /\ \A g \in Goroutines : g # "tee" => at'[g] = at[g]
  BY PipeNames DEF TeeStep, TeeReceive, TeeToBuffer, TeeToBridge, TeeToCloud, TeeReturn,
                   Move, PipeTypes, Goroutines
<1>4. chan'["merged"] = chan["merged"] /\ ("output" \in closed' <=> "output" \in closed)
  BY DEF TeeStep, TeeReceive, TeeToBuffer, TeeToBridge, TeeToCloud, TeeReturn, PipeTypes,
         Pipes
<1>5. at'["tee"] = "cloud" => mode = "teeCloud"
  BY <1>1 DEF TeeStep, TeeReceive, TeeToBuffer, TeeToBridge, TeeToCloud, TeeReturn,
         Move, Cloudy, Tee, PipeTypes, Goroutines
<1>6. ~Direct
  BY <1>1 DEF Tee, Direct
<1>7. FanInStands'
  BY <1>1, <1>2, <1>3, <1>4, FanInStandsKept DEF Stands, Goroutines
<1>8. ModeStands'
  BY <1>1, <1>3, <1>5 DEF Stands, ModeStands, Tee, Direct, Bridged, Goroutines
<1> QED
  BY <1>1, <1>2, <1>3, <1>6, <1>7, <1>8 DEF Stands, EndStands, Direct, Goroutines

\* The buffer manager, which the direct modes do not start.
LEMMA StandsBuffer ==
  ASSUME PipeTypes, Stands, BufferReceive \/ BufferReturn
  PROVE  Stands'
<1>1. /\ UNCHANGED <<mode, closed, hand, started>>
      /\ at["buffer"] # "absent" /\ ~Direct /\ at["main"] # "starting"
  <2>1. UNCHANGED <<mode, closed, hand, started>> /\ at["buffer"] # "absent"
    BY DEF BufferReceive, BufferReturn
  <2> QED
    BY <2>1 DEF Stands, ModeStands, Goroutines
<1>2. /\ \A a \in Adapter : at'[a] = at[a]
      /\ \A g \in Goroutines : g # "buffer" => at'[g] = at[g]
  BY PipeNames DEF BufferReceive, BufferReturn, Move, PipeTypes, Goroutines
<1>3. /\ chan'["merged"] = chan["merged"]
      /\ ~Tee => chan'["buf"] = chan["buf"]
  BY DEF BufferReceive, BufferReturn, BufferIn, PipeTypes, Pipes
<1>4. FanInStands'
  BY <1>1, <1>2, <1>3, FanInStandsKept DEF Stands, Goroutines
<1>5. ModeStands'
  BY <1>1, <1>2, <1>3 DEF Stands, ModeStands, Tee, Direct, Bridged, Goroutines
<1> QED
  BY <1>1, <1>2, <1>4, <1>5 DEF Stands, EndStands, Direct, Goroutines

\* The bridge, which waits for its sends only when its input has ended.
LEMMA StandsBridge ==
  ASSUME PipeTypes, Stands, Bridge \/ FlushBridge
  PROVE  Stands'
<1> USE DEF BridgeReceive, BridgeTick, BridgeCancelled, BridgeDrain, BridgeClosed, BridgeReturn
<1>1. /\ UNCHANGED <<mode, closed, started>>
      /\ at["bridge"] # "absent" /\ Bridged /\ at["main"] # "starting"
  <2>1. UNCHANGED <<mode, closed, started>> /\ at["bridge"] # "absent"
    BY DEF Bridge, FlushBridge, Flushing
  <2> QED
    BY <2>1 DEF Stands, ModeStands, Goroutines
<1>2. \A a \in Adapter : hand'[a] = hand[a]
  BY PipeNames DEF Bridge, FlushBridge, PipeTypes, Goroutines
<1>3. PICK stand \in PipeStands :
        /\ stand # "absent"
        /\ at' = [at EXCEPT !["bridge"] = stand]
        /\ at["bridge"] \in {"looping", "draining", "waiting"} \cup Flushing
        /\ \/ stand \notin {"flushClosed", "waiting", "returned"}
           \/ /\ Ended(BridgeIn) /\ UNCHANGED <<chan, hand>>
              /\ stand = IF hand["bridge"] = <<>> THEN "waiting" ELSE "flushClosed"
           \/ /\ at["bridge"] = "flushClosed" /\ stand = "waiting"
              /\ UNCHANGED chan /\ hand'["bridge"] = <<>>
           \/ /\ at["bridge"] = "waiting" /\ stand = "returned"
              /\ UNCHANGED <<chan, hand>>
  <2>1. at = [at EXCEPT !["bridge"] = at["bridge"]] /\ at["bridge"] \in PipeStands
    BY DEF PipeTypes, Goroutines
  <2>2. CASE BridgeReceive
    BY <2>2 DEF Move, PipeStands
  <2>3. CASE BridgeTick \/ BridgeCancelled
    BY <2>3 DEF ToFlush, AfterFlush, Move, PipeStands
  <2>4. CASE BridgeDrain
    BY <2>1, <2>4 DEF PipeStands
  <2>5. CASE BridgeClosed
    BY <2>5 DEF ToFlush, AfterFlush, Move, PipeStands
  <2>6. CASE BridgeReturn
    BY <2>6 DEF Move, PipeStands
  <2>7. CASE FlushBridge
    BY <2>7 DEF FlushBridge, Flushing, AfterFlush, Move, PipeStands, PipeTypes, Goroutines
  <2> QED
    BY <2>2, <2>3, <2>4, <2>5, <2>6, <2>7 DEF Bridge
<1>4. /\ \A a \in Adapter : at'[a] = at[a]
      /\ \A g \in Goroutines : g # "bridge" => at'[g] = at[g]
      /\ at'["bridge"] = stand
  BY <1>3, PipeNames DEF PipeTypes, Goroutines
<1>5. chan'["merged"] = chan["merged"] /\ chan'["buf"] = chan["buf"]
  BY DEF Bridge, FlushBridge, BridgeIn, PipeTypes, Pipes
<1>6. FanInStands'
  BY <1>1, <1>2, <1>4, <1>5, FanInStandsKept DEF Stands, Goroutines
<1>7. ModeStands'
  BY <1>1, <1>3, <1>4, <1>5 DEF Stands, ModeStands, Tee, Direct, Bridged, Goroutines
<1>8. Direct => BridgeIn = "output"
  BY DEF Direct, Tee, BridgeIn
<1>9. EndStands'
  <2>1. (Direct' <=> Direct) /\ at["main"] = at'["main"]
    BY <1>1, <1>4 DEF Direct, Goroutines
  <2>2. Direct => at["main"] \notin {"servers", "buffer", "returned"} \/ stand = "returned"
    BY <1>3 DEF Stands, EndStands, Flushing
  <2>3. stand \in {"waiting", "returned"} => hand'["bridge"] = <<>>
    BY <1>3 DEF Stands, EndStands
  <2>4. Direct /\ stand \in {"flushClosed", "waiting", "returned"}
          => "output" \in closed /\ chan'["output"] = <<>>
    BY <1>3, <1>8 DEF Stands, EndStands, Ended
  <2> QED
    BY <1>1, <1>3, <1>4, <2>1, <2>2, <2>3, <2>4 DEF Stands, EndStands
<1> QED
  BY <1>6, <1>7, <1>9 DEF Stands

\* The uploader, which only one mode starts.
LEMMA StandsUploader ==
  ASSUME PipeTypes, Stands, Uploader \/ SendEnds
  PROVE  Stands'
<1>1. /\ UNCHANGED <<mode, closed, started>>
      /\ UNCHANGED at \/ at["uploader"] # "absent"
      /\ \A a \in Adapter : hand'[a] = hand[a] /\ at'[a] = at[a]
      /\ \A g \in Goroutines : g # "uploader" => at'[g] = at[g] /\ hand'[g] = hand[g]
      /\ \A c \in Pipes : c # "cloud" => chan'[c] = chan[c]
  BY PipeNames DEF Uploader, UploaderReceive, UploaderTick, UploaderReturn, SendEnds,
                   Move, PipeTypes, Goroutines, Pipes
<1>2. /\ chan'["merged"] = chan["merged"] /\ chan'["buf"] = chan["buf"]
      /\ chan'["output"] = chan["output"] /\ hand'["bridge"] = hand["bridge"]
  BY <1>1 DEF Pipes, Goroutines
<1>3. FanInStands'
  BY <1>1, <1>2, FanInStandsKept DEF Stands, Goroutines
<1>4. ModeStands'
  BY <1>1, <1>2 DEF Stands, ModeStands, Tee, Direct, Bridged, Goroutines
<1> QED
  BY <1>1, <1>2, <1>3, <1>4 DEF Stands, EndStands, Direct, Goroutines

\* main, which starts what the mode asks for and awaits it.
LEMMA StandsMain ==
  ASSUME PipeTypes, Stands, Main \/ CloseServers \/ StartAdapterFails \/ LaunchFails \/ Signal
  PROVE  Stands'
<1>1. ASSUME NEW a \in Adapter, StartAdapter(a) PROVE Stands'
  <2>1. /\ UNCHANGED <<mode, chan, closed, hand>> /\ at["main"] = "starting"
        /\ started' = started \cup {a} /\ at'[a] = "open"
        /\ \A b \in Adapter : b # a => at'[b] = at[b]
        /\ \A g \in Goroutines : at'[g] = at[g]
    BY <1>1, PipeNames DEF StartAdapter, Move, PipeTypes, Goroutines
  <2>2. FanInStands'
    BY <2>1 DEF Stands, FanInStands, Goroutines
  <2>3. ModeStands'
    BY <2>1 DEF Stands, ModeStands, Tee, Direct, Bridged, Goroutines
  <2> QED
    BY <2>1, <2>2, <2>3 DEF Stands, EndStands, Direct, Goroutines
<1>2. CASE Launch
  <2>1. /\ UNCHANGED <<mode, chan, closed, hand, started>> /\ at["main"] = "starting"
        /\ at' = [g \in Adapter \cup Goroutines |-> Launched(g)]
    BY <1>2 DEF Launch, PipeTypes
  <2>2. \A a \in Adapter : at'[a] = at[a]
    BY <2>1, PipeNames DEF Launched
  <2>3. \A g \in Goroutines \ {"main"} : at[g] = "absent"
    BY <2>1 DEF Stands, ModeStands
  <2>4. /\ at'["main"] = "ready" /\ at'["norm"] = "running"
        /\ at'["tee"] = IF Tee THEN "receiving" ELSE "absent"
        /\ at'["buffer"] = IF Direct THEN "absent" ELSE "running"
        /\ at'["bridge"] = IF Bridged THEN "looping" ELSE "absent"
        /\ at'["uploader"] = IF mode = "teeCloud" THEN "looping" ELSE "absent"
    BY <2>1, <2>3 DEF Launched, Goroutines
  <2>5. FanInStands'
    BY <2>1, <2>2, <2>3, <2>4 DEF Stands, FanInStands, Goroutines
  <2>6. ModeStands'
    BY <2>1, <2>4 DEF Stands, ModeStands, Tee, Direct, Bridged
  <2> QED
    BY <2>1, <2>4, <2>5, <2>6 DEF Stands, EndStands, Direct, Bridged
<1>3. CASE \/ StopAdapters \/ AwaitBridge \/ CloseServers \/ AwaitBuffer
           \/ StartAdapterFails \/ LaunchFails
  <2>1. /\ UNCHANGED <<mode, chan, closed, hand, started>> /\ at'["main"] # "starting"
        /\ \A a \in Adapter : at'[a] = at[a]
        /\ \A g \in Goroutines : g # "main" => at'[g] = at[g]
    BY <1>3, PipeNames DEF StopAdapters, AwaitBridge, CloseServers, AwaitBuffer,
                           StartAdapterFails, LaunchFails, Move, PipeTypes, Goroutines
  <2>2. \/ at'["main"] = "failed"
        \/ at["main"] = "ready" /\ at'["main"] = "bridge"
        \/ /\ at["main"] = "bridge" /\ at'["main"] = "servers"
           /\ at["bridge"] \in {"absent", "returned"}
        \/ at["main"] = "servers" /\ at'["main"] = "buffer"
        \/ at["main"] = "buffer" /\ at'["main"] = "returned"
    BY <1>3 DEF StopAdapters, AwaitBridge, CloseServers, AwaitBuffer, StartAdapterFails,
                LaunchFails, Move, PipeTypes, Goroutines
  <2>3. FanInStands'
    BY <2>1, FanInStandsKept DEF Stands, Goroutines
  <2>4. ModeStands'
    BY <2>1 DEF Stands, ModeStands, Tee, Direct, Bridged, Goroutines
  <2> QED
    BY <2>1, <2>2, <2>3, <2>4 DEF Stands, EndStands, Direct, Goroutines
<1>4. CASE Signal
  BY <1>4 DEF Signal, Stands, FanInStands, ModeStands, EndStands, Tee, Direct, Bridged
<1> QED
  BY <1>1, <1>2, <1>3, <1>4 DEF Main

\* Every step of the pipeline keeps where its goroutines stand.
LEMMA StandsSteps == PipeTypes /\ Stands /\ [PipelineNext]_pipelineVars => Stands'
<1>1. Stands /\ UNCHANGED pipelineVars => Stands'
  BY DEF Stands, FanInStands, ModeStands, EndStands, Tee, Direct, Bridged, pipelineVars
<1> QED
  BY <1>1, StandsFanIn, StandsNorm, StandsTee, StandsBuffer, StandsBridge, StandsUploader,
     StandsMain DEF PipelineNext

-----------------------------------------------------------------------------
(* The pipeline: where the readings are *)

\* What the bridge has received, what has gone to the cloud, and what the tee holds for
\* the buffer and, once the buffer has it, for the cloud.
Received == Then(shown, hand["bridge"])
Sent     == Then(Then(uploaded, hand["uploader"]), chan["cloud"])
AtBuffer == InTee({"buf"})
AtCloud  == InTee({"bridge", "cloud"})

\* Without a buffer the bridge receives everything, and uploads what it shows.
DirectFlow == Direct => /\ Then(Received, Upstream) = accepted
                        /\ mode = "cloudOnly" => uploaded = shown

\* With one the buffer receives everything, and the cloud what the buffer did.
BufferFlow == ~Direct /\ at["tee"] # "returned"
                => Then(Then(ToBuffer, AtBuffer), Upstream) = accepted
CloudFlow == mode = "teeCloud" /\ at["tee"] # "returned" => Then(Sent, AtCloud) = ToBuffer

\* The dashboard has some of it, in the same order: before the tee turns to the dashboard
\* with a reading, some of what came before that reading.
SeenFlow == Tee => /\ Thins(Seen, ToBuffer)
                   /\ at["tee"] = "bridge"
                        => \E p \in Seq(Int) : ToBuffer = Then(p, hand["tee"]) /\ Thins(Seen, p)

Flow == DirectFlow /\ BufferFlow /\ CloudFlow /\ SeenFlow

\* The parts of the flow are queues.
LEMMA FlowQueues ==
  ASSUME PipeTypes
  PROVE  /\ Received \in Seq(Int) /\ Sent \in Seq(Int) /\ AtBuffer \in Seq(Int)
         /\ AtCloud \in Seq(Int) /\ ToBuffer \in Seq(Int) /\ Upstream \in Seq(Int)
         /\ Seen \in Seq(Int) /\ Seen = Then(Received, chan["bridge"])
         /\ ToBuffer = Then(buffered, chan["buf"])
         /\ Upstream = Then(chan["output"], Valid(chan["merged"]))
<1>1. /\ \A c \in {"merged", "output", "buf", "bridge", "cloud"} : chan[c] \in Seq(Int)
      /\ \A g \in {"tee", "bridge", "uploader"} : hand[g] \in Seq(Int)
      /\ buffered \in Seq(Int) /\ shown \in Seq(Int) /\ uploaded \in Seq(Int)
      /\ Valid(chan["merged"]) \in Seq(Int) /\ <<>> \in Seq(Int)
  <2>1. /\ \A c \in {"merged", "output", "buf", "bridge", "cloud"} : chan[c] \in Seq(Int)
        /\ \A g \in {"tee", "bridge", "uploader"} : hand[g] \in Seq(Int)
    BY DEF PipeTypes, Pipes, Goroutines
  <2> QED
    BY <2>1, ValidType, EmptySeq DEF PipeTypes
<1>2. Received \in Seq(Int) /\ Sent \in Seq(Int)
  BY <1>1, ThenIn DEF Received, Sent
<1>3. AtBuffer \in Seq(Int) /\ AtCloud \in Seq(Int)
  BY <1>1 DEF AtBuffer, AtCloud, InTee
<1>4. Seen = Then(Received, chan["bridge"])
  BY DEF Seen, Received, Then
<1>5. ToBuffer = Then(buffered, chan["buf"])
  BY DEF ToBuffer, Then
<1>6. Upstream = Then(chan["output"], Valid(chan["merged"]))
  BY DEF Upstream, Then
<1> QED
  BY <1>1, <1>2, <1>3, <1>4, <1>5, <1>6, ThenIn

\* One reading behind a row.
LEMMA OneBehind ==
  ASSUME NEW s \in Seq(Int), NEW h \in Seq(Int), NEW x \in Int
  PROVE  /\ Append(s, x) = Then(s, <<x>>) /\ Append(s, x) \in Seq(Int)
         /\ Then(s, Append(h, x)) = Append(Then(s, h), x)
<1>1. PICK o : o = <<x>>
  OBVIOUS
<1>2. o \in Seq(Int)
  BY <1>1
<1>3. \A q \in Seq(Int) : Append(q, x) = Then(q, o)
  BY <1>1, AppendIsConcat DEF Then
<1>4. Then(s, h) \in Seq(Int)
  BY ThenIn
<1>5. Then(s, Then(h, o)) = Then(Then(s, h), o)
  BY <1>2, ThenThen
<1> QED
  BY <1>1, <1>2, <1>3, <1>4, <1>5, ThenIn

\* Nothing behind a row, or in front of it.
LEMMA NoneBehind ==
  ASSUME NEW s \in Seq(Int)
  PROVE  Then(s, <<>>) = s /\ Then(<<>>, s) = s
BY ConcatEmptySeq DEF Then

\* A reading taken from a queue and put behind the one in front of it.
LEMMA TakeOne ==
  ASSUME NEW s \in Seq(Int), NEW t \in Seq(Int), t # <<>>
  PROVE  /\ Head(t) \in Int /\ Tail(t) \in Seq(Int)
         /\ Then(Append(s, Head(t)), Tail(t)) = Then(s, t)
<1>1. Head(t) \in Int /\ Tail(t) \in Seq(Int) /\ <<>> \in Seq(Int)
  BY HeadTailProperties, EmptySeq
<1>2. PICK e \in Seq(Int) : e = <<>>
  BY <1>1
<1>3. Then(Append(s, Head(t)), Then(Tail(t), e)) = Then(s, Then(t, e))
  BY MoveHead
<1>4. Then(Tail(t), e) = Tail(t) /\ Then(t, e) = t
  BY <1>1, <1>2, NoneBehind
<1> QED
  BY <1>1, <1>3, <1>4

\* A reading taken from the normalizer's output and put behind a row.
LEMMA UpstreamTaken ==
  ASSUME PipeTypes, PipeTypes', chan["output"] # <<>>,
         chan'["output"] = Tail(chan["output"]), chan'["merged"] = chan["merged"],
         NEW s \in Seq(Int)
  PROVE  /\ Head(chan["output"]) \in Int
         /\ Then(Append(s, Head(chan["output"])), Upstream') = Then(s, Upstream)
<1>1. PICK t, u : t = chan["output"] /\ u = Valid(chan["merged"])
  OBVIOUS
<1>2. t \in Seq(Int) /\ u \in Seq(Int)
  BY <1>1, ValidType DEF PipeTypes, Pipes
<1>3. Upstream = Then(t, u)
  BY <1>1, FlowQueues
<1>4. Upstream' = Then(Tail(t), u)
  BY <1>1 DEF Upstream, Then
<1>5. Head(t) \in Int /\ Then(Append(s, Head(t)), Then(Tail(t), u)) = Then(s, Then(t, u))
  BY <1>1, <1>2, MoveHead, HeadTailProperties
<1> QED
  BY <1>1, <1>3, <1>4, <1>5

\* A fan-in puts its reading behind merged.
LEMMA UpstreamGrows ==
  ASSUME PipeTypes, Stands, NEW a \in Adapter, FanInSend(a)
  PROVE  \E v \in Seq(Int) : accepted' = Then(accepted, v) /\ Upstream' = Then(Upstream, v)
<1>1. PICK x \in Int : hand[a] = <<x>>
  BY DEF FanInSend, Stands, FanInStands
<1>2. PICK o, m, v : o = chan["output"] /\ m = chan["merged"] /\ v = Valid(<<x>>)
  OBVIOUS
<1>3. o \in Seq(Int) /\ m \in Seq(Int) /\ v \in Seq(Int) /\ Valid(m) \in Seq(Int)
  <2>1. <<x>> \in Seq(Int)
    OBVIOUS
  <2> QED
    BY <1>2, <2>1, ValidType DEF PipeTypes, Pipes
<1>4. accepted' = Then(accepted, v)
  BY <1>1, <1>2, Zenon DEF FanInSend, Then
<1>5. chan'["output"] = o /\ chan'["merged"] = m \o <<x>>
  BY <1>1, <1>2 DEF FanInSend, PipeTypes, Pipes
<1>6. Upstream' = Then(o, Valid(m \o <<x>>))
  BY <1>5 DEF Upstream, Then
<1>7. Valid(m \o <<x>>) = Then(Valid(m), v)
  BY <1>2, <1>3, ValidBehind DEF Then
<1>8. Upstream = Then(o, Valid(m))
  BY <1>2, FlowQueues
<1>9. Then(o, Then(Valid(m), v)) = Then(Then(o, Valid(m)), v)
  BY <1>3, ThenThen
<1> QED
  BY <1>3, <1>4, <1>6, <1>7, <1>8, <1>9

\* The normalizer moves a reading on if it is valid.
LEMMA UpstreamMoves ==
  ASSUME PipeTypes, NormProcess
  PROVE  Upstream' = Upstream
<1>1. PICK o, m, v : o = chan["output"] /\ m = chan["merged"] /\ v = Valid(<<Head(m)>>)
  OBVIOUS
<1>2. m # <<>> /\ chan' = [chan EXCEPT !["merged"] = Tail(@), !["output"] = @ \o v]
  BY <1>1, Zenon DEF NormProcess
<1>3. o \in Seq(Int) /\ m \in Seq(Int)
  BY <1>1 DEF PipeTypes, Pipes
<1>4. /\ Head(m) \in Int /\ Tail(m) \in Seq(Int) /\ m = Then(<<Head(m)>>, Tail(m))
      /\ <<Head(m)>> \in Seq(Int)
  BY <1>2, <1>3, HeadInFront
<1>5. v \in Seq(Int) /\ Valid(Tail(m)) \in Seq(Int)
  BY <1>1, <1>4, ValidType
<1>6. Valid(m) = Then(v, Valid(Tail(m)))
  <2>1. Valid(<<Head(m)>> \o Tail(m)) = Valid(<<Head(m)>>) \o Valid(Tail(m))
    BY <1>4, ValidBefore
  <2>2. m = <<Head(m)>> \o Tail(m)
    BY <1>4, Zenon DEF Then
  <2>3. Valid(m) = Valid(<<Head(m)>>) \o Valid(Tail(m))
    BY <2>1, <2>2, Zenon
  <2> QED
    BY <1>1, <2>3, Zenon DEF Then
<1>7. chan'["output"] = Then(o, v) /\ chan'["merged"] = Tail(m)
  BY <1>1, <1>2 DEF PipeTypes, Pipes, Then
<1>8. Upstream' = Then(Then(o, v), Valid(Tail(m)))
  BY <1>7, Zenon DEF Upstream, Then
<1>9. Upstream = Then(o, Then(v, Valid(Tail(m))))
  BY <1>1, <1>6, FlowQueues
<1> QED
  BY <1>3, <1>5, <1>8, <1>9, ThenThen

\* Some of a row, and some of the row with a reading behind it.
LEMMA ThinsMore ==
  ASSUME NEW u \in Seq(Int), NEW t \in Seq(Int), NEW w \in Seq(Int), Thins(u, t)
  PROVE  Thins(u, Then(t, w)) /\ Thins(Then(u, w), Then(t, w))
<1>1. PICK f : Embeds(f, u, t)
  BY DEF Thins
<1>2. Len(u) \in Nat /\ Len(t) \in Nat /\ Len(w) \in Nat
  BY LenProperties
<1>3. PICK q, r : q = t \o w /\ r = u \o w
  OBVIOUS
<1>4. /\ Len(q) = Len(t) + Len(w)
      /\ \A i \in 1 .. Len(t) + Len(w) : q[i] = IF i <= Len(t) THEN t[i] ELSE w[i - Len(t)]
  BY <1>3, ConcatProperties
<1>5. /\ Len(r) = Len(u) + Len(w)
      /\ \A i \in 1 .. Len(u) + Len(w) : r[i] = IF i <= Len(u) THEN u[i] ELSE w[i - Len(u)]
  BY <1>3, ConcatProperties
<1>6. /\ \A i \in 1 .. Len(u) : f[i] \in 1 .. Len(t) /\ u[i] = t[f[i]]
      /\ \A i, j \in 1 .. Len(u) : i < j => f[i] < f[j]
      /\ f \in [1 .. Len(u) -> 1 .. Len(t)]
  BY <1>1 DEF Embeds
<1>7. \A i \in 1 .. Len(u) : f[i] \in 1 .. Len(q) /\ q[f[i]] = u[i]
  <2>1. ASSUME NEW i \in 1 .. Len(u) PROVE f[i] \in 1 .. Len(q) /\ q[f[i]] = u[i]
    <3>1. PICK k \in 1 .. Len(t) : k = f[i] /\ u[i] = t[k]
      BY <1>6
    <3>2. k \in 1 .. Len(q) /\ q[k] = t[k]
      BY <1>2, <1>4
    <3> QED
      BY <3>1, <3>2
  <2> QED
    BY <2>1
<1>8. Embeds(f, u, q)
  <2>1. f \in [1 .. Len(u) -> 1 .. Len(q)]
    BY <1>2, <1>4, <1>6
  <2>2. \A i \in 1 .. Len(u) : u[i] = q[f[i]]
    BY <1>7
  <2> QED
    BY <1>6, <2>1, <2>2 DEF Embeds
<1>9. PICK h : h = [i \in 1 .. Len(r) |-> IF i <= Len(u) THEN f[i] ELSE i - Len(u) + Len(t)]
  OBVIOUS
<1>10. Embeds(h, r, q)
  <2>1. \A i \in 1 .. Len(r) : h[i] = IF i <= Len(u) THEN f[i] ELSE i - Len(u) + Len(t)
    BY <1>9
  <2>2. ASSUME NEW i \in 1 .. Len(r) PROVE h[i] \in 1 .. Len(q)
    <3>1. CASE i <= Len(u)
      <4>1. i \in 1 .. Len(u) /\ h[i] = f[i]
        BY <1>2, <1>5, <2>1, <3>1
      <4> QED
        BY <1>7, <4>1
    <3>2. CASE i > Len(u)
      BY <1>2, <1>4, <1>5, <2>1, <3>2
    <3> QED
      BY <1>2, <1>5, <3>1, <3>2
  <2>3. h \in [1 .. Len(r) -> 1 .. Len(q)]
    BY <1>9, <2>2
  <2>4. ASSUME NEW i \in 1 .. Len(r), NEW j \in 1 .. Len(r), i < j PROVE h[i] < h[j]
    <3>1. CASE j <= Len(u)
      <4>1. i \in 1 .. Len(u) /\ j \in 1 .. Len(u) /\ h[i] = f[i] /\ h[j] = f[j]
        BY <1>2, <1>5, <2>1, <2>4, <3>1
      <4> QED
        BY <1>6, <2>4, <4>1
    <3>2. CASE i <= Len(u) /\ j > Len(u)
      <4>1. i \in 1 .. Len(u) /\ h[i] = f[i] /\ h[j] = j - Len(u) + Len(t)
        BY <1>2, <1>5, <2>1, <3>2
      <4>2. f[i] \in 1 .. Len(t)
        BY <1>6, <4>1
      <4>3. /\ Len(u) \in Nat /\ Len(t) \in Nat /\ j \in Nat /\ j > Len(u)
            /\ h[i] = f[i] /\ h[j] = j - Len(u) + Len(t)
        BY <1>2, <1>5, <3>2, <4>1
      <4> QED
        BY ONLY <4>2, <4>3
    <3>3. CASE i > Len(u)
      <4>1. h[i] = i - Len(u) + Len(t)
        BY <1>2, <2>1, <3>3
      <4>2. h[j] = j - Len(u) + Len(t)
        BY <1>2, <1>5, <2>1, <2>4, <3>3
      <4> QED
        BY <1>2, <1>5, <2>4, <4>1, <4>2
    <3> QED
      BY <1>2, <1>5, <3>1, <3>2, <3>3
  <2>5. ASSUME NEW i \in 1 .. Len(r) PROVE r[i] = q[h[i]]
    <3>1. CASE i <= Len(u)
      <4>1. i \in 1 .. Len(u) /\ h[i] = f[i] /\ r[i] = u[i]
        BY <1>2, <1>5, <2>1, <3>1
      <4> QED
        BY <1>7, <4>1
    <3>2. CASE i > Len(u)
      <4>1. h[i] = i - Len(u) + Len(t) /\ r[i] = w[i - Len(u)]
        BY <1>2, <1>5, <2>1, <3>2
      <4>2. PICK k : k = i - Len(u) + Len(t)
        OBVIOUS
      <4>3. k \in 1 .. Len(t) + Len(w) /\ ~(k <= Len(t)) /\ k - Len(t) = i - Len(u)
        BY <1>2, <1>5, <3>2, <4>2
      <4> QED
        BY <1>4, <4>1, <4>2, <4>3
    <3> QED
      BY <1>2, <1>5, <3>1, <3>2
  <2> QED
    BY <2>3, <2>4, <2>5 DEF Embeds
<1> QED
  BY <1>3, <1>8, <1>10 DEF Thins, Then

\* A step that leaves every row as it is.
LEMMA FlowKept ==
  ASSUME Flow, mode' = mode, accepted' = accepted, Received' = Received, Sent' = Sent,
         ToBuffer' = ToBuffer, Upstream' = Upstream, Seen' = Seen,
         AtBuffer' = AtBuffer, AtCloud' = AtCloud, hand'["tee"] = hand["tee"],
         at'["tee"] = "bridge" => at["tee"] = "bridge",
         at["tee"] = "returned" => at'["tee"] = "returned",
         mode = "cloudOnly" /\ uploaded = shown => uploaded' = shown'
  PROVE  Flow'
<1>1. DirectFlow'
  BY DEF Flow, DirectFlow, Direct
<1>2. BufferFlow'
  BY DEF Flow, BufferFlow, Direct
<1>3. CloudFlow'
  BY DEF Flow, CloudFlow
<1>4. SeenFlow'
  BY DEF Flow, SeenFlow, Tee
<1> QED
  BY <1>1, <1>2, <1>3, <1>4 DEF Flow

\* A step that leaves the pipes, what the goroutines behind them hold and the histories.
LEMMA FlowUntouched ==
  ASSUME Flow, PipeTypes, PipeTypes', mode' = mode, UNCHANGED histVars,
         \A c \in Pipes : chan'[c] = chan[c],
         \A g \in Goroutines : hand'[g] = hand[g],
         \/ at'["tee"] = at["tee"]
         \/ at["tee"] = "absent" /\ at'["tee"] \in {"absent", "receiving"}
  PROVE  Flow'
<1>1. /\ chan'["merged"] = chan["merged"] /\ chan'["output"] = chan["output"]
      /\ chan'["buf"] = chan["buf"] /\ chan'["bridge"] = chan["bridge"]
      /\ chan'["cloud"] = chan["cloud"] /\ hand'["tee"] = hand["tee"]
      /\ hand'["bridge"] = hand["bridge"] /\ hand'["uploader"] = hand["uploader"]
  BY DEF Pipes, Goroutines
<1>2. Received' = Received /\ Sent' = Sent
  BY <1>1 DEF Received, Sent, histVars
<1>3. ToBuffer' = ToBuffer /\ Upstream' = Upstream /\ Seen' = Seen
  BY <1>1 DEF ToBuffer, Upstream, Seen, histVars
<1>4. AtBuffer' = AtBuffer /\ AtCloud' = AtCloud
  BY <1>1 DEF AtBuffer, AtCloud, InTee
<1> QED
  BY <1>1, <1>2, <1>3, <1>4, FlowKept DEF histVars

\* Only the fan-in that sends moves a reading into a row: behind what is upstream and
\* behind what was accepted.
LEMMA FlowFanIn ==
  ASSUME PipeTypes, PipeTypes', Stands, Flow, NEW a \in Adapter,
         Emit(a) \/ AdapterCloses(a) \/ FanIn(a)
  PROVE  Flow'
<1>1. CASE Emit(a)
  BY <1>1, PipeNames, FlowUntouched DEF Emit, PipeTypes, Pipes
<1>2. CASE AdapterCloses(a)
  BY <1>2, FlowUntouched DEF AdapterCloses
<1>3. CASE FanInReceive(a)
  BY <1>3, PipeNames, FlowUntouched DEF FanInReceive, PipeTypes, Pipes, Goroutines
<1>4. CASE FanInSend(a)
  <2>1. PICK v \in Seq(Int) : accepted' = Then(accepted, v) /\ Upstream' = Then(Upstream, v)
    BY <1>4, UpstreamGrows
  <2>2. /\ chan'["buf"] = chan["buf"] /\ chan'["bridge"] = chan["bridge"]
        /\ chan'["cloud"] = chan["cloud"] /\ hand'["tee"] = hand["tee"]
        /\ hand'["bridge"] = hand["bridge"] /\ hand'["uploader"] = hand["uploader"]
        /\ UNCHANGED <<mode, at, buffered, shown, uploaded>>
    BY <1>4, PipeNames DEF FanInSend, PipeTypes, Pipes, Goroutines
  <2>3. Received' = Received /\ Sent' = Sent
    BY <2>2 DEF Received, Sent
  <2>4. ToBuffer' = ToBuffer /\ Seen' = Seen
    BY <2>2 DEF ToBuffer, Seen
  <2>5. AtBuffer' = AtBuffer /\ AtCloud' = AtCloud
    BY <2>2 DEF AtBuffer, AtCloud, InTee
  <2>6. \A s \in Seq(Int) : Then(s, Upstream') = Then(Then(s, Upstream), v)
    BY <2>1, FlowQueues, ThenThen
  <2>7. DirectFlow'
    BY <2>1, <2>2, <2>3, <2>6, FlowQueues DEF Flow, DirectFlow, Direct
  <2>8. BufferFlow'
    <3>1. Then(ToBuffer, AtBuffer) \in Seq(Int)
      BY FlowQueues, ThenIn
    <3> QED
      BY <2>1, <2>2, <2>4, <2>5, <2>6, <3>1 DEF Flow, BufferFlow, Direct
  <2>9. CloudFlow'
    BY <2>2, <2>3, <2>4, <2>5 DEF Flow, CloudFlow
  <2>10. SeenFlow'
    BY <2>2, <2>4 DEF Flow, SeenFlow, Tee
  <2> QED
    BY <2>7, <2>8, <2>9, <2>10 DEF Flow
<1>5. CASE FanInReturn(a)
  BY <1>5, PipeNames, FlowUntouched DEF FanInReturn, Move, PipeTypes, Goroutines
<1> QED
  BY <1>1, <1>2, <1>3, <1>4, <1>5 DEF FanIn

\* The normalizer leaves the rows as they are.
LEMMA FlowNorm ==
  ASSUME PipeTypes, PipeTypes', Stands, Flow, Norm
  PROVE  Flow'
<1>1. CASE NormProcess
  <2>1. UNCHANGED <<mode, hand, at, accepted, buffered, shown, uploaded>>
    BY <1>1, Zenon DEF NormProcess, histVars
  <2>2. PICK v : chan' = [chan EXCEPT !["merged"] = Tail(@), !["output"] = @ \o v]
    BY <1>1, Zenon DEF NormProcess
  <2>3. /\ chan'["buf"] = chan["buf"] /\ chan'["bridge"] = chan["bridge"]
        /\ chan'["cloud"] = chan["cloud"]
    BY <2>2 DEF PipeTypes, Pipes
  <2>4. Received' = Received /\ Sent' = Sent
    BY <2>1, <2>3 DEF Received, Sent
  <2>5. ToBuffer' = ToBuffer /\ Seen' = Seen
    BY <2>1, <2>3 DEF ToBuffer, Seen
  <2>6. AtBuffer' = AtBuffer /\ AtCloud' = AtCloud
    BY <2>1 DEF AtBuffer, AtCloud, InTee
  <2> QED
    BY <1>1, <2>1, <2>4, <2>5, <2>6, UpstreamMoves, FlowKept
<1>2. CASE NormReturn
  BY <1>2, FlowUntouched DEF NormReturn, Move, PipeTypes, Goroutines
<1> QED
  BY <1>1, <1>2 DEF Norm

\* The buffer manager takes from its pipe, or from the normalizer's output without a tee.
LEMMA FlowBuffer ==
  ASSUME PipeTypes, PipeTypes', Stands, Flow, BufferReceive \/ BufferReturn
  PROVE  Flow'
<1>1. CASE BufferReceive /\ Tee
  <2>1. /\ chan["buf"] # <<>> /\ chan'["buf"] = Tail(chan["buf"])
        /\ buffered' = Append(buffered, Head(chan["buf"]))
        /\ \A c \in Pipes : c # "buf" => chan'[c] = chan[c]
        /\ UNCHANGED <<mode, hand, at, accepted, shown, uploaded>>
    BY <1>1 DEF BufferReceive, BufferIn, PipeTypes, Pipes
  <2>2. ToBuffer' = ToBuffer
    <3>1. chan["buf"] \in Seq(Int) /\ buffered \in Seq(Int)
      BY DEF PipeTypes, Pipes
    <3>2. Then(Append(buffered, Head(chan["buf"])), Tail(chan["buf"])) = Then(buffered, chan["buf"])
      BY <2>1, <3>1, TakeOne
    <3> QED
      BY <2>1, <3>2 DEF ToBuffer, Then
  <2>3. Received' = Received /\ Sent' = Sent
    BY <2>1 DEF Received, Sent, Pipes
  <2>4. Upstream' = Upstream /\ Seen' = Seen
    BY <2>1 DEF Upstream, Seen, Pipes
  <2>5. AtBuffer' = AtBuffer /\ AtCloud' = AtCloud
    BY <2>1 DEF AtBuffer, AtCloud, InTee
  <2> QED
    BY <2>1, <2>2, <2>3, <2>4, <2>5, FlowKept
<1>2. CASE BufferReceive /\ ~Tee
  <2>1. /\ chan["output"] # <<>> /\ chan'["output"] = Tail(chan["output"])
        /\ buffered' = Append(buffered, Head(chan["output"]))
        /\ chan'["merged"] = chan["merged"] /\ chan'["buf"] = chan["buf"]
        /\ UNCHANGED <<mode, at, accepted>>
    BY <1>2 DEF BufferReceive, BufferIn, PipeTypes, Pipes
  <2>2. ~Direct /\ at["tee"] = "absent" /\ chan["buf"] = <<>>
    BY <1>2 DEF BufferReceive, Stands, ModeStands
  <2>3. AtBuffer = <<>> /\ AtBuffer' = <<>>
    BY <2>1, <2>2 DEF AtBuffer, InTee
  <2>4. ToBuffer = buffered /\ ToBuffer' = buffered'
    BY <2>1, <2>2, NoneBehind DEF ToBuffer, Then, PipeTypes
  <2>5. /\ buffered \in Seq(Int) /\ buffered' \in Seq(Int)
        /\ Then(buffered', Upstream') = Then(buffered, Upstream)
    BY <2>1, UpstreamTaken DEF PipeTypes
  <2>6. BufferFlow'
    BY <2>1, <2>2, <2>3, <2>4, <2>5, NoneBehind DEF Flow, BufferFlow
  <2>7. ~Direct' /\ ~Tee' /\ mode' # "teeCloud"
    BY <1>2, <2>1, <2>2 DEF Direct, Tee
  <2> QED
    BY <2>6, <2>7 DEF Flow, DirectFlow, CloudFlow, SeenFlow
<1>3. CASE BufferReturn
  BY <1>3, FlowUntouched DEF BufferReturn, Move, PipeTypes, Goroutines
<1> QED
  BY <1>1, <1>2, <1>3

\* The tee hands a reading to the buffer, then to the dashboard, which may have no room,
\* then to the cloud.
LEMMA FlowTee ==
  ASSUME PipeTypes, PipeTypes', Stands, Flow, TeeStep
  PROVE  Flow'
<1>1. UNCHANGED <<mode, accepted, buffered, shown, uploaded>>
  BY DEF TeeStep, TeeReceive, TeeToBuffer, TeeToBridge, TeeToCloud, TeeReturn, histVars
<1>2. Tee /\ ~Direct
  <2>1. at["tee"] # "absent"
    BY DEF TeeStep, TeeReceive, TeeToBuffer, TeeToBridge, TeeToCloud, TeeReturn, TeeMayReturn
  <2> QED
    BY <2>1 DEF Stands, ModeStands, Tee, Direct
<1>3. DirectFlow'
  BY <1>1, <1>2 DEF DirectFlow, Direct
<1>4. PICK h : h = hand["tee"]
  OBVIOUS
<1>5. /\ h \in Seq(Int) /\ <<>> \in Seq(Int) /\ hand["uploader"] \in Seq(Int)
      /\ \A c \in {"output", "merged", "buf", "bridge", "cloud"} : chan[c] \in Seq(Int)
      /\ buffered \in Seq(Int) /\ uploaded \in Seq(Int)
  BY <1>4, EmptySeq DEF PipeTypes, Pipes, Goroutines
<1>6. CASE TeeReceive
  <2>1. /\ at["tee"] = "receiving" /\ at'["tee"] = "buf"
        /\ chan["output"] # <<>> /\ chan'["output"] = Tail(chan["output"])
        /\ \A c \in Pipes : c # "output" => chan'[c] = chan[c]
        /\ hand'["tee"] = <<Head(chan["output"])>>
        /\ \A g \in Goroutines : g # "tee" => hand'[g] = hand[g]
    BY <1>6 DEF TeeReceive, Move, PipeTypes, Pipes, Goroutines
  <2>2. Sent' = Sent /\ ToBuffer' = ToBuffer /\ Seen' = Seen
    BY <1>1, <2>1 DEF Sent, ToBuffer, Seen, Pipes, Goroutines
  <2>3. PICK x : x = Head(chan["output"])
    OBVIOUS
  <2>4. AtBuffer = <<>> /\ AtCloud = <<>> /\ AtBuffer' = <<x>> /\ AtCloud' = <<>>
    BY <2>1, <2>3 DEF AtBuffer, AtCloud, InTee
  <2>5. BufferFlow'
    <3>1. PICK b \in Seq(Int) : b = ToBuffer
      BY FlowQueues
    <3>2. x \in Int /\ Then(Append(b, x), Upstream') = Then(b, Upstream)
      BY <2>1, <2>3, UpstreamTaken DEF Pipes
    <3>3. Append(b, x) = Then(b, <<x>>) /\ Then(b, <<>>) = b
      BY <1>5, <3>2, OneBehind, NoneBehind
    <3>4. Then(Then(b, <<x>>), Upstream') = Then(Then(b, <<>>), Upstream)
      BY <3>2, <3>3
    <3> QED
      BY <1>1, <2>1, <2>2, <2>4, <3>1, <3>4 DEF Flow, BufferFlow, Direct
  <2>6. CloudFlow'
    BY <1>1, <2>1, <2>2, <2>4 DEF Flow, CloudFlow
  <2>7. SeenFlow'
    BY <1>1, <2>1, <2>2 DEF Flow, SeenFlow, Tee
  <2> QED
    BY <1>3, <2>5, <2>6, <2>7 DEF Flow
<1>7. CASE TeeToBuffer
  <2>1. /\ at["tee"] = "buf" /\ at'["tee"] = "bridge" /\ hand' = hand
        /\ chan'["buf"] = Then(chan["buf"], h)
        /\ \A c \in Pipes : c # "buf" => chan'[c] = chan[c]
    BY <1>4, <1>7 DEF TeeToBuffer, Move, PipeTypes, Pipes, Goroutines, Then
  <2>2. Sent' = Sent /\ Upstream' = Upstream /\ Seen' = Seen
    BY <1>1, <2>1 DEF Sent, Upstream, Seen, Pipes
  <2>3. PICK b \in Seq(Int) : b = ToBuffer
    BY FlowQueues
  <2>4. ToBuffer' = Then(b, h)
    <3>1. Then(buffered, Then(chan["buf"], h)) = Then(Then(buffered, chan["buf"]), h)
      BY <1>5, ThenThen
    <3>2. ToBuffer' = Then(buffered, Then(chan["buf"], h))
      BY <1>1, <2>1 DEF ToBuffer, Then
    <3> QED
      BY <2>3, <3>1, <3>2, FlowQueues
  <2>5. AtBuffer = h /\ AtCloud = <<>> /\ AtBuffer' = <<>> /\ AtCloud' = h
    BY <1>4, <2>1 DEF AtBuffer, AtCloud, InTee
  <2>6. Then(b, h) \in Seq(Int) /\ Then(Then(b, h), <<>>) = Then(b, h)
    BY <1>5, ThenIn, NoneBehind
  <2>7. BufferFlow'
    BY <1>1, <2>1, <2>2, <2>3, <2>4, <2>5, <2>6 DEF Flow, BufferFlow, Direct
  <2>8. CloudFlow'
    <3>1. PICK s \in Seq(Int) : s = Sent
      BY FlowQueues
    <3>2. Then(s, <<>>) = s
      BY NoneBehind
    <3> QED
      BY <1>1, <2>1, <2>2, <2>3, <2>4, <2>5, <3>1, <3>2 DEF Flow, CloudFlow
  <2>9. SeenFlow'
    <3>1. PICK s \in Seq(Int) : s = Seen /\ Thins(s, b)
      BY <1>2, <2>3, FlowQueues DEF Flow, SeenFlow
    <3>2. Thins(s, Then(b, h))
      BY <1>5, <3>1, ThinsMore
    <3>3. hand'["tee"] = h
      BY <1>4, <2>1
    <3> QED
      BY <2>2, <2>4, <3>1, <3>2, <3>3 DEF SeenFlow
  <2> QED
    BY <1>3, <2>7, <2>8, <2>9 DEF Flow
<1>8. CASE TeeToBridge
  <2>1. /\ at["tee"] = "bridge" /\ at'["tee"] = IF Cloudy THEN "cloud" ELSE "receiving"
        /\ \A c \in Pipes : c # "bridge" => chan'[c] = chan[c]
        /\ \A g \in Goroutines : g # "tee" => hand'[g] = hand[g]
        /\ Cloudy => hand'["tee"] = h
    BY <1>4, <1>8 DEF TeeToBridge, Move, PipeTypes, Pipes, Goroutines
  <2>2. chan'["bridge"] = chan["bridge"] \/ chan'["bridge"] = Then(chan["bridge"], h)
    BY <1>4, <1>8 DEF TeeToBridge, PipeTypes, Pipes, Then
  <2>3. Sent' = Sent /\ Upstream' = Upstream /\ ToBuffer' = ToBuffer
    BY <1>1, <2>1 DEF Sent, Upstream, ToBuffer, Pipes, Goroutines
  <2>4. AtBuffer' = AtBuffer
    BY <2>1 DEF AtBuffer, InTee
  <2>5. Cloudy => AtCloud' = AtCloud
    BY <1>4, <2>1 DEF AtCloud, InTee
  <2>6. BufferFlow'
    BY <1>1, <2>1, <2>3, <2>4 DEF Flow, BufferFlow, Direct
  <2>7. CloudFlow'
    BY <1>1, <2>1, <2>3, <2>5 DEF Flow, CloudFlow, Cloudy
  <2>8. SeenFlow'
    <3>1. PICK s \in Seq(Int) : s = Seen
      BY FlowQueues
    <3>2. PICK p \in Seq(Int) : ToBuffer = Then(p, h) /\ Thins(s, p)
      BY <1>2, <1>4, <2>1, <3>1 DEF Flow, SeenFlow
    <3>3. Thins(s, ToBuffer) /\ Thins(Then(s, h), ToBuffer)
      BY <1>5, <3>2, ThinsMore
    <3>4. Seen' = s \/ Seen' = Then(s, h)
      <4>1. Received' = Received
        BY <1>1, <2>1 DEF Received, Goroutines
      <4>2. Seen' = Then(Received', chan'["bridge"])
        BY DEF Seen, Received, Then
      <4>3. Then(Received, Then(chan["bridge"], h)) = Then(Then(Received, chan["bridge"]), h)
        <5>1. PICK r, c \in Seq(Int) : r = Received /\ c = chan["bridge"]
          BY <1>5, FlowQueues
        <5> QED
          BY <1>5, <5>1, ThenThen
      <4> QED
        BY <2>2, <3>1, <4>1, <4>2, <4>3, FlowQueues
    <3> QED
      BY <2>1, <2>3, <3>3, <3>4 DEF SeenFlow
  <2> QED
    BY <1>3, <2>6, <2>7, <2>8 DEF Flow
<1>9. CASE TeeToCloud
  <2>1. /\ at["tee"] = "cloud" /\ at'["tee"] = "receiving"
        /\ chan'["cloud"] = Then(chan["cloud"], h)
        /\ \A c \in Pipes : c # "cloud" => chan'[c] = chan[c]
        /\ \A g \in Goroutines : g # "tee" => hand'[g] = hand[g]
    BY <1>4, <1>9 DEF TeeToCloud, Move, PipeTypes, Pipes, Goroutines, Then
  <2>2. Seen' = Seen /\ Upstream' = Upstream /\ ToBuffer' = ToBuffer
    BY <1>1, <2>1 DEF Seen, Upstream, ToBuffer, Pipes, Goroutines
  <2>3. AtBuffer' = AtBuffer /\ AtCloud = h /\ AtCloud' = <<>>
    BY <1>4, <2>1 DEF AtBuffer, AtCloud, InTee
  <2>4. BufferFlow'
    BY <1>1, <2>1, <2>2, <2>3 DEF Flow, BufferFlow, Direct
  <2>5. CloudFlow'
    <3>1. PICK u \in Seq(Int) : u = Then(uploaded, hand["uploader"])
      BY <1>5, ThenIn
    <3>2. Sent = Then(u, chan["cloud"])
      BY <3>1 DEF Sent
    <3>3. Sent' = Then(u, Then(chan["cloud"], h))
      BY <1>1, <2>1, <3>1 DEF Sent, Goroutines
    <3>4. Then(u, Then(chan["cloud"], h)) = Then(Then(u, chan["cloud"]), h)
      BY <1>5, ThenThen
    <3>5. Then(Sent', <<>>) = Sent'
      BY FlowQueues, NoneBehind, <1>5, <3>3, ThenIn
    <3> QED
      BY <1>1, <2>1, <2>2, <2>3, <3>2, <3>3, <3>4, <3>5 DEF Flow, CloudFlow
  <2>6. SeenFlow'
    BY <1>1, <2>1, <2>2 DEF Flow, SeenFlow, Tee
  <2> QED
    BY <1>3, <2>4, <2>5, <2>6 DEF Flow
<1>10. CASE TeeReturn
  <2>1. UNCHANGED <<chan, hand>> /\ at'["tee"] = "returned"
    BY <1>10 DEF TeeReturn, Move, PipeTypes, Goroutines
  <2>2. SeenFlow'
    BY <1>1, <2>1 DEF Flow, SeenFlow, Tee, Seen, ToBuffer
  <2> QED
    BY <1>3, <2>1, <2>2 DEF Flow, BufferFlow, CloudFlow
<1> QED
  BY <1>6, <1>7, <1>8, <1>9, <1>10 DEF TeeStep

\* The bridge puts what it receives behind what it has, and a flush changes only how
\* much of that is shown.
LEMMA BridgeHolds ==
  ASSUME PipeTypes, Stands, Bridge \/ FlushBridge
  PROVE  /\ \/ chan' = chan /\ Received' = Received
            \/ /\ chan[BridgeIn] # <<>> /\ chan' = [chan EXCEPT ![BridgeIn] = Tail(@)]
               /\ Received' = Append(Received, Head(chan[BridgeIn]))
         /\ mode # "cloudOnly" => uploaded' = uploaded
         /\ mode = "cloudOnly" /\ uploaded = shown => uploaded' = shown'
         /\ UNCHANGED <<mode, accepted, buffered>>
         /\ \A g \in Goroutines : g # "bridge" => hand'[g] = hand[g] /\ at'[g] = at[g]
<1>1. PICK h \in Seq(Int) : h = hand["bridge"]
  BY DEF PipeTypes, Goroutines
<1>2. BridgeIn \in Pipes /\ chan[BridgeIn] \in Seq(Int) /\ shown \in Seq(Int)
  BY DEF PipeTypes, Pipes, BridgeIn
<1>3. UNCHANGED <<mode, accepted, buffered>>
  BY DEF Bridge, BridgeReceive, BridgeTick, BridgeCancelled, BridgeDrain, BridgeClosed,
         BridgeReturn, FlushBridge, histVars
<1>4. \A g \in Goroutines : g # "bridge" => at'[g] = at[g]
  BY DEF Bridge, BridgeReceive, BridgeTick, BridgeCancelled, BridgeDrain, BridgeClosed,
         BridgeReturn, FlushBridge, ToFlush, Move, PipeTypes, Goroutines
<1>5. CASE FlushBridge
  <2>1. /\ shown' = Then(shown, h) /\ hand' = [hand EXCEPT !["bridge"] = <<>>]
        /\ uploaded' = IF mode = "cloudOnly" THEN Then(uploaded, h) ELSE uploaded
        /\ chan' = chan
    BY <1>1, <1>5 DEF FlushBridge, Upload, Then
  <2>2. /\ hand'["bridge"] = <<>>
        /\ \A g \in Goroutines : g # "bridge" => hand'[g] = hand[g]
    BY <2>1 DEF PipeTypes, Goroutines
  <2>3. PICK r \in Seq(Int) : r = Then(shown, h)
    BY <1>1, <1>2, ThenIn
  <2>4. Then(r, <<>>) = r
    BY NoneBehind
  <2> QED
    BY <1>1, <1>3, <1>4, <2>1, <2>2, <2>3, <2>4 DEF Received
<1>6. CASE BridgeReceive \/ BridgeDrain
  <2>1. PICK x, batch : x = Head(chan[BridgeIn]) /\ batch = Append(h, x)
    OBVIOUS
  <2>2. /\ chan[BridgeIn] # <<>> /\ chan' = [chan EXCEPT ![BridgeIn] = Tail(@)]
        /\ hand' = [hand EXCEPT !["bridge"] = batch] /\ UNCHANGED <<shown, uploaded>>
    BY <1>1, <1>6, <2>1 DEF BridgeReceive, BridgeDrain, histVars
  <2>3. /\ hand'["bridge"] = batch
        /\ \A g \in Goroutines : g # "bridge" => hand'[g] = hand[g]
    BY <2>2 DEF PipeTypes, Goroutines
  <2>4. Then(shown, batch) = Append(Received, x)
    <3>1. x \in Int
      BY <1>2, <2>1, <2>2, HeadTailProperties
    <3> QED
      BY <1>1, <1>2, <2>1, <3>1, OneBehind DEF Received
  <2> QED
    BY <1>3, <1>4, <2>1, <2>2, <2>3, <2>4 DEF Received
<1>7. CASE BridgeTick \/ BridgeCancelled \/ BridgeClosed \/ BridgeReturn
  <2>1. UNCHANGED <<chan, hand, shown, uploaded>>
    BY <1>7 DEF BridgeTick, BridgeCancelled, BridgeClosed, BridgeReturn, histVars
  <2> QED
    BY <1>3, <1>4, <2>1 DEF Received
<1> QED
  BY <1>5, <1>6, <1>7 DEF Bridge

\* The bridge takes from its pipe, or from the normalizer's output without a buffer.
LEMMA FlowBridge ==
  ASSUME PipeTypes, PipeTypes', Stands, Flow, Bridge \/ FlushBridge
  PROVE  Flow'
<1>1. /\ \/ chan' = chan /\ Received' = Received
         \/ /\ chan[BridgeIn] # <<>> /\ chan' = [chan EXCEPT ![BridgeIn] = Tail(@)]
            /\ Received' = Append(Received, Head(chan[BridgeIn]))
      /\ mode # "cloudOnly" => uploaded' = uploaded
      /\ mode = "cloudOnly" /\ uploaded = shown => uploaded' = shown'
      /\ UNCHANGED <<mode, accepted, buffered>>
      /\ hand'["tee"] = hand["tee"] /\ hand'["uploader"] = hand["uploader"]
      /\ at'["tee"] = at["tee"]
  BY BridgeHolds DEF Goroutines
<1>2. AtBuffer' = AtBuffer /\ AtCloud' = AtCloud
  BY <1>1 DEF AtBuffer, AtCloud, InTee
<1>3. Bridged
  BY DEF Bridge, BridgeReceive, BridgeTick, BridgeCancelled, BridgeDrain, BridgeClosed,
         BridgeReturn, FlushBridge, Flushing, Stands, ModeStands
<1>4. CASE Direct
  <2>1. BridgeIn = "output" /\ ~Tee /\ mode # "teeCloud"
    BY <1>4 DEF BridgeIn, Direct, Tee
  <2>2. Then(Received', Upstream') = Then(Received, Upstream)
    <3>1. CASE chan' = chan /\ Received' = Received
      BY <3>1 DEF Upstream
    <3>2. CASE /\ chan["output"] # <<>> /\ chan' = [chan EXCEPT !["output"] = Tail(@)]
               /\ Received' = Append(Received, Head(chan["output"]))
      <4>1. chan'["output"] = Tail(chan["output"]) /\ chan'["merged"] = chan["merged"]
        BY <3>2 DEF PipeTypes, Pipes
      <4> QED
        BY <3>2, <4>1, FlowQueues, UpstreamTaken
    <3> QED
      BY <1>1, <2>1, <3>1, <3>2
  <2>3. DirectFlow'
    BY <1>1, <1>4, <2>2 DEF Flow, DirectFlow, Direct
  <2>4. Direct' /\ ~Tee' /\ mode' # "teeCloud"
    BY <1>1, <1>4, <2>1 DEF Direct, Tee
  <2> QED
    BY <2>3, <2>4 DEF Flow, BufferFlow, CloudFlow, SeenFlow
<1>5. CASE Tee
  <2>1. BridgeIn = "bridge" /\ ~Direct /\ mode # "cloudOnly"
    BY <1>5 DEF BridgeIn, Direct, Tee
  <2>2. \A c \in Pipes : c # "bridge" => chan'[c] = chan[c]
    BY <1>1, <2>1 DEF PipeTypes, Pipes
  <2>3. Upstream' = Upstream /\ ToBuffer' = ToBuffer /\ Sent' = Sent
    BY <1>1, <2>1, <2>2 DEF Upstream, ToBuffer, Sent, Pipes
  <2>4. Seen' = Seen
    <3>1. Seen' = Then(Received', chan'["bridge"])
      BY DEF Seen, Received, Then
    <3>2. CASE chan' = chan /\ Received' = Received
      BY <3>1, <3>2, FlowQueues
    <3>3. CASE /\ chan["bridge"] # <<>> /\ chan' = [chan EXCEPT !["bridge"] = Tail(@)]
               /\ Received' = Append(Received, Head(chan["bridge"]))
      <4>1. chan'["bridge"] = Tail(chan["bridge"]) /\ chan["bridge"] \in Seq(Int)
        BY <3>3 DEF PipeTypes, Pipes
      <4> QED
        BY <3>1, <3>3, <4>1, FlowQueues, TakeOne
    <3> QED
      BY <1>1, <2>1, <3>2, <3>3
  <2>5. BufferFlow'
    BY <1>1, <1>2, <2>3 DEF Flow, BufferFlow, Direct
  <2>6. CloudFlow'
    BY <1>1, <1>2, <2>3 DEF Flow, CloudFlow
  <2>7. SeenFlow'
    BY <1>1, <2>3, <2>4 DEF Flow, SeenFlow, Tee
  <2>8. DirectFlow'
    BY <1>1, <2>1 DEF DirectFlow, Direct
  <2> QED
    BY <2>5, <2>6, <2>7, <2>8 DEF Flow
<1> QED
  BY <1>3, <1>4, <1>5 DEF Bridged

\* The uploader moves readings on within what has gone to the cloud.
LEMMA FlowUploader ==
  ASSUME PipeTypes, PipeTypes', Stands, Flow, Uploader \/ SendEnds
  PROVE  Flow'
<1>1. CASE SendEnds
  BY <1>1, FlowUntouched DEF SendEnds
<1>2. CASE Uploader
  <2>1. /\ UNCHANGED <<mode, accepted, buffered, shown>>
        /\ \A c \in Pipes : c # "cloud" => chan'[c] = chan[c]
        /\ \A g \in Goroutines : g # "uploader" => hand'[g] = hand[g] /\ at'[g] = at[g]
        /\ at["uploader"] = "looping"
    BY <1>2 DEF Uploader, UploaderReceive, UploaderTick, UploaderReturn, Move, PipeTypes,
                Pipes, Goroutines, histVars
  <2>2. /\ chan'["merged"] = chan["merged"] /\ chan'["output"] = chan["output"]
        /\ chan'["buf"] = chan["buf"] /\ chan'["bridge"] = chan["bridge"]
        /\ hand'["tee"] = hand["tee"] /\ hand'["bridge"] = hand["bridge"]
        /\ at'["tee"] = at["tee"]
    BY <2>1 DEF Pipes, Goroutines
  <2>3. Received' = Received
    BY <2>1, <2>2 DEF Received
  <2>4. ToBuffer' = ToBuffer /\ Upstream' = Upstream /\ Seen' = Seen
    BY <2>1, <2>2 DEF ToBuffer, Upstream, Seen
  <2>5. AtBuffer' = AtBuffer /\ AtCloud' = AtCloud
    BY <2>2 DEF AtBuffer, AtCloud, InTee
  <2>6. PICK u, h, c : u = uploaded /\ h = hand["uploader"] /\ c = chan["cloud"]
    OBVIOUS
  <2>7. u \in Seq(Int) /\ h \in Seq(Int) /\ c \in Seq(Int) /\ Then(u, h) \in Seq(Int)
    BY <2>6, ThenIn DEF PipeTypes, Pipes, Goroutines
  <2>8. Sent = Then(Then(u, h), c)
    BY <2>6 DEF Sent
  <2>9. Sent' = Sent
    <3>1. CASE UploaderReceive
      <4>1. /\ c # <<>> /\ uploaded' = u /\ hand'["uploader"] = Append(h, Head(c))
            /\ chan'["cloud"] = Tail(c)
        BY <2>6, <3>1 DEF UploaderReceive, PipeTypes, Pipes, Goroutines, histVars
      <4>2. Head(c) \in Int /\ Then(Append(Then(u, h), Head(c)), Tail(c)) = Then(Then(u, h), c)
        BY <2>7, <4>1, TakeOne
      <4>3. Then(u, Append(h, Head(c))) = Append(Then(u, h), Head(c))
        BY <2>7, <4>2, OneBehind
      <4> QED
        BY <2>8, <4>1, <4>2, <4>3 DEF Sent
    <3>2. CASE UploaderTick \/ UploaderReturn
      <4>1. uploaded' = Then(u, h) /\ hand'["uploader"] = <<>> /\ chan'["cloud"] = c
        BY <2>6, <3>2 DEF UploaderTick, UploaderReturn, Upload, PipeTypes, Goroutines, Then
      <4>2. Then(Then(u, h), <<>>) = Then(u, h)
        BY <2>7, NoneBehind
      <4> QED
        BY <2>8, <4>1, <4>2 DEF Sent
    <3> QED
      BY <1>2, <3>1, <3>2 DEF Uploader
  <2>10. mode # "cloudOnly"
    BY <2>1 DEF Stands, ModeStands
  <2> QED
    BY <2>1, <2>2, <2>3, <2>4, <2>5, <2>9, <2>10, FlowKept
<1> QED
  BY <1>1, <1>2

\* main moves no reading.
LEMMA FlowMain ==
  ASSUME PipeTypes, PipeTypes', Stands, Flow,
         Main \/ CloseServers \/ StartAdapterFails \/ LaunchFails \/ Signal
  PROVE  Flow'
<1>1. UNCHANGED <<mode, chan, hand, histVars>>
  BY DEF Main, StartAdapter, Launch, StopAdapters, AwaitBridge, CloseServers, AwaitBuffer,
         StartAdapterFails, LaunchFails, Signal
<1>2. \/ at'["tee"] = at["tee"]
      \/ at["tee"] = "absent" /\ at'["tee"] \in {"absent", "receiving"}
  <2>1. CASE Launch
    <3>1. /\ at["main"] = "starting"
          /\ at' = [g \in Adapter \cup Goroutines |-> Launched(g)]
      BY <2>1 DEF Launch, PipeTypes
    <3>2. at["tee"] = "absent"
      BY <3>1 DEF Stands, ModeStands, Goroutines
    <3>3. at'["tee"] = IF Tee THEN "receiving" ELSE "absent"
      BY <3>1, <3>2 DEF Launched, Goroutines
    <3> QED
      BY <3>2, <3>3
  <2>2. CASE \E a \in Adapter : StartAdapter(a)
    BY <2>2, PipeNames DEF StartAdapter, Move, PipeTypes, Goroutines
  <2>3. CASE ~Launch /\ ~\E a \in Adapter : StartAdapter(a)
    BY <2>3 DEF Main, StopAdapters, AwaitBridge, CloseServers, AwaitBuffer,
                StartAdapterFails, LaunchFails, Signal, Move, PipeTypes, Goroutines
  <2> QED
    BY <2>1, <2>2, <2>3
<1> QED
  BY <1>1, <1>2, FlowUntouched

\* No reading is anywhere at first.
LEMMA FlowStart == PipelineInit => Flow
<1> SUFFICES ASSUME PipelineInit PROVE Flow
  OBVIOUS
<1>1. /\ \A c \in Pipes : chan[c] = <<>>
      /\ \A g \in Goroutines : hand[g] = <<>>
      /\ at["tee"] = "absent"
      /\ accepted = <<>> /\ buffered = <<>> /\ shown = <<>> /\ uploaded = <<>>
  BY DEF PipelineInit, Pipes, Goroutines
<1>2. PICK e \in Seq(Int) : e = <<>> /\ Then(e, e) = e
  <2>1. <<>> \in Seq(Int)
    OBVIOUS
  <2> QED
    BY <2>1, NoneBehind
<1>3. Received = e /\ Sent = e /\ AtBuffer = e /\ AtCloud = e
  BY <1>1, <1>2 DEF Received, Sent, AtBuffer, AtCloud, InTee, Pipes, Goroutines
<1>4. ToBuffer = e
  BY <1>1, <1>2 DEF ToBuffer, Then, Pipes
<1>5. Seen = e
  BY <1>1, <1>2 DEF Seen, Then, Pipes, Goroutines
<1>6. Upstream = e
  <2>1. Upstream = Then(chan["output"], Valid(chan["merged"]))
    BY DEF Upstream, Then
  <2> QED
    BY <1>1, <1>2, <2>1, ValidNone DEF Pipes
<1>7. Thins(e, e)
  BY ThinsSame
<1> QED
  BY <1>1, <1>2, <1>3, <1>4, <1>5, <1>6, <1>7
  DEF Flow, DirectFlow, BufferFlow, CloudFlow, SeenFlow

\* Every step of the pipeline keeps the rows.
LEMMA FlowSteps ==
  PipeTypes /\ PipeTypes' /\ Stands /\ Flow /\ [PipelineNext]_pipelineVars => Flow'
<1>1. PipeTypes /\ PipeTypes' /\ Flow /\ UNCHANGED pipelineVars => Flow'
  BY FlowUntouched DEF pipelineVars, histVars
<1> QED
  BY <1>1, FlowFanIn, FlowNorm, FlowTee, FlowBuffer, FlowBridge, FlowUploader, FlowMain
  DEF PipelineNext

-----------------------------------------------------------------------------
(* The pipeline: what follows *)

PipeInv == PipeTypes /\ Stands /\ Flow

\* The pipeline starts so.
LEMMA PipeStarts == PipelineInit => PipeInv
BY PipeTypesStart, StandsStart, FlowStart DEF PipeInv

\* Every step of the pipeline keeps it so.
LEMMA PipeSteps == PipeInv /\ [PipelineNext]_pipelineVars => PipeInv'
BY PipeTypesSteps, StandsSteps, FlowSteps DEF PipeInv

\* Only the dashboard misses readings, and by main's return everything is shown.
LEMMA PipeMeans == PipeInv => OnlyDashboardMisses
<1> SUFFICES ASSUME PipeInv PROVE OnlyDashboardMisses
  OBVIOUS
<1>1. PipeTypes /\ Stands /\ DirectFlow /\ BufferFlow /\ CloudFlow /\ SeenFlow
  BY DEF PipeInv, Flow
<1>2. Direct => shown \o hand["bridge"] \o Upstream = accepted
  BY <1>1 DEF DirectFlow, Received, Then
<1>3. Direct /\ at["main"] = "returned" => shown = accepted
  <2>1. SUFFICES ASSUME Direct, at["main"] = "returned" PROVE shown = accepted
    OBVIOUS
  <2>2. hand["bridge"] = <<>> /\ chan["output"] = <<>> /\ chan["merged"] = <<>>
    BY <1>1, <2>1 DEF Stands, EndStands, FanInStands
  <2>3. <<>> \in Seq(Int) /\ shown \in Seq(Int)
    BY <1>1, EmptySeq DEF PipeTypes
  <2>4. Upstream = <<>>
    BY <1>1, <2>2, <2>3, FlowQueues, ValidNone, NoneBehind
  <2>5. Received = shown
    BY <2>2, <2>3, NoneBehind DEF Received
  <2> QED
    BY <1>1, <2>1, <2>3, <2>4, <2>5, NoneBehind DEF DirectFlow
<1>4. ~Direct /\ at["tee"] # "returned" => ToBuffer \o InTee({"buf"}) \o Upstream = accepted
  BY <1>1 DEF BufferFlow, AtBuffer, Then
<1>5. mode = "teeCloud" /\ at["tee"] # "returned"
        => uploaded \o hand["uploader"] \o chan["cloud"] \o InTee({"bridge", "cloud"}) = ToBuffer
  BY <1>1 DEF CloudFlow, Sent, AtCloud, Then
<1>6. Tee => Within(Seen, ToBuffer)
  BY <1>1 DEF SeenFlow, Thins, Embeds, Within
<1>7. Direct /\ mode = "cloudOnly" => uploaded = shown
  BY <1>1 DEF DirectFlow
<1> QED
  BY <1>2, <1>3, <1>4, <1>5, <1>6, <1>7 DEF OnlyDashboardMisses

-----------------------------------------------------------------------------
(* The services together *)

ServicesInv == PipeInv /\ ReloadInv /\ LoopInv /\ SensorsInv

\* What each service starts with, and that a step is a step of one of them.
LEMMA ServicesStart == ServicesInit => ServicesInv
BY PipeStarts, ReloadStarts, LoopStarts, SensorsStart DEF ServicesInit, ServicesInv

\* The services share no variable, so that a step is one of the subject's.
LEMMA ServicesStep ==
  [ServicesNext]_servicesVars
    => /\ [PipelineNext]_pipelineVars /\ [ReloadNext]_reloadVars
       /\ [LoopNext]_loopVars /\ [SensorsNext]_sensorsVars
BY DEF ServicesNext, servicesVars

\* In every state the pipeline, the reloads, the poll loop and the sensors are as above.
THEOREM ServicesAlways == Spec => []ServicesInv
<1>1. ServicesInit => ServicesInv
  BY ServicesStart
<1>2. ServicesInv /\ [ServicesNext]_servicesVars => ServicesInv'
  BY ServicesStep, PipeSteps, ReloadSteps, LoopSteps, SensorsSteps DEF ServicesInv
<1> QED
  BY <1>1, <1>2, PTL DEF Spec

\* The buffer, and the bridge when it is the only reader, receive every valid reading in
\* the order the fan-in accepted it and the cloud what the buffer received, whichever
\* goroutine is blocked; only the dashboard may miss readings, and without a tee the agent
\* does not exit before the last reading is shown.
THEOREM ServicesDeliver == Spec => []OnlyDashboardMisses
<1>1. ServicesInv => OnlyDashboardMisses
  BY PipeMeans DEF ServicesInv
<1> QED
  BY <1>1, ServicesAlways, PTL

\* Whenever no reload is under way every subscriber is in the holder's list
\* and has the holder's configuration, unless two reloads overlapped or it
\* was built before a store and subscribed after it: Holder.Subscribe puts
\* nobody in a slot that is taken and the closure it returns clears its own.
THEOREM ServicesFollowed == Spec => []SubscribersFollow
<1>1. ServicesInv => SubscribersFollow
  BY ReloadMeans DEF ServicesInv
<1> QED
  BY <1>1, ServicesAlways, PTL

\* A reload's interval reaches the ticker of each poll loop and that of every
\* sensor, whatever the order of the callbacks, the resets and the polls.
THEOREM ServicesIntervals == Spec => []IntervalsFollowed
<1>1. ServicesInv => IntervalsFollowed
  BY LoopMeans, SensorsMean DEF ServicesInv, IntervalsFollowed
<1> QED
  BY <1>1, ServicesAlways, PTL
=============================================================================
