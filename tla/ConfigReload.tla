------------------------------ MODULE ConfigReload ------------------------------
(***************************************************************************)
(* internal/config: the file watcher, its debounced reload, and the Holder *)
(* that validates, stores and announces a configuration.                   *)
(*                                                                         *)
(* The debounce timer runs reload in a goroutine of its own, and stopping  *)
(* the timer does not stop a reload that has begun: one that takes longer  *)
(* than the debounce overlaps the next.  A reload is several steps, since  *)
(* Update stores under one lock, copies the subscribers under another and  *)
(* calls them outside both.                                                *)
(*                                                                         *)
(* A configuration is the number of the edit that wrote it.                *)
(***************************************************************************)
EXTENDS Integers, Sequences, SequencesExt

CONSTANTS
    Subscriber,  \* those that subscribe once, and may unsubscribe
    Boot,        \* those built from the configuration main loaded, not Get
    Nobody,      \* a nil slot
    Reload,      \* bound: reloads that may run at once
    Refused,     \* the edits Load or Update refuses
    MaxEdits     \* bound on the edits of the file

ASSUME ReloadAssumption ==
    /\ Boot \subseteq Subscriber /\ Nobody \notin Subscriber
    /\ MaxEdits \in Nat /\ Refused \subseteq 1..MaxEdits

VARIABLES
    file,       \* the content of the file
    watching,   \* Watcher.Start: "starting", "on" or "off"
    event,      \* an edit is notified and not yet handled
    timer,      \* debounceReload's timer: "nil", "set" or "fired"
    reload,     \* per reload: its place, its configuration, whom to call
    current,    \* Holder.current
    subs,       \* Holder.subs
    phase,      \* per subscriber: "new", "built", "subscribed" or "gone"
    slot,       \* per subscriber: the slot its closure remembers
    applied,    \* per subscriber: the configuration it works with
    overlapped, \* history: two reloads have run at once
    unseen,     \* history: the last edit came before the watch
    late        \* history: subscribers that missed a store before they came

watchVars  == <<file, watching, event, timer, unseen>>
holderVars == <<current, subs>>
clientVars == <<phase, slot, applied, late>>
reloadVars == <<watchVars, reload, holderVars, clientVars, overlapped>>

Idle == [place |-> "idle", cfg |-> 0, calls |-> <<>>]

ReloadInit ==
    /\ file = 0 /\ watching = "starting" /\ event = FALSE /\ timer = "nil"
    /\ reload = [r \in Reload |-> Idle]
    /\ current = 0 /\ subs = <<>>
    /\ phase = [s \in Subscriber |-> "new"]
    /\ slot = [s \in Subscriber |-> 0]
    /\ applied = [s \in Subscriber |-> 0]
    /\ overlapped = FALSE /\ unseen = FALSE /\ late = {}

-----------------------------------------------------------------------------
(* The file, its notifications and the timer.                              *)

Edit ==
    /\ file < MaxEdits
    /\ file' = file + 1
    /\ event' = (event \/ watching = "on")
    /\ unseen' = (watching # "on")
    /\ UNCHANGED <<watching, timer, reload, holderVars, clientVars, overlapped>>

WatchStart ==
    /\ watching = "starting"
    /\ watching' = "on"
    /\ UNCHANGED <<file, event, timer, unseen, reload, holderVars, clientVars,
                   overlapped>>

\* Any earlier timer is stopped, whether or not it has fired.
WatchEvent ==
    /\ watching = "on" /\ event
    /\ event' = FALSE
    /\ timer' = "set"
    /\ UNCHANGED <<file, watching, unseen, reload, holderVars, clientVars,
                   overlapped>>

WatchStop ==
    /\ watching = "on"
    /\ watching' = "off"
    /\ timer' = IF timer = "set" THEN "nil" ELSE timer
    /\ UNCHANGED <<file, event, unseen, reload, holderVars, clientVars,
                   overlapped>>

Busy(r) == reload[r].place # "idle"
Step(r, entry) == reload' = [reload EXCEPT ![r] = entry]

TimerFires(r) ==
    /\ timer = "set" /\ ~Busy(r)
    /\ timer' = "fired"
    /\ Step(r, [Idle EXCEPT !.place = "load"])
    /\ overlapped' = (overlapped \/ \E q \in Reload : Busy(q))
    /\ UNCHANGED <<file, watching, event, unseen, holderVars, clientVars>>

-----------------------------------------------------------------------------
(* reload and Holder.Update.  A file that does not load, fails a hook or   *)
(* does not validate only leaves an error behind.                          *)

ReloadLoad(r) ==
    /\ reload[r].place = "load"
    /\ Step(r, IF file \in Refused THEN Idle
               ELSE [place |-> "store", cfg |-> file, calls |-> <<>>])
    /\ UNCHANGED <<watchVars, holderVars, clientVars, overlapped>>

ReloadStore(r) ==
    /\ reload[r].place = "store"
    /\ current' = reload[r].cfg
    /\ Step(r, [reload[r] EXCEPT !.place = "snapshot"])
    /\ UNCHANGED <<watchVars, subs, clientVars, overlapped>>

ReloadSnapshot(r) ==
    /\ reload[r].place = "snapshot"
    /\ Step(r, [reload[r] EXCEPT !.place = "call", !.calls = subs])
    /\ UNCHANGED <<watchVars, holderVars, clientVars, overlapped>>

\* A subscriber is called even if it has unsubscribed since the snapshot.
ReloadCall(r) ==
    /\ reload[r].place = "call" /\ reload[r].calls # <<>>
    /\ LET s == Head(reload[r].calls)
       IN applied' = IF s = Nobody THEN applied
                     ELSE [applied EXCEPT ![s] = reload[r].cfg]
    /\ Step(r, [reload[r] EXCEPT !.calls = Tail(@)])
    /\ UNCHANGED <<watchVars, holderVars, phase, slot, late, overlapped>>

ReloadReturn(r) ==
    /\ reload[r].place = "call" /\ reload[r].calls = <<>>
    /\ Step(r, Idle)
    /\ UNCHANGED <<watchVars, holderVars, clientVars, overlapped>>

-----------------------------------------------------------------------------
(* Subscribers.                                                            *)

Build(s) ==
    /\ phase[s] = "new"
    /\ phase' = [phase EXCEPT ![s] = "built"]
    /\ applied' = [applied EXCEPT ![s] = IF s \in Boot THEN 0 ELSE current]
    /\ UNCHANGED <<watchVars, reload, holderVars, slot, late, overlapped>>

FreeSlot == LET free == {i \in DOMAIN subs : subs[i] = Nobody}
            IN IF free = {} THEN Len(subs) + 1
               ELSE CHOOSE i \in free : \A j \in free : i <= j

\* A store between Build and Subscribe is missed, unless its reload has yet
\* to take its copy of the subscribers.
Misses(s) == /\ applied[s] # current
             /\ \A r \in Reload : reload[r].place # "snapshot"

Subscribe(s) ==
    /\ phase[s] = "built"
    /\ subs' = IF FreeSlot > Len(subs) THEN Append(subs, s)
               ELSE [subs EXCEPT ![FreeSlot] = s]
    /\ slot' = [slot EXCEPT ![s] = FreeSlot]
    /\ phase' = [phase EXCEPT ![s] = "subscribed"]
    /\ late' = IF Misses(s) THEN late \union {s} ELSE late
    /\ UNCHANGED <<watchVars, reload, current, applied, overlapped>>

\* Mutant: every call of the closure clears the slot it remembers.
UnsubscribeAlways(s) ==
    /\ phase[s] \in {"subscribed", "gone"}
    /\ subs' = [subs EXCEPT ![slot[s]] = Nobody]
    /\ phase' = [phase EXCEPT ![s] = "gone"]
    /\ UNCHANGED <<watchVars, reload, current, slot, applied, late, overlapped>>

\* The closure may be called again, by Stop and by a deferred call of Start:
\* sync.Once lets only the first one through.
Unsubscribe(s) ==
    /\ phase[s] = "subscribed"
    /\ subs' = [subs EXCEPT ![slot[s]] = Nobody]
    /\ phase' = [phase EXCEPT ![s] = "gone"]
    /\ UNCHANGED <<watchVars, reload, current, slot, applied, late, overlapped>>

-----------------------------------------------------------------------------

ReloadStep(r) == \/ ReloadLoad(r) \/ ReloadStore(r) \/ ReloadSnapshot(r)
                 \/ ReloadCall(r) \/ ReloadReturn(r)

ReloadNext ==
    \/ Edit \/ WatchStart \/ WatchEvent \/ WatchStop
    \/ \E r \in Reload : TimerFires(r) \/ ReloadStep(r)
    \/ \E s \in Subscriber : Build(s) \/ Subscribe(s) \/ Unsubscribe(s)

-----------------------------------------------------------------------------
(* Properties.                                                             *)

\* Whenever no reload is under way, each subscriber is in the holder's list
\* and works with the holder's configuration.  Two cases are excluded and
\* recorded as hazards: overlapping reloads, which may announce in another
\* order than they store; and a subscriber built before a store it came too
\* late to hear of.  A second unsubscribe of one never removes another.
SubscribersFollow ==
    \A s \in Subscriber :
        phase[s] = "subscribed" =>
            /\ s \in ToSet(subs)
            /\ (\A r \in Reload : ~Busy(r)) /\ ~overlapped /\ s \notin late
                  => applied[s] = current

\* The last edit is loaded, unless it is refused, came before the watch, or
\* two reloads overlapped.
EditLoaded ==
    \/ watching # "on" \/ overlapped \/ unseen \/ file \in Refused
    \/ current = file
=============================================================================
