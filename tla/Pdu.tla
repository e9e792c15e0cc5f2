---------------------------------- MODULE Pdu ----------------------------------
(***************************************************************************)
(* The SNMP PDU adapter: it owns one connection per configured target and  *)
(* replaces them all when a reload names other targets.  Three threads     *)
(* share the connections: Start's polling loop, the reload callbacks and   *)
(* Stop.                                                                   *)
(*                                                                         *)
(* The pollers made by one call of createPollers are one set, known by its *)
(* number: they are opened, swapped in, detached and closed together.  A   *)
(* configuration is the targets it names, 0 for one that does not decode   *)
(* or validate, and an interval.                                           *)
(***************************************************************************)
EXTENDS Integers, Sequences

CONSTANTS
    PduReload,   \* callbacks that may run at once
    TargetLists, \* the lists of targets a configuration may name
    PduPaces,    \* its intervals
    MaxStores    \* bound: configurations stored

ASSUME PduAssumption ==
    /\ TargetLists \subseteq Nat \ {0} /\ PduPaces \subseteq Nat \ {0}
    /\ TargetLists # {} /\ PduPaces # {} /\ MaxStores \in Nat

VARIABLES
    pduLoop,    \* Start: "new", "ticking", "subscribed", "polling",
                \* "waiting", "detached" or "returned"
    pduStop,    \* Stop: "idle", "stopped", "detached" or "returned"
    pduCtx,     \* Start's context is cancelled
    heard,      \* Subscribe has been called, and not undone
    leaving,    \* unsubscribeConfig is set
    targetsOf,  \* targetsOf[g]: the targets of poller set g
    open,       \* the poller sets not closed
    pollers,    \* a.pollers, 0 when detached
    snmpCfg,    \* the targets a.snmpCfg names
    pduPace, pduTicker, \* pollInterval; what the ticker runs at, 0 before it
    polling,    \* the poller set a poll has copied, or 0
    detached,   \* [thread |-> the set closePollers has taken, or 0]
    handler,    \* a callback's place, its configuration and its poller sets
    stores,     \* configurations stored so far
    crossed,    \* history: two callbacks have run at once
    told        \* history: the targets of the last reload that could be done

pduVars == <<pduLoop, pduStop, pduCtx, heard, leaving, targetsOf, open, pollers,
             snmpCfg, pduPace, pduTicker, polling, detached, handler, stores,
             crossed, told>>
pduLife == <<pduLoop, pduStop, pduCtx, heard, leaving, polling, detached>>
pduPacing == <<pduPace, pduTicker>>
pduPast == <<stores, crossed, told>>

Resting == [at |-> "idle", targets |-> 0, pace |-> 0, set |-> 0]
HandlersIdle == \A h \in PduReload : handler[h] = Resting

\* New has made the first pollers.
PduInit ==
    /\ pduLoop = "new" /\ pduStop = "idle"
    /\ pduCtx = FALSE /\ heard = FALSE /\ leaving = FALSE
    /\ snmpCfg \in TargetLists /\ targetsOf = <<snmpCfg>> /\ open = {1}
    /\ pollers = 1 /\ pduPace \in PduPaces /\ pduTicker = 0
    /\ polling = 0 /\ detached = [start |-> 0, stop |-> 0]
    /\ handler = [h \in PduReload |-> Resting]
    /\ stores = 0 /\ crossed = FALSE /\ told = snmpCfg
--------------------------------------------------------------------------------
(* Start *)

\* It publishes its cancel function and its ticker under the lock.
PduStart ==
    /\ pduLoop = "new"
    /\ pduLoop' = "ticking" /\ pduTicker' = pduPace
    /\ UNCHANGED <<pduStop, pduCtx, heard, leaving, targetsOf, open, pollers,
                   snmpCfg, pduPace, polling, detached, handler, pduPast>>

PduSubscribe ==
    /\ pduLoop = "ticking" /\ ~heard
    /\ heard' = TRUE
    /\ UNCHANGED <<pduLoop, pduStop, pduCtx, leaving, targetsOf, open, pollers,
                   snmpCfg, pduPacing, polling, detached, handler, pduPast>>

\* The unsubscribe function is stored after the subscription is in force.
PduRemember ==
    /\ pduLoop = "ticking" /\ heard
    /\ pduLoop' = "subscribed" /\ leaving' = TRUE
    /\ UNCHANGED <<pduStop, pduCtx, heard, targetsOf, open, pollers, snmpCfg,
                   pduPacing, polling, detached, handler, pduPast>>

\* poll works on a copy of the slice: at once, then at each tick.
PduPoll ==
    /\ pduLoop \in {"subscribed", "waiting"}
    /\ pduLoop' = "polling" /\ polling' = pollers
    /\ UNCHANGED <<pduStop, pduCtx, heard, leaving, targetsOf, open, pollers,
                   snmpCfg, pduPacing, detached, handler, pduPast>>

\* Each target answers, or fails after its retries, or was closed meanwhile:
\* the loop goes on whichever it is.
PduPolled ==
    /\ pduLoop = "polling"
    /\ pduLoop' = "waiting" /\ polling' = 0
    /\ UNCHANGED <<pduStop, pduCtx, heard, leaving, targetsOf, open, pollers,
                   snmpCfg, pduPacing, detached, handler, pduPast>>

\* closePollers takes the slice under the lock and closes it outside.
PduDone ==
    /\ pduLoop = "waiting" /\ pduCtx
    /\ pduLoop' = "detached" /\ pollers' = 0
    /\ detached' = [detached EXCEPT !.start = pollers]
    /\ UNCHANGED <<pduStop, pduCtx, heard, leaving, targetsOf, open, snmpCfg,
                   pduPacing, polling, handler, pduPast>>

PduReturn ==
    /\ pduLoop = "detached"
    /\ pduLoop' = "returned" /\ open' = open \ {detached.start}
    /\ detached' = [detached EXCEPT !.start = 0]
    /\ UNCHANGED <<pduStop, pduCtx, heard, leaving, targetsOf, pollers, snmpCfg,
                   pduPacing, polling, handler, pduPast>>
--------------------------------------------------------------------------------
(* A reload's callback *)

\* A callback is under way from the store it announces.
PduNotified(h) ==
    /\ heard /\ handler[h] = Resting /\ stores < MaxStores
    /\ stores' = stores + 1 /\ crossed' = (crossed \/ ~HandlersIdle)
    /\ \E t \in TargetLists \union {0}, p \in PduPaces :
         handler' = [handler EXCEPT ![h] =
                       [at |-> "pacing", targets |-> t, pace |-> p, set |-> 0]]
    /\ UNCHANGED <<pduLife, targetsOf, open, pollers, snmpCfg, pduPacing, told>>

\* The interval is taken first; a configuration that does not decode or
\* validate stops there.
PduPaced(h) ==
    /\ handler[h].at = "pacing"
    /\ pduPace' = handler[h].pace
    /\ pduTicker' = IF pduTicker = 0 THEN 0 ELSE handler[h].pace
    /\ handler' = [handler EXCEPT ![h] =
                     IF @.targets = 0 THEN Resting
                                      ELSE [@ EXCEPT !.at = "comparing"]]
    /\ UNCHANGED <<pduLife, targetsOf, open, pollers, snmpCfg, pduPast>>

\* targetsEqual reads a.snmpCfg without the lock.
PduCompare(h) ==
    /\ handler[h].at = "comparing"
    /\ LET same == snmpCfg = handler[h].targets IN
       /\ handler' = [handler EXCEPT ![h] =
                        IF same THEN Resting ELSE [@ EXCEPT !.at = "creating"]]
       /\ told' = IF same THEN snmpCfg ELSE told
    /\ UNCHANGED <<pduLife, targetsOf, open, pollers, snmpCfg, pduPacing, stores,
                   crossed>>

PduCreate(h) ==
    /\ handler[h].at = "creating"
    /\ targetsOf' = Append(targetsOf, handler[h].targets)
    /\ open' = open \union {Len(targetsOf')}
    /\ handler' = [handler EXCEPT ![h].at = "swapping", ![h].set = Len(targetsOf')]
    /\ UNCHANGED <<pduLife, pollers, snmpCfg, pduPacing, pduPast>>

\* When one target cannot be reached those already connected are closed, and
\* the adapter keeps the pollers it has.
PduCreateFails(h) ==
    /\ handler[h].at = "creating"
    /\ handler' = [handler EXCEPT ![h] = Resting]
    /\ UNCHANGED <<pduLife, targetsOf, open, pollers, snmpCfg, pduPacing, pduPast>>

\* Mutant: a callback that Stop has overtaken installs its pollers.
PduSwapUnchecked(h) ==
    /\ handler[h].at = "swapping"
    /\ pollers' = handler[h].set
    /\ snmpCfg' = handler[h].targets /\ told' = snmpCfg'
    /\ handler' = [handler EXCEPT ![h].at = "closing", ![h].set = pollers]
    /\ UNCHANGED <<pduLife, targetsOf, open, pduPacing, stores, crossed>>

\* Under the lock: the new set is swapped in, unless Stop has been called.
\* What the callback then has to close is the other one.
PduSwap(h) ==
    /\ handler[h].at = "swapping"
    /\ IF pduStop # "idle"
       THEN /\ handler' = [handler EXCEPT ![h].at = "closing"]
            /\ UNCHANGED <<pollers, snmpCfg, told>>
       ELSE /\ pollers' = handler[h].set
            /\ snmpCfg' = handler[h].targets /\ told' = snmpCfg'
            /\ handler' = [handler EXCEPT ![h].at = "closing",
                                          ![h].set = pollers]
    /\ UNCHANGED <<pduLife, targetsOf, open, pduPacing, stores, crossed>>

PduCloseOld(h) ==
    /\ handler[h].at = "closing"
    /\ open' = open \ {handler[h].set}
    /\ handler' = [handler EXCEPT ![h] = Resting]
    /\ UNCHANGED <<pduLife, targetsOf, pollers, snmpCfg, pduPacing, pduPast>>
--------------------------------------------------------------------------------
(* The agent *)

\* The agent's own context, which Start's derives from.
PduCancelled ==
    /\ ~pduCtx /\ pduCtx' = TRUE
    /\ UNCHANGED <<pduLoop, pduStop, heard, leaving, targetsOf, open, pollers,
                   snmpCfg, pduPacing, polling, detached, handler, pduPast>>

\* Before Start there is no cancel function to call, and before the
\* subscription is remembered none to undo.
PduStops ==
    /\ pduStop = "idle"
    /\ pduStop' = "stopped"
    /\ pduCtx' = (pduCtx \/ pduLoop # "new")
    /\ heard' = (heard /\ ~leaving) /\ leaving' = FALSE
    /\ UNCHANGED <<pduLoop, targetsOf, open, pollers, snmpCfg, pduPacing, polling,
                   detached, handler, pduPast>>

PduStopDetach ==
    /\ pduStop = "stopped"
    /\ pduStop' = "detached" /\ pollers' = 0
    /\ detached' = [detached EXCEPT !.stop = pollers]
    /\ UNCHANGED <<pduLoop, pduCtx, heard, leaving, targetsOf, open, snmpCfg,
                   pduPacing, polling, handler, pduPast>>

PduStopReturn ==
    /\ pduStop = "detached"
    /\ pduStop' = "returned" /\ open' = open \ {detached.stop}
    /\ detached' = [detached EXCEPT !.stop = 0]
    /\ UNCHANGED <<pduLoop, pduCtx, heard, leaving, targetsOf, pollers, snmpCfg,
                   pduPacing, polling, handler, pduPast>>

PduNext ==
    \/ PduStart \/ PduSubscribe \/ PduRemember \/ PduPoll \/ PduPolled
    \/ PduDone \/ PduReturn
    \/ \E h \in PduReload :
         \/ PduNotified(h) \/ PduPaced(h) \/ PduCompare(h)
         \/ PduCreate(h) \/ PduCreateFails(h) \/ PduSwap(h) \/ PduCloseOld(h)
    \/ PduCancelled \/ PduStops \/ PduStopDetach \/ PduStopReturn
--------------------------------------------------------------------------------
(* Properties *)

\* Every set of pollers is somebody's to close.
PollersOwned ==
    \A g \in open :
      \/ g = pollers \/ g \in {detached.start, detached.stop}
      \/ \E h \in PduReload : handler[h].set = g

\* And of one thread only.
OwnedOnce ==
    /\ \A h \in PduReload :
         handler[h].set # 0 =>
           /\ handler[h].set \notin {pollers, detached.start, detached.stop}
           /\ \A k \in PduReload \ {h} : handler[k].set # handler[h].set
    /\ pollers # 0 => pollers \notin {detached.start, detached.stop}
    /\ detached.start # 0 => detached.start # detached.stop

\* Once Stop has returned nothing is swapped in any more.
StaysDetached == pduStop \in {"detached", "returned"} => pollers = 0

\* While the pollers are in place they are those of the last reload that
\* could be carried out, provided no two callbacks ran at once.
PollersFollow ==
    HandlersIdle /\ ~crossed /\ pollers # 0 =>
      /\ targetsOf[pollers] = told
      /\ pduTicker \in {0, pduPace}

\* No connection to a PDU outlives the adapter, whatever reload, Stop and the
\* end of Start overtake each other: every open set of pollers has exactly one
\* thread that will close it, no callback installs one behind Stop, and while
\* the adapter runs it polls the targets it was last told (handleConfigChange,
\* closePollers, Stop).
NoPollerLeaked == PollersOwned /\ OwnedOnce /\ StaysDetached /\ PollersFollow
================================================================================
