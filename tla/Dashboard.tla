------------------------------- MODULE Dashboard -------------------------------
(***************************************************************************)
(* What the output bridge (cmd/agent/main.go, runOutputBridge) does with   *)
(* the points it collects, and everybody who looks at the result: the      *)
(* StateHolder, its history ring and the WebSocket hub (internal/api), the *)
(* Prometheus gauges (internal/output) and the hub's local devices         *)
(* (internal/hub).                                                         *)
(*                                                                         *)
(* The bridge is one goroutine; a flush is a sequence of steps between     *)
(* which WebSocket handlers come and go and /metrics is gathered.  Points  *)
(* are numbered by their timestamps; scores are Scoring's, and formatting  *)
(* is left out.                                                            *)
(***************************************************************************)
EXTENDS Integers, Sequences, FiniteSets, SequencesExt

CONSTANTS
    Device,      \* devices
    Client,      \* browsers that may open a WebSocket
    MaxClients,  \* maxWebSocketClients
    MaxPoints,   \* bound on the points that arrive
    MaxHistory   \* HistoryBuffer.max

ASSUME DashboardAssumption ==
    /\ {MaxClients, MaxPoints} \subseteq Nat \ {0}
    /\ MaxHistory \in Nat

VARIABLES
    arrived,      \* every point so far, in order of arrival
    batch,        \* the bridge's batch
    initialFlush, \* no point was flushed yet
    bridge,       \* where the bridge stands
    mode,         \* "running", "draining" after cancellation, "ending"
    flushed,      \* the batches flushed so far
    holder,       \* StateHolder.batch
    slots, head, count,  \* HistoryBuffer
    clients,      \* wsHub.clients
    ws,           \* per client: where its handler stands
    found,        \* per client: the version its handler has read
    got,          \* per client: the versions of the state it was sent
    targets,      \* clients the broadcast under way has yet to write to
    gauges,       \* devices with gauges in the Prometheus registry
    localDevices  \* Hub.localDevices

inVars     == <<arrived, batch, initialFlush, mode>>
historyVars== <<slots, head, count>>
wsVars     == <<clients, ws, found, got>>
outVars    == <<gauges, localDevices>>
dashboardVars == <<inVars, bridge, flushed, holder, historyVars,
                   wsVars, targets, outVars>>

Devices(b) == {b[i].device : i \in DOMAIN b}
LatestPoint(b) == Max({b[i].at : i \in DOMAIN b})
Version == Len(flushed)        \* of the state the bridge has finished flushing
Lasts(s, n) == SubSeq(s, IF Len(s) > n THEN Len(s) - n + 1 ELSE 1, Len(s))

DashboardInit ==
    /\ arrived = <<>> /\ batch = <<>> /\ flushed = <<>>
    /\ initialFlush = TRUE
    /\ bridge = "receive" /\ mode = "running"
    /\ holder = <<>>
    /\ slots = [i \in 0 .. MaxHistory - 1 |-> 0]
    /\ head = 0 /\ count = 0
    /\ clients = {}
    /\ ws = [c \in Client |-> "away"]
    /\ found = [c \in Client |-> 0]
    /\ got = [c \in Client |-> {}]
    /\ targets = {}
    /\ gauges = {} /\ localDevices = {}

-----------------------------------------------------------------------------
(* The bridge's loop.                                                      *)

\* Mutant: the holder keeps the bridge's own array.
BridgeReceiveAliased(d) ==
    LET p == [device |-> d, at |-> Len(arrived) + 1] IN
    /\ bridge = "receive"
    /\ Len(arrived) < MaxPoints
    /\ arrived' = Append(arrived, p)
    /\ batch' = Append(batch, p)
    /\ holder' = IF Len(batch) < Len(holder)
                 THEN [holder EXCEPT ![Len(batch) + 1] = p] ELSE holder
    /\ bridge' = IF initialFlush /\ mode = "running" THEN "store" ELSE "receive"
    /\ initialFlush' = (initialFlush /\ mode # "running")
    /\ UNCHANGED <<mode, flushed, historyVars, wsVars,
                   targets, outVars>>

\* A point arrives.  The first one is flushed at once.
BridgeReceive(d) ==
    LET p == [device |-> d, at |-> Len(arrived) + 1] IN
    /\ bridge = "receive"
    /\ Len(arrived) < MaxPoints
    /\ arrived' = Append(arrived, p)
    /\ batch' = Append(batch, p)
    /\ bridge' = IF initialFlush /\ mode = "running" THEN "store" ELSE "receive"
    /\ initialFlush' = (initialFlush /\ mode # "running")
    /\ UNCHANGED <<mode, flushed, holder, historyVars,
                   wsVars, targets, outVars>>

\* flushBatch returns at once when there is nothing in the batch.
StartFlush == IF batch = <<>> THEN "flushed" ELSE "store"

BridgeTick ==
    /\ bridge = "receive" /\ mode = "running" /\ batch # <<>>
    /\ bridge' = "store"
    /\ UNCHANGED <<inVars, flushed, holder, historyVars, wsVars,
                   targets, outVars>>

\* Cancelled: flush, then drain the channel until it is closed.
BridgeCancelled ==
    /\ bridge = "receive" /\ mode = "running"
    /\ mode' = "draining"
    /\ bridge' = StartFlush
    /\ UNCHANGED <<arrived, batch, initialFlush, flushed,
                   holder, historyVars, wsVars, targets, outVars>>

\* Mutant: what was drained after cancellation is not flushed.
BridgeClosedUnflushed ==
    /\ bridge = "receive"
    /\ mode' = "ending"
    /\ bridge' = IF mode = "draining" THEN "flushed" ELSE StartFlush
    /\ batch' = IF mode = "draining" THEN <<>> ELSE batch
    /\ UNCHANGED <<arrived, initialFlush, flushed, holder,
                   historyVars, wsVars, targets, outVars>>

\* The channel is closed: the last batch is flushed and the bridge ends.
BridgeClosed ==
    /\ bridge = "receive"
    /\ mode' = "ending"
    /\ bridge' = StartFlush
    /\ UNCHANGED <<arrived, batch, initialFlush, flushed,
                   holder, historyVars, wsVars, targets, outVars>>

-----------------------------------------------------------------------------
(* A flush, step by step.                                                  *)

\* StateHolder.Update stores copies under its lock.
FlushStore ==
    /\ bridge = "store"
    /\ holder' = batch
    /\ flushed' = Append(flushed, batch)
    /\ bridge' = "broadcast"
    /\ UNCHANGED <<inVars, historyVars, wsVars, targets, outVars>>

\* Mutant: a client still reading the first state is left out.
BroadcastToOpen ==
    /\ bridge = "broadcast"
    /\ targets' = {c \in clients : ws[c] # "read"}
    /\ bridge' = "write"
    /\ UNCHANGED <<inVars, flushed, holder, historyVars, wsVars,
                   outVars>>

\* wsHub.broadcast snapshots the clients under its lock.
FlushBroadcast ==
    /\ bridge = "broadcast"
    /\ targets' = clients
    /\ bridge' = "write"
    /\ UNCHANGED <<inVars, flushed, holder, historyVars, wsVars,
                   outVars>>

\* A write waits for a client that does not read, and fails on a closed
\* connection, whose client is then removed.
FlushWrite(c) ==
    /\ bridge = "write" /\ c \in targets
    /\ ws[c] # "stuck"
    /\ targets' = targets \ {c}
    /\ IF ws[c] \in {"closed", "away"}
       THEN clients' = clients \ {c} /\ UNCHANGED got
       ELSE got' = [got EXCEPT ![c] = @ \union {Version}] /\ UNCHANGED clients
    /\ UNCHANGED <<inVars, bridge, flushed, holder, historyVars, ws,
                   found, outVars>>

\* HistoryBuffer.Add overwrites the oldest point when full.
FlushHistory ==
    /\ bridge = "write" /\ targets = {}
    /\ bridge' = "outputs"
    /\ IF MaxHistory = 0 THEN UNCHANGED historyVars
       ELSE /\ slots' = [slots EXCEPT ![head] = LatestPoint(batch)]
            /\ head' = (head + 1) % MaxHistory
            /\ count' = IF count < MaxHistory THEN count + 1 ELSE count
    /\ UNCHANGED <<inVars, flushed, holder, wsVars, targets, outVars>>

\* The outputs' Update: every gauge is reset, then set for the batch's
\* devices, while /metrics may be gathered; the hub's devices are replaced.
FlushReset ==
    /\ bridge = "outputs"
    /\ gauges' = {}
    /\ bridge' = "set"
    /\ UNCHANGED <<inVars, flushed, holder, historyVars, wsVars,
                   targets, localDevices>>

FlushSet ==
    /\ bridge = "set"
    /\ gauges' = Devices(batch)
    /\ localDevices' = Devices(batch)
    /\ bridge' = "flushed"
    /\ UNCHANGED <<inVars, flushed, holder, historyVars, wsVars,
                   targets>>

BridgeNextRound ==
    /\ bridge = "flushed"
    /\ batch' = <<>>
    /\ bridge' = IF mode = "ending" THEN "done" ELSE "receive"
    /\ UNCHANGED <<arrived, initialFlush, mode, flushed,
                   holder, historyVars, wsVars, targets, outVars>>

Flush ==
    \/ FlushStore
    \/ FlushBroadcast
    \/ \E c \in Client : FlushWrite(c)
    \/ FlushHistory
    \/ FlushReset
    \/ FlushSet
    \/ BridgeNextRound

\* HistoryBuffer.Points, oldest first.
HistoryPoints ==
    LET start == IF count = MaxHistory THEN head ELSE 0
    IN  [i \in 1 .. count |-> slots[(start + i - 1) % MaxHistory]]

-----------------------------------------------------------------------------
(* WebSocket handlers, one per client.                                     *)

\* Upgraded and added to the hub, or turned away at the limit.
WsAdd(c) ==
    /\ ws[c] = "away" /\ c \notin targets
    /\ Cardinality(clients) < MaxClients
    /\ clients' = clients \union {c}
    /\ ws' = [ws EXCEPT ![c] = "added"]
    /\ UNCHANGED <<inVars, bridge, flushed, holder, historyVars,
                   found, got, targets, outVars>>

\* The handler sends the state it finds.  A broadcast may come between the
\* two steps.
WsGet(c) ==
    /\ ws[c] = "added"
    /\ ws' = [ws EXCEPT ![c] = "read"]
    /\ found' = [found EXCEPT ![c] = Version]
    /\ UNCHANGED <<inVars, bridge, flushed, holder, historyVars,
                   clients, got, targets, outVars>>

WsSend(c) ==
    /\ ws[c] = "read"
    /\ ws' = [ws EXCEPT ![c] = "open"]
    /\ got' = [got EXCEPT ![c] = @ \union {found[c]}]
    /\ found' = [found EXCEPT ![c] = 0]
    /\ UNCHANGED <<inVars, bridge, flushed, holder, historyVars,
                   clients, targets, outVars>>

WsStuck(c) ==
    /\ ws[c] = "open"
    /\ ws' = [ws EXCEPT ![c] = "stuck"]
    /\ UNCHANGED <<inVars, bridge, flushed, holder, historyVars,
                   clients, found, got, targets, outVars>>

\* The connection ends; a write under way fails.
WsDrop(c) ==
    /\ ws[c] \in {"added", "read", "open", "stuck"}
    /\ ws' = [ws EXCEPT ![c] = "closed"]
    /\ got' = [got EXCEPT ![c] = {}]
    /\ found' = [found EXCEPT ![c] = 0]
    /\ UNCHANGED <<inVars, bridge, flushed, holder, historyVars,
                   clients, targets, outVars>>

\* The read loop returns and the handler removes its client.
WsRemove(c) ==
    /\ ws[c] = "closed"
    /\ clients' = clients \ {c}
    /\ ws' = [ws EXCEPT ![c] = "away"]
    /\ UNCHANGED <<inVars, bridge, flushed, holder, historyVars,
                   found, got, targets, outVars>>

\* closeAll, once the bridge is done and the HTTP server was told to stop.
WsCloseAll ==
    /\ bridge = "done" /\ clients # {}
    /\ clients' = {}
    /\ ws' = [c \in Client |-> IF c \in clients THEN "closed" ELSE ws[c]]
    /\ got' = [c \in Client |-> IF c \in clients THEN {} ELSE got[c]]
    /\ found' = [c \in Client |-> IF c \in clients THEN 0 ELSE found[c]]
    /\ UNCHANGED <<inVars, bridge, flushed, holder, historyVars,
                   targets, outVars>>

DashboardNext ==
    \/ \E d \in Device : BridgeReceive(d)
    \/ BridgeTick
    \/ BridgeCancelled
    \/ BridgeClosed
    \/ Flush
    \/ \E c \in Client : WsAdd(c)
    \/ \E c \in Client : WsGet(c)
    \/ \E c \in Client : WsSend(c)
    \/ \E c \in Client : WsStuck(c)
    \/ \E c \in Client : WsDrop(c)
    \/ \E c \in Client : WsRemove(c)
    \/ WsCloseAll

-----------------------------------------------------------------------------
(* Correctness.                                                            *)

\* Where the i-th flush begins: behind the last point of the one before.
FlushedFrom(i) == IF i = 1 THEN 1 ELSE Last(flushed[i - 1]).at + 1

\* The bridge reads a channel until somebody closes it, however often the
\* agent is cancelled on the way: every point it received is in exactly one
\* flush, in order, and none is left when it is done.  Points are numbered as
\* they arrive, so that a flush is the run of arrivals up to its own last one.
BridgeKeepsAll ==
    LET inFlush == bridge \notin {"receive", "store", "done"}
        rest == SubSeq(arrived, FlushedFrom(Version + 1), Len(arrived))
    IN  /\ \A i \in DOMAIN flushed :
              /\ flushed[i] # <<>>
              /\ flushed[i] = SubSeq(arrived, FlushedFrom(i), Last(flushed[i]).at)
        /\ rest = IF inFlush THEN <<>> ELSE batch

\* Between two flushes all who look at the agent see the same one: the state
\* of /api and of the WebSocket, the history, the gauges and the hub's
\* devices, although the bridge fills the next batch in the same array.
ViewsAgree ==
    bridge = "receive" /\ flushed # <<>> =>
        LET latest == [i \in DOMAIN flushed |-> LatestPoint(flushed[i])]
        IN  /\ holder = Last(flushed)
            /\ gauges = Devices(holder) /\ localDevices = Devices(holder)
            /\ HistoryPoints = Lasts(latest, MaxHistory)

\* A browser whose handler has sent it the state, and that reads, has been
\* sent the flush it would find now, whenever it opened.
NoMissedUpdate ==
    bridge \notin {"broadcast", "write"} =>
        \A c \in clients : ws[c] = "open" => Version \in got[c]

================================================================================
