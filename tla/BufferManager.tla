--------------------------- MODULE BufferManager ---------------------------
(***************************************************************************)
(* internal/buffer/buffer.go: the Manager that carries telemetry points    *)
(* from the normalizer to the sender, through the ring while the sender is *)
(* connected and through the write-ahead log while it is not.              *)
(*                                                                         *)
(* Threads: ingress and egress (the goroutines of Start; egress also        *)
(* stands for Start itself, which drains the log before it launches them),  *)
(* the drain goroutine of the log, and the sender, whose connection loop    *)
(* calls OnConnChange and receives from the output channel.                 *)
(*                                                                         *)
(* The ring is the queue Ring.tla implements and the log the PointLog       *)
(* WAL.tla implements.  Points are numbered in the order they arrive.       *)
(***************************************************************************)
EXTENDS Naturals, Sequences

CONSTANTS MaxPoints,   \* bound: how many points arrive in a behaviour
          MaxLeft,     \* bound: how many points an earlier run left in the log
          RingSize,    \* cfg.RingSize
          OutCap,      \* capacity of the output channel (256)
          ChCap,       \* capacity of the drain channel (256)
          Lossy        \* may the disk fail or the log reach its size limit?

ASSUME BufferAssumption ==
  /\ MaxPoints \in Nat /\ MaxLeft \in 0 .. MaxPoints
  /\ RingSize \in Nat \ {0} /\ OutCap \in Nat \ {0} /\ ChCap \in Nat \ {0}
  /\ Lossy \in BOOLEAN

VARIABLES ring,        \* m.ring
          log, hasData, feed, feeding, ch,   \* m.wal, see PointLog
          out,         \* m.output
          closed,      \* has Start returned (output and log closed)?
          connected,   \* m.connected
          connMu,      \* who holds m.connMu: "free", "ingress" or "sender"
          connToken,   \* m.connNotify holds a token
          dataToken,   \* m.dataNotify holds a token
          done,        \* is the context cancelled?
          arrived,     \* how many points have been received from the input
          ipc,         \* where ingress is
          epc,         \* where egress is
          held,        \* the point egress is sending: <<>> or <<p>>
          cpc,         \* where the sender is
          delivered    \* what the sender has received, in order

walVars   == <<log, hasData, feed, feeding, ch>>
wakeups   == <<connToken, dataToken>>
senderVars == <<cpc, delivered>>
vars == <<ring, log, hasData, feed, feeding, ch, out, closed, connected, connMu,
          connToken, dataToken, done, arrived, ipc, epc, held, cpc, delivered>>

Points == 1 .. MaxPoints
W == INSTANCE PointLog WITH LogPoint <- Points

\* NewManager, buffer.go:43-68, over a log with the points an earlier run left.
Init ==
  /\ ring = <<>> /\ out = <<>> /\ closed = FALSE
  /\ feed = <<>> /\ feeding = FALSE /\ ch = <<>>
  /\ \E n \in 0 .. MaxLeft :
       /\ log = [i \in 1 .. n |-> i]
       /\ arrived = n
       /\ hasData = (n > 0)
  /\ connected = TRUE /\ connMu = "free"
  /\ connToken = FALSE /\ dataToken = FALSE
  /\ done = FALSE
  /\ ipc = "off" /\ epc = "boot" /\ held = <<>>
  /\ cpc = "down" /\ delivered = <<>>

\* A write to the log; once the log is closed it may find its file closed.
WalWrite(p) == W!LogWrite(p, Lossy \/ closed)

\* One turn of flushRingToWAL, buffer.go:97-110.  The caller holds connMu; the
\* log does not, so a drain may come between two turns.
FlushOne ==
  /\ ring # <<>>
  /\ WalWrite(Head(ring))
  /\ ring' = Tail(ring)

-----------------------------------------------------------------------------
(* Ingress, runIngress, buffer.go:161-198. *)

IngressReceive ==
  /\ ipc = "select" /\ arrived < MaxPoints
  /\ arrived' = arrived + 1
  /\ ipc' = "lock"
  /\ UNCHANGED <<ring, walVars, out, closed, connected, connMu, wakeups, done,
                 epc, held, senderVars>>

\* Disconnected: straight to the log.
IngressWrite ==
  /\ ipc = "lock" /\ connMu = "free"
  /\ ~connected
  /\ WalWrite(arrived)
  /\ ipc' = "notify"
  /\ UNCHANGED <<ring, out, closed, connected, connMu, wakeups, done, arrived,
                 epc, held, senderVars>>

\* Mutant: the ring is taken to have one more slot.
IngressPushOver ==
  /\ ipc = "lock" /\ connMu = "free"
  /\ connected /\ Len(ring) <= RingSize
  /\ ring' = Append(ring, arrived)
  /\ ipc' = "notify"
  /\ UNCHANGED <<walVars, out, closed, connected, connMu, wakeups, done, arrived,
                 epc, held, senderVars>>

\* Connected and the ring has room.
IngressPush ==
  /\ ipc = "lock" /\ connMu = "free"
  /\ connected /\ Len(ring) < RingSize
  /\ ring' = Append(ring, arrived)
  /\ ipc' = "notify"
  /\ UNCHANGED <<walVars, out, closed, connected, connMu, wakeups, done, arrived,
                 epc, held, senderVars>>

\* Mutant: only the point that does not fit goes to the log.
IngressFullSpill ==
  /\ ipc = "lock" /\ connMu = "free"
  /\ connected /\ Len(ring) = RingSize
  /\ WalWrite(arrived)
  /\ ipc' = "notify"
  /\ UNCHANGED <<ring, out, closed, connected, connMu, wakeups, done, arrived,
                 epc, held, senderVars>>

\* The ring is full: keep the lock, flush the whole ring, then write the point.
IngressFull ==
  /\ ipc = "lock" /\ connMu = "free"
  /\ connected /\ Len(ring) = RingSize
  /\ connMu' = "ingress"
  /\ ipc' = "flush"
  /\ UNCHANGED <<ring, walVars, out, closed, connected, wakeups, done, arrived,
                 epc, held, senderVars>>

IngressFlush ==
  /\ ipc = "flush"
  /\ FlushOne
  /\ UNCHANGED <<out, closed, connected, connMu, wakeups, done, arrived, ipc,
                 epc, held, senderVars>>

\* Mutant: the point that did not fit is forgotten.
IngressFlushedOnly ==
  /\ ipc = "flush" /\ ring = <<>>
  /\ connMu' = "free"
  /\ ipc' = "notify"
  /\ UNCHANGED <<ring, walVars, out, closed, connected, wakeups, done, arrived,
                 epc, held, senderVars>>

IngressFlushed ==
  /\ ipc = "flush" /\ ring = <<>>
  /\ WalWrite(arrived)
  /\ connMu' = "free"
  /\ ipc' = "notify"
  /\ UNCHANGED <<ring, out, closed, connected, wakeups, done, arrived, epc, held,
                 senderVars>>

\* Mutants: ingress announces nothing while disconnected; or never.
IngressNotifyConnected ==
  /\ ipc = "notify"
  /\ dataToken' = (dataToken \/ connected)
  /\ ipc' = "select"
  /\ UNCHANGED <<ring, walVars, out, closed, connected, connMu, connToken, done,
                 arrived, epc, held, senderVars>>
IngressNotifyNever ==
  /\ ipc = "notify"
  /\ ipc' = "select"
  /\ UNCHANGED <<ring, walVars, out, closed, connected, connMu, wakeups, done,
                 arrived, epc, held, senderVars>>

IngressNotify ==
  /\ ipc = "notify"
  /\ dataToken' = TRUE
  /\ ipc' = "select"
  /\ UNCHANGED <<ring, walVars, out, closed, connected, connMu, connToken, done,
                 arrived, epc, held, senderVars>>

\* The context is cancelled, or the input channel closed.
IngressStop ==
  /\ ipc = "select"
  /\ ipc' = "stopped"
  /\ UNCHANGED <<ring, walVars, out, closed, connected, connMu, wakeups, done,
                 arrived, epc, held, senderVars>>

-----------------------------------------------------------------------------
(* Egress: Start and runEgress, buffer.go:114-136, 203-251. *)

Launch == ipc' = "select" /\ epc' = "check"

\* Start drains what an earlier run left before it launches the goroutines.
Boot ==
  /\ epc = "boot"
  /\ IF hasData THEN epc' = "drain" /\ UNCHANGED ipc ELSE Launch
  /\ UNCHANGED <<ring, walVars, out, closed, connected, connMu, wakeups, done,
                 arrived, held, senderVars>>

\* The check of m.connected, outside the lock.
EgressCheck ==
  /\ epc = "check"
  /\ epc' = IF connected THEN "take" ELSE "await"
  /\ UNCHANGED <<ring, walVars, out, closed, connected, connMu, wakeups, done,
                 arrived, ipc, held, senderVars>>

EgressAwake ==
  /\ epc = "await" /\ connToken
  /\ connToken' = FALSE
  /\ epc' = "check"
  /\ UNCHANGED <<ring, walVars, out, closed, connected, connMu, dataToken, done,
                 arrived, ipc, held, senderVars>>

\* Under connMu: the log first, and the ring only if the log is empty.
EgressTakeLog ==
  /\ epc = "take" /\ connMu = "free"
  /\ hasData
  /\ epc' = "drain"
  /\ UNCHANGED <<ring, walVars, out, closed, connected, connMu, wakeups, done,
                 arrived, ipc, held, senderVars>>

EgressTakeRing ==
  /\ epc = "take" /\ connMu = "free"
  /\ ~hasData /\ ring # <<>>
  /\ held' = <<Head(ring)>>
  /\ ring' = Tail(ring)
  /\ epc' = "send"
  /\ UNCHANGED <<walVars, out, closed, connected, connMu, wakeups, done, arrived,
                 ipc, senderVars>>

EgressTakeNone ==
  /\ epc = "take" /\ connMu = "free"
  /\ ~hasData /\ ring = <<>>
  /\ epc' = "wait"
  /\ UNCHANGED <<ring, walVars, out, closed, connected, connMu, wakeups, done,
                 arrived, ipc, held, senderVars>>

EgressSend ==
  /\ epc = "send" /\ Len(out) < OutCap
  /\ out' = out \o held
  /\ held' = <<>>
  /\ epc' = "check"
  /\ UNCHANGED <<ring, walVars, closed, connected, connMu, wakeups, done, arrived,
                 ipc, senderVars>>

EgressWoken ==
  /\ epc = "wait"
  /\ \/ dataToken /\ dataToken' = FALSE /\ UNCHANGED connToken
     \/ connToken /\ connToken' = FALSE /\ UNCHANGED dataToken
  /\ epc' = "check"
  /\ UNCHANGED <<ring, walVars, out, closed, connected, connMu, done, arrived,
                 ipc, held, senderVars>>

\* Mutant: the send on the output channel does not look at the context.
EgressStopUnlessSending ==
  /\ done /\ epc \in {"await", "wait"}
  /\ epc' = "stopped"
  /\ UNCHANGED <<ring, walVars, out, closed, connected, connMu, wakeups, done,
                 arrived, ipc, held, senderVars>>

\* Cancelled: a point in hand is lost.
EgressStop ==
  /\ done /\ epc \in {"await", "send", "wait"}
  /\ held' = <<>>
  /\ epc' = "stopped"
  /\ UNCHANGED <<ring, walVars, out, closed, connected, connMu, wakeups, done,
                 arrived, ipc, senderVars>>

-----------------------------------------------------------------------------
(* drainWAL, buffer.go:254-267, and the drain goroutine of the log. *)

EgressDrain ==
  /\ epc = "drain"
  /\ W!LogDrain
  /\ epc' = "range"
  /\ UNCHANGED <<ring, out, closed, connected, connMu, wakeups, done, arrived,
                 ipc, held, senderVars>>

EgressReceive ==
  /\ epc = "range"
  /\ W!ChReceive
  /\ held' = <<Head(ch)>>
  /\ epc' = "emit"
  /\ UNCHANGED <<ring, out, closed, connected, connMu, wakeups, done, arrived,
                 ipc, senderVars>>

EgressEmit ==
  /\ epc = "emit" /\ Len(out) < OutCap
  /\ out' = out \o held
  /\ held' = <<>>
  /\ epc' = "range"
  /\ UNCHANGED <<ring, walVars, closed, connected, connMu, wakeups, done, arrived,
                 ipc, senderVars>>

\* drainWAL returns: to Start, which launches the goroutines, or to runEgress,
\* which looks at the context.
AfterDrain ==
  IF ipc = "off" THEN Launch
  ELSE epc' = (IF done THEN "stopped" ELSE "check") /\ UNCHANGED ipc

EgressDrained ==
  /\ epc = "range" /\ ~feeding /\ ch = <<>>
  /\ AfterDrain
  /\ UNCHANGED <<ring, walVars, out, closed, connected, connMu, wakeups, done,
                 arrived, held, senderVars>>

\* Cancelled: the point in hand, the channel and the rest of the drain are
\* given up.
EgressDrainStop ==
  /\ done /\ epc = "emit"
  /\ held' = <<>>
  /\ ch' = <<>> /\ feed' = <<>> /\ feeding' = FALSE
  /\ AfterDrain
  /\ UNCHANGED <<ring, log, hasData, out, closed, connected, connMu, wakeups,
                 done, arrived, senderVars>>

FeedStep ==
  /\ \/ W!FeedPut \/ W!FeedSkip \/ W!FeedDone
     \/ (done \/ Lossy) /\ W!FeedAbort
  /\ UNCHANGED <<ring, out, closed, connected, connMu, wakeups, done, arrived,
                 ipc, epc, held, senderVars>>

\* Mutant: Start waits for ingress only.
StartReturnEarly ==
  /\ ipc = "stopped" /\ ~closed
  /\ closed' = TRUE
  /\ UNCHANGED <<ring, walVars, out, connected, connMu, wakeups, done, arrived,
                 ipc, epc, held, senderVars>>

\* Both goroutines have returned: Start closes the output channel and the log.
StartReturn ==
  /\ ipc = "stopped" /\ epc = "stopped" /\ ~closed
  /\ closed' = TRUE
  /\ UNCHANGED <<ring, walVars, out, connected, connMu, wakeups, done, arrived,
                 ipc, epc, held, senderVars>>

-----------------------------------------------------------------------------
(* The sender's connection loop (sender.go:116-236) calls OnConnChange,      *)
(* buffer.go:78-93, and receives from the output while it is connected.      *)

SenderConnect ==
  /\ cpc = "down"
  /\ connected' = TRUE
  /\ cpc' = "signal"
  /\ UNCHANGED <<ring, walVars, out, closed, connMu, wakeups, done, arrived, ipc,
                 epc, held, delivered>>

SenderSignal ==
  /\ cpc = "signal"
  /\ connToken' = TRUE
  /\ cpc' = "up"
  /\ UNCHANGED <<ring, walVars, out, closed, connected, connMu, dataToken, done,
                 arrived, ipc, epc, held, delivered>>

SenderReceive ==
  /\ cpc = "up" /\ out # <<>>
  /\ delivered' = Append(delivered, Head(out))
  /\ out' = Tail(out)
  /\ UNCHANGED <<ring, walVars, closed, connected, connMu, wakeups, done, arrived,
                 ipc, epc, held, cpc>>

\* The stream fails, or the context ends the run: runOnce returns, and its
\* deferred OnConnChange(false) comes first.
SenderFall ==
  /\ cpc = "up"
  /\ cpc' = "lost"
  /\ UNCHANGED <<ring, walVars, out, closed, connected, connMu, wakeups, done,
                 arrived, ipc, epc, held, delivered>>

SenderConnectFails ==
  /\ cpc = "down"
  /\ cpc' = "returned"
  /\ UNCHANGED <<ring, walVars, out, closed, connected, connMu, wakeups, done,
                 arrived, ipc, epc, held, delivered>>

\* Start leaves when the context is cancelled, and says OnConnChange(false)
\* again when it is not.
SenderReturn ==
  /\ cpc = "returned"
  /\ cpc' = IF done THEN "gone" ELSE "retry"
  /\ UNCHANGED <<ring, walVars, out, closed, connected, connMu, wakeups, done,
                 arrived, ipc, epc, held, delivered>>

\* OnConnChange(false): take the lock, then flush the ring, then release it.
SenderDisconnect ==
  /\ cpc \in {"lost", "retry"} /\ connMu = "free"
  /\ connMu' = "sender"
  /\ connected' = FALSE
  /\ cpc' = IF cpc = "lost" THEN "flushLost" ELSE "flushRetry"
  /\ UNCHANGED <<ring, walVars, out, closed, wakeups, done, arrived, ipc, epc,
                 held, delivered>>

SenderFlush ==
  /\ connMu = "sender"
  /\ FlushOne
  /\ UNCHANGED <<out, closed, connected, connMu, wakeups, done, arrived, ipc,
                 epc, held, senderVars>>

\* Mutant: the flush gives up before the ring is empty.
SenderFlushedPartly ==
  /\ connMu = "sender"
  /\ connMu' = "free"
  /\ cpc' = IF cpc = "flushLost" THEN "returned" ELSE "down"
  /\ UNCHANGED <<ring, walVars, out, closed, connected, wakeups, done, arrived,
                 ipc, epc, held, delivered>>

SenderFlushed ==
  /\ connMu = "sender" /\ ring = <<>>
  /\ connMu' = "free"
  /\ cpc' = IF cpc = "flushLost" THEN "returned" ELSE "down"
  /\ UNCHANGED <<ring, walVars, out, closed, connected, wakeups, done, arrived,
                 ipc, epc, held, delivered>>

SenderExit ==
  /\ cpc = "down" /\ done
  /\ cpc' = "gone"
  /\ UNCHANGED <<ring, walVars, out, closed, connected, connMu, wakeups, done,
                 arrived, ipc, epc, held, delivered>>

Cancel ==
  /\ ~done
  /\ done' = TRUE
  /\ UNCHANGED <<ring, walVars, out, closed, connected, connMu, wakeups, arrived,
                 ipc, epc, held, senderVars>>

Terminated ==
  /\ closed /\ cpc = "gone" /\ ~feeding
  /\ UNCHANGED vars

-----------------------------------------------------------------------------
IngressStep ==
  \/ IngressReceive \/ IngressWrite \/ IngressPush
  \/ IngressFull \/ IngressFlush \/ IngressFlushed \/ IngressNotify
  \/ IngressStop

EgressStep ==
  \/ Boot \/ EgressCheck \/ EgressAwake
  \/ EgressTakeLog \/ EgressTakeRing \/ EgressTakeNone
  \/ EgressSend \/ EgressWoken \/ EgressStop
  \/ EgressDrain \/ EgressReceive \/ EgressEmit \/ EgressDrained
  \/ EgressDrainStop \/ StartReturn

\* What the sender does without waiting for the network.
SenderStep ==
  \/ SenderSignal \/ SenderReceive
  \/ SenderReturn \/ SenderDisconnect \/ SenderFlush \/ SenderFlushed

Next ==
  \/ IngressStep \/ EgressStep \/ FeedStep \/ SenderStep
  \/ SenderConnect \/ SenderConnectFails \/ SenderFall \/ SenderExit
  \/ Cancel \/ Terminated

Spec == Init /\ [][Next]_vars

\* Every goroutine of the agent is scheduled.  The network owes nothing: no
\* fairness on connecting, failing, cancelling.
FairSpec ==
  /\ Spec
  /\ WF_vars(IngressStep) /\ WF_vars(EgressStep) /\ WF_vars(FeedStep)
  /\ WF_vars(SenderStep)

-----------------------------------------------------------------------------
(* Properties *)

\* The point ingress has received and not yet put anywhere.
Pending == IF ipc \in {"lock", "flush"} THEN <<arrived>> ELSE <<>>

\* Everything between the input and the sender, oldest first, seen from each
\* place on the way.
FromRing == ring \o Pending
FromLog == log \o FromRing
FromFeed == feed \o FromLog
FromCh == ch \o FromFeed
FromHeld == held \o FromCh
FromOut == out \o FromHeld
Pipeline == delivered \o FromOut

Increasing(q) == \A i, j \in DOMAIN q : i < j => q[i] < q[j]

\* Type correctness, with the facts that tie the program counters together.
QueuesOK ==
  /\ ring \in Seq(Points) /\ Len(ring) <= RingSize
  /\ log \in Seq(Points) /\ feed \in Seq(Points)
  /\ ch \in Seq(Points) /\ Len(ch) <= ChCap
  /\ out \in Seq(Points) /\ Len(out) <= OutCap
  /\ held \in Seq(Points) /\ Len(held) <= 1
  /\ delivered \in Seq(Points)

FlagsOK ==
  /\ hasData \in BOOLEAN /\ feeding \in BOOLEAN /\ closed \in BOOLEAN
  /\ connected \in BOOLEAN /\ done \in BOOLEAN
  /\ connToken \in BOOLEAN /\ dataToken \in BOOLEAN
  /\ arrived \in 0 .. MaxPoints
  /\ ipc \in {"off", "select", "lock", "flush", "notify", "stopped"}
  /\ epc \in {"boot", "check", "await", "take", "send", "wait", "drain", "range",
               "emit", "stopped"}
  /\ cpc \in {"down", "signal", "up", "lost", "flushLost", "returned", "retry",
               "flushRetry", "gone"}
  /\ connMu \in {"free", "ingress", "sender"}

LinksOK ==
  /\ held # <<>> <=> epc \in {"send", "emit"}
  /\ log # <<>> => hasData
  /\ feed # <<>> => feeding
  /\ feeding \/ ch # <<>> => epc \in {"range", "emit"}
  /\ ipc \in {"lock", "flush", "notify"} => arrived > 0
  /\ connMu = "ingress" <=> ipc = "flush"
  /\ connMu = "sender" <=> cpc \in {"flushLost", "flushRetry"}

TypeOK == QueuesOK /\ FlagsOK /\ LinksOK

\* First in, first out, and never twice: the points the sender has received,
\* followed by all the points on their way to it, are in order of arrival, over
\* every interleaving of disconnects, ring overflows, drains and disk failures
\* (buffer.go:20-23, 215-217).
InOrder == Increasing(Pipeline)

\* On a healthy disk within the size limit, nothing is lost until the context
\* is cancelled: what was delivered and what is on its way is exactly what
\* arrived (buffer.go:4-5, "durable telemetry buffering").
NothingLost == ~Lossy /\ ~done => Pipeline = [i \in 1 .. arrived |-> i]

\* While the sender is disconnected and no flush is running, the ring is empty
\* (buffer.go:20-23, "ring is guaranteed empty").
RingFlushed == ~connected /\ connMu # "sender" => ring = <<>>

\* No wake-up is lost, although the notify channels hold one token each and the
\* check of m.connected is outside the lock: egress never sleeps on data that
\* was signalled, nor on a connection that is back (buffer.go:189-193, 87-92).
NoLostWakeup ==
  /\ epc = "wait" /\ (ring # <<>> \/ log # <<>>) => dataToken \/ ipc \in {"flush", "notify"}
  /\ epc = "await" /\ connected => connToken \/ cpc = "signal"

\* Nothing is sent on the output channel once it is closed, which would panic
\* (buffer.go:133-134).
NoSendOnClosed == [][closed => Len(out') <= Len(out)]_vars

\* Every point that arrives reaches the sender if the connection, after any
\* number of failures, holds from some moment on.
Delivery ==
  <>[](cpc = "up" /\ ~done) =>
    \A p \in Points : arrived >= p ~> \E i \in DOMAIN delivered : delivered[i] = p

\* After the context is cancelled Start returns, whatever egress was blocked on.
ShutdownCompletes == done ~> closed

\* "While disconnected, new points write directly to WAL" (buffer.go:22): the
\* manager begins to take points from its input, connected or not.
IngressStarts == <>(ipc # "off" \/ done)
=============================================================================
