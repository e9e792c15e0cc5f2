------------------------------- MODULE Sender -------------------------------
(***************************************************************************)
(* internal/sender: the gRPC sender.  One goroutine connects, batches the   *)
(* points it receives from the buffer, streams each batch with the next     *)
(* sequence number, and reconnects with a growing delay.  gRPC's Send       *)
(* returns when the message is queued: what the network still holds when a  *)
(* stream ends is lost.                                                     *)
(***************************************************************************)
EXTENDS Naturals, Sequences, FiniteSets, SequencesExt

CONSTANTS MaxPoints,       \* bound: how many points the input yields
          MaxFailures,     \* bound: connection attempts that fail in a row
          BatchSize,       \* cfg.BatchSize
          InitialBackoff,  \* initialBackoff
          MaxBackoff       \* maxBackoff

ASSUME SenderAssumption ==
  /\ MaxPoints \in Nat /\ MaxFailures \in Nat
  /\ BatchSize \in Nat \ {0}
  /\ InitialBackoff \in Nat \ {0} /\ MaxBackoff \in Nat /\ InitialBackoff <= MaxBackoff

VARIABLES taken,       \* number of the last point received from the input
          batch,       \* s.batcher.points
          seqNum,      \* s.seqNum
          connected,   \* s.connected, as last passed to the buffer manager
          pc,          \* where Start and runOnce are
          backoff,     \* backoff
          established, \* did the last runOnce establish a connection?
          failures,    \* history: failed attempts since the last connection
          broken,      \* has the current stream died?
          wire,        \* batches queued on the stream, not received yet
          received,    \* history: batches the platform has received
          clean,       \* history: no stream has yet died or been closed on a batch
          done,        \* is the context cancelled?
          inputClosed  \* has the buffer closed its output channel?

counters == <<taken, seqNum>>
retry    == <<backoff, established, failures>>
network  == <<broken, wire, received, clean>>
ending   == <<done, inputClosed>>
vars == <<taken, batch, seqNum, connected, pc, backoff, established,
          failures, broken, wire, received, clean, done, inputClosed>>

Init ==
  /\ taken = 0 /\ batch = <<>> /\ seqNum = 0
  /\ connected = FALSE /\ pc = "connect"
  /\ backoff = InitialBackoff /\ established = FALSE /\ failures = 0
  /\ broken = FALSE /\ wire = <<>> /\ received = <<>> /\ clean = TRUE
  /\ done = FALSE /\ inputClosed = FALSE

-----------------------------------------------------------------------------
(* runOnce, sender.go:161-229: connecting. *)

\* A fresh stream; what an old one still held is gone.
Connect ==
  /\ pc = "connect"
  /\ pc' = "stream"
  /\ connected' = TRUE
  /\ failures' = 0
  /\ broken' = FALSE /\ wire' = <<>>
  /\ UNCHANGED <<counters, batch, backoff, established, received, clean, ending>>

ConnectFails ==
  /\ pc = "connect" /\ failures < MaxFailures
  /\ pc' = "failed"
  /\ established' = FALSE
  /\ failures' = failures + 1
  /\ UNCHANGED <<counters, batch, connected, backoff, network, ending>>

-----------------------------------------------------------------------------
(* Sending a batch, sender.go:246-281 and batch.go:39-48: the batch is taken  *)
(* from the batcher and numbered before the send can fail.                    *)

\* Mutant: a failed send gives its number back.
SendFailsReuse(points) ==
  /\ broken
  /\ UNCHANGED <<seqNum, wire>>

SendOK(points) ==
  /\ ~broken
  /\ seqNum' = seqNum + 1
  /\ wire' = Append(wire, [seq |-> seqNum', points |-> points])

SendFails(points) ==
  /\ broken
  /\ seqNum' = seqNum + 1
  /\ UNCHANGED wire

NothingSent == UNCHANGED <<seqNum, wire>>

\* runOnce returns an error: its deferred notification says disconnected.
Fail ==
  /\ pc' = "failed"
  /\ connected' = FALSE
  /\ established' = TRUE

Stay == UNCHANGED <<pc, connected, established>>

\* flushWithError: a failed send ends the stream.
Flush(points) == (SendOK(points) /\ Stay) \/ (SendFails(points) /\ Fail)

\* Mutant: the batch is not reset once it is full.
ReceivePointKeep ==
  /\ pc = "stream" /\ taken < MaxPoints
  /\ taken' = taken + 1
  /\ LET points == Append(batch, taken') IN
       /\ batch' = points
       /\ IF Len(points) >= BatchSize THEN Flush(points) ELSE NothingSent /\ Stay
  /\ UNCHANGED <<backoff, failures, broken, received, clean, ending>>

\* Receive a point; a full batch is flushed.
ReceivePoint ==
  /\ pc = "stream" /\ taken < MaxPoints /\ ~inputClosed
  /\ taken' = taken + 1
  /\ LET points == Append(batch, taken') IN
       IF Len(points) >= BatchSize
         THEN batch' = <<>> /\ Flush(points)
         ELSE batch' = points /\ NothingSent /\ Stay
  /\ UNCHANGED <<backoff, failures, broken, received, clean, ending>>

\* Mutant: the ticker does nothing for a batch of one.
TickLarge ==
  /\ pc = "stream" /\ Len(batch) > 1
  /\ batch' = <<>>
  /\ Flush(batch)
  /\ UNCHANGED <<taken, backoff, failures, broken, received, clean, ending>>

\* The flush ticker.
Tick ==
  /\ pc = "stream" /\ batch # <<>>
  /\ batch' = <<>>
  /\ Flush(batch)
  /\ UNCHANGED <<taken, backoff, failures, broken, received, clean, ending>>

\* The acknowledgement goroutine reports that the stream died.
AckStreamDies ==
  /\ pc = "stream" /\ broken
  /\ Fail
  /\ UNCHANGED <<counters, batch, backoff, failures, network, ending>>

\* The context is cancelled or the input closed: flush what is left, ignoring
\* an error, and close the stream and the connection.
FinalFlush ==
  /\ pc = "stream" /\ (done \/ inputClosed)
  /\ batch' = <<>>
  /\ IF batch = <<>> THEN NothingSent ELSE SendOK(batch) \/ SendFails(batch)
  /\ pc' = "stopped"
  /\ connected' = FALSE
  /\ UNCHANGED <<taken, retry, broken, received, clean, ending>>

-----------------------------------------------------------------------------
(* Start, sender.go:116-150: after a failure. *)

Failed ==
  /\ pc = "failed"
  /\ pc' = IF done THEN "stopped" ELSE "wait"
  /\ connected' = FALSE
  /\ UNCHANGED <<counters, batch, retry, network, ending>>

\* Mutant: the delay keeps doubling.
WaitOverUncapped ==
  /\ pc = "wait"
  /\ pc' = "connect"
  /\ backoff' = IF established THEN InitialBackoff ELSE backoff * 2
  /\ UNCHANGED <<counters, batch, connected, established, failures, network, ending>>

\* The delay has passed; only now is the next one computed.
WaitOver ==
  /\ pc = "wait"
  /\ pc' = "connect"
  /\ backoff' = IF established THEN InitialBackoff
                ELSE IF backoff * 2 < MaxBackoff THEN backoff * 2 ELSE MaxBackoff
  /\ UNCHANGED <<counters, batch, connected, established, failures, network, ending>>

WaitCancelled ==
  /\ pc = "wait" /\ done
  /\ pc' = "stopped"
  /\ UNCHANGED <<counters, batch, connected, retry, network, ending>>

-----------------------------------------------------------------------------
(* The platform, the network and the rest of the agent. *)

Deliver ==
  /\ wire # <<>>
  /\ received' = Append(received, Head(wire))
  /\ wire' = Tail(wire)
  /\ UNCHANGED <<counters, batch, connected, pc, retry, broken, clean, ending>>

Break ==
  /\ pc = "stream" /\ ~broken
  /\ broken' = TRUE /\ clean' = FALSE
  /\ wire' = <<>>
  /\ UNCHANGED <<counters, batch, connected, pc, retry, received, ending>>

\* Once runOnce has cancelled its stream and closed its connection, the network
\* may drop what it holds (sender.go:170, 198, 223-225).
CloseDrops ==
  /\ pc # "stream" /\ wire # <<>>
  /\ wire' = <<>> /\ clean' = FALSE
  /\ UNCHANGED <<counters, batch, connected, pc, retry, broken, received, ending>>

Cancel ==
  /\ ~done
  /\ done' = TRUE
  /\ UNCHANGED <<counters, batch, connected, pc, retry, network, inputClosed>>

CloseInput ==
  /\ done /\ ~inputClosed
  /\ inputClosed' = TRUE
  /\ UNCHANGED <<counters, batch, connected, pc, retry, network, done>>

Stopped == pc = "stopped" /\ wire = <<>> /\ done /\ inputClosed /\ UNCHANGED vars

SendLoop ==
  \/ Tick \/ AckStreamDies \/ FinalFlush \/ Failed \/ WaitOver \/ WaitCancelled

Next ==
  \/ Connect \/ ConnectFails \/ ReceivePoint \/ SendLoop
  \/ Deliver \/ Break \/ CloseDrops \/ Cancel \/ CloseInput \/ Stopped

Spec == Init /\ [][Next]_vars

\* The sender's goroutine is scheduled, a connection attempt is answered one way
\* or the other, and a live network delivers what it was given.
FairSpec ==
  /\ Spec
  /\ WF_vars(SendLoop) /\ SF_vars(FinalFlush)
  /\ WF_vars(Connect \/ ConnectFails)
  /\ WF_vars(Deliver)

-----------------------------------------------------------------------------
(* Properties *)

Increasing(q) == \A i, j \in DOMAIN q : i < j => q[i] < q[j]

\* The batches that were put on a stream and not dropped by it.
Sent == received \o wire

\* What a stream carries.
Batches == [seq : 1 .. seqNum, points : Seq(1 .. taken)]

\* Type correctness.
TypeOK ==
  /\ taken \in 0 .. MaxPoints
  /\ batch \in Seq(1 .. taken) /\ Len(batch) < BatchSize
  /\ seqNum \in Nat
  /\ pc \in {"connect", "stream", "failed", "wait", "stopped"}
  /\ connected <=> pc = "stream"
  /\ backoff \in InitialBackoff .. MaxBackoff
  /\ received \in Seq(Batches) /\ wire \in Seq(Batches)

\* Every point of q comes before every point of r.
Precedes(q, r) == \A x \in ToSet(q), y \in ToSet(r) : x < y

\* The platform receives batches under growing sequence numbers and, through
\* them, points in the order the buffer released them and none twice, over
\* every reconnection; what waits in the batcher comes after all of them.
ReceivedInOrder ==
  /\ \A i \in DOMAIN Sent : Increasing(Sent[i].points) /\ Precedes(Sent[i].points, batch)
  /\ \A i, j \in DOMAIN Sent : i < j => /\ Sent[i].seq < Sent[j].seq
                                       /\ Precedes(Sent[i].points, Sent[j].points)
  /\ Increasing(batch)

\* A sequence number is spent on every attempt: the platform sees a gap where a
\* batch was lost, and never two batches under one number.
GapsShowLosses ==
  \A i \in 2 .. Len(received) :
    received[i].seq = received[i - 1].seq + 1
      => Head(received[i].points) = Last(received[i - 1].points) + 1

\* Only a stream that dies, or is closed before the network has carried what was
\* sent on it, loses points: failed attempts to connect, partial batches and
\* the end of the run lose none (sender.go:195-226).
LossNeedsFailure ==
  clean => \A p \in 1 .. taken :
             p \in ToSet(batch) \/ \E i \in DOMAIN Sent : p \in ToSet(Sent[i].points)

\* The platform can tell every loss, and only a failure causes one.
LossesVisible == GapsShowLosses /\ LossNeedsFailure

\* A point waiting in a partial batch does not wait for the batch to fill: if a
\* stream holds from some moment on, every point taken is received or was lost
\* with an earlier stream.
PartialBatchSent == <>[](pc = "stream" /\ ~broken) => []<>(batch = <<>> /\ wire = <<>>)

\* A cancelled context ends the sender, wherever it is.
CancelStops == done ~> pc = "stopped"

\* Nothing waits for ever: not a partial batch on a stream that holds, and not
\* the agent for a sender it has cancelled.
Progress == PartialBatchSent /\ CancelStops
=============================================================================
