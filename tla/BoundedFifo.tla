---------------------------- MODULE BoundedFifo ----------------------------
(***************************************************************************)
(* What the in-memory ring of internal/buffer promises its users: a bounded *)
(* first-in first-out queue.  An offer to a full queue is refused, a poll   *)
(* of an empty queue says so, and a successful poll returns the oldest      *)
(* point.  Ring.tla implements this specification with an array.            *)
(***************************************************************************)
EXTENDS Naturals, Sequences

CONSTANTS Point,       \* the telemetry points
          Zero,        \* the zero TelemetryPoint, returned with ok = FALSE
          RingSize     \* how many points the queue holds

VARIABLES queue,       \* the points held, oldest first
          ret          \* what the last call returned: [point, ok]

fifoVars == <<queue, ret>>

Returned(p, ok) == [point |-> p, ok |-> ok]

FifoInit == queue = <<>> /\ ret = Returned(Zero, FALSE)

Offer(p) ==
  /\ Len(queue) < RingSize
  /\ queue' = Append(queue, p)
  /\ ret' = Returned(p, TRUE)

Refuse(p) ==
  /\ Len(queue) = RingSize
  /\ ret' = Returned(p, FALSE)
  /\ UNCHANGED queue

Poll ==
  /\ queue # <<>>
  /\ ret' = Returned(Head(queue), TRUE)
  /\ queue' = Tail(queue)

PollEmpty ==
  /\ queue = <<>>
  /\ ret' = Returned(Zero, FALSE)
  /\ UNCHANGED queue

FifoNext == (\E p \in Point : Offer(p) \/ Refuse(p)) \/ Poll \/ PollEmpty

FifoSpec == FifoInit /\ [][FifoNext]_fifoVars
=============================================================================
