------------------------------- MODULE Ring -------------------------------
(***************************************************************************)
(* internal/buffer/ring.go: the fixed-capacity circular buffer of           *)
(* TelemetryPoints.  Every method holds r.mu from its first to its last     *)
(* statement, so a call is one atomic action.                               *)
(***************************************************************************)
EXTENDS Naturals, Sequences

CONSTANTS Point,       \* the telemetry points a caller may push
          Zero,        \* normalizer.TelemetryPoint{}: what a cleared slot holds
          RingSize     \* r.cap

\* NewRing panics unless the capacity is positive (ring.go:25).
ASSUME RingSizeAssumption == RingSize \in Nat \ {0}
\* No telemetry point is the zero value: the normalizer gives each an ID.
ASSUME ZeroAssumption == Zero \notin Point

VARIABLES items,       \* r.items, the slots
          head,        \* r.head, index of the next Pop
          tail,        \* r.tail, index of the next Push
          count,       \* r.count
          ret          \* what the last call returned: [point, ok]

vars == <<items, head, tail, count, ret>>

Slots == 0 .. RingSize - 1

NewRing ==
  /\ items = [i \in Slots |-> Zero]
  /\ head = 0 /\ tail = 0 /\ count = 0
  /\ ret = [point |-> Zero, ok |-> FALSE]

-----------------------------------------------------------------------------
(* Push is a refusal or an insertion, ring.go:36-48. *)

PushFull(p) ==
  /\ count = RingSize
  /\ ret' = [point |-> p, ok |-> FALSE]
  /\ UNCHANGED <<items, head, tail, count>>

\* Mutant: the tail never wraps to the first slot before the last is used.
PushOKShortWrap(p) ==
  /\ count < RingSize
  /\ items' = [items EXCEPT ![tail] = p]
  /\ tail' = IF RingSize > 1 THEN (tail + 1) % (RingSize - 1) ELSE 0
  /\ count' = count + 1
  /\ ret' = [point |-> p, ok |-> TRUE]
  /\ UNCHANGED head

PushOK(p) ==
  /\ count < RingSize
  /\ items' = [items EXCEPT ![tail] = p]
  /\ tail' = (tail + 1) % RingSize
  /\ count' = count + 1
  /\ ret' = [point |-> p, ok |-> TRUE]
  /\ UNCHANGED head

(* Pop is a refusal or a removal that clears the slot, ring.go:51-65. *)

PopEmpty ==
  /\ count = 0
  /\ ret' = [point |-> Zero, ok |-> FALSE]
  /\ UNCHANGED <<items, head, tail, count>>

\* Mutant: the slot keeps its reference.
PopOKKeepSlot ==
  /\ count > 0
  /\ ret' = [point |-> items[head], ok |-> TRUE]
  /\ head' = (head + 1) % RingSize
  /\ count' = count - 1
  /\ UNCHANGED <<items, tail>>

\* Mutant: the newest point is returned instead of the oldest.
PopOKNewest ==
  /\ count > 0
  /\ ret' = [point |-> items[(head + count - 1) % RingSize], ok |-> TRUE]
  /\ items' = [items EXCEPT ![head] = Zero]
  /\ head' = (head + 1) % RingSize
  /\ count' = count - 1
  /\ UNCHANGED tail

PopOK ==
  /\ count > 0
  /\ ret' = [point |-> items[head], ok |-> TRUE]
  /\ items' = [items EXCEPT ![head] = Zero]
  /\ head' = (head + 1) % RingSize
  /\ count' = count - 1
  /\ UNCHANGED tail

Next == (\E p \in Point : PushFull(p) \/ PushOK(p)) \/ PopEmpty \/ PopOK

Spec == NewRing /\ [][Next]_vars

-----------------------------------------------------------------------------
(* Properties *)

\* Slot of the i-th oldest point held, and the points held, oldest first.
Slot(i) == (head + i - 1) % RingSize
Contents == [i \in 1 .. count |-> items[Slot(i)]]

\* Type correctness: the indexes name slots, the count never exceeds the
\* capacity, and the tail is the head advanced by the count.
TypeOK ==
  /\ items \in [Slots -> Point \cup {Zero}]
  /\ head \in Slots /\ tail \in Slots
  /\ count \in 0 .. RingSize
  /\ tail = (head + count) % RingSize
  /\ ret \in [point : Point \cup {Zero}, ok : BOOLEAN]

\* A slot is the zero point exactly when no live point is in it: the live
\* window never holds a cleared slot, and Pop leaves no stale reference
\* behind it for the garbage collector to keep (ring.go:61).
ClearedOutsideWindow ==
  \A s \in Slots : items[s] = Zero <=> \A i \in 1 .. count : Slot(i) # s

\* The ring is the bounded FIFO its users rely on: each call returns what the
\* same call on a queue would return, across every wrap of head and tail.
Fifo == INSTANCE BoundedFifo WITH queue <- Contents
FifoSpec == Fifo!FifoSpec
=============================================================================
