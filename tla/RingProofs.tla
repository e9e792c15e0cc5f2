---------------------------- MODULE RingProofs ----------------------------
(***************************************************************************)
(* Proofs about Ring.tla for every capacity and every set of points: type   *)
(* correctness, no stale reference outside the live window, and the         *)
(* refinement of the bounded FIFO.                                          *)
(***************************************************************************)
EXTENDS Ring, Lemmas

\* A function on 1 .. n is a sequence of length n.
LEMMA SeqIsFunction ==
  ASSUME NEW S, NEW s \in Seq(S)
  PROVE  s = [i \in 1 .. Len(s) |-> s[i]]
BY LenProperties

-----------------------------------------------------------------------------
(* The slots of the live window *)

\* The slot of the k-th point held.
LEMMA SlotIsAt ==
  ASSUME TypeOK, NEW i \in 1 .. RingSize
  PROVE  Slot(i) = At(RingSize, head, i - 1) /\ Slot(i) \in Slots
<1>1. head \in 0 .. RingSize - 1 /\ RingSize \in Nat \ {0} /\ i - 1 \in 0 .. RingSize
  BY RingSizeAssumption DEF TypeOK, Slots
<1>2. head + (i - 1) = head + i - 1
  BY <1>1
<1> QED
  BY <1>1, <1>2, ModAt DEF Slot, Slots

\* The tail is count slots after the head.
LEMMA TailIsAt ==
  ASSUME TypeOK
  PROVE  tail = At(RingSize, head, count)
BY ModAt, RingSizeAssumption DEF TypeOK, Slots

\* The slot Push writes is outside the live window of a ring that has room.
LEMMA TailIsFree ==
  ASSUME TypeOK, count < RingSize, NEW i \in 1 .. count
  PROVE  Slot(i) # tail
<1>1. i \in 1 .. RingSize /\ i - 1 \in 0 .. RingSize - 1 /\ count \in 0 .. RingSize - 1
  BY RingSizeAssumption DEF TypeOK
<1>2. i - 1 # count
  BY RingSizeAssumption DEF TypeOK
<1> QED
  BY <1>1, <1>2, SlotIsAt, TailIsAt, AtInjective, RingSizeAssumption DEF TypeOK, Slots

\* The points held form a sequence of count points.
LEMMA ContentsType ==
  ASSUME TypeOK
  PROVE  /\ Contents \in Seq(Point \cup {Zero})
         /\ Len(Contents) = count
         /\ \A i \in 1 .. count : Contents[i] = items[Slot(i)]
<1>1. ASSUME NEW i \in 1 .. count PROVE items[Slot(i)] \in Point \cup {Zero}
  <2>1. i \in 1 .. RingSize
    BY RingSizeAssumption DEF TypeOK
  <2>2. Slot(i) \in Slots
    BY <2>1, SlotIsAt
  <2> QED
    BY <2>2 DEF TypeOK
<1> QED
  BY <1>1 DEF Contents, TypeOK

\* Popping moves every remaining point one position nearer to the head.
LEMMA PopShift ==
  ASSUME TypeOK, PopOK
  PROVE  /\ count \in 1 .. RingSize
         /\ Slot(1) = head
         /\ head' = At(RingSize, head, 1) /\ head' \in Slots
         /\ \A i \in 1 .. count - 1 : Slot(i)' = Slot(i + 1) /\ Slot(i + 1) # head
<1>n. /\ RingSize \in Nat \ {0} /\ count \in 1 .. RingSize
      /\ head \in 0 .. RingSize - 1
  BY RingSizeAssumption DEF TypeOK, PopOK, Slots
<1>1. head' = At(RingSize, head, 1) /\ head' \in 0 .. RingSize - 1
  BY <1>n, ModAt DEF PopOK
<1>2. Slot(1) = head
  BY <1>n, SlotIsAt DEF At
<1>3. ASSUME NEW i \in 1 .. count - 1 PROVE Slot(i)' = Slot(i + 1) /\ Slot(i + 1) # head
  <2>n. i \in 1 .. RingSize - 1
    BY <1>n
  <2>1. Slot(i)' = (head' + (i - 1)) % RingSize
    BY <1>1, <2>n DEF Slot
  <2>2. (head' + (i - 1)) % RingSize = At(RingSize, head', i - 1)
    BY <1>n, <1>1, <2>n, ModAt
  <2>3. At(RingSize, At(RingSize, head, 1), i - 1) = At(RingSize, head, i)
    BY <1>n, <2>n, AtNext
  <2>4. Slot(i + 1) = At(RingSize, head, i)
    BY <1>n, <2>n, SlotIsAt
  <2>5. At(RingSize, head, i) # head
    BY <1>n, <2>n DEF At
  <2> QED
    BY <1>1, <2>1, <2>2, <2>3, <2>4, <2>5
<1> QED
  BY <1>n, <1>1, <1>2, <1>3 DEF Slots

\* Pushing leaves every point where it is and puts the new one behind them.
LEMMA PushSlots ==
  ASSUME TypeOK, NEW p \in Point, PushOK(p)
  PROVE  /\ count' = count + 1 /\ count \in 0 .. RingSize - 1
         /\ Slot(count + 1) = tail
         /\ \A i \in 1 .. count + 1 : Slot(i)' = Slot(i)
         /\ \A i \in 1 .. count : Slot(i) # tail
<1>1. count' = count + 1 /\ count < RingSize /\ head' = head
  BY DEF PushOK
<1>2. count \in 0 .. RingSize - 1 /\ count + 1 \in 1 .. RingSize
  BY <1>1, RingSizeAssumption DEF TypeOK
<1>3. Slot(count + 1) = At(RingSize, head, count + 1 - 1)
  BY <1>2, SlotIsAt
<1>4. Slot(count + 1) = tail
  BY <1>2, <1>3, TailIsAt
<1>5. \A i \in 1 .. count + 1 : Slot(i)' = Slot(i)
  BY <1>1 DEF Slot
<1> QED
  BY <1>1, <1>2, <1>4, <1>5, TailIsFree

-----------------------------------------------------------------------------
(* Type correctness *)

\* NewRing sets the types up.
LEMMA TypeOKInit == NewRing => TypeOK
<1> SUFFICES ASSUME NewRing PROVE TypeOK
  OBVIOUS
<1>1. 0 % RingSize = 0
  BY ModBelow, RingSizeAssumption
<1> QED
  BY <1>1, RingSizeAssumption DEF NewRing, TypeOK, Slots

\* Push and Pop keep the indexes and the count in step.
LEMMA TypeOKStep == TypeOK /\ [Next]_vars => TypeOK'
<1> SUFFICES ASSUME TypeOK, [Next]_vars PROVE TypeOK'
  OBVIOUS
<1>n. RingSize \in Nat \ {0} /\ head \in 0 .. RingSize - 1 /\ count \in 0 .. RingSize
  BY RingSizeAssumption DEF TypeOK, Slots
<1>1. ASSUME NEW p \in Point, PushFull(p) PROVE TypeOK'
  BY <1>1 DEF PushFull, TypeOK
<1>2. ASSUME NEW p \in Point, PushOK(p) PROVE TypeOK'
  <2>1. count + 1 \in 0 .. RingSize
    BY <1>2, <1>n DEF PushOK
  <2>2. tail = At(RingSize, head, count)
    BY TailIsAt
  <2>3. tail' = At(RingSize, tail, 1) /\ tail' \in Slots
    BY <1>2, <1>n, ModAt DEF PushOK, TypeOK, Slots
  <2>4. At(RingSize, tail, 1) = At(RingSize, head, count + 1)
    BY <1>2, <1>n, <2>2 DEF PushOK, At
  <2>5. tail' = (head' + count') % RingSize
    BY <1>2, <1>n, <2>1, <2>3, <2>4, ModAt DEF PushOK
  <2> QED
    BY <1>2, <2>1, <2>3, <2>5 DEF PushOK, TypeOK
<1>3. CASE PopEmpty
  BY <1>3 DEF PopEmpty, TypeOK
<1>4. CASE PopOK
  <2>1. count - 1 \in 0 .. RingSize - 1
    BY <1>4, <1>n DEF PopOK
  <2>2. head' = At(RingSize, head, 1) /\ head' \in 0 .. RingSize - 1
    BY <1>4, <1>n, ModAt DEF PopOK
  <2>3. At(RingSize, At(RingSize, head, 1), count - 1) = At(RingSize, head, count)
    BY <1>n, <2>1, AtNext
  <2>n. count' = count - 1 /\ count' \in 0 .. RingSize /\ tail' = tail
    BY <1>4, <1>n, <2>1 DEF PopOK
  <2>3a. (head' + count') % RingSize = At(RingSize, head', count')
    BY <1>n, <2>2, <2>n, ModAt
  <2>4. tail' = (head' + count') % RingSize
    BY <2>2, <2>3, <2>3a, <2>n, TailIsAt
  <2>5. items[head] \in Point \cup {Zero}
    BY DEF TypeOK
  <2> QED
    BY <1>4, <2>2, <2>n, <2>4, <2>5 DEF PopOK, TypeOK, Slots
<1>5. CASE UNCHANGED vars
  BY <1>5 DEF vars, TypeOK
<1> QED
  BY <1>1, <1>2, <1>3, <1>4, <1>5 DEF Next

\* The indexes of the ring stay within its slots and one count apart, and the
\* count within the capacity (ring.go:36-65).
THEOREM RingTypeCorrect == Spec => []TypeOK
BY TypeOKInit, TypeOKStep, PTL DEF Spec

-----------------------------------------------------------------------------
(* No stale references *)

\* The slots of a new ring are cleared.
LEMMA ClearedInit == NewRing => ClearedOutsideWindow
BY RingSizeAssumption DEF NewRing, ClearedOutsideWindow, Slots

\* Push and Pop keep the slots outside the live window cleared.
LEMMA ClearedStep ==
  TypeOK /\ TypeOK' /\ ClearedOutsideWindow /\ [Next]_vars => ClearedOutsideWindow'
<1> SUFFICES ASSUME TypeOK, TypeOK', ClearedOutsideWindow, [Next]_vars
             PROVE  ClearedOutsideWindow'
  OBVIOUS
<1>n. /\ RingSize \in Nat \ {0} /\ head \in Slots /\ tail \in Slots
      /\ count \in 0 .. RingSize /\ items \in [Slots -> Point \cup {Zero}]
  BY RingSizeAssumption DEF TypeOK
<1>1. ASSUME UNCHANGED <<items, head, tail, count>> PROVE ClearedOutsideWindow'
  BY <1>1 DEF ClearedOutsideWindow, Slot
<1>2. ASSUME NEW p \in Point, PushOK(p) PROVE ClearedOutsideWindow'
  <2>1. \A s \in Slots : items'[s] = IF s = tail THEN p ELSE items[s]
    BY <1>2, <1>n DEF PushOK
  <2>2. 1 .. count + 1 = (1 .. count) \cup {count + 1}
    BY <1>n
  <2>3. \A s \in Slots : (\A i \in 1 .. count' : Slot(i)' # s)
                        <=> (s # tail /\ \A i \in 1 .. count : Slot(i) # s)
    BY <1>2, <2>2, PushSlots
  <2> QED
    BY <2>1, <2>3, ZeroAssumption DEF ClearedOutsideWindow
<1>3. CASE PopOK
  <2>1. \A s \in Slots : items'[s] = IF s = head THEN Zero ELSE items[s]
    BY <1>3, <1>n DEF PopOK
  <2>2. count' = count - 1
    BY <1>3 DEF PopOK
  <2>3. \A i \in 1 .. count : i = 1 \/ (i - 1 \in 1 .. count - 1 /\ (i - 1) + 1 = i)
    BY <1>n
  <2>4. \A s \in Slots : s # head =>
          ((\A i \in 1 .. count - 1 : Slot(i + 1) # s) <=> \A i \in 1 .. count : Slot(i) # s)
    <3> SUFFICES ASSUME NEW s \in Slots, s # head
                 PROVE  (\A i \in 1 .. count - 1 : Slot(i + 1) # s)
                          <=> \A i \in 1 .. count : Slot(i) # s
      OBVIOUS
    <3>1. ASSUME \A i \in 1 .. count - 1 : Slot(i + 1) # s, NEW i \in 1 .. count
          PROVE  Slot(i) # s
      BY <1>3, <2>3, <3>1, PopShift
    <3>2. ASSUME \A i \in 1 .. count : Slot(i) # s, NEW i \in 1 .. count - 1
          PROVE  Slot(i + 1) # s
      <4>1. i + 1 \in 1 .. count
        BY <1>n
      <4> QED
        BY <3>2, <4>1
    <3> QED
      BY <3>1, <3>2
  <2> QED
    BY <1>3, <2>1, <2>2, <2>4, PopShift DEF ClearedOutsideWindow
<1> QED
  BY <1>1, <1>2, <1>3 DEF Next, PushFull, PopEmpty, vars

\* A popped slot is cleared and a pushed slot is filled: outside the live
\* window every slot holds the zero point, inside it none does (ring.go:61).
THEOREM RingCleared == Spec => []ClearedOutsideWindow
<1>1. Spec => []TypeOK
  BY RingTypeCorrect
<1> QED
  BY <1>1, ClearedInit, ClearedStep, PTL DEF Spec

-----------------------------------------------------------------------------
(* The ring implements the bounded FIFO *)

\* Push appends to the contents.
LEMMA ContentsPush ==
  ASSUME TypeOK, TypeOK', NEW p \in Point, PushOK(p)
  PROVE  Contents' = Append(Contents, p)
<1>n. /\ count' = count + 1 /\ count \in 0 .. RingSize - 1 /\ RingSize \in Nat \ {0}
      /\ Slot(count + 1) = tail /\ tail \in Slots
      /\ items \in [Slots -> Point \cup {Zero}] /\ items' = [items EXCEPT ![tail] = p]
  BY PushSlots, RingSizeAssumption DEF PushOK, TypeOK
<1>1. Contents' = [i \in 1 .. count + 1 |-> items'[Slot(i)']]
  BY <1>n DEF Contents
<1>2. Contents \in Seq(Point \cup {Zero}) /\ Len(Contents) = count
      /\ \A i \in 1 .. count : Contents[i] = items[Slot(i)]
  BY ContentsType
<1>3. /\ Append(Contents, p) \in Seq(Point \cup {Zero})
      /\ Len(Append(Contents, p)) = count + 1
      /\ \A i \in 1 .. count + 1 :
            Append(Contents, p)[i] = IF i = count + 1 THEN p ELSE Contents[i]
  BY <1>2, <1>n, AppendProperties
<1>4. ASSUME NEW i \in 1 .. count + 1
      PROVE  items'[Slot(i)'] = IF i = count + 1 THEN p ELSE Contents[i]
  <2>1. Slot(i)' = Slot(i)
    BY PushSlots
  <2>2. CASE i = count + 1
    BY <1>n, <2>1, <2>2
  <2>3. CASE i # count + 1
    <3>1. i \in 1 .. count
      BY <1>n, <2>3
    <3>2. Slot(i) # tail
      BY <3>1, PushSlots
    <3>3. Slot(i) \in Slots
      BY <1>n, <3>1, SlotIsAt
    <3> QED
      BY <1>n, <1>2, <2>1, <2>3, <3>1, <3>2, <3>3
  <2> QED
    BY <2>2, <2>3
<1>5. \A i \in 1 .. count + 1 : items'[Slot(i)'] = Append(Contents, p)[i]
  BY <1>3, <1>4
<1>6. Append(Contents, p) = [i \in 1 .. count + 1 |-> Append(Contents, p)[i]]
  BY <1>3, SeqIsFunction
<1> QED
  BY <1>1, <1>5, <1>6

\* Pop takes the first of the contents.
LEMMA ContentsPop ==
  ASSUME TypeOK, TypeOK', PopOK
  PROVE  /\ Contents # <<>>
         /\ items[head] = Head(Contents)
         /\ Contents' = Tail(Contents)
<1>n. /\ count' = count - 1 /\ count \in 1 .. RingSize /\ RingSize \in Nat \ {0}
      /\ Slot(1) = head /\ head \in Slots
      /\ items \in [Slots -> Point \cup {Zero}] /\ items' = [items EXCEPT ![head] = Zero]
  BY PopShift, RingSizeAssumption DEF PopOK, TypeOK
<1>1. Contents' = [i \in 1 .. count - 1 |-> items'[Slot(i)']]
  BY <1>n DEF Contents
<1>2. Contents \in Seq(Point \cup {Zero}) /\ Len(Contents) = count
      /\ \A i \in 1 .. count : Contents[i] = items[Slot(i)]
  BY ContentsType
<1>3. Contents # <<>> /\ Head(Contents) = items[head]
  BY <1>n, <1>2
<1>4. Tail(Contents) = [i \in 1 .. count - 1 |-> Contents[i + 1]]
  <2>1. /\ Tail(Contents) \in Seq(Point \cup {Zero}) /\ Len(Tail(Contents)) = count - 1
        /\ \A i \in 1 .. count - 1 : Tail(Contents)[i] = Contents[i + 1]
    BY <1>2, <1>3, HeadTailProperties
  <2>2. Tail(Contents) = [i \in 1 .. count - 1 |-> Tail(Contents)[i]]
    BY <2>1, SeqIsFunction
  <2> QED
    BY <2>1, <2>2
<1>5. ASSUME NEW i \in 1 .. count - 1
      PROVE  items'[Slot(i)'] = Contents[i + 1]
  <2>1. Slot(i)' = Slot(i + 1) /\ Slot(i + 1) # head
    BY PopShift
  <2>2. i + 1 \in 1 .. count /\ i + 1 \in 1 .. RingSize
    BY <1>n
  <2>3. Slot(i + 1) \in Slots
    BY <2>2, SlotIsAt
  <2> QED
    BY <1>n, <1>2, <2>1, <2>2, <2>3
<1> QED
  BY <1>1, <1>3, <1>4, <1>5

\* A new ring is an empty queue.
LEMMA FifoInitMaps == NewRing => Fifo!FifoInit
BY DEF NewRing, Fifo!FifoInit, Fifo!Returned, Contents

\* Every call on the array is the same call on the queue of its contents.
LEMMA FifoStepMaps ==
  TypeOK /\ TypeOK' /\ [Next]_vars => [Fifo!FifoNext]_(Fifo!fifoVars)
<1> SUFFICES ASSUME TypeOK, TypeOK', [Next]_vars
             PROVE  [Fifo!FifoNext]_(Fifo!fifoVars)
  OBVIOUS
<1> USE DEF Fifo!Returned
<1>t. Contents \in Seq(Point \cup {Zero}) /\ Len(Contents) = count /\ count \in Nat
      /\ RingSize \in Nat /\ count \in 0 .. RingSize
  BY ContentsType, RingSizeAssumption DEF TypeOK
<1>u. ASSUME UNCHANGED <<items, head, tail, count>> PROVE Contents' = Contents
  BY <1>u DEF Contents, Slot
<1>1. ASSUME NEW p \in Point, PushFull(p) PROVE Fifo!Refuse(p)
  BY <1>1, <1>t, <1>u DEF PushFull, Fifo!Refuse
<1>2. ASSUME NEW p \in Point, PushOK(p) PROVE Fifo!Offer(p)
  <2>1. Contents' = Append(Contents, p)
    BY <1>2, ContentsPush
  <2> QED
    BY <1>2, <1>t, <2>1 DEF PushOK, Fifo!Offer
<1>3. ASSUME PopEmpty PROVE Fifo!PollEmpty
  <2>1. Contents = <<>>
    BY <1>3, <1>t DEF PopEmpty
  <2> QED
    BY <1>3, <1>u, <2>1 DEF PopEmpty, Fifo!PollEmpty
<1>4. ASSUME PopOK PROVE Fifo!Poll
  BY <1>4, ContentsPop DEF PopOK, Fifo!Poll
<1>5. CASE UNCHANGED vars
  BY <1>5, <1>u DEF vars, Fifo!fifoVars
<1> QED
  BY <1>1, <1>2, <1>3, <1>4, <1>5 DEF Next, Fifo!FifoNext

\* For every capacity, a caller of Push and Pop cannot tell the circular array
\* from a bounded first-in first-out queue (ring.go:36-65).
THEOREM RingImplementsFifo == Spec => FifoSpec
<1>1. Spec => []TypeOK
  BY RingTypeCorrect
<1> QED
  BY <1>1, FifoInitMaps, FifoStepMaps, PTL DEF Spec, FifoSpec, Fifo!FifoSpec
=============================================================================
