----------------------------- MODULE SenderProofs -----------------------------
(***************************************************************************)
(* What the gRPC sender keeps true for every number of points, every batch  *)
(* size, every delay, and every pattern of failures.                        *)
(*                                                                         *)
(* Every batch is a run of consecutive numbers.  The batches that got        *)
(* through form a chain: they grow in sequence number and in points, and     *)
(* two that are neighbours in sequence number are neighbours in points       *)
(* (Chained).  A stream that is dropped takes the end of the chain with it,  *)
(* a send that fails leaves a gap in the sequence numbers, and a send that   *)
(* succeeds adds the next link.  As long as no stream was dropped on a       *)
(* batch, the chain has every point that has left the batcher (Complete).    *)
(***************************************************************************)
EXTENDS Sender, SequenceTheorems, TLAPS

\* Consecutive numbers, at least one.
Run(q) == q # <<>> /\ \A k \in DOMAIN q : q[k] = q[1] + k - 1

Low(b) == b.points[1]
High(b) == b.points[Len(b.points)]

\* The batches s were sent under numbers up to n and have points up to p.
Chained(s, n, p) ==
  /\ \A i \in DOMAIN s : Run(s[i].points) /\ s[i].seq <= n /\ High(s[i]) <= p
  /\ \A i \in DOMAIN s : s[i].seq = n => High(s[i]) = p
  /\ \A i, j \in DOMAIN s : i < j =>
       /\ s[i].seq < s[j].seq
       /\ High(s[i]) < Low(s[j])
       /\ s[j].seq = s[i].seq + 1 => Low(s[j]) = High(s[i]) + 1

\* The number of points that have left the batcher.
flushed == taken - Len(batch)

\* What waits in the batcher is what was received last.
BatchIsLast == flushed \in Nat /\ \A k \in DOMAIN batch : batch[k] = flushed + k

\* Nothing that has left the batcher is missing.
Complete == clean => \A p \in 1 .. flushed : \E i \in DOMAIN Sent : p \in ToSet(Sent[i].points)

\* A stream is given up only when it is broken, and that is not clean.
CleanStreams ==
  /\ broken => ~clean
  /\ clean /\ pc \in {"connect", "failed", "wait"} => wire = <<>>

SenderInv ==
  /\ TypeOK
  /\ BatchIsLast
  /\ Chained(Sent, seqNum, flushed)
  /\ Complete
  /\ CleanStreams

-----------------------------------------------------------------------------
(* Runs and chains *)

\* The batches a sender can have made with n sends of t points.
BatchesOf(n, t) == [seq : 1 .. n, points : Seq(1 .. t)]

\* More sends and more points make more batches possible.
LEMMA BatchesGrow ==
  ASSUME NEW n \in Nat, NEW m \in Nat, NEW t \in Nat, NEW u \in Nat, n <= m, t <= u
  PROVE  BatchesOf(n, t) \subseteq BatchesOf(m, u)
<1>1. 1 .. n \subseteq 1 .. m /\ 1 .. t \subseteq 1 .. u
  OBVIOUS
<1>2. Seq(1 .. t) \subseteq Seq(1 .. u)
  BY <1>1, SeqMonotonic
<1> QED
  BY <1>1, <1>2 DEF BatchesOf

\* A run holds the numbers from its first to its last, once each and in order.
LEMMA RunNumbers ==
  ASSUME NEW t \in Nat, NEW q \in Seq(1 .. t), Run(q)
  PROVE  /\ Len(q) \in Nat \ {0} /\ DOMAIN q = 1 .. Len(q)
         /\ q[1] \in 1 .. t /\ q[Len(q)] \in 1 .. t /\ q[Len(q)] = q[1] + Len(q) - 1
         /\ \A x : x \in ToSet(q) <=> x \in q[1] .. q[Len(q)]
         /\ Increasing(q)
<1>1. Len(q) \in Nat \ {0} /\ DOMAIN q = 1 .. Len(q)
  BY EmptySeq, LenProperties DEF Run
<1>2. q[1] \in 1 .. t /\ q[Len(q)] \in 1 .. t
  <2>1. 1 \in 1 .. Len(q) /\ Len(q) \in 1 .. Len(q)
    BY <1>1
  <2> QED
    BY <2>1, ElementOfSeq
<1>3. \A k \in 1 .. Len(q) : q[k] = q[1] + k - 1
  BY <1>1 DEF Run
<1>4. q[Len(q)] = q[1] + Len(q) - 1
  BY <1>1, <1>3
<1>5. \A k \in 1 .. Len(q) : q[k] \in q[1] .. q[Len(q)]
  <2>1. PICK f, l : f = q[1] /\ l = Len(q)
    OBVIOUS
  <2>2. f \in Nat /\ l \in Nat /\ q[Len(q)] = f + l - 1
    BY ONLY <1>1, <1>2, <1>4, <2>1
  <2>3. \A k \in 1 .. l : f + k - 1 \in f .. f + l - 1
    BY ONLY <2>2
  <2> QED
    BY ONLY <1>3, <2>1, <2>2, <2>3
<1>6. ASSUME NEW x \in q[1] .. q[Len(q)]
      PROVE  x \in ToSet(q)
  <2>1. x - q[1] + 1 \in 1 .. Len(q)
    BY <1>1, <1>2, <1>4
  <2>2. q[x - q[1] + 1] = x
    BY <1>2, <1>3, <2>1
  <2> QED
    BY <1>1, <2>1, <2>2 DEF ToSet
<1>7. Increasing(q)
  BY <1>1, <1>2, <1>3 DEF Increasing
<1>8. \A x : x \in ToSet(q) <=> x \in q[1] .. q[Len(q)]
  <2>1. ToSet(q) = {q[i] : i \in 1 .. Len(q)}
    BY <1>1 DEF ToSet
  <2> QED
    BY ONLY <1>5, <1>6, <2>1
<1> QED
  BY ONLY <1>1, <1>2, <1>4, <1>7, <1>8

\* Taking the end off a chain, and spending a number without a batch, leaves a
\* chain.
LEMMA ChainCut ==
  ASSUME NEW n \in Nat, NEW p \in Nat, NEW s, NEW r, Chained(s, n, p),
         DOMAIN r \subseteq DOMAIN s, \A i \in DOMAIN r : r[i] = s[i]
  PROVE  Chained(r, n, p)
BY DEF Chained

\* A batch that was numbered and lost leaves a gap behind the chain, not in it.
LEMMA ChainGap ==
  ASSUME NEW n \in Nat, NEW t \in Nat, NEW s \in Seq(BatchesOf(n, t)),
         NEW p \in Nat, NEW q \in Nat, p <= q, p <= t, Chained(s, n, p)
  PROVE  Chained(s, n + 1, q)
<1>1. ASSUME NEW i \in DOMAIN s
      PROVE  /\ s[i].seq \in Nat /\ s[i].seq <= n /\ High(s[i]) \in Nat
  <2>1. s[i] \in BatchesOf(n, t) /\ Run(s[i].points) /\ s[i].seq <= n
    BY LenProperties, ElementOfSeq DEF Chained
  <2>2. s[i].seq \in 1 .. n /\ s[i].points \in Seq(1 .. t)
    BY <2>1 DEF BatchesOf
  <2>3. High(s[i]) \in 1 .. t
    BY <2>1, <2>2, RunNumbers DEF High
  <2> QED
    BY ONLY <2>1, <2>2, <2>3
<1>2. \A i \in DOMAIN s : s[i].seq <= n + 1 /\ High(s[i]) <= q
  BY <1>1 DEF Chained
<1>3. \A i \in DOMAIN s : s[i].seq # n + 1
  BY <1>1
<1>4. Chained(s, n, p)
  OBVIOUS
<1> QED
  BY ONLY <1>2, <1>3, <1>4 DEF Chained

\* The numbers in a chain of batches.
LEMMA ChainNumbers ==
  ASSUME NEW n \in Nat, NEW t \in Nat, NEW s \in Seq(BatchesOf(n, t)),
         NEW p \in Nat, Chained(s, n, p)
  PROVE  \A i \in DOMAIN s : s[i].seq \in 1 .. n /\ Low(s[i]) \in 1 .. t /\ High(s[i]) \in 1 .. t
<1> SUFFICES ASSUME NEW i \in DOMAIN s
             PROVE  s[i].seq \in 1 .. n /\ Low(s[i]) \in 1 .. t /\ High(s[i]) \in 1 .. t
  OBVIOUS
<1>1. s[i] \in BatchesOf(n, t) /\ Run(s[i].points)
  BY LenProperties, ElementOfSeq DEF Chained
<1>2. s[i].seq \in 1 .. n /\ s[i].points \in Seq(1 .. t)
  BY <1>1 DEF BatchesOf
<1>3. s[i].points[1] \in 1 .. t /\ s[i].points[Len(s[i].points)] \in 1 .. t
  BY <1>1, <1>2, RunNumbers
<1> QED
  BY <1>2, <1>3 DEF Low, High

\* The chain s of m batches, up to the number n and the point p, with one more
\* batch, number k, with the points behind p up to u, is r, of l batches.
Linked(s, n, p, m, r, k, u, l) ==
  /\ Chained(s, n, p) /\ k = n + 1 /\ l = m + 1
  /\ DOMAIN s = 1 .. m /\ DOMAIN r = 1 .. l
  /\ \A i \in DOMAIN s : s[i].seq \in Nat /\ High(s[i]) \in Nat
  /\ \A i \in DOMAIN s : r[i] = s[i]
  /\ p <= u /\ r[l].seq = k /\ Run(r[l].points)
  /\ Low(r[l]) = p + 1 /\ High(r[l]) = u

\* The next batch is the next link.
LEMMA ChainNext ==
  ASSUME NEW n \in Nat, NEW k \in Nat, NEW p \in Nat, NEW u \in Nat,
         NEW m \in Nat, NEW l \in Nat, NEW s, NEW r,
         Linked(s, n, p, m, r, k, u, l)
  PROVE  Chained(r, k, u)
<1>0. /\ k = n + 1 /\ Chained(s, n, p)
      /\ l = m + 1 /\ DOMAIN s = 1 .. m
      /\ \A i \in DOMAIN s : s[i].seq \in Nat /\ High(s[i]) \in Nat
      /\ DOMAIN r = 1 .. l /\ \A i \in DOMAIN s : r[i] = s[i]
      /\ p <= u /\ r[l].seq = k /\ Run(r[l].points)
      /\ Low(r[l]) = p + 1 /\ High(r[l]) = u
  BY DEF Linked
<1> USE <1>0
<1>1. ASSUME NEW i \in DOMAIN s
      PROVE  /\ r[i] = s[i] /\ Run(s[i].points)
             /\ s[i].seq \in Nat /\ s[i].seq <= n
             /\ High(s[i]) \in Nat /\ High(s[i]) <= p
             /\ s[i].seq = n => High(s[i]) = p
  BY DEF Chained
<1>2. \A i \in DOMAIN r : i \in DOMAIN s \/ i = l
  OBVIOUS
<1>3. ASSUME NEW i \in DOMAIN r
      PROVE  /\ Run(r[i].points) /\ r[i].seq <= n + 1 /\ High(r[i]) <= u
             /\ r[i].seq = n + 1 => High(r[i]) = u
  <2>1. CASE i \in DOMAIN s
    BY <1>1, <2>1
  <2>2. CASE i = l
    BY <2>2
  <2> QED
    BY <1>2, <2>1, <2>2
<1>4. ASSUME NEW i \in DOMAIN r, NEW j \in DOMAIN r, i < j
      PROVE  /\ r[i].seq < r[j].seq
             /\ High(r[i]) < Low(r[j])
             /\ r[j].seq = r[i].seq + 1 => Low(r[j]) = High(r[i]) + 1
  <2>1. i \in DOMAIN s
    BY <1>2, <1>4
  <2>2. CASE j \in DOMAIN s
    BY <1>1, <1>4, <2>1, <2>2 DEF Chained
  <2>3. CASE j = l
    <3>1. /\ r[i].seq \in Nat /\ r[i].seq <= n
          /\ High(r[i]) \in Nat /\ High(r[i]) <= p
          /\ r[i].seq = n => High(r[i]) = p
      BY <1>1, <2>1
    <3>2. \A a, h \in Nat : a <= n /\ h <= p
            => a < n + 1 /\ h < p + 1 /\ (n + 1 = a + 1 => a = n)
      OBVIOUS
    <3> QED
      BY <2>3, <3>1, <3>2
  <2> QED
    BY <1>2, <2>2, <2>3
<1> QED
  BY <1>3, <1>4 DEF Chained

-----------------------------------------------------------------------------
(* What was received, with what is on the wire behind it *)

\* What was received and what is on the wire, as one row.
LEMMA Row ==
  ASSUME NEW S, NEW r \in Seq(S), NEW w \in Seq(S), NEW s, s = r \o w
  PROVE  /\ s \in Seq(S) /\ Len(s) = Len(r) + Len(w)
         /\ Len(r) \in Nat /\ Len(w) \in Nat
         /\ DOMAIN s = 1 .. Len(r) + Len(w) /\ DOMAIN r = 1 .. Len(r)
         /\ DOMAIN r \subseteq DOMAIN s
         /\ \A i \in DOMAIN r : s[i] = r[i]
         /\ \A i \in DOMAIN s : ~ i <= Len(r) => s[i] = w[i - Len(r)]
<1>1. Len(r) \in Nat /\ Len(w) \in Nat /\ DOMAIN r = 1 .. Len(r)
  BY LenProperties
<1>2. /\ s \in Seq(S) /\ Len(s) = Len(r) + Len(w)
      /\ \A i \in 1 .. Len(r) + Len(w) : s[i] = IF i <= Len(r) THEN r[i] ELSE w[i - Len(r)]
  BY ConcatProperties
<1>3. DOMAIN s = 1 .. Len(r) + Len(w)
  BY <1>2, LenProperties
<1>4. DOMAIN r \subseteq DOMAIN s
  BY <1>1, <1>3
<1> QED
  BY <1>1, <1>2, <1>3, <1>4

\* What is delivered stays where it was in the row.
LEMMA RowDelivers ==
  ASSUME NEW S, NEW r \in Seq(S), NEW w \in Seq(S), w # <<>>
  PROVE  /\ Append(r, Head(w)) \in Seq(S) /\ Tail(w) \in Seq(S)
         /\ Append(r, Head(w)) \o Tail(w) = r \o w
<1>1. PICK q, v : q = Append(r, Head(w)) /\ v = Tail(w)
  OBVIOUS
<1>2. PICK s, u : s = r \o w /\ u = q \o v
  OBVIOUS
<1>3. /\ Head(w) \in S /\ Head(w) = w[1] /\ Len(w) \in Nat \ {0}
      /\ v \in Seq(S) /\ Len(v) = Len(w) - 1
      /\ \A i \in 1 .. Len(v) : v[i] = w[i + 1]
  BY <1>1, HeadTailProperties, EmptySeq
<1>4. /\ q \in Seq(S) /\ Len(q) = Len(r) + 1 /\ q[Len(r) + 1] = w[1]
      /\ \A i \in 1 .. Len(r) : q[i] = r[i]
  BY <1>1, <1>3, AppendProperties
<1>5. /\ s \in Seq(S) /\ Len(s) = Len(r) + Len(w) /\ Len(r) \in Nat
      /\ DOMAIN s = 1 .. Len(s) /\ DOMAIN r = 1 .. Len(r)
      /\ \A i \in DOMAIN r : s[i] = r[i]
      /\ \A i \in DOMAIN s : ~ i <= Len(r) => s[i] = w[i - Len(r)]
  BY <1>2, Row
<1>6. /\ u \in Seq(S) /\ Len(u) = Len(q) + Len(v)
      /\ DOMAIN u = 1 .. Len(u) /\ DOMAIN q = 1 .. Len(q)
      /\ \A i \in DOMAIN q : u[i] = q[i]
      /\ \A i \in DOMAIN u : ~ i <= Len(q) => u[i] = v[i - Len(q)]
  <2>1. q \in Seq(S) /\ v \in Seq(S) /\ u = q \o v
    BY <1>2, <1>3, <1>4
  <2> QED
    BY <2>1, Row
<1>7. Len(u) = Len(s)
  BY <1>3, <1>4, <1>5, <1>6
<1>8. ASSUME NEW i \in 1 .. Len(s)
      PROVE  u[i] = s[i]
  <2>1. CASE i <= Len(r)
    <3>1. i \in DOMAIN r /\ i \in DOMAIN q
      BY <1>4, <1>5, <1>6, <2>1
    <3> QED
      BY <1>4, <1>5, <1>6, <3>1
  <2>2. CASE i = Len(r) + 1
    <3>1. i \in DOMAIN q /\ i \in DOMAIN s /\ ~ i <= Len(r) /\ i - Len(r) = 1
      BY <1>4, <1>5, <1>6, <2>2
    <3> QED
      BY <1>4, <1>5, <1>6, <2>2, <3>1
  <2>3. CASE i > Len(r) + 1
    <3>1. /\ i \in DOMAIN u /\ i \in DOMAIN s /\ ~ i <= Len(r) /\ ~ i <= Len(q)
          /\ i - Len(q) \in 1 .. Len(v) /\ i - Len(q) + 1 = i - Len(r)
      BY <1>3, <1>4, <1>5, <1>6, <1>7, <2>3
    <3>2. u[i] = v[i - Len(q)] /\ s[i] = w[i - Len(r)]
      BY <1>5, <1>6, <3>1
    <3>3. v[i - Len(q)] = w[i - Len(q) + 1]
      BY <1>3, <3>1
    <3> QED
      BY <3>1, <3>2, <3>3
  <2> QED
    BY <1>5, <2>1, <2>2, <2>3
<1> QED
  BY <1>1, <1>2, <1>3, <1>4, <1>5, <1>6, <1>7, <1>8, SeqEqual

\* What is sent goes behind the row.
LEMMA RowSends ==
  ASSUME NEW S, NEW r \in Seq(S), NEW w \in Seq(S), NEW e \in S,
         NEW s, s = r \o w, NEW u, u = r \o Append(w, e)
  PROVE  /\ Append(w, e) \in Seq(S)
         /\ DOMAIN u = 1 .. Len(s) + 1 /\ u[Len(s) + 1] = e
         /\ \A i \in DOMAIN s : u[i] = s[i]
<1>1. PICK v : v = Append(w, e)
  OBVIOUS
<1>2. /\ v \in Seq(S) /\ Len(v) = Len(w) + 1 /\ v[Len(w) + 1] = e
      /\ \A i \in 1 .. Len(w) : v[i] = w[i]
  BY <1>1, AppendProperties
<1>3. /\ Len(s) = Len(r) + Len(w) /\ Len(r) \in Nat /\ Len(w) \in Nat
      /\ DOMAIN s = 1 .. Len(s) /\ DOMAIN r = 1 .. Len(r)
      /\ \A i \in DOMAIN r : s[i] = r[i]
      /\ \A i \in DOMAIN s : ~ i <= Len(r) => s[i] = w[i - Len(r)]
  BY Row
<1>4. /\ DOMAIN u = 1 .. Len(r) + Len(v)
      /\ \A i \in DOMAIN r : u[i] = r[i]
      /\ \A i \in DOMAIN u : ~ i <= Len(r) => u[i] = v[i - Len(r)]
  BY <1>1, <1>2, Row
<1>5. DOMAIN u = 1 .. Len(s) + 1
  BY <1>2, <1>3, <1>4
<1>6. u[Len(s) + 1] = e
  <2>1. Len(s) + 1 \in DOMAIN u /\ ~ Len(s) + 1 <= Len(r) /\ Len(s) + 1 - Len(r) = Len(w) + 1
    BY <1>3, <1>5
  <2> QED
    BY <1>2, <1>4, <2>1
<1>7. ASSUME NEW i \in DOMAIN s
      PROVE  u[i] = s[i]
  <2>1. CASE i <= Len(r)
    BY <1>3, <1>4, <2>1
  <2>2. CASE ~ i <= Len(r)
    <3>1. i \in DOMAIN u /\ i - Len(r) \in 1 .. Len(w)
      BY <1>3, <1>5, <2>2
    <3> QED
      BY <1>2, <1>3, <1>4, <2>2, <3>1
  <2> QED
    BY <2>1, <2>2
<1> QED
  BY <1>1, <1>2, <1>5, <1>6, <1>7

-----------------------------------------------------------------------------
(* Steps *)

\* The batches the sender can have made, in the names of the model.
LEMMA BatchesAre == Batches = BatchesOf(seqNum, taken) /\ Batches' = BatchesOf(seqNum', taken')
BY DEF Batches, BatchesOf

\* What the chain says is about the row of batches, the numbers spent and the
\* points that left the batcher, and about nothing else.
LEMMA RowStays ==
  ASSUME SenderInv, Sent' = Sent, UNCHANGED <<taken, batch, seqNum, clean>>
  PROVE  BatchIsLast' /\ Chained(Sent, seqNum, flushed)' /\ Complete'
<1>1. flushed' = flushed
  BY DEF flushed
<1> QED
  BY <1>1 DEF SenderInv, BatchIsLast, Complete

\* Dropping the wire cuts the chain.
LEMMA RowCut ==
  ASSUME SenderInv, wire' = <<>>, UNCHANGED <<taken, batch, seqNum, received>>,
         clean' => clean /\ wire = <<>>
  PROVE  /\ wire' \in Seq(Batches') /\ received' \in Seq(Batches')
         /\ BatchIsLast' /\ Chained(Sent, seqNum, flushed)' /\ Complete'
<1>1. received \in Seq(Batches) /\ wire \in Seq(Batches) /\ Batches' = Batches
      /\ flushed' = flushed /\ flushed \in Nat /\ seqNum \in Nat
  BY DEF SenderInv, TypeOK, Batches, flushed, BatchIsLast
<1>2. Sent = received \o wire /\ Sent' = received
  BY <1>1, ConcatEmptySeq DEF Sent
<1>3. DOMAIN received \subseteq DOMAIN Sent /\ \A i \in DOMAIN received : received[i] = Sent[i]
  BY <1>1, <1>2, Row
<1>4. Chained(received, seqNum, flushed)
  BY <1>1, <1>3, ChainCut DEF SenderInv
<1>5. Complete'
  <2> SUFFICES ASSUME clean' PROVE Complete'
    BY DEF Complete
  <2>1. Sent = received
    BY <1>1, <1>2, ConcatEmptySeq
  <2> QED
    BY <1>1, <1>2, <2>1 DEF SenderInv, Complete
<1> QED
  BY <1>1, <1>2, <1>4, <1>5, EmptySeq DEF SenderInv, BatchIsLast

\* The batch q leaves the batcher: it is the next link, or a gap.
LEMMA RowGrows ==
  ASSUME SenderInv, taken' \in 0 .. MaxPoints, taken <= taken', UNCHANGED <<received, clean, broken>>,
         NEW q \in Seq(1 .. taken'), q # <<>>, \A k \in DOMAIN q : q[k] = flushed + k,
         taken' = flushed + Len(q), batch' = <<>>,
         SendOK(q) \/ SendFails(q)
  PROVE  /\ seqNum' \in Nat /\ batch' \in Seq(1 .. taken') /\ Len(batch') < BatchSize
         /\ wire' \in Seq(Batches') /\ received' \in Seq(Batches')
         /\ BatchIsLast' /\ Chained(Sent, seqNum, flushed)' /\ Complete'
         /\ SendFails(q) => broken
<1>1. /\ received \in Seq(Batches) /\ wire \in Seq(Batches)
      /\ seqNum \in Nat /\ taken \in Nat /\ taken' \in Nat /\ flushed \in Nat
      /\ Chained(Sent, seqNum, flushed)
  BY SenderAssumption DEF SenderInv, TypeOK, BatchIsLast
<1>2. seqNum' = seqNum + 1 /\ seqNum' \in Nat
  BY <1>1 DEF SendOK, SendFails
<1>3. Len(q) \in Nat \ {0} /\ DOMAIN q = 1 .. Len(q)
  BY EmptySeq, LenProperties
<1>4. flushed <= taken
  <2>1. Len(batch) \in Nat
    BY LenProperties DEF SenderInv, TypeOK
  <2> QED
    BY <1>1, <2>1 DEF flushed
<1>5. /\ batch' \in Seq(1 .. taken') /\ Len(batch') = 0 /\ Len(batch') < BatchSize
      /\ flushed' = taken' /\ BatchIsLast'
  <2>1. Len(<<>>) = 0 /\ <<>> \in Seq(1 .. taken') /\ DOMAIN <<>> = {}
    BY EmptySeq
  <2> QED
    BY <1>1, <2>1, SenderAssumption DEF flushed, BatchIsLast
<1>6. Batches \subseteq Batches'
  BY <1>1, <1>2, BatchesAre, BatchesGrow
<1>7. received' \in Seq(Batches') /\ wire \in Seq(Batches')
  BY <1>1, <1>6, SeqMonotonic
<1>8. Sent \in Seq(Batches)
  <2>1. Sent = received \o wire
    BY DEF Sent
  <2> QED
    BY <1>1, <2>1, Row
<1>9. CASE SendFails(q)
  <2>1. wire' = wire /\ broken
    BY <1>9 DEF SendFails
  <2>2. Sent' = Sent
    BY <2>1 DEF Sent
  <2>3. ~clean'
    BY <2>1 DEF SenderInv, CleanStreams
  <2>4. Chained(Sent, seqNum + 1, taken')
    <3>1. Chained(Sent, seqNum, flushed) /\ Sent \in Seq(BatchesOf(seqNum, taken))
      BY <1>1, <1>8, BatchesAre
    <3>2. flushed <= taken'
      BY <1>1, <1>3
    <3> QED
      BY <1>1, <1>4, <3>1, <3>2, ChainGap
  <2> QED
    BY <1>2, <1>5, <1>7, <2>1, <2>2, <2>3, <2>4 DEF Complete
<1>10. CASE SendOK(q)
  <2>1. PICK b : b = [seq |-> seqNum + 1, points |-> q]
    OBVIOUS
  <2>2. wire' = Append(wire, b)
    BY <1>2, <1>10, <2>1 DEF SendOK
  <2>3. b \in Batches'
    BY <1>1, <1>2, <2>1 DEF Batches
  <2>4. Sent = received \o wire /\ Sent' = received \o Append(wire, b)
    BY <2>2 DEF Sent
  <2>5. received \in Seq(Batches')
    BY <1>7
  <2>6. /\ wire' \in Seq(Batches')
        /\ DOMAIN Sent' = 1 .. Len(Sent) + 1 /\ Sent'[Len(Sent) + 1] = b
        /\ \A i \in DOMAIN Sent : Sent'[i] = Sent[i]
    <3>1. wire \in Seq(Batches')
      BY <1>7
    <3>2. PICK s, u : s = Sent /\ u = Sent'
      OBVIOUS
    <3>3. PICK S : S = Batches'
      OBVIOUS
    <3>4. /\ s = received \o wire /\ u = received \o Append(wire, b)
          /\ received \in Seq(S) /\ wire \in Seq(S) /\ b \in S
      BY <2>3, <2>4, <2>5, <3>1, <3>2, <3>3
    <3>5. /\ Append(wire, b) \in Seq(S)
          /\ DOMAIN u = 1 .. Len(s) + 1 /\ u[Len(s) + 1] = b
          /\ \A i \in DOMAIN s : u[i] = s[i]
      BY ONLY <3>4, RowSends
    <3> QED
      BY ONLY <2>2, <3>2, <3>3, <3>5
  <2>7. Chained(Sent', seqNum + 1, taken')
    <3>1. Sent \in Seq(BatchesOf(seqNum, taken))
      BY <1>8, BatchesAre
    <3>2. \A i \in DOMAIN Sent : Sent[i].seq \in 1 .. seqNum /\ High(Sent[i]) \in 1 .. taken
      BY <1>1, <3>1, ChainNumbers
    <3>3. \A i \in DOMAIN Sent : Sent[i].seq \in Nat /\ High(Sent[i]) \in Nat
      BY <3>2
    <3>4. Len(Sent) \in Nat /\ DOMAIN Sent = 1 .. Len(Sent)
      BY <1>8, LenProperties
    <3>5. /\ Sent'[Len(Sent) + 1].seq = seqNum + 1
          /\ Run(Sent'[Len(Sent) + 1].points)
          /\ Low(Sent'[Len(Sent) + 1]) = flushed + 1
          /\ High(Sent'[Len(Sent) + 1]) = taken'
      <4>1. 1 \in DOMAIN q /\ Len(q) \in DOMAIN q
        BY <1>3
      <4>2. q[1] = flushed + 1 /\ q[Len(q)] = flushed + Len(q)
        BY <4>1
      <4>3. Run(q)
        <5>1. \A k \in DOMAIN q : q[k] = q[1] + k - 1
          BY <1>1, <1>3, <4>2
        <5> QED
          BY <5>1 DEF Run
      <4>4. b.seq = seqNum + 1 /\ b.points = q
        BY <2>1
      <4> QED
        BY <2>6, <4>2, <4>3, <4>4 DEF Low, High
    <3>6. flushed <= taken'
      BY <1>1, <1>3
    <3>7. PICK n \in Nat, p \in Nat, u \in Nat, k \in Nat, m \in Nat, l \in Nat :
            /\ n = seqNum /\ p = flushed /\ u = taken' /\ k = seqNum + 1
            /\ m = Len(Sent) /\ l = Len(Sent) + 1
      <4>1. /\ seqNum \in Nat /\ flushed \in Nat /\ taken' \in Nat /\ seqNum + 1 \in Nat
            /\ Len(Sent) \in Nat /\ Len(Sent) + 1 \in Nat
        BY <1>1, <3>4
      <4> QED
        BY ONLY <4>1, Zenon
    <3>8. PICK s, r : s = Sent /\ r = Sent'
      OBVIOUS
    <3>9. Linked(s, n, p, m, r, k, u, l)
      <4>1. Chained(s, n, p)
        BY <1>1, <3>7, <3>8
      <4>2. k = n + 1 /\ l = m + 1 /\ p <= u
        BY ONLY <3>6, <3>7
      <4>3. DOMAIN s = 1 .. m /\ DOMAIN r = 1 .. l
        BY ONLY <2>6, <3>4, <3>7, <3>8
      <4>4. /\ \A i \in DOMAIN s : s[i].seq \in Nat /\ High(s[i]) \in Nat
            /\ \A i \in DOMAIN s : r[i] = s[i]
        BY ONLY <2>6, <3>3, <3>8
      <4>5. r[l].seq = k /\ Run(r[l].points) /\ Low(r[l]) = p + 1 /\ High(r[l]) = u
        BY ONLY <3>5, <3>7, <3>8
      <4> QED
        BY ONLY <4>1, <4>2, <4>3, <4>4, <4>5 DEF Linked
    <3>10. Chained(r, k, u)
      BY <3>9, ChainNext
    <3> QED
      BY <3>7, <3>8, <3>10
  <2>8. Complete'
    <3> SUFFICES ASSUME clean', NEW p \in 1 .. taken'
                 PROVE  \E i \in DOMAIN Sent' : p \in ToSet(Sent'[i].points)
      BY <1>5 DEF Complete
    <3>0. Len(Sent) \in Nat /\ DOMAIN Sent = 1 .. Len(Sent)
      BY <1>8, LenProperties
    <3>1. CASE p <= flushed
      <4>1. PICK i \in DOMAIN Sent : p \in ToSet(Sent[i].points)
        BY <1>1, <3>1 DEF SenderInv, Complete
      <4> QED
        BY <2>6, <3>0, <4>1
    <3>2. CASE ~ p <= flushed
      <4>1. p - flushed \in DOMAIN q /\ q[p - flushed] = p
        <5>1. p \in Nat /\ p <= flushed + Len(q)
          BY <1>1
        <5>2. p - flushed \in 1 .. Len(q) /\ flushed + (p - flushed) = p
          BY <1>1, <1>3, <3>2, <5>1
        <5> QED
          BY <1>3, <5>2
      <4>2. p \in ToSet(q)
        BY <4>1 DEF ToSet
      <4>3. Len(Sent) + 1 \in DOMAIN Sent' /\ Sent'[Len(Sent) + 1].points = q
        BY <2>1, <2>6, <3>0
      <4> QED
        BY <4>2, <4>3
    <3> QED
      BY <3>1, <3>2
  <2> QED
    BY <1>2, <1>5, <1>7, <2>6, <2>7, <2>8 DEF SendFails, SendOK
<1> QED
  BY <1>9, <1>10

\* Steps that touch neither a batch nor the stream.
LEMMA QuietKeeps ==
  ASSUME SenderInv,
         \/ ConnectFails \/ AckStreamDies \/ Failed \/ WaitOver \/ WaitCancelled
         \/ Cancel \/ CloseInput \/ UNCHANGED vars
  PROVE  SenderInv'
<1>1. UNCHANGED <<taken, batch, seqNum, broken, wire, received, clean>>
  BY DEF ConnectFails, AckStreamDies, Failed, WaitOver, WaitCancelled, Cancel, CloseInput, vars,
         counters, network
<1>2. Sent' = Sent /\ Batches' = Batches
  BY <1>1 DEF Sent, Batches
<1>3. BatchIsLast' /\ Chained(Sent, seqNum, flushed)' /\ Complete'
  BY <1>1, <1>2, RowStays
<1>4. /\ pc' \in {"connect", "stream", "failed", "wait", "stopped"}
      /\ connected' <=> pc' = "stream"
  BY DEF ConnectFails, AckStreamDies, Failed, WaitOver, WaitCancelled, Cancel, CloseInput, vars,
         Fail, SenderInv, TypeOK
<1>5. backoff' \in InitialBackoff .. MaxBackoff
  <2>1. backoff \in InitialBackoff .. MaxBackoff
    BY DEF SenderInv, TypeOK
  <2>2. CASE WaitOver
    BY <2>1, <2>2, SenderAssumption DEF WaitOver
  <2>3. CASE ~WaitOver
    <3>1. backoff' = backoff
      BY <2>3 DEF ConnectFails, AckStreamDies, Failed, WaitCancelled, Cancel, CloseInput, vars, retry
    <3> QED
      BY <2>1, <3>1
  <2> QED
    BY <2>2, <2>3
<1>6. TypeOK'
  BY <1>1, <1>2, <1>4, <1>5 DEF SenderInv, TypeOK
<1>7. CleanStreams'
  BY <1>1 DEF ConnectFails, AckStreamDies, Failed, WaitOver, WaitCancelled, Cancel, CloseInput,
              vars, Fail, SenderInv, CleanStreams
<1> QED
  BY <1>3, <1>6, <1>7 DEF SenderInv

\* A delivery moves a batch along the row.
LEMMA DeliverKeeps ==
  ASSUME SenderInv, Deliver
  PROVE  SenderInv'
<1>1. /\ wire # <<>> /\ received' = Append(received, Head(wire)) /\ wire' = Tail(wire)
      /\ UNCHANGED <<taken, batch, seqNum, connected, pc, backoff, broken, clean>>
  BY DEF Deliver, counters, retry
<1>2. received \in Seq(Batches) /\ wire \in Seq(Batches) /\ Batches' = Batches
  BY <1>1 DEF SenderInv, TypeOK, Batches
<1>3. received' \in Seq(Batches') /\ wire' \in Seq(Batches') /\ Sent' = Sent
  BY <1>1, <1>2, RowDelivers DEF Sent
<1>4. BatchIsLast' /\ Chained(Sent, seqNum, flushed)' /\ Complete'
  BY <1>1, <1>3, RowStays
<1>5. TypeOK'
  BY <1>1, <1>3 DEF SenderInv, TypeOK
<1>6. CleanStreams'
  BY <1>1 DEF SenderInv, CleanStreams
<1> QED
  BY <1>4, <1>5, <1>6 DEF SenderInv

\* A stream that is broken, closed or replaced takes what it held with it.
LEMMA DropKeeps ==
  ASSUME SenderInv, Connect \/ Break \/ CloseDrops
  PROVE  SenderInv'
<1>1. /\ wire' = <<>> /\ UNCHANGED <<taken, batch, seqNum, received, backoff>>
  BY DEF Connect, Break, CloseDrops, counters, retry
<1>2. clean' => clean /\ wire = <<>>
  BY DEF Connect, Break, CloseDrops, SenderInv, CleanStreams
<1>3. /\ wire' \in Seq(Batches') /\ received' \in Seq(Batches')
      /\ BatchIsLast' /\ Chained(Sent, seqNum, flushed)' /\ Complete'
  BY <1>1, <1>2, RowCut
<1>4. TypeOK'
  BY <1>1, <1>3 DEF Connect, Break, CloseDrops, SenderInv, TypeOK
<1>5. CleanStreams'
  BY <1>1 DEF Connect, Break, CloseDrops, SenderInv, CleanStreams
<1> QED
  BY <1>3, <1>4, <1>5 DEF SenderInv

\* A point joins the batch, or fills it.
LEMMA ReceiveKeeps ==
  ASSUME SenderInv, ReceivePoint
  PROVE  SenderInv'
<1>1. PICK q : q = Append(batch, taken + 1)
  OBVIOUS
<1>2. /\ pc = "stream" /\ taken' = taken + 1 /\ taken < MaxPoints
      /\ IF Len(q) >= BatchSize
           THEN batch' = <<>> /\ Flush(q)
           ELSE batch' = q /\ NothingSent /\ Stay
      /\ UNCHANGED <<backoff, broken, received, clean>>
  BY <1>1 DEF ReceivePoint
<1>3. taken \in Nat /\ taken' \in Nat /\ taken' \in 0 .. MaxPoints /\ flushed \in Nat
  BY <1>2, SenderAssumption DEF SenderInv, TypeOK, BatchIsLast
<1>4. batch \in Seq(1 .. taken') /\ Len(batch) \in Nat /\ DOMAIN batch = 1 .. Len(batch)
  <2>1. 1 .. taken \subseteq 1 .. taken'
    BY <1>2, <1>3
  <2> QED
    BY <2>1, SeqMonotonic, LenProperties DEF SenderInv, TypeOK
<1>5. /\ q \in Seq(1 .. taken') /\ Len(q) = Len(batch) + 1 /\ DOMAIN q = 1 .. Len(q)
      /\ q[Len(batch) + 1] = taken + 1 /\ \A k \in 1 .. Len(batch) : q[k] = batch[k]
  <2>1. taken + 1 \in 1 .. taken'
    BY <1>2, <1>3
  <2> QED
    BY <1>1, <1>4, <2>1, AppendProperties, LenProperties
<1>6. taken' = flushed + Len(q) /\ taken + 1 = flushed + (Len(batch) + 1)
  BY <1>2, <1>3, <1>4, <1>5 DEF flushed
<1>7. \A k \in DOMAIN q : q[k] = flushed + k
  <2>1. \A k \in DOMAIN q : k \in 1 .. Len(batch) \/ k = Len(batch) + 1
    BY <1>4, <1>5
  <2>2. \A k \in 1 .. Len(batch) : q[k] = flushed + k
    BY <1>4, <1>5 DEF SenderInv, BatchIsLast
  <2>3. q[Len(batch) + 1] = flushed + (Len(batch) + 1)
    BY <1>5, <1>6
  <2> QED
    BY <2>1, <2>2, <2>3
<1>8. CASE Len(q) >= BatchSize
  <2>1. batch' = <<>> /\ Flush(q)
    BY <1>2, <1>8
  <2>2. q # <<>> /\ taken <= taken'
    BY <1>2, <1>3, <1>4, <1>5, EmptySeq
  <2>3. SendOK(q) \/ SendFails(q)
    BY <2>1 DEF Flush
  <2>4. /\ seqNum' \in Nat /\ batch' \in Seq(1 .. taken') /\ Len(batch') < BatchSize
        /\ wire' \in Seq(Batches') /\ received' \in Seq(Batches')
        /\ BatchIsLast' /\ Chained(Sent, seqNum, flushed)' /\ Complete'
        /\ SendFails(q) => broken
    BY <1>2, <1>3, <1>5, <1>6, <1>7, <2>1, <2>2, <2>3, RowGrows
  <2>5. /\ pc' \in {"stream", "failed"} /\ (connected' <=> pc' = "stream")
        /\ pc' = "failed" => broken
    BY <1>2, <2>1, <2>4 DEF Flush, Stay, Fail, SenderInv, TypeOK
  <2>6. TypeOK'
    BY <1>2, <1>3, <2>4, <2>5 DEF SenderInv, TypeOK
  <2>7. CleanStreams'
    BY <1>2, <2>5 DEF SenderInv, CleanStreams
  <2> QED
    BY <2>4, <2>6, <2>7 DEF SenderInv
<1>9. CASE ~ Len(q) >= BatchSize
  <2>1. batch' = q /\ UNCHANGED <<seqNum, wire, pc, connected>>
    BY <1>2, <1>9 DEF NothingSent, Stay
  <2>2. Sent' = Sent /\ flushed' = flushed
    BY <1>2, <1>3, <1>6, <2>1, <1>5 DEF Sent, flushed
  <2>3. Batches \subseteq Batches'
    <3>1. seqNum \in Nat /\ seqNum' = seqNum /\ taken <= taken' /\ seqNum <= seqNum
      BY <1>2, <1>3, <2>1 DEF SenderInv, TypeOK
    <3> QED
      BY <1>3, <3>1, BatchesAre, BatchesGrow
  <2>4. received' \in Seq(Batches') /\ wire' \in Seq(Batches')
    BY <1>2, <2>1, <2>3, SeqMonotonic DEF SenderInv, TypeOK
  <2>5. Len(q) < BatchSize
    BY <1>4, <1>5, <1>9, SenderAssumption
  <2>6. TypeOK'
    BY <1>2, <1>3, <1>5, <2>1, <2>4, <2>5 DEF SenderInv, TypeOK
  <2>7. BatchIsLast'
    BY <1>3, <1>7, <2>1, <2>2 DEF BatchIsLast
  <2>8. Chained(Sent, seqNum, flushed)' /\ Complete'
    BY <1>2, <2>1, <2>2 DEF SenderInv, Complete
  <2>9. CleanStreams'
    BY <1>2, <2>1 DEF SenderInv, CleanStreams
  <2> QED
    BY <2>6, <2>7, <2>8, <2>9 DEF SenderInv
<1> QED
  BY <1>8, <1>9

\* A partial batch is flushed by the ticker, and by the end of the run.
LEMMA FlushKeeps ==
  ASSUME SenderInv, Tick \/ FinalFlush
  PROVE  SenderInv'
<1>1. /\ batch' = <<>> /\ UNCHANGED <<taken, backoff, broken, received, clean>>
      /\ pc = "stream" /\ pc' \in {"stream", "failed", "stopped"}
      /\ connected' <=> pc' = "stream"
  BY DEF Tick, FinalFlush, Flush, Fail, Stay, retry, SenderInv, TypeOK
<1>2. /\ batch \in Seq(1 .. taken) /\ Len(batch) \in Nat /\ taken \in 0 .. MaxPoints
      /\ taken \in Nat /\ flushed \in Nat
  BY LenProperties, SenderAssumption DEF SenderInv, TypeOK, BatchIsLast
<1>3. CASE batch # <<>>
  <2>1. SendOK(batch) \/ SendFails(batch)
    BY <1>3 DEF Tick, FinalFlush, Flush
  <2>2. /\ batch \in Seq(1 .. taken') /\ taken' \in 0 .. MaxPoints /\ taken <= taken'
        /\ taken' = flushed + Len(batch)
        /\ \A k \in DOMAIN batch : batch[k] = flushed + k
    BY <1>1, <1>2 DEF flushed, SenderInv, BatchIsLast
  <2>3. /\ seqNum' \in Nat /\ batch' \in Seq(1 .. taken') /\ Len(batch') < BatchSize
        /\ wire' \in Seq(Batches') /\ received' \in Seq(Batches')
        /\ BatchIsLast' /\ Chained(Sent, seqNum, flushed)' /\ Complete'
        /\ SendFails(batch) => broken
    BY <1>1, <1>3, <2>1, <2>2, RowGrows
  <2>4. TypeOK'
    BY <1>1, <2>2, <2>3 DEF SenderInv, TypeOK
  <2>5. pc' = "failed" => broken
    BY <1>1, <2>3 DEF Tick, FinalFlush, Flush, Stay
  <2>6. CleanStreams'
    BY <1>1, <2>5 DEF SenderInv, CleanStreams
  <2> QED
    BY <2>3, <2>4, <2>6 DEF SenderInv
<1>4. CASE batch = <<>>
  <2>1. UNCHANGED <<taken, batch, seqNum, broken, wire, received, clean, backoff>> /\ pc' = "stopped"
    BY <1>1, <1>4 DEF Tick, FinalFlush, NothingSent
  <2>2. Sent' = Sent /\ Batches' = Batches
    BY <2>1 DEF Sent, Batches
  <2>3. BatchIsLast' /\ Chained(Sent, seqNum, flushed)' /\ Complete'
    BY <2>1, <2>2, RowStays
  <2>4. TypeOK'
    BY <1>1, <2>1, <2>2 DEF SenderInv, TypeOK
  <2>5. CleanStreams'
    BY <2>1 DEF SenderInv, CleanStreams
  <2> QED
    BY <2>3, <2>4, <2>5 DEF SenderInv
<1> QED
  BY <1>3, <1>4

-----------------------------------------------------------------------------
(* Theorems *)

\* The sender starts with nothing sent.
LEMMA SenderStarts == Init => SenderInv
<1> SUFFICES ASSUME Init PROVE SenderInv
  OBVIOUS
<1>1. /\ taken = 0 /\ batch = <<>> /\ seqNum = 0 /\ received = <<>> /\ wire = <<>>
      /\ broken = FALSE /\ clean = TRUE /\ backoff = InitialBackoff
  BY DEF Init
<1>2. /\ <<>> \in Seq(1 .. taken) /\ <<>> \in Seq(Batches) /\ Len(<<>>) = 0
      /\ <<>> \o <<>> = <<>> /\ DOMAIN <<>> = {}
  BY EmptySeq, ConcatEmptySeq
<1>3. Sent = <<>> /\ flushed = 0
  <2>1. Sent = <<>>
    BY <1>1, <1>2 DEF Sent
  <2>2. flushed = 0 - 0
    BY <1>1, <1>2 DEF flushed
  <2> QED
    BY <2>1, <2>2
<1>4. TypeOK
  <2>1. 0 \in 0 .. MaxPoints /\ 0 < BatchSize /\ InitialBackoff \in InitialBackoff .. MaxBackoff
    BY SenderAssumption
  <2> QED
    BY <1>1, <1>2, <2>1 DEF Init, TypeOK
<1>5. BatchIsLast /\ Chained(Sent, seqNum, flushed) /\ Complete
  BY <1>1, <1>2, <1>3 DEF BatchIsLast, Chained, Complete
<1>6. CleanStreams
  BY <1>1 DEF CleanStreams
<1> QED
  BY <1>4, <1>5, <1>6 DEF SenderInv

\* Every step keeps the invariant.
LEMMA SenderSteps == SenderInv /\ [Next]_vars => SenderInv'
BY QuietKeeps, DeliverKeeps, DropKeeps, ReceiveKeeps, FlushKeeps DEF Next, SendLoop, Stopped

\* What the invariant says of each batch that got through.
LEMMA BatchFacts ==
  ASSUME SenderInv, NEW i \in DOMAIN Sent
  PROVE  LET q == Sent[i].points
         IN  /\ Increasing(q) /\ q # <<>>
             /\ Low(Sent[i]) \in Nat /\ High(Sent[i]) \in Nat /\ High(Sent[i]) <= flushed
             /\ \A x \in ToSet(q) : x \in Low(Sent[i]) .. High(Sent[i])
<1>1. /\ received \in Seq(Batches) /\ wire \in Seq(Batches) /\ taken \in Nat
      /\ Sent = received \o wire
  BY SenderAssumption DEF SenderInv, TypeOK, Sent
<1>2. Sent \in Seq(Batches)
  BY <1>1, Row
<1>3. Sent[i] \in Batches /\ Run(Sent[i].points) /\ High(Sent[i]) <= flushed
  BY <1>2, LenProperties, ElementOfSeq DEF SenderInv, Chained
<1>4. PICK q \in Seq(1 .. taken) : q = Sent[i].points
  BY <1>3 DEF Batches
<1>5. /\ q[1] \in 1 .. taken /\ q[Len(q)] \in 1 .. taken
      /\ \A x : x \in ToSet(q) <=> x \in q[1] .. q[Len(q)]
      /\ Increasing(q)
  BY <1>1, <1>3, <1>4, RunNumbers
<1>6. Low(Sent[i]) = q[1] /\ High(Sent[i]) = q[Len(q)]
  BY <1>4 DEF Low, High
<1>7. Low(Sent[i]) \in Nat /\ High(Sent[i]) \in Nat
  BY <1>5, <1>6
<1> QED
  BY <1>3, <1>4, <1>5, <1>6, <1>7 DEF Run

\* The invariant gives the order of what the platform receives.
LEMMA SenderMeansOrder == SenderInv => ReceivedInOrder
<1> SUFFICES ASSUME SenderInv PROVE ReceivedInOrder
  OBVIOUS
<1>1. /\ flushed \in Nat /\ DOMAIN batch = 1 .. Len(batch) /\ Len(batch) \in Nat
      /\ \A k \in DOMAIN batch : batch[k] = flushed + k
  BY LenProperties DEF SenderInv, TypeOK, BatchIsLast
<1>2. ASSUME NEW x \in ToSet(batch)
      PROVE  x \in Nat /\ flushed < x
  <2>1. PICK k \in DOMAIN batch : x = batch[k]
    BY DEF ToSet
  <2> QED
    BY <1>1, <2>1
<1>3. Increasing(batch)
  <2>1. ASSUME NEW k \in DOMAIN batch, NEW l \in DOMAIN batch, k < l
        PROVE  batch[k] < batch[l]
    BY <1>1, <2>1
  <2> QED
    BY <2>1 DEF Increasing
<1>4. ASSUME NEW i \in DOMAIN Sent
      PROVE  Increasing(Sent[i].points) /\ Precedes(Sent[i].points, batch)
  <2>1. /\ Increasing(Sent[i].points)
        /\ High(Sent[i]) \in Nat /\ High(Sent[i]) <= flushed /\ Low(Sent[i]) \in Nat
        /\ \A x \in ToSet(Sent[i].points) : x \in Low(Sent[i]) .. High(Sent[i])
    BY BatchFacts
  <2>2. ASSUME NEW x \in ToSet(Sent[i].points), NEW y \in ToSet(batch)
        PROVE  x < y
    BY <1>1, <1>2, <2>1
  <2> QED
    BY <2>1, <2>2 DEF Precedes
<1>5. ASSUME NEW i \in DOMAIN Sent, NEW j \in DOMAIN Sent, i < j
      PROVE  Sent[i].seq < Sent[j].seq /\ Precedes(Sent[i].points, Sent[j].points)
  <2>1. Sent[i].seq < Sent[j].seq /\ High(Sent[i]) < Low(Sent[j])
    BY <1>5 DEF SenderInv, Chained
  <2>2. /\ High(Sent[i]) \in Nat /\ Low(Sent[i]) \in Nat
        /\ \A x \in ToSet(Sent[i].points) : x \in Low(Sent[i]) .. High(Sent[i])
    BY BatchFacts
  <2>3. /\ High(Sent[j]) \in Nat /\ Low(Sent[j]) \in Nat
        /\ \A x \in ToSet(Sent[j].points) : x \in Low(Sent[j]) .. High(Sent[j])
    BY BatchFacts
  <2>4. ASSUME NEW x \in ToSet(Sent[i].points), NEW y \in ToSet(Sent[j].points)
        PROVE  x < y
    BY <2>1, <2>2, <2>3
  <2> QED
    BY <2>1, <2>4 DEF Precedes
<1> QED
  BY <1>3, <1>4, <1>5 DEF ReceivedInOrder

\* The invariant gives what a gap means, and when there can be one.
LEMMA SenderMeansVisible == SenderInv => LossesVisible
<1> SUFFICES ASSUME SenderInv PROVE LossesVisible
  OBVIOUS
<1>1. GapsShowLosses
  <2> SUFFICES ASSUME NEW i \in 2 .. Len(received), received[i].seq = received[i - 1].seq + 1
               PROVE  Head(received[i].points) = Last(received[i - 1].points) + 1
    BY DEF GapsShowLosses
  <2>1. /\ received \in Seq(Batches) /\ wire \in Seq(Batches) /\ Sent = received \o wire
    BY DEF SenderInv, TypeOK, Sent
  <2>2. /\ DOMAIN received = 1 .. Len(received) /\ Len(received) \in Nat
        /\ DOMAIN received \subseteq DOMAIN Sent
        /\ \A k \in DOMAIN received : Sent[k] = received[k]
    BY <2>1, Row
  <2>3. i \in DOMAIN received /\ i - 1 \in DOMAIN received /\ i - 1 < i
    BY <2>2
  <2>4. Low(Sent[i]) = High(Sent[i - 1]) + 1
    BY <2>2, <2>3 DEF SenderInv, Chained
  <2>5. Head(Sent[i].points) = Low(Sent[i])
    <3>1. i \in DOMAIN Sent
      BY <2>2, <2>3
    <3>2. Sent[i].points # <<>> /\ Sent[i].points \in Seq(1 .. taken)
      <4>1. Sent \in Seq(Batches)
        BY <2>1, Row
      <4>2. Sent[i] \in Batches
        BY <3>1, <4>1, LenProperties, ElementOfSeq
      <4> QED
        BY <3>1, <4>2, BatchFacts DEF Batches
    <3> QED
      BY <3>2, HeadTailProperties DEF Low
  <2> QED
    BY <2>2, <2>3, <2>4, <2>5 DEF High, Last
<1>2. LossNeedsFailure
  <2> SUFFICES ASSUME clean, NEW p \in 1 .. taken
               PROVE  \/ p \in ToSet(batch)
                      \/ \E i \in DOMAIN Sent : p \in ToSet(Sent[i].points)
    BY DEF LossNeedsFailure
  <2>1. /\ flushed \in Nat /\ DOMAIN batch = 1 .. Len(batch) /\ Len(batch) \in Nat
        /\ \A k \in DOMAIN batch : batch[k] = flushed + k
        /\ taken \in Nat /\ taken = flushed + Len(batch)
    BY LenProperties, SenderAssumption DEF SenderInv, TypeOK, BatchIsLast, flushed
  <2>2. CASE p <= flushed
    <3>1. p \in 1 .. flushed
      BY <2>1, <2>2
    <3> QED
      BY <3>1 DEF SenderInv, Complete
  <2>3. CASE ~ p <= flushed
    <3>1. p - flushed \in DOMAIN batch /\ flushed + (p - flushed) = p
      BY <2>1, <2>3
    <3>2. batch[p - flushed] = p
      BY <2>1, <3>1
    <3> QED
      BY <3>1, <3>2 DEF ToSet
  <2> QED
    BY <2>2, <2>3
<1> QED
  BY <1>1, <1>2 DEF LossesVisible

\* The inductive invariant holds in every state.
THEOREM SenderAlways == Spec => []SenderInv
<1>1. Init => SenderInv
  BY SenderStarts
<1>2. SenderInv /\ [Next]_vars => SenderInv'
  BY SenderSteps
<1> QED
  BY <1>1, <1>2, PTL DEF Spec

\* The variables keep their types: the batch stays below its size, the delay
\* between its bounds, and the buffer is told of a connection exactly while one
\* is up.
THEOREM SenderTypes == Spec => []TypeOK
<1>1. SenderInv => TypeOK
  BY DEF SenderInv
<1> QED
  BY <1>1, SenderAlways, PTL

\* Numbers and points arrive in order and once, over every reconnection.
THEOREM SenderInOrder == Spec => []ReceivedInOrder
BY SenderMeansOrder, SenderAlways, PTL

\* The platform can tell every loss, and without a failure there is none.
THEOREM SenderLossesVisible == Spec => []LossesVisible
BY SenderMeansVisible, SenderAlways, PTL
=============================================================================
