------------------------------- MODULE Lemmas -------------------------------
(***************************************************************************)
(* Lemmas that the proofs of several components share.                      *)
(*                                                                         *)
(* Queues in a row, seen as one sequence: what moving an element from one    *)
(* queue to the next does to their concatenation, and what dropping elements *)
(* of one of them does.  Thins(u, t) says that u is t with some elements     *)
(* taken out and the rest left in their order.  Then the ends of a set of    *)
(* numbers, and the slots of a ring.                                        *)
(***************************************************************************)
EXTENDS SequenceTheorems, FiniteSetTheorems, TLAPS

Embeds(f, u, t) ==
  /\ f \in [1 .. Len(u) -> 1 .. Len(t)]
  /\ \A i, j \in 1 .. Len(u) : i < j => f[i] < f[j]
  /\ \A i \in 1 .. Len(u) : u[i] = t[f[i]]

Thins(u, t) == \E f : Embeds(f, u, t)

\* One queue behind another.  The prover reasons better about a name of ours
\* than about the built-in operator.
Then(s, t) == s \o t

-----------------------------------------------------------------------------
(* Moving an element *)

\* The first element of a queue, taken from it, is still in front of it.
LEMMA HeadInFront ==
  ASSUME NEW S, NEW s \in Seq(S), s # <<>>
  PROVE  /\ Head(s) \in S /\ Tail(s) \in Seq(S)
         /\ s = Then(<<Head(s)>>, Tail(s))
<1>1. /\ Head(s) \in S /\ Tail(s) \in Seq(S) /\ Len(Tail(s)) = Len(s) - 1
      /\ \A i \in 1 .. Len(Tail(s)) : Tail(s)[i] = s[i + 1]
  BY HeadTailProperties
<1>2. Len(s) \in Nat \ {0}
  BY EmptySeq
<1>3. <<Head(s)>> \in Seq(S) /\ Len(<<Head(s)>>) = 1 /\ <<Head(s)>>[1] = s[1]
  BY <1>1, <1>2
<1>4. /\ <<Head(s)>> \o Tail(s) \in Seq(S)
      /\ Len(<<Head(s)>> \o Tail(s)) = 1 + Len(Tail(s))
      /\ \A i \in 1 .. 1 + Len(Tail(s)) :
           (<<Head(s)>> \o Tail(s))[i] = IF i <= 1 THEN <<Head(s)>>[i] ELSE Tail(s)[i - 1]
  <2>1. PICK h \in Seq(S), r \in Seq(S) : h = <<Head(s)>> /\ r = Tail(s) /\ Len(h) = 1
    BY <1>1, <1>3
  <2>2. /\ h \o r \in Seq(S) /\ Len(h \o r) = 1 + Len(r)
        /\ \A i \in 1 .. 1 + Len(r) : (h \o r)[i] = IF i <= 1 THEN h[i] ELSE r[i - 1]
    BY <2>1, ConcatProperties
  <2> QED
    BY <2>1, <2>2
<1>5. \A i \in 1 .. Len(s) : s[i] = (<<Head(s)>> \o Tail(s))[i]
  BY <1>1, <1>2, <1>3, <1>4
<1>6. Len(s) = Len(<<Head(s)>> \o Tail(s))
  BY <1>1, <1>2, <1>4
<1> QED
  BY <1>1, <1>4, <1>5, <1>6, SeqEqual DEF Then

\* Two queues in a row are a queue.
LEMMA ThenIn ==
  ASSUME NEW S, NEW s \in Seq(S), NEW t \in Seq(S)
  PROVE  Then(s, t) \in Seq(S)
BY ConcatProperties DEF Then

\* Three queues in a row, grouped in two ways.
LEMMA ThenThen ==
  ASSUME NEW S, NEW s \in Seq(S), NEW t \in Seq(S), NEW u \in Seq(S)
  PROVE  Then(Then(s, t), u) = Then(s, Then(t, u))
BY ConcatAssociative DEF Then

\* Four queues in a row, grouped in two ways.
LEMMA MoveParts ==
  ASSUME NEW S, NEW s \in Seq(S), NEW h \in Seq(S), NEW r \in Seq(S), NEW u \in Seq(S)
  PROVE  Then(Then(s, h), Then(r, u)) = Then(s, Then(Then(h, r), u))
<1>1. Then(r, u) \in Seq(S)
  BY ThenIn
<1>2. Then(Then(s, h), Then(r, u)) = Then(s, Then(h, Then(r, u)))
  BY <1>1, ThenThen
<1>3. Then(h, Then(r, u)) = Then(Then(h, r), u)
  BY ThenThen
<1> QED
  BY <1>2, <1>3

\* The first element of a queue in a row, as a queue of its own.
LEMMA HeadOut ==
  ASSUME NEW S, NEW t \in Seq(S), NEW u \in Seq(S), t # <<>>
  PROVE  Then(t, u) = Then(<<Head(t)>>, Then(Tail(t), u))
<1>1. /\ Head(t) \in S /\ Tail(t) \in Seq(S)
      /\ t = Then(<<Head(t)>>, Tail(t))
  BY HeadInFront
<1>2. <<Head(t)>> \in Seq(S)
  BY <1>1
<1>3. ASSUME NEW h \in Seq(S), NEW r \in Seq(S), t = Then(h, r)
      PROVE  Then(t, u) = Then(h, Then(r, u))
  BY <1>3, ThenThen
<1> QED
  BY <1>1, <1>2, <1>3

\* Taking the first element of a queue and putting it behind the queue in front
\* leaves the row as it was.
LEMMA MoveHead ==
  ASSUME NEW S, NEW s \in Seq(S), NEW t \in Seq(S), NEW u \in Seq(S), t # <<>>
  PROVE  Then(Append(s, Head(t)), Then(Tail(t), u)) = Then(s, Then(t, u))
<1>1. /\ Head(t) \in S /\ Tail(t) \in Seq(S)
      /\ t = Then(<<Head(t)>>, Tail(t))
  BY HeadInFront
<1>2. <<Head(t)>> \in Seq(S)
  BY <1>1
<1>3. Append(s, Head(t)) = Then(s, <<Head(t)>>)
  BY <1>1, AppendIsConcat DEF Then
<1>4. ASSUME NEW h \in Seq(S), NEW r \in Seq(S), t = Then(h, r)
      PROVE  Then(Then(s, h), Then(r, u)) = Then(s, Then(t, u))
  BY <1>4, MoveParts
<1> QED
  BY <1>1, <1>2, <1>3, <1>4

-----------------------------------------------------------------------------
(* Taking elements out *)

\* Nothing taken out.
LEMMA ThinsSame ==
  ASSUME NEW S, NEW t \in Seq(S)
  PROVE  Thins(t, t)
<1>. DEFINE f == [i \in 1 .. Len(t) |-> i]
<1>1. Len(t) \in Nat
  BY LenProperties
<1>2. Embeds(f, t, t)
  BY <1>1 DEF Embeds
<1> QED
  BY <1>2 DEF Thins

\* Taking out in two steps.
LEMMA ThinsTwice ==
  ASSUME NEW S, NEW s \in Seq(S), NEW t \in Seq(S), NEW u \in Seq(S),
         Thins(u, t), Thins(t, s)
  PROVE  Thins(u, s)
<1>1. PICK f : Embeds(f, u, t)
  BY DEF Thins
<1>2. PICK g : Embeds(g, t, s)
  BY DEF Thins
<1>. DEFINE h == [i \in 1 .. Len(u) |-> g[f[i]]]
<1>3. Len(u) \in Nat /\ Len(t) \in Nat /\ Len(s) \in Nat
  BY LenProperties
<1>4. \A i \in 1 .. Len(u) : f[i] \in 1 .. Len(t) /\ h[i] = g[f[i]] /\ h[i] \in 1 .. Len(s)
  BY <1>1, <1>2 DEF Embeds
<1>5. h \in [1 .. Len(u) -> 1 .. Len(s)]
  BY <1>4
<1>6. \A i, j \in 1 .. Len(u) : i < j => h[i] < h[j]
  BY <1>1, <1>2, <1>4 DEF Embeds
<1>7. \A i \in 1 .. Len(u) : u[i] = s[h[i]]
  BY <1>1, <1>2, <1>4 DEF Embeds
<1>8. Embeds(h, u, s)
  BY <1>5, <1>6, <1>7 DEF Embeds
<1> QED
  BY <1>8 DEF Thins

\* Behind a queue that stays as it is.
LEMMA ThinsBehind ==
  ASSUME NEW S, NEW s \in Seq(S), NEW t \in Seq(S), NEW u \in Seq(S), Thins(u, t)
  PROVE  Thins(Then(s, u), Then(s, t))
<1>1. PICK f : Embeds(f, u, t)
  BY DEF Thins
<1>. DEFINE n == Len(s)
            h == [i \in 1 .. Len(s \o u) |-> IF i <= n THEN i ELSE n + f[i - n]]
<1>2. n \in Nat /\ Len(t) \in Nat /\ Len(u) \in Nat
  BY LenProperties
<1>3. /\ Len(s \o u) = n + Len(u)
      /\ \A i \in 1 .. n + Len(u) : (s \o u)[i] = IF i <= n THEN s[i] ELSE u[i - n]
  BY ConcatProperties
<1>4. /\ Len(s \o t) = n + Len(t)
      /\ \A i \in 1 .. n + Len(t) : (s \o t)[i] = IF i <= n THEN s[i] ELSE t[i - n]
  BY ConcatProperties
<1>5. \A m \in 1 .. Len(t) : (s \o t)[n + m] = t[m]
  BY <1>2, <1>4
<1>6. ASSUME NEW i \in 1 .. n + Len(u), i > n
      PROVE  i - n \in 1 .. Len(u) /\ f[i - n] \in 1 .. Len(t) /\ u[i - n] = t[f[i - n]]
  <2>1. i - n \in 1 .. Len(u)
    BY <1>2, <1>6
  <2> QED
    BY <2>1, <1>1 DEF Embeds
<1>7. \A i \in 1 .. n + Len(u) : h[i] = IF i <= n THEN i ELSE n + f[i - n]
  BY <1>3
<1>8. h \in [1 .. Len(s \o u) -> 1 .. Len(s \o t)]
  <2>1. ASSUME NEW i \in 1 .. n + Len(u)
        PROVE  (IF i <= n THEN i ELSE n + f[i - n]) \in 1 .. n + Len(t)
    BY <1>2, <1>6
  <2> QED
    BY <1>3, <1>4, <2>1
<1>9. ASSUME NEW i \in 1 .. n + Len(u), NEW j \in 1 .. n + Len(u), i < j
      PROVE  h[i] < h[j]
  <2>1. CASE j <= n
    BY <1>2, <1>7, <1>9, <2>1
  <2>2. CASE i <= n /\ j > n
    BY <1>2, <1>6, <1>7, <1>9, <2>2
  <2>3. CASE i > n
    <3>1. /\ i - n \in 1 .. Len(u) /\ j - n \in 1 .. Len(u) /\ i - n < j - n
          /\ f[i - n] \in 1 .. Len(t) /\ f[j - n] \in 1 .. Len(t)
      BY <1>2, <1>6, <1>9, <2>3
    <3>2. f[i - n] < f[j - n]
      BY <1>1, <3>1 DEF Embeds
    <3> QED
      BY <1>2, <1>7, <1>9, <2>3, <3>1, <3>2
  <2> QED
    BY <1>2, <2>1, <2>2, <2>3
<1>10. ASSUME NEW i \in 1 .. n + Len(u)
      PROVE  (s \o u)[i] = (s \o t)[h[i]]
  <2>1. CASE i <= n
    BY <1>2, <1>3, <1>4, <1>7, <2>1
  <2>2. CASE i > n
    <3>1. h[i] = n + f[i - n]
      BY <1>2, <1>7, <2>2
    <3>2. (s \o t)[n + f[i - n]] = t[f[i - n]]
      BY <1>6, <1>5, <2>2
    <3>3. (s \o u)[i] = u[i - n] /\ u[i - n] = t[f[i - n]]
      BY <1>2, <1>3, <1>6, <2>2
    <3>. HIDE DEF h
    <3> QED
      BY <3>1, <3>2, <3>3
  <2>3. i <= n \/ i > n
    BY <1>2
  <2>. HIDE DEF h, n
  <2> QED
    BY <2>1, <2>2, <2>3
<1>11. Embeds(h, s \o u, s \o t)
  <2>. HIDE DEF h
  <2> QED
    BY <1>3, <1>8, <1>9, <1>10 DEF Embeds
<1> QED
  BY <1>11 DEF Thins, Then

\* The whole first queue taken out.
LEMMA ThinsFront ==
  ASSUME NEW S, NEW s \in Seq(S), NEW t \in Seq(S)
  PROVE  Thins(t, Then(s, t))
<1>. DEFINE n == Len(s)
            h == [i \in 1 .. Len(t) |-> n + i]
<1>1. n \in Nat /\ Len(t) \in Nat
  BY LenProperties
<1>2. /\ Len(s \o t) = n + Len(t)
      /\ \A i \in 1 .. n + Len(t) : (s \o t)[i] = IF i <= n THEN s[i] ELSE t[i - n]
  BY ConcatProperties
<1>3. h \in [1 .. Len(t) -> 1 .. Len(s \o t)]
  BY <1>1, <1>2
<1>4. \A i \in 1 .. Len(t) : t[i] = (s \o t)[h[i]]
  BY <1>1, <1>2
<1>5. Embeds(h, t, s \o t)
  BY <1>1, <1>3, <1>4 DEF Embeds
<1> QED
  BY <1>5 DEF Thins, Then

\* The first k elements of the first queue taken out.
LEMMA ThinsSuffix ==
  ASSUME NEW S, NEW s \in Seq(S), NEW t \in Seq(S), NEW k \in 0 .. Len(s)
  PROVE  /\ SubSeq(s, k + 1, Len(s)) \in Seq(S)
         /\ Thins(Then(SubSeq(s, k + 1, Len(s)), t), Then(s, t))
<1>. DEFINE a == SubSeq(s, 1, k)
            b == SubSeq(s, k + 1, Len(s))
<1>1. Len(s) \in Nat /\ \A i \in 1 .. Len(s) : s[i] \in S
  BY LenProperties, ElementOfSeq
<1>2. a \in Seq(S) /\ b \in Seq(S)
  BY <1>1, SubSeqProperties
<1>3. Then(a, b) = s
  <2>1. a \o b = SubSeq(s, 1, Len(s))
    <3>1. /\ 1 \in 1 .. Len(s) + 1 /\ k \in 1 - 1 .. Len(s) /\ Len(s) \in k .. Len(s)
      BY <1>1
    <3> QED
      BY <3>1, ConcatAdjacentSubSeq
  <2> QED
    BY <2>1, SubSeqFull DEF Then
<1>. HIDE DEF a, b
<1>4. Then(Then(a, b), t) = Then(a, Then(b, t)) /\ Then(b, t) \in Seq(S)
  BY <1>2, ThenThen, ThenIn
<1>5. Thins(Then(b, t), Then(a, Then(b, t)))
  BY <1>2, <1>4, ThinsFront
<1> QED
  BY <1>2, <1>3, <1>4, <1>5 DEF b

-----------------------------------------------------------------------------
(* Least and greatest *)

\* A set of natural numbers has a least element: that of the sets 1 .. n which
\* includes no other.
LEMMA LeastElement ==
  ASSUME NEW T \in SUBSET Nat, T # {}
  PROVE  \E m \in T : \A k \in T : m <= k
<1>1. PICK R, F : R = StrictSubsetOrdering(Nat) /\ F = FiniteSubsetsOf(Nat)
  OBVIOUS
<1>2. IsWellFoundedOn(R, F)
  BY <1>1, FS_StrictSubsetOrderingWellFounded
<1>3. PICK U : U = {1 .. n : n \in T}
  OBVIOUS
<1>4. U \subseteq F /\ U # {}
  <2>1. \A n \in T : 1 .. n \subseteq Nat /\ IsFiniteSet(1 .. n)
    BY FS_Interval
  <2> QED
    BY <1>1, <1>3, <2>1 DEF FiniteSubsetsOf
<1>5. PICK u \in U : \A v \in U : ~ (<<v, u>> \in R)
  BY <1>2, <1>4, WFMin
<1>6. PICK m \in T : u = 1 .. m
  BY <1>3
<1>7. ASSUME NEW k \in T
      PROVE  m <= k
  <2> SUFFICES ASSUME k < m PROVE FALSE
    OBVIOUS
  <2>1. 1 .. k \in U /\ 1 .. k \subseteq Nat /\ 1 .. m \subseteq Nat
    BY <1>3
  <2>2. 1 .. k \subseteq 1 .. m
    OBVIOUS
  <2>3. m \in 1 .. m /\ m \notin 1 .. k
    OBVIOUS
  <2>4. <<1 .. k, 1 .. m>> \in R
    BY <1>1, <2>1, <2>2, <2>3 DEF StrictSubsetOrdering
  <2> QED
    BY <1>5, <1>6, <2>1, <2>4
<1> QED
  BY <1>7

\* A set of numbers up to n has a greatest: the least of its bounds.
LEMMA GreatestElement ==
  ASSUME NEW n \in Nat, NEW T \in SUBSET (1 .. n), T # {}
  PROVE  \E m \in T : \A k \in T : k <= m
<1>1. PICK B : B = {b \in Nat : \A k \in T : k <= b}
  OBVIOUS
<1>2. B \in SUBSET Nat /\ n \in B
  BY <1>1
<1>3. PICK m \in B : \A b \in B : m <= b
  BY <1>2, LeastElement
<1>4. m \in Nat /\ \A k \in T : k <= m
  BY <1>1, <1>3
<1>5. m \in T
  <2> SUFFICES ASSUME m \notin T PROVE FALSE
    OBVIOUS
  <2>1. \A k \in T : k \in Nat /\ k >= 1 /\ k < m
    BY <1>4
  <2>0. m >= 1
    <3>1. PICK k \in T : k \in Nat /\ k >= 1 /\ k < m
      BY <2>1
    <3> QED
      BY <1>4, <3>1
  <2>2. m - 1 \in Nat /\ \A k \in T : k <= m - 1
    BY <1>4, <2>0, <2>1
  <2>3. m - 1 \in B
    BY <1>1, <2>2
  <2> QED
    BY <1>3, <1>4, <2>3
<1> QED
  BY <1>4, <1>5

-----------------------------------------------------------------------------
(* Remainders, as far as a ring of n slots needs them. *)

\* Below n, the remainder is the number itself.
LEMMA ModBelow ==
  ASSUME NEW n \in Nat \ {0}, NEW x \in 0 .. n - 1
  PROVE  x % n = x
OBVIOUS

\* Between n and 2n, it is the number less n.
LEMMA ModWrap ==
  ASSUME NEW n \in Nat \ {0}, NEW x \in n .. 2 * n - 1
  PROVE  x % n = x - n
OBVIOUS

\* Position k after h on a ring of n slots, without a remainder.
At(n, h, k) == IF h + k < n THEN h + k ELSE h + k - n

\* The remainder the code takes is the position At names.
LEMMA ModAt ==
  ASSUME NEW n \in Nat \ {0}, NEW h \in 0 .. n - 1, NEW k \in 0 .. n
  PROVE  /\ (h + k) % n = At(n, h, k)
         /\ At(n, h, k) \in 0 .. n - 1
<1>1. CASE h + k < n
  <2>1. (h + k) % n = h + k
    BY <1>1, ModBelow
  <2> QED
    BY <1>1, <2>1 DEF At
<1>2. CASE h + k >= n
  <2>1. h + k \in n .. 2 * n - 1
    BY <1>2
  <2>2. (h + k) % n = h + k - n
    BY <2>1, ModWrap
  <2> QED
    BY <1>2, <2>2 DEF At
<1> QED
  BY <1>1, <1>2

\* Two different positions within one turn of the ring are different slots.
LEMMA AtInjective ==
  ASSUME NEW n \in Nat \ {0}, NEW h \in 0 .. n - 1,
         NEW j \in 0 .. n - 1, NEW k \in 0 .. n - 1, At(n, h, j) = At(n, h, k)
  PROVE  j = k
BY DEF At

\* Walking on from the next slot is walking one further from this one.
LEMMA AtNext ==
  ASSUME NEW n \in Nat \ {0}, NEW h \in 0 .. n - 1, NEW k \in 0 .. n - 1
  PROVE  At(n, At(n, h, 1), k) = At(n, h, k + 1)
BY DEF At
=============================================================================
