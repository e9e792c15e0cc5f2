------------------------------ MODULE WalProofs ------------------------------
(***************************************************************************)
(* Theorems about the write-ahead log, for every number of points, starts   *)
(* and sizes, and every set of system calls that may fail.                  *)
(*                                                                         *)
(* The invariant is proved in layers: where the writer, the segments and    *)
(* the drain are (Structure); the order of the records on disk and of what  *)
(* was handed over (Ordered); what happened to every acknowledged point     *)
(* (Saved); and, from the sizes of the segments, the running total          *)
(* (Counted) and its limit (Limited).  At the end, from Structure and       *)
(* Ordered, every step of the log is mapped to a step of PointLog.          *)
(***************************************************************************)
EXTENDS WAL, Lemmas

Listed  == ToSet(segments)
Drained == ToSet(drainSegs)
Handed  == ToSet(emitted[starts])

-----------------------------------------------------------------------------
(* The invariant *)

WalTypes ==
  /\ TypeOK
  /\ segments \in Seq(Nat) /\ drainSegs \in Seq(Nat)
  /\ ch \in Seq(1 .. MaxPoints)
  /\ emitted \in [1 .. MaxStarts -> Seq(1 .. MaxPoints)]

\* The file being written is the newest on disk, and after an append it ends
\* with the point of the write in progress, which nobody was told is stored.
WriterPlaced ==
  /\ active # NoSeg => \A s \in DOMAIN files : s <= active
  /\ usable => active # NoSeg
  /\ phase = "append" => usable
  /\ phase = "sync" =>
       LET recs == files[active]
       IN  /\ usable /\ recs # <<>>
           /\ recs[Len(recs)].point = next /\ recs[Len(recs)].state # "torn"
  /\ phase # "idle" => next >= 1 /\ next \notin acked
  /\ acked \subseteq 1 .. next

Structure == WalTypes /\ ActiveIsNewest /\ WriterPlaced

\* The last point a record may hold.
Written == IF phase \in {"prune", "append"} THEN next - 1 ELSE next

\* The records the drain has yet to read, or will when it takes the segments.
Unread(s, i) ==
  /\ s \in Listed \cup Drained /\ i \in DOMAIN files[s]
  /\ drainSegs # <<>> /\ s = Head(drainSegs) => pos <= i

DiskOrdered ==
  /\ \A s, t \in DOMAIN files : \A i \in DOMAIN files[s], j \in DOMAIN files[t] :
       s < t \/ (s = t /\ i < j) => files[s][i].point < files[t][j].point
  /\ \A s \in DOMAIN files : \A i \in DOMAIN files[s] : files[s][i].point <= Written

\* What was handed over in this run comes before what is yet to be.
Ahead ==
  /\ \A p \in Handed :
       /\ p <= Written
       /\ \A s \in DOMAIN files : \A i \in DOMAIN files[s] :
            Unread(s, i) => p < files[s][i].point
  /\ \A n \in 1 .. MaxStarts : starts < n => emitted[n] = <<>>

Ordered == DiskOrdered /\ Ahead /\ DrainOrdered

\* What the drain has read of its segment it has handed over or jumped over.
Consumed ==
  drainSegs # <<>> =>
    LET recs == files[Head(drainSegs)]
    IN  \A i \in DOMAIN recs : i < pos =>
          \/ recs[i].state = "torn"
          \/ recs[i].point \in Handed \cup skipped

Saved == Consumed /\ Durable

\* The total overstates the listed segments by the sizes that could not be read, and
\* is exact on a healthy disk.
Counted ==
  LET counted == totalSz + (IF phase = "sync" THEN RecSize ELSE 0)
  IN  /\ counted <= SizeOfAll(segments) + unstated
      /\ Faults = {} => counted = SizeOfAll(segments)

\* The size of a segment and of all of them, in one run on a healthy disk.
Limit == Max({MaxTotal, SegMax - 1 + 2 * RecSize})

Limited ==
  /\ \A s \in DOMAIN files : FileSize(s) <= SegMax - 1 + RecSize
  /\ SizeBounded
  /\ phase = "append" => FileSize(active) = 0 /\ SizeOfAll(segments) + RecSize <= Limit

-----------------------------------------------------------------------------
(* Increasing lists of segment numbers *)

\* The elements of a sequence.
LEMMA ListElements ==
  ASSUME NEW S, NEW q \in Seq(S)
  PROVE  /\ Len(q) \in Nat /\ DOMAIN q = 1 .. Len(q)
         /\ \A i \in 1 .. Len(q) : q[i] \in S
         /\ ToSet(q) \subseteq S
         /\ \A x : x \in ToSet(q) <=> \E i \in 1 .. Len(q) : q[i] = x
<1>1. Len(q) \in Nat /\ DOMAIN q = 1 .. Len(q)
  BY LenProperties
<1>2. \A i \in 1 .. Len(q) : q[i] \in S
  BY ElementOfSeq
<1> QED
  BY <1>1, <1>2 DEF ToSet

\* The empty list.
LEMMA ListNone ==
  /\ <<>> \in Seq(Nat) /\ ToSet(<<>>) = {} /\ Increasing(<<>>)
BY EmptySeq DEF ToSet, Increasing

\* A list without its first element.
LEMMA ListTail ==
  ASSUME NEW q \in Seq(Nat), q # <<>>, Increasing(q)
  PROVE  /\ Head(q) \in Nat /\ Head(q) \in ToSet(q) /\ \A x \in ToSet(q) : Head(q) <= x
         /\ Tail(q) \in Seq(Nat) /\ Increasing(Tail(q))
         /\ ToSet(Tail(q)) = ToSet(q) \ {Head(q)}
         /\ Last(q) # Head(q) => Tail(q) # <<>> /\ Last(Tail(q)) = Last(q)
<1>0. PICK t : t = Tail(q)
  OBVIOUS
<1>1. PICK n \in Nat : n = Len(q) /\ t = Tail(q)
  BY <1>0, LenProperties
<1>2. n # 0
  BY <1>1, EmptySeq
<1>3. DOMAIN q = 1 .. n /\ \A i \in 1 .. n : q[i] \in Nat
  BY <1>1, ListElements
<1>4. /\ Head(q) = q[1] /\ t \in Seq(Nat) /\ Len(t) = n - 1
      /\ \A i \in 1 .. n - 1 : t[i] = q[i + 1]
  BY <1>1, HeadTailProperties
<1>5. DOMAIN t = 1 .. n - 1
  BY <1>4, LenProperties
<1>6. \A x : x \in ToSet(q) <=> \E i \in 1 .. n : q[i] = x
  BY <1>1, ListElements
<1>7. \A x : x \in ToSet(t) <=> \E i \in 1 .. n - 1 : t[i] = x
  BY <1>4, ListElements
<1>8. \A i, j \in 1 .. n : i < j => q[i] < q[j]
  BY <1>3 DEF Increasing
<1>9. Increasing(t)
  <2> SUFFICES ASSUME NEW i \in 1 .. n - 1, NEW j \in 1 .. n - 1, i < j
               PROVE  t[i] < t[j]
    BY <1>5 DEF Increasing
  <2>1. i + 1 \in 1 .. n /\ j + 1 \in 1 .. n /\ i + 1 < j + 1
    OBVIOUS
  <2> QED
    BY <1>4, <1>8, <2>1
<1>10. /\ Head(q) \in Nat /\ Head(q) \in ToSet(q)
       /\ \A i \in 1 .. n : i # 1 => q[1] < q[i]
  <2>1. 1 \in 1 .. n /\ \A i \in 1 .. n : i # 1 => 1 < i
    BY <1>2
  <2> QED
    BY <1>3, <1>4, <1>6, <1>8, <2>1
<1>11. \A x \in ToSet(q) : Head(q) <= x
  <2>1. \A i \in 1 .. n : q[i] \in Nat /\ q[1] \in Nat /\ (i = 1 \/ q[1] < q[i])
    BY <1>3, <1>4, <1>10
  <2>2. \A i \in 1 .. n : q[1] <= q[i]
    BY ONLY <2>1
  <2> QED
    BY <1>4, <1>6, <2>2
<1>12. ToSet(t) = ToSet(q) \ {Head(q)}
  <2>1. ASSUME NEW x \in ToSet(t)
        PROVE  x \in ToSet(q) \ {Head(q)}
    <3>1. PICK i \in 1 .. n - 1 : t[i] = x
      BY <1>7, <2>1
    <3>2. i + 1 \in 1 .. n /\ i + 1 # 1
      OBVIOUS
    <3>3. q[i + 1] = x /\ q[1] < q[i + 1]
      BY <1>4, <1>10, <3>1, <3>2
    <3>4. q[i + 1] \in Nat /\ q[1] \in Nat
      BY <1>3, <1>4, <1>10, <3>2
    <3>5. x \in ToSet(q)
      BY ONLY <1>6, <3>2, <3>3
    <3>6. x # q[1]
      BY ONLY <3>3, <3>4
    <3> QED
      BY <1>4, <3>5, <3>6
  <2>2. ASSUME NEW x \in ToSet(q), x # Head(q)
        PROVE  x \in ToSet(t)
    <3>1. PICK i \in 1 .. n : q[i] = x
      BY <1>6
    <3>2. i # 1
      BY <1>4, <2>2, <3>1
    <3>3. i - 1 \in 1 .. n - 1 /\ (i - 1) + 1 = i
      BY <3>2
    <3> QED
      BY <1>4, <1>7, <3>1, <3>3
  <2> QED
    BY <2>1, <2>2
<1>13. ASSUME Last(q) # Head(q)
       PROVE  t # <<>> /\ Last(t) = Last(q)
  <2>1. Last(q) = q[n] /\ Last(t) = t[n - 1]
    BY <1>1, <1>4 DEF Last
  <2>2. n # 1
    BY <1>4, <1>13, <2>1
  <2>3. n - 1 \in 1 .. n - 1 /\ (n - 1) + 1 = n
    BY <1>2, <2>2
  <2>4. t[n - 1] = q[n]
    BY <1>4, <2>3
  <2>5. t # <<>>
    BY <1>4, <2>2, EmptySeq
  <2> QED
    BY <2>1, <2>4, <2>5
<1> QED
  BY <1>1, <1>4, <1>9, <1>10, <1>11, <1>12, <1>13

\* The last element of a list.
LEMMA ListLast ==
  ASSUME NEW q \in Seq(Nat), q # <<>>, Increasing(q)
  PROVE  /\ Last(q) \in ToSet(q) /\ \A x \in ToSet(q) : x <= Last(q)
         /\ Head(q) = Last(q) => ToSet(q) = {Last(q)}
<1>1. PICK n \in Nat : n = Len(q)
  BY LenProperties
<1>2. n # 0 /\ Last(q) = q[n]
  BY <1>1, EmptySeq DEF Last
<1>3. DOMAIN q = 1 .. n /\ \A i \in 1 .. n : q[i] \in Nat
  BY <1>1, ListElements
<1>4. \A x : x \in ToSet(q) <=> \E i \in 1 .. n : q[i] = x
  BY <1>1, ListElements
<1>5. n \in 1 .. n /\ \A i \in 1 .. n : i # n => i < n
  BY <1>2
<1>6. \A i \in 1 .. n : i # n => q[i] < q[n]
  BY <1>3, <1>5 DEF Increasing
<1>7. \A x \in ToSet(q) : x <= q[n]
  BY <1>3, <1>4, <1>5, <1>6
<1>8. \A x \in ToSet(q) : Head(q) <= x /\ x \in Nat
  BY ListTail, <1>3, <1>4
<1> QED
  BY <1>2, <1>3, <1>4, <1>5, <1>7, <1>8

\* A list with a larger number put behind it.
LEMMA ListAppend ==
  ASSUME NEW q \in Seq(Nat), Increasing(q), NEW e \in Nat, \A x \in ToSet(q) : x < e
  PROVE  /\ Append(q, e) \in Seq(Nat) /\ Increasing(Append(q, e))
         /\ ToSet(Append(q, e)) = ToSet(q) \cup {e}
         /\ Append(q, e) # <<>> /\ Last(Append(q, e)) = e
<1>00. PICK a : a = Append(q, e)
  OBVIOUS
<1>1. PICK n \in Nat : n = Len(q) /\ a = Append(q, e)
  BY <1>00, LenProperties
<1>2. /\ a \in Seq(Nat) /\ Len(a) = n + 1 /\ a[n + 1] = e
      /\ \A i \in 1 .. n : a[i] = q[i]
  BY <1>1, AppendProperties
<1>3. DOMAIN a = 1 .. n + 1 /\ DOMAIN q = 1 .. n
  BY <1>1, <1>2, LenProperties
<1>4. \A x : x \in ToSet(q) <=> \E i \in 1 .. n : q[i] = x
  BY <1>1, ListElements
<1>5. \A x : x \in ToSet(a) <=> \E i \in 1 .. n + 1 : a[i] = x
  <2>1. \A x : x \in ToSet(a) <=> \E i \in 1 .. Len(a) : a[i] = x
    BY ONLY <1>2, ListElements
  <2> QED
    BY ONLY <1>2, <2>1
<1>6. \A i \in 1 .. n + 1 : i \in 1 .. n \/ i = n + 1
  OBVIOUS
<1>0. n + 1 \in 1 .. n + 1 /\ \A i \in 1 .. n : i \in 1 .. n + 1
  OBVIOUS
<1>7. Increasing(a)
  <2> SUFFICES ASSUME NEW i \in 1 .. n + 1, NEW j \in 1 .. n + 1, i < j
               PROVE  a[i] < a[j]
    BY <1>3 DEF Increasing
  <2>1. i \in 1 .. n /\ a[i] = q[i] /\ q[i] \in ToSet(q)
    BY <1>2, <1>4
  <2>2. CASE j = n + 1
    BY <1>2, <2>1, <2>2
  <2>3. CASE j \in 1 .. n
    BY <1>2, <1>3, <2>1, <2>3 DEF Increasing
  <2> QED
    BY <1>6, <2>2, <2>3
<1>8. ToSet(a) = ToSet(q) \cup {e}
  BY <1>0, <1>2, <1>4, <1>5, <1>6
<1>9. a # <<>> /\ Last(a) = e
  BY <1>2, EmptySeq DEF Last
<1> QED
  BY <1>1, <1>2, <1>7, <1>8, <1>9

\* Two lists, one behind the other.
LEMMA ListBoth ==
  ASSUME NEW r \in Seq(Nat), NEW q \in Seq(Nat)
  PROVE  Increasing(r \o q) <=>
           /\ Increasing(r) /\ Increasing(q)
           /\ \A x \in ToSet(r), y \in ToSet(q) : x < y
<1>0. PICK b : b = r \o q
  OBVIOUS
<1>1. PICK m \in Nat, n \in Nat : m = Len(r) /\ n = Len(q) /\ b = r \o q
  BY <1>0, LenProperties
<1>2. /\ b \in Seq(Nat) /\ Len(b) = m + n
      /\ \A i \in 1 .. m + n : b[i] = IF i <= m THEN r[i] ELSE q[i - m]
  BY <1>1, ConcatProperties
<1>3. DOMAIN b = 1 .. m + n /\ DOMAIN r = 1 .. m /\ DOMAIN q = 1 .. n
  BY <1>1, <1>2, LenProperties
<1>4. \A x : x \in ToSet(r) <=> \E i \in 1 .. m : r[i] = x
  BY <1>1, ListElements
<1>5. \A x : x \in ToSet(q) <=> \E i \in 1 .. n : q[i] = x
  BY <1>1, ListElements
<1>6. \A i \in 1 .. m : i \in 1 .. m + n /\ b[i] = r[i]
  BY <1>2
<1>7. \A i \in 1 .. n : m + i \in 1 .. m + n /\ b[m + i] = q[i]
  <2> SUFFICES ASSUME NEW i \in 1 .. n PROVE m + i \in 1 .. m + n /\ b[m + i] = q[i]
    OBVIOUS
  <2>1. m + i \in 1 .. m + n /\ ~ (m + i <= m) /\ m + i - m = i
    OBVIOUS
  <2> QED
    BY <1>2, <2>1
<1>8. ASSUME Increasing(b)
      PROVE  /\ Increasing(r) /\ Increasing(q)
             /\ \A x \in ToSet(r), y \in ToSet(q) : x < y
  <2>1. \A i, j \in 1 .. m + n : i < j => b[i] < b[j]
    BY <1>3, <1>8 DEF Increasing
  <2>2. Increasing(r)
    BY <1>3, <1>6, <2>1 DEF Increasing
  <2>3. \A i, j \in 1 .. n : i < j => m + i < m + j
    OBVIOUS
  <2>4. Increasing(q)
    BY <1>3, <1>7, <2>1, <2>3 DEF Increasing
  <2>5. \A i \in 1 .. m, j \in 1 .. n : i < m + j
    OBVIOUS
  <2>6. \A i \in 1 .. m, j \in 1 .. n : r[i] < q[j]
    BY <1>6, <1>7, <2>1, <2>5
  <2> QED
    BY <1>4, <1>5, <2>2, <2>4, <2>6
<1>9. ASSUME Increasing(r), Increasing(q), \A x \in ToSet(r), y \in ToSet(q) : x < y
      PROVE  Increasing(b)
  <2> SUFFICES ASSUME NEW i \in 1 .. m + n, NEW j \in 1 .. m + n, i < j
               PROVE  b[i] < b[j]
    BY <1>3 DEF Increasing
  <2>1. CASE i <= m /\ j <= m
    <3>1. i \in 1 .. m /\ j \in 1 .. m
      BY <2>1
    <3> QED
      BY <1>3, <1>6, <1>9, <3>1 DEF Increasing
  <2>2. CASE i <= m /\ ~ (j <= m)
    <3>1. i \in 1 .. m /\ j - m \in 1 .. n
      BY <2>2
    <3>2. r[i] \in ToSet(r) /\ q[j - m] \in ToSet(q)
      BY <1>4, <1>5, <3>1
    <3> QED
      BY <1>2, <1>9, <2>2, <3>2
  <2>3. CASE ~ (i <= m)
    <3>1. i - m \in 1 .. n /\ j - m \in 1 .. n /\ i - m < j - m /\ ~ (j <= m)
      BY <2>3
    <3>2. q[i - m] < q[j - m]
      BY <1>3, <1>9, <3>1 DEF Increasing
    <3> QED
      BY <1>2, <2>3, <3>1, <3>2
  <2> QED
    BY <2>1, <2>2, <2>3
<1> QED
  BY <1>1, <1>8, <1>9

-----------------------------------------------------------------------------
(* Sizes of segments *)

\* Of finitely many elements there are finitely many images.
LEMMA ImageFinite ==
  ASSUME NEW S, IsFiniteSet(S), NEW f, DOMAIN f = S
  PROVE  IsFiniteSet({f[x] : x \in S})
<1>1. PICK T, g : T = {f[x] : x \in S} /\ g = [x \in S |-> f[x]]
  OBVIOUS
<1>2. g \in Surjection(S, T)
  BY <1>1 DEF Surjection
<1>3. IsFiniteSet(T)
  BY <1>2, FS_Surjection
<1> QED
  BY <1>1, <1>3

\* A record has a size.
LEMMA RecordSize ==
  ASSUME NEW r \in Records
  PROVE  SizeOf(r) \in Nat /\ SizeOf(r) <= RecSize
BY WALAssumption DEF SizeOf

\* The units of a record.
LEMMA RecordUnits ==
  ASSUME NEW p, NEW k \in Nat
  PROVE  /\ IsFiniteSet({p} \X (1 .. k)) /\ Cardinality({p} \X (1 .. k)) = k
<1>1. IsFiniteSet({p}) /\ Cardinality({p}) = 1
  BY FS_Singleton
<1>2. IsFiniteSet(1 .. k) /\ Cardinality(1 .. k) = k
  BY FS_Interval
<1>3. PICK S, T : S = {p} /\ T = 1 .. k
  OBVIOUS
<1>4. IsFiniteSet(S \X T) /\ Cardinality(S \X T) = Cardinality(S) * Cardinality(T)
  BY <1>1, <1>2, <1>3, FS_Product
<1>5. Cardinality(S) * Cardinality(T) = k
  BY <1>1, <1>2, <1>3
<1> QED
  BY ONLY <1>3, <1>4, <1>5

\* What a unit of the segments S is.
LEMMA UnitsAre ==
  ASSUME NEW fs, NEW S, NEW u
  PROVE  u \in UnitsIn(fs, S) <=>
           \E s \in S : \E i \in DOMAIN fs[s] : u \in UnitsOf(fs, s, i)
BY DEF UnitsIn

\* Finitely many segments have a size.
LEMMA SizeIsNumber ==
  ASSUME NEW fs, NEW S, IsFiniteSet(S), \A s \in S : fs[s] \in Seq(Records)
  PROVE  IsFiniteSet(UnitsIn(fs, S)) /\ SizeIn(fs, S) \in Nat
<1>1. ASSUME NEW s \in S
      PROVE  IsFiniteSet(UNION {UnitsOf(fs, s, i) : i \in DOMAIN fs[s]})
  <2>1. PICK D : D = DOMAIN fs[s]
    OBVIOUS
  <2>2. IsFiniteSet(D)
    <3>1. D = 1 .. Len(fs[s]) /\ Len(fs[s]) \in Nat
      BY <2>1, LenProperties
    <3> QED
      BY <3>1, FS_Interval
  <2>3. PICK f : f = [i \in D |-> UnitsOf(fs, s, i)]
    OBVIOUS
  <2>4. IsFiniteSet({f[i] : i \in D})
    BY <2>2, <2>3, ImageFinite
  <2>5. \A i \in D : IsFiniteSet(f[i])
    <3> SUFFICES ASSUME NEW i \in D PROVE IsFiniteSet(f[i])
      OBVIOUS
    <3>1. fs[s][i] \in Records
      BY <2>1, LenProperties, ElementOfSeq
    <3>2. SizeOf(fs[s][i]) \in Nat
      BY <3>1, RecordSize
    <3> QED
      BY <2>3, <3>2, RecordUnits DEF UnitsOf
  <2>6. IsFiniteSet(UNION {f[i] : i \in D})
    BY <2>4, <2>5, FS_UNION
  <2>7. {f[i] : i \in D} = {UnitsOf(fs, s, i) : i \in DOMAIN fs[s]}
    BY <2>1, <2>3
  <2> QED
    BY <2>6, <2>7
<1>2. PICK g : g = [s \in S |-> UNION {UnitsOf(fs, s, i) : i \in DOMAIN fs[s]}]
  OBVIOUS
<1>3. IsFiniteSet({g[s] : s \in S})
  <2>1. DOMAIN g = S
    BY <1>2
  <2> QED
    BY <2>1, ImageFinite
<1>4. IsFiniteSet(UNION {g[s] : s \in S})
  BY <1>1, <1>2, <1>3, FS_UNION
<1>5. UnitsIn(fs, S) = UNION {g[s] : s \in S}
  BY <1>2 DEF UnitsIn
<1> QED
  BY <1>4, <1>5, FS_CardinalityType DEF SizeIn

\* No segments have no size.
LEMMA SizeOfNone ==
  ASSUME NEW fs
  PROVE  SizeIn(fs, {}) = 0
<1>1. UnitsIn(fs, {}) = {}
  BY UnitsAre
<1> QED
  BY <1>1, FS_EmptySet DEF SizeIn

\* An empty segment has no size.
LEMMA SizeOfEmpty ==
  ASSUME NEW fs, NEW s, fs[s] = <<>>
  PROVE  SizeIn(fs, {s}) = 0
<1>1. DOMAIN fs[s] = {}
  OBVIOUS
<1>2. \A u : u \notin UnitsIn(fs, {s})
  BY <1>1, UnitsAre
<1>3. UnitsIn(fs, {s}) = {}
  BY <1>2
<1> QED
  BY <1>3, FS_EmptySet DEF SizeIn

\* The size depends on the sizes of the records alone.
LEMMA SizeSame ==
  ASSUME NEW fs, NEW gs, NEW S,
         \A s \in S : /\ DOMAIN gs[s] = DOMAIN fs[s]
                      /\ \A i \in DOMAIN fs[s] : SizeOf(gs[s][i]) = SizeOf(fs[s][i])
  PROVE  SizeIn(gs, S) = SizeIn(fs, S)
<1>1. \A s \in S : \A i \in DOMAIN fs[s] : UnitsOf(gs, s, i) = UnitsOf(fs, s, i)
  BY DEF UnitsOf
<1>2. \A u : u \in UnitsIn(gs, S) <=> u \in UnitsIn(fs, S)
  BY <1>1, UnitsAre
<1>3. UnitsIn(gs, S) = UnitsIn(fs, S)
  BY <1>2
<1> QED
  BY <1>3 DEF SizeIn

\* Segments apart are as long as both together.
LEMMA SizeOfBoth ==
  ASSUME NEW fs, NEW S, IsFiniteSet(S), NEW T, IsFiniteSet(T), S \cap T = {},
         \A s \in S \cup T : fs[s] \in Seq(Records)
  PROVE  SizeIn(fs, S \cup T) = SizeIn(fs, S) + SizeIn(fs, T)
<1>1. PICK U, V, W : U = UnitsIn(fs, S) /\ V = UnitsIn(fs, T) /\ W = UnitsIn(fs, S \cup T)
  OBVIOUS
<1>2. IsFiniteSet(U) /\ IsFiniteSet(V)
  <2>1. \A s \in S : fs[s] \in Seq(Records)
    OBVIOUS
  <2>2. \A s \in T : fs[s] \in Seq(Records)
    OBVIOUS
  <2> QED
    BY <1>1, <2>1, <2>2, SizeIsNumber
<1>3. W = U \cup V
  <2>1. \A u : u \in W <=> u \in U \/ u \in V
    BY <1>1, UnitsAre
  <2> QED
    BY <2>1
<1>4. U \cap V = {}
  <2>1. \A u \in U : u[1][1] \in S
    BY <1>1, UnitsAre DEF UnitsOf
  <2>2. \A u \in V : u[1][1] \in T
    BY <1>1, UnitsAre DEF UnitsOf
  <2> QED
    BY <2>1, <2>2
<1>5. /\ Cardinality(U) \in Nat /\ Cardinality(V) \in Nat
      /\ Cardinality(U \cup V) = Cardinality(U) + Cardinality(V) - Cardinality(U \cap V)
  BY <1>2, FS_Union, FS_CardinalityType
<1>6. Cardinality(U \cap V) = 0
  BY <1>4, FS_EmptySet
<1>7. Cardinality(W) = Cardinality(U) + Cardinality(V)
  BY <1>3, <1>5, <1>6
<1> QED
  BY <1>1, <1>7 DEF SizeIn

\* A segment with a record more is longer by the record.
LEMMA SizeOfLonger ==
  ASSUME NEW fs, NEW gs, NEW s, fs[s] \in Seq(Records), NEW r \in Records,
         gs[s] = Append(fs[s], r)
  PROVE  SizeIn(gs, {s}) = SizeIn(fs, {s}) + SizeOf(r)
<1>0. Len(fs[s]) \in Nat /\ SizeOf(r) \in Nat
  BY LenProperties, RecordSize
<1>00. PICK q, a : q = fs[s] /\ a = gs[s]
  OBVIOUS
<1>1. PICK n \in Nat, k \in Nat :
        q = fs[s] /\ a = gs[s] /\ n = Len(q) /\ k = SizeOf(r) /\ q \in Seq(Records)
  BY <1>0, <1>00
<1>2. /\ a \in Seq(Records) /\ Len(a) = n + 1 /\ a[n + 1] = r
      /\ \A i \in 1 .. n : a[i] = q[i]
  BY <1>1, AppendProperties
<1>3. DOMAIN a = 1 .. n + 1 /\ DOMAIN q = 1 .. n
  BY <1>1, <1>2, LenProperties
<1>4. PICK U, V, N : /\ U = UnitsIn(fs, {s}) /\ V = UnitsIn(gs, {s})
                     /\ N = {<<s, n + 1>>} \X (1 .. k)
  OBVIOUS
<1>5. IsFiniteSet(U) /\ IsFiniteSet(N) /\ Cardinality(N) = k
  <2>1. IsFiniteSet({s})
    BY FS_Singleton
  <2> QED
    BY <1>1, <1>4, <2>1, SizeIsNumber, RecordUnits
<1>6. V = U \cup N
  <2>1. \A u : u \in U <=> \E i \in 1 .. n : u \in UnitsOf(fs, s, i)
    <3>1. \A u : u \in U <=> \E x \in {s} : \E i \in DOMAIN fs[x] : u \in UnitsOf(fs, x, i)
      BY <1>4, UnitsAre
    <3> QED
      BY ONLY <1>1, <1>3, <3>1
  <2>2. \A u : u \in V <=> \E i \in 1 .. n + 1 : u \in UnitsOf(gs, s, i)
    <3>1. \A u : u \in V <=> \E x \in {s} : \E i \in DOMAIN gs[x] : u \in UnitsOf(gs, x, i)
      BY <1>4, UnitsAre
    <3> QED
      BY ONLY <1>1, <1>3, <3>1
  <2>3. \A i \in 1 .. n : UnitsOf(gs, s, i) = UnitsOf(fs, s, i)
    BY <1>1, <1>2 DEF UnitsOf
  <2>4. UnitsOf(gs, s, n + 1) = N
    BY <1>1, <1>2, <1>4 DEF UnitsOf
  <2>5. \A i \in 1 .. n + 1 : i \in 1 .. n \/ i = n + 1
    OBVIOUS
  <2>6. n + 1 \in 1 .. n + 1 /\ \A i \in 1 .. n : i \in 1 .. n + 1
    OBVIOUS
  <2>7. \A u : u \in V <=> u \in U \/ u \in N
    BY ONLY <2>1, <2>2, <2>3, <2>4, <2>5, <2>6
  <2> QED
    BY <2>7
<1>7. U \cap N = {}
  <2>1. \A u \in U : u[1][2] \in 1 .. n
    BY <1>1, <1>3, <1>4, UnitsAre DEF UnitsOf
  <2>2. \A u \in N : u[1][2] = n + 1
    BY <1>4
  <2>3. n + 1 \notin 1 .. n
    OBVIOUS
  <2> QED
    BY <2>1, <2>2, <2>3
<1>8. /\ Cardinality(U) \in Nat
      /\ Cardinality(U \cup N) = Cardinality(U) + Cardinality(N) - Cardinality(U \cap N)
  BY <1>5, FS_Union, FS_CardinalityType
<1>9. Cardinality(U \cap N) = 0
  BY <1>7, FS_EmptySet
<1>10. Cardinality(V) = Cardinality(U) + k
  BY <1>5, <1>6, <1>8, <1>9
<1> QED
  BY <1>1, <1>4, <1>10 DEF SizeIn

-----------------------------------------------------------------------------
(* The segments found at a start *)

\* A finite set of numbers can be listed in their order: the smallest set that
\* could not would leave one that could when its least number is taken out.
LEMMA Listing ==
  ASSUME NEW D \in SUBSET Nat, IsFiniteSet(D)
  PROVE  \E q \in [1 .. Cardinality(D) -> D] : Increasing(q)
<1> DEFINE Listable(E) == \E q \in [1 .. Cardinality(E) -> E] : Increasing(q)
           Bad == {n \in Nat : \E E \in SUBSET Nat :
                     IsFiniteSet(E) /\ Cardinality(E) = n /\ ~ Listable(E)}
<1>1. ASSUME Bad # {}
      PROVE  FALSE
  <2>1. PICK m \in Bad : \A k \in Bad : m <= k
    <3>1. Bad \in SUBSET Nat
      OBVIOUS
    <3> QED
      BY <1>1, <3>1, LeastElement
  <2>2. PICK E \in SUBSET Nat : IsFiniteSet(E) /\ Cardinality(E) = m /\ ~ Listable(E)
    OBVIOUS
  <2>3. m \in Nat
    OBVIOUS
  <2>4. E # {}
    <3> SUFFICES ASSUME E = {} PROVE FALSE
      OBVIOUS
    <3>1. PICK q : q = [i \in {} |-> 0]
      OBVIOUS
    <3>2. 1 .. Cardinality(E) = {}
      BY FS_EmptySet
    <3>3. q \in [1 .. Cardinality(E) -> E] /\ Increasing(q)
      BY <3>1, <3>2 DEF Increasing
    <3> QED
      BY <2>2, <3>3
  <2>5. PICK e \in E : \A x \in E : e <= x
    BY <2>4, LeastElement
  <2>6. PICK F : F = E \ {e}
    OBVIOUS
  <2>7. F \in SUBSET Nat /\ IsFiniteSet(F) /\ Cardinality(F) = m - 1 /\ m - 1 \in Nat
    <3>1. IsFiniteSet(E \ {e}) /\ Cardinality(E \ {e}) = Cardinality(E) - 1
      BY <2>2, FS_RemoveElement
    <3>2. IsFiniteSet(F) /\ Cardinality(F) = m - 1
      BY <2>2, <2>6, <3>1
    <3>3. m - 1 \in Nat
      BY <3>2, FS_CardinalityType
    <3> QED
      BY <2>6, <3>2, <3>3
  <2>8. Listable(F)
    <3> SUFFICES ASSUME ~ Listable(F) PROVE FALSE
      OBVIOUS
    <3>1. m - 1 \in Bad
      BY <2>7
    <3>2. m <= m - 1
      BY <2>1, <3>1
    <3> QED
      BY <2>3, <3>2
  <2>9. PICK q \in [1 .. m - 1 -> F] : Increasing(q)
    BY <2>7, <2>8
  <2>10. PICK p : p = [i \in 1 .. m |-> IF i = 1 THEN e ELSE q[i - 1]]
    OBVIOUS
  <2>11. \A i \in 1 .. m : i # 1 => i - 1 \in 1 .. m - 1
    BY <2>3
  <2>12. \A i \in 1 .. m : i # 1 => p[i] = q[i - 1] /\ p[i] \in F
    BY <2>9, <2>10, <2>11
  <2>13. p \in [1 .. m -> E]
    BY <2>6, <2>10, <2>12
  <2>14. Increasing(p)
    <3> SUFFICES ASSUME NEW i \in 1 .. m, NEW j \in 1 .. m, i < j
                 PROVE  p[i] < p[j]
      BY <2>10 DEF Increasing
    <3>1. j # 1
      BY <2>3
    <3>2. CASE i = 1
      <4>1. p[i] = e /\ p[j] \in E /\ p[j] # e
        BY <2>6, <2>10, <2>12, <3>1, <3>2
      <4>2. e <= p[j] /\ e \in Nat /\ p[j] \in Nat
        BY <2>5, <4>1
      <4> QED
        BY <4>1, <4>2
    <3>3. CASE i # 1
      <4>1. /\ i - 1 \in DOMAIN q /\ j - 1 \in DOMAIN q /\ i - 1 < j - 1
            /\ p[i] = q[i - 1] /\ p[j] = q[j - 1]
        BY <2>3, <2>9, <2>11, <2>12, <3>1, <3>3
      <4> QED
        BY ONLY <2>9, <4>1 DEF Increasing
    <3> QED
      BY <3>2, <3>3
  <2> QED
    BY <2>2, <2>13, <2>14
<1> QED
  <2>1. Cardinality(D) \in Nat
    BY FS_CardinalityType
  <2>2. Cardinality(D) \notin Bad
    BY <1>1
  <2> QED
    BY <2>1, <2>2

\* What such a list is.
LEMMA NumberedList ==
  ASSUME NEW D \in SUBSET Nat, IsFiniteSet(D)
  PROVE  /\ ByNumber(D) \in Seq(Nat) /\ Increasing(ByNumber(D))
         /\ ToSet(ByNumber(D)) = D
<1>0. PICK q : q = ByNumber(D)
  OBVIOUS
<1>1. PICK n \in Nat : n = Cardinality(D) /\ q = ByNumber(D)
  BY <1>0, FS_CardinalityType
<1>2. q \in [1 .. n -> D] /\ Increasing(q)
  <2>1. \E p \in [1 .. Cardinality(D) -> D] : Increasing(p)
    BY <1>1, Listing
  <2> QED
    BY <1>1, <2>1 DEF ByNumber
<1>3. \A i \in 1 .. n : q[i] \in D /\ q[i] \in Nat
  BY <1>1, <1>2
<1>4. q \in Seq(Nat)
  <2>1. q \in [1 .. n -> Nat]
    BY <1>2, <1>3
  <2> QED
    BY <2>1, SeqDef
<1>5. q \in Injection(1 .. n, D)
  <2>1. ASSUME NEW i \in 1 .. n, NEW j \in 1 .. n, q[i] = q[j]
        PROVE  i = j
    <3>1. i < j => q[i] < q[j]
      BY <1>2 DEF Increasing
    <3>2. j < i => q[j] < q[i]
      BY <1>2 DEF Increasing
    <3>3. q[i] \in Nat /\ q[j] \in Nat
      BY <1>3
    <3> QED
      BY ONLY <2>1, <3>1, <3>2, <3>3
  <2> QED
    BY <1>2, <2>1 DEF Injection, IsInjective
<1>6. Cardinality(1 .. n) = Cardinality(D)
  BY <1>1, FS_Interval
<1>7. q \in Surjection(1 .. n, D)
  BY <1>1, <1>5, <1>6, FS_Injection
<1>8. \A x \in D : \E i \in 1 .. n : q[i] = x
  BY <1>7 DEF Surjection
<1>9. ToSet(q) = D
  BY <1>2, <1>3, <1>8 DEF ToSet
<1> QED
  BY <1>1, <1>2, <1>4, <1>9

\* The segments found are listed in their order, every one of them.
LEMMA SortedLists ==
  ASSUME NEW kept, DOMAIN kept \in SUBSET Nat, IsFiniteSet(DOMAIN kept)
  PROVE  /\ Sorted(kept) \in Seq(Nat) /\ Increasing(Sorted(kept))
         /\ ToSet(Sorted(kept)) = DOMAIN kept
BY NumberedList DEF Sorted

\* The next segment's number is beyond those of the segments found.
LEMMA NextNumber ==
  ASSUME NEW n \in Nat, NEW D \in SUBSET (0 .. n - 1)
  PROVE  /\ Max(D \cup {NoSeg}) \in Int /\ Max(D \cup {NoSeg}) + 1 \in Nat
         /\ \A s \in D : s <= Max(D \cup {NoSeg})
<1>1. PICK S, T : S = D \cup {-1} /\ T = {t \in 1 .. n + 1 : t - 2 \in S}
  OBVIOUS
<1>2. \A x \in S : x + 2 \in T /\ x \in Int /\ x >= -1
  BY <1>1
<1>3. T # {}
  BY <1>1, <1>2
<1>4. PICK m \in T : \A t \in T : t <= m
  <2>1. T \in SUBSET (1 .. n + 1) /\ n + 1 \in Nat
    BY <1>1
  <2> QED
    BY <1>3, <2>1, GreatestElement
<1>0. m \in Int
  BY <1>1
<1>5. m - 2 \in S /\ m - 2 \in Int
  BY <1>0, <1>1
<1>6. \A x \in S : m - 2 >= x
  <2> SUFFICES ASSUME NEW x \in S PROVE m - 2 >= x
    OBVIOUS
  <2>1. x + 2 \in T /\ x \in Int
    BY <1>2
  <2>2. x + 2 <= m
    BY <1>4, <2>1
  <2> QED
    BY ONLY <1>0, <2>1, <2>2
<1>7. Max(S) \in S /\ \A x \in S : Max(S) >= x
  BY <1>5, <1>6 DEF Max
<1>8. Max(S) \in Int /\ Max(S) >= -1 /\ \A x \in S : x \in Int /\ x <= Max(S)
  BY <1>2, <1>7
<1> QED
  BY <1>1, <1>8 DEF NoSeg

-----------------------------------------------------------------------------
(* Structure: the writer, the segments and the drain *)

\* The lists d and q in their order, and the active segment the last of q.
Newest(d, q, a) ==
  /\ Increasing(d) /\ Increasing(q)
  /\ \A x \in ToSet(d), y \in ToSet(q) : x < y
  /\ a # NoSeg => q # <<>> /\ Last(q) = a

\* ActiveIsNewest, list by list.
LEMMA NewestIs ==
  ASSUME NEW d \in Seq(Nat), NEW q \in Seq(Nat), NEW a
  PROVE  Newest(d, q, a) <=>
           /\ a # NoSeg => q # <<>> /\ Last(q) = a
           /\ Increasing(d \o q)
BY ListBoth DEF Newest

\* What the structure says of the segments.
LEMMA Placement ==
  ASSUME Structure
  PROVE  /\ segments \in Seq(Nat) /\ drainSegs \in Seq(Nat)
         /\ Newest(drainSegs, segments, active)
         /\ Listed \subseteq DOMAIN files /\ Drained \subseteq DOMAIN files
         /\ DOMAIN files \in SUBSET Nat
         /\ \A s \in DOMAIN files : s < nextSeq /\ files[s] \in Seq(Records)
         /\ active # NoSeg =>
              /\ active \in Listed /\ active \in DOMAIN files /\ active \notin Drained
              /\ \A s \in DOMAIN files : s <= active
<1>1. segments \in Seq(Nat) /\ drainSegs \in Seq(Nat)
  BY DEF Structure, WalTypes
<1>2. Newest(drainSegs, segments, active)
  BY <1>1, NewestIs DEF Structure, ActiveIsNewest
<1>3. /\ Listed \subseteq DOMAIN files /\ Drained \subseteq DOMAIN files
      /\ nextSeq \in Nat /\ DOMAIN files \subseteq 0 .. nextSeq - 1
      /\ \A s \in DOMAIN files : files[s] \in Seq(Records)
  BY DEF Structure, WalTypes, TypeOK, Listed, Drained
<1>4. DOMAIN files \in SUBSET Nat /\ \A s \in DOMAIN files : s < nextSeq
  BY <1>3
<1>5. ASSUME active # NoSeg
      PROVE  /\ active \in Listed /\ active \in DOMAIN files /\ active \notin Drained
             /\ \A s \in DOMAIN files : s <= active
  <2>1. segments # <<>> /\ Last(segments) = active /\ Increasing(segments)
    BY <1>2, <1>5 DEF Newest
  <2>2. active \in Listed
    BY <1>1, <2>1, ListLast DEF Listed
  <2>3. active \in Nat /\ active \in DOMAIN files
    BY <1>3, <1>4, <2>2
  <2>4. active \notin Drained
    BY <1>2, <2>2, <2>3 DEF Newest, Listed, Drained
  <2> QED
    BY <1>5, <2>2, <2>3, <2>4 DEF Structure, WriterPlaced
<1> QED
  BY <1>1, <1>2, <1>3, <1>4, <1>5

\* Before the first step.
LEMMA StructureInit == Init => Structure
<1> SUFFICES ASSUME Init PROVE Structure
  OBVIOUS
<1>1. /\ <<>> \in Seq(Nat) /\ ToSet(<<>>) = {} /\ Increasing(<<>>) /\ <<>> \in Seq(1 .. MaxPoints)
      /\ Len(<<>>) = 0
  BY ListNone, EmptySeq
<1>2. DOMAIN files = {} /\ NoSeg = -1
  BY DEF Init, NoSeg
<1>3. TypeOK
  <2>1. /\ DOMAIN files \subseteq 0 .. nextSeq - 1
        /\ \A s \in DOMAIN files : files[s] \in Seq(Records)
        /\ ToSet(segments) \subseteq DOMAIN files /\ ToSet(drainSegs) \subseteq DOMAIN files
        /\ active \in DOMAIN files \cup {NoSeg}
    BY <1>1, <1>2 DEF Init
  <2>4. usable \in BOOLEAN /\ draining \in BOOLEAN
    BY Zenon DEF Init
  <2>2. /\ totalSz \in Int /\ unstated \in Nat /\ nextSeq \in Nat /\ pos \in Nat \ {0}
        /\ phase \in {"idle", "prune", "append", "sync"}
        /\ run \in {"run", "cancel", "closed"}
    BY DEF Init
  <2>3. /\ Len(ch) <= ChCap /\ next \in 0 .. MaxPoints /\ starts \in 1 .. MaxStarts
        /\ acked \cup pruned \cup skipped \subseteq 1 .. MaxPoints
    BY <1>1, WALAssumption DEF Init
  <2> QED
    BY ONLY <2>1, <2>2, <2>3, <2>4 DEF TypeOK
<1>4. WalTypes
  BY <1>1, <1>3 DEF Init, WalTypes
<1>5. Newest(drainSegs, segments, active)
  BY <1>1 DEF Init, Newest
<1>6. ActiveIsNewest
  BY <1>4, <1>5, NewestIs DEF WalTypes, ActiveIsNewest
<1>7. WriterPlaced
  BY <1>2 DEF Init, WriterPlaced
<1> QED
  BY <1>4, <1>6, <1>7 DEF Structure

\* A write begins with a point nobody was told is stored.
LEMMA BeginStructure == Structure /\ WriteBegin => Structure'
<1> SUFFICES ASSUME Structure, WriteBegin PROVE Structure'
  OBVIOUS
<1>1. WalTypes'
  BY WALAssumption DEF Structure, WalTypes, TypeOK, WriteBegin, writer, drainer, history
<1>2. ActiveIsNewest'
  BY DEF Structure, ActiveIsNewest, WriteBegin, writer, drainer
<1>3. WriterPlaced'
  <2>1. next \in Nat
    BY WALAssumption DEF Structure, WalTypes, TypeOK
  <2> QED
    BY <2>1 DEF Structure, WriterPlaced, WriteBegin, writer, history
<1> QED
  BY <1>1, <1>2, <1>3 DEF Structure

\* A write that is refused, or told as stored, leaves the segments as they are.
LEMMA EndStructure ==
  ASSUME Structure,
         \/ RotateSyncFails \/ RotateCloseFails \/ RotateCreateFails
         \/ (AppendFails /\ UNCHANGED files) \/ SyncFails
  PROVE  Structure'
<1>1. /\ UNCHANGED <<files, segments, active, drainSegs, pos, draining, ch, run,
                     next, starts, acked, pruned, skipped, emitted, totalSz, unstated>>
      /\ phase' = "idle"
      /\ usable' \in {usable, FALSE} /\ nextSeq' \in {nextSeq, nextSeq + 1}
  BY DEF RotateSyncFails, RotateCloseFails, RotateCreateFails, AppendFails, SyncFails, Refuse,
         writer, drainer, history
<1>2. WalTypes'
  <2>1. nextSeq \in Nat /\ nextSeq' \in Nat /\ DOMAIN files \subseteq 0 .. nextSeq' - 1
    BY <1>1 DEF Structure, WalTypes, TypeOK
  <2> QED
    BY <1>1, <2>1 DEF Structure, WalTypes, TypeOK
<1>3. ActiveIsNewest'
  BY <1>1 DEF Structure, ActiveIsNewest
<1>4. WriterPlaced'
  <2>1. usable' => usable
    BY <1>1, Zenon
  <2> QED
    BY <1>1, <2>1 DEF Structure, WriterPlaced
<1> QED
  BY <1>2, <1>3, <1>4 DEF Structure

\* A write whose record is on disk is told as stored.
LEMMA StoredStructure == Structure /\ SyncOK => Structure'
<1> SUFFICES ASSUME Structure, SyncOK PROVE Structure'
  OBVIOUS
<1>1. /\ UNCHANGED <<files, segments, active, usable, drainSegs, pos, draining, ch, run,
                     next, starts, pruned, skipped, emitted, nextSeq, unstated>>
      /\ phase = "sync" /\ phase' = "idle" /\ acked' = acked \cup {next}
      /\ totalSz' = totalSz + RecSize
  BY DEF SyncOK, drainer
<1>2. next \in 1 .. MaxPoints
  <2>1. PICK recs : recs = files[active]
    OBVIOUS
  <2>2. recs \in Seq(Records) /\ recs # <<>> /\ recs[Len(recs)].point = next
    BY <1>1, <2>1, Placement DEF Structure, WriterPlaced
  <2>3. Len(recs) \in 1 .. Len(recs)
    BY <2>2, EmptySeq, LenProperties
  <2>4. recs[Len(recs)] \in Records
    BY <2>2, <2>3, ElementOfSeq
  <2> QED
    BY <2>2, <2>4 DEF Records
<1>3. WalTypes'
  <2>1. totalSz' \in Int /\ acked' \subseteq 1 .. MaxPoints
    BY <1>1, <1>2, WALAssumption DEF Structure, WalTypes, TypeOK
  <2> QED
    BY <1>1, <2>1 DEF Structure, WalTypes, TypeOK
<1>4. ActiveIsNewest'
  BY <1>1 DEF Structure, ActiveIsNewest
<1>5. WriterPlaced'
  BY <1>1, <1>2 DEF Structure, WriterPlaced
<1> QED
  BY <1>3, <1>4, <1>5 DEF Structure

\* The drain reads, hands over, jumps or is over, the context ends or the log
\* is closed: no segment changes place.
LEMMA QuietStructure ==
  ASSUME Structure,
         DrainPut \/ DrainSkipRotten \/ DrainSkipTorn \/ DrainDone \/ Receive \/ Cancel \/ Close
  PROVE  Structure'
<1>1. /\ UNCHANGED <<files, segments, active, drainSegs, phase, next, starts,
                     acked, pruned, totalSz, nextSeq, unstated>>
      /\ usable' = usable \/ (usable' = FALSE /\ phase = "idle")
      /\ draining' \in BOOLEAN /\ run' \in {"run", "cancel", "closed"}
  BY DEF DrainPut, DrainSkipRotten, DrainSkipTorn, JumpTo, DrainDone, Receive, Cancel, Close,
         writer, drainer, history, Structure, WalTypes, TypeOK, Draining, AtRecord
<1>2. ASSUME Draining
      PROVE  Reading \in Seq(Records)
  <2>1. Head(drainSegs) \in Drained
    BY <1>2, Placement, ListTail DEF Draining, Drained, Newest
  <2> QED
    BY <2>1, Placement DEF Reading
<1>3. /\ pos' \in Nat \ {0}
      /\ ch' \in Seq(1 .. MaxPoints) /\ Len(ch') <= ChCap
      /\ emitted' \in [1 .. MaxStarts -> Seq(1 .. MaxPoints)]
      /\ skipped' \subseteq 1 .. MaxPoints
  <2>0. /\ pos \in Nat \ {0} /\ skipped \subseteq 1 .. MaxPoints /\ Len(ch) <= ChCap
        /\ ch \in Seq(1 .. MaxPoints) /\ emitted \in [1 .. MaxStarts -> Seq(1 .. MaxPoints)]
        /\ ChCap \in Nat /\ starts \in 1 .. MaxStarts
    BY WALAssumption DEF Structure, WalTypes, TypeOK
  <2>1. CASE DrainPut
    <3>1. Draining /\ pos <= Len(Reading) /\ Len(ch) < ChCap
      BY <2>1 DEF DrainPut, AtRecord
    <3>2. PICK p : p = Reading[pos].point
      OBVIOUS
    <3>3. p \in 1 .. MaxPoints
      <4>1. Reading[pos] \in Records
        BY <1>2, <2>0, <3>1, ElementOfSeq, LenProperties
      <4> QED
        BY <3>2, <4>1 DEF Records
    <3>4. /\ ch' = Append(ch, p) /\ pos' = pos + 1 /\ skipped' = skipped
          /\ emitted' = [emitted EXCEPT ![starts] = Append(emitted[starts], p)]
      BY <2>1, <3>2 DEF DrainPut
    <3>5. /\ Append(ch, p) \in Seq(1 .. MaxPoints) /\ Len(Append(ch, p)) = Len(ch) + 1
          /\ Len(ch) \in Nat
      BY <2>0, <3>3, AppendProperties, LenProperties
    <3>6. Append(emitted[starts], p) \in Seq(1 .. MaxPoints)
      BY <2>0, <3>3, AppendProperties
    <3> QED
      BY <2>0, <3>1, <3>4, <3>5, <3>6
  <2>2. CASE DrainSkipRotten \/ DrainSkipTorn
    <3>1. PICK to : JumpTo(to) /\ to \in Nat \ {0} /\ Draining
      <4>1. ASSUME DrainSkipRotten
            PROVE  \E to \in Nat \ {0} : JumpTo(to) /\ Draining
        <5>1. Draining
          BY <4>1 DEF DrainSkipRotten, AtRecord
        <5>2. PICK to \in (pos + 1) .. (Len(Reading) + 1) : JumpTo(to)
          BY <4>1 DEF DrainSkipRotten
        <5>3. to \in Nat \ {0}
          BY <2>0
        <5> QED
          BY <5>1, <5>2, <5>3
      <4>2. ASSUME DrainSkipTorn
            PROVE  \E to \in Nat \ {0} : JumpTo(to) /\ Draining
        <5>1. Draining
          BY <4>2 DEF DrainSkipTorn, AtRecord
        <5>2. PICK to \in (pos + 2) .. (Len(Reading) + 2) : JumpTo(to)
          BY <4>2 DEF DrainSkipTorn
        <5>3. to \in Nat \ {0}
          BY <2>0
        <5> QED
          BY <5>1, <5>2, <5>3
      <4> QED
        BY <2>2, <4>1, <4>2
    <3>2. \A i \in DOMAIN Reading : Reading[i].point \in 1 .. MaxPoints
      <4> SUFFICES ASSUME NEW i \in DOMAIN Reading PROVE Reading[i].point \in 1 .. MaxPoints
        OBVIOUS
      <4>1. Reading[i] \in Records
        BY <1>2, <3>1, ElementOfSeq, LenProperties
      <4> QED
        BY <4>1 DEF Records
    <3> QED
      BY <2>0, <3>1, <3>2 DEF JumpTo
  <2>3. CASE DrainDone \/ Cancel \/ Close
    BY <2>0, <2>3 DEF DrainDone, Cancel, Close, drainer, history
  <2>4. CASE Receive
    <3>1. Tail(ch) \in Seq(1 .. MaxPoints) /\ Len(Tail(ch)) = Len(ch) - 1 /\ Len(ch) \in Nat
      BY <2>0, <2>4, HeadTailProperties, LenProperties DEF Receive
    <3> QED
      BY <2>0, <2>4, <3>1 DEF Receive, history
  <2> QED
    BY <2>1, <2>2, <2>3, <2>4
<1>4. WalTypes'
  BY <1>1, <1>3 DEF Structure, WalTypes, TypeOK
<1>5. ActiveIsNewest'
  BY <1>1 DEF Structure, ActiveIsNewest
<1>6. WriterPlaced'
  <2>1. usable' => usable
    BY <1>1, Zenon
  <2>2. phase # "idle" => (usable' <=> usable)
    BY <1>1, Zenon
  <2> QED
    BY <1>1, <2>1, <2>2 DEF Structure, WriterPlaced
<1> QED
  BY <1>4, <1>5, <1>6 DEF Structure

\* A stored record holds a point.
LEMMA StoredArePoints ==
  ASSUME NEW recs \in Seq(Records)
  PROVE  StoredPoints(recs) \subseteq 1 .. MaxPoints
<1>1. \A i \in DOMAIN recs : recs[i] \in Records
  BY ElementOfSeq, LenProperties
<1> QED
  BY <1>1 DEF StoredPoints, Records

\* A file that is deleted, or cannot be, leaves the others as they are.
LEMMA FileGone ==
  ASSUME NEW o, files' = WithoutFile(o) \/ files' = files
  PROVE  /\ DOMAIN files' \subseteq DOMAIN files
         /\ \A t \in DOMAIN files : t # o => t \in DOMAIN files'
         /\ \A t \in DOMAIN files' : files'[t] = files[t]
BY DEF WithoutFile

\* The size limit takes the oldest segment, which is not the one written.
LEMMA PruneStructure == Structure /\ PruneOldest => Structure'
<1> SUFFICES ASSUME Structure, PruneOldest PROVE Structure'
  OBVIOUS
<1>1. PICK o : o = Head(segments)
  OBVIOUS
<1>2. /\ phase = "prune" /\ segments # <<>> /\ o # active
      /\ segments' = Tail(segments)
      /\ \/ totalSz' = totalSz - FileSize(o) /\ unstated' = unstated
         \/ totalSz' = totalSz /\ unstated' = unstated + FileSize(o)
      /\ pruned' = pruned \cup StoredPoints(files[o])
      /\ files' = WithoutFile(o) \/ files' = files
      /\ UNCHANGED <<active, usable, nextSeq, phase, drainSegs, pos, draining, ch, run, next,
                     starts, acked, skipped, emitted>>
  BY <1>1 DEF PruneOldest, OverLimit, drainer
<1>3. /\ DOMAIN files' \subseteq DOMAIN files
      /\ \A t \in DOMAIN files : t # o => t \in DOMAIN files'
      /\ \A t \in DOMAIN files' : files'[t] = files[t]
  BY <1>2, FileGone
<1>4. /\ segments \in Seq(Nat) /\ drainSegs \in Seq(Nat)
      /\ Newest(drainSegs, segments, active)
      /\ Listed \subseteq DOMAIN files /\ Drained \subseteq DOMAIN files
      /\ DOMAIN files \in SUBSET Nat
      /\ active # NoSeg => active \in DOMAIN files
      /\ \A s \in DOMAIN files : files[s] \in Seq(Records)
  BY Placement
<1>5. /\ o \in Nat /\ o \in Listed
      /\ segments' \in Seq(Nat) /\ Increasing(segments')
      /\ ToSet(segments') = Listed \ {o}
      /\ Last(segments) # o => segments' # <<>> /\ Last(segments') = Last(segments)
  BY <1>1, <1>2, <1>4, ListTail DEF Newest, Listed
<1>6. o \notin Drained
  BY <1>4, <1>5 DEF Newest, Listed, Drained
<1>7. FileSize(o) \in Nat
  <2>1. \A s \in {o} : files[s] \in Seq(Records)
    BY <1>4, <1>5
  <2> QED
    BY <2>1, FS_Singleton, SizeIsNumber DEF FileSize
<1>8. WalTypes'
  <2>1. /\ DOMAIN files' \subseteq 0 .. nextSeq' - 1
        /\ \A s \in DOMAIN files' : files'[s] \in Seq(Records)
        /\ ToSet(segments') \subseteq DOMAIN files'
        /\ ToSet(drainSegs') \subseteq DOMAIN files'
        /\ active' \in DOMAIN files' \cup {NoSeg}
    BY <1>2, <1>3, <1>4, <1>5, <1>6 DEF Structure, WalTypes, TypeOK, Listed, Drained
  <2>2. totalSz' \in Int /\ unstated' \in Nat
    <3>1. totalSz \in Int /\ unstated \in Nat
      BY DEF Structure, WalTypes, TypeOK
    <3>2. PICK k \in Nat : k = FileSize(o)
      BY <1>7
    <3>3. \/ totalSz' = totalSz - k /\ unstated' = unstated
          \/ totalSz' = totalSz /\ unstated' = unstated + k
      BY <1>2, <3>2
    <3> QED
      BY ONLY <3>1, <3>2, <3>3
  <2>3. pruned' \subseteq 1 .. MaxPoints
    <3>1. StoredPoints(files[o]) \subseteq 1 .. MaxPoints
      BY <1>4, <1>5, StoredArePoints
    <3> QED
      BY <1>2, <3>1 DEF Structure, WalTypes, TypeOK
  <2> QED
    BY <1>2, <1>4, <1>5, <2>1, <2>2, <2>3 DEF Structure, WalTypes, TypeOK
<1>9. ActiveIsNewest'
  <2>1. Newest(drainSegs', segments', active')
    BY <1>2, <1>4, <1>5 DEF Newest, Listed
  <2> QED
    BY <1>2, <1>4, <1>5, <2>1, NewestIs DEF ActiveIsNewest
<1>10. WriterPlaced'
  BY <1>2, <1>3 DEF Structure, WriterPlaced
<1> QED
  BY <1>8, <1>9, <1>10 DEF Structure

\* A new segment's number is beyond all others.
LEMMA RotateStructure == Structure /\ Rotate => Structure'
<1> SUFFICES ASSUME Structure, Rotate PROVE Structure'
  OBVIOUS
<1>1. PICK n : n = nextSeq
  OBVIOUS
<1>2. /\ files' = [s \in DOMAIN files \cup {n} |-> IF s = n THEN <<>> ELSE files[s]]
      /\ segments' = Append(segments, n)
      /\ active' = n /\ usable' = TRUE /\ nextSeq' = n + 1
      /\ phase = "prune" /\ phase' = "append"
      /\ UNCHANGED <<totalSz, drainSegs, pos, draining, ch, run, next, starts,
                     acked, pruned, skipped, emitted, unstated>>
  BY <1>1 DEF Rotate, Rotating, drainer, history
<1>3. /\ segments \in Seq(Nat) /\ drainSegs \in Seq(Nat)
      /\ Newest(drainSegs, segments, active)
      /\ Listed \subseteq DOMAIN files /\ Drained \subseteq DOMAIN files
      /\ DOMAIN files \in SUBSET Nat
      /\ \A s \in DOMAIN files : s < n /\ files[s] \in Seq(Records)
  BY <1>1, Placement
<1>4. n \in Nat /\ DOMAIN files \subseteq 0 .. n - 1
  BY <1>1 DEF Structure, WalTypes, TypeOK
<1>5. /\ segments' \in Seq(Nat) /\ Increasing(segments')
      /\ ToSet(segments') = Listed \cup {n}
      /\ segments' # <<>> /\ Last(segments') = n
  <2>1. \A x \in ToSet(segments) : x < n
    BY <1>3 DEF Listed
  <2> QED
    BY <1>2, <1>3, <1>4, <2>1, ListAppend DEF Newest, Listed
<1>6. WalTypes'
  <2>1. /\ DOMAIN files' \subseteq 0 .. nextSeq' - 1
        /\ ToSet(segments') \subseteq DOMAIN files'
        /\ ToSet(drainSegs') \subseteq DOMAIN files'
        /\ active' \in DOMAIN files' \cup {NoSeg}
        /\ nextSeq' \in Nat
    BY <1>2, <1>3, <1>4, <1>5 DEF Listed, Drained
  <2>2. \A s \in DOMAIN files' : files'[s] \in Seq(Records)
    BY <1>2, <1>3, EmptySeq
  <2>3. usable' \in BOOLEAN
    BY <1>2, Zenon
  <2> QED
    BY <1>2, <1>5, <2>1, <2>2, <2>3 DEF Structure, WalTypes, TypeOK
<1>7. ActiveIsNewest'
  <2>1. \A d \in ToSet(drainSegs) : d < n
    BY <1>3 DEF Drained
  <2>2. Newest(drainSegs', segments', active')
    BY <1>2, <1>3, <1>5, <2>1 DEF Newest, Listed
  <2> QED
    BY <1>2, <1>3, <1>5, <2>2, NewestIs DEF ActiveIsNewest
<1>8. WriterPlaced'
  <2>1. active' # NoSeg /\ \A s \in DOMAIN files' : s <= active'
    BY <1>2, <1>3, <1>4 DEF NoSeg
  <2>2. usable'
    BY <1>2, Zenon
  <2> QED
    BY <1>2, <2>1, <2>2 DEF Structure, WriterPlaced
<1> QED
  BY <1>6, <1>7, <1>8 DEF Structure

\* What an append leaves.
LEMMA Appended ==
  ASSUME Structure, Appending, usable, NEW st \in {"whole", "torn"}, AppendRecord(st)
  PROVE  /\ active # NoSeg /\ active \in DOMAIN files
         /\ next \in 1 .. MaxPoints /\ Record(next, st) \in Records
         /\ DOMAIN files' = DOMAIN files
         /\ \A s \in DOMAIN files : s # active => files'[s] = files[s]
         /\ files'[active] = Append(files[active], Record(next, st))
         /\ files'[active] \in Seq(Records)
         /\ Len(files'[active]) = Len(files[active]) + 1
         /\ files'[active][Len(files[active]) + 1] = Record(next, st)
         /\ \A i \in 1 .. Len(files[active]) : files'[active][i] = files[active][i]
         /\ files'[active] # <<>>
<1>1. active # NoSeg
  BY DEF Structure, WriterPlaced
<1>2. active \in DOMAIN files /\ files[active] \in Seq(Records)
  BY <1>1, Placement
<1>3. next \in 1 .. MaxPoints
  BY WALAssumption DEF Appending, Structure, WriterPlaced, WalTypes, TypeOK
<1>4. PICK r : r = Record(next, st)
  OBVIOUS
<1>5. r \in Records
  BY <1>3, <1>4 DEF Record, Records
<1>6. PICK q, a : q = files[active] /\ a = Append(q, r)
  OBVIOUS
<1>7. /\ DOMAIN files' = DOMAIN files
      /\ \A s \in DOMAIN files : s # active => files'[s] = files[s]
      /\ files'[active] = a
  BY <1>2, <1>4, <1>6 DEF AppendRecord
<1>8. q \in Seq(Records)
  BY <1>2, <1>6
<1>9. /\ a \in Seq(Records) /\ Len(a) = Len(q) + 1 /\ a[Len(q) + 1] = r
      /\ \A i \in 1 .. Len(q) : a[i] = q[i]
  BY ONLY <1>5, <1>6, <1>8, AppendProperties
<1>10. a # <<>>
  BY <1>8, <1>9, EmptySeq, LenProperties
<1> QED
  BY <1>1, <1>2, <1>3, <1>4, <1>5, <1>6, <1>7, <1>9, <1>10

\* A record is appended, whole or in part.
LEMMA AppendStructure ==
  ASSUME Structure, Appending, usable,
         \/ AppendWhole /\ AppendRecord("whole")
         \/ AppendFails /\ AppendRecord("torn")
  PROVE  Structure'
<1>1. PICK st \in {"whole", "torn"} :
        /\ AppendRecord(st)
        /\ phase' = "sync" => st = "whole"
        /\ phase' \in {"sync", "idle"}
  BY DEF AppendWhole, AppendFails, Refuse
<1>2. UNCHANGED <<segments, active, usable, totalSz, nextSeq, drainSegs, pos, draining, ch,
                  run, next, starts, acked, pruned, skipped, emitted, unstated>>
  BY DEF AppendWhole, AppendFails, Refuse, writer, drainer, history
<1>3. PICK r, q, a : r = Record(next, st) /\ q = files[active] /\ a = files'[active]
  OBVIOUS
<1>4. /\ active # NoSeg /\ active \in DOMAIN files
      /\ DOMAIN files' = DOMAIN files
      /\ \A s \in DOMAIN files : s # active => files'[s] = files[s]
      /\ a \in Seq(Records) /\ a # <<>> /\ Len(a) = Len(q) + 1 /\ a[Len(q) + 1] = r
  BY <1>1, <1>3, Appended
<1>5. WalTypes'
  <2>1. \A s \in DOMAIN files' : files'[s] \in Seq(Records)
    BY <1>3, <1>4, Placement
  <2> QED
    BY <1>1, <1>2, <1>4, <2>1 DEF Structure, WalTypes, TypeOK
<1>6. ActiveIsNewest'
  BY <1>2 DEF Structure, ActiveIsNewest
<1>7. WriterPlaced'
  <2>1. a[Len(a)].point = next /\ a[Len(a)].state = st
    BY <1>3, <1>4 DEF Record
  <2>2. Appending => next \notin acked /\ next >= 1 /\ phase # "idle"
    BY DEF Appending, Structure, WriterPlaced
  <2> QED
    BY <1>1, <1>2, <1>3, <1>4, <2>1, <2>2 DEF Structure, WriterPlaced
<1> QED
  BY <1>5, <1>6, <1>7 DEF Structure

\* A drain takes the listed segments, and the writer has none left.
LEMMA DrainStructure == Structure /\ Drain => Structure'
<1> SUFFICES ASSUME Structure, Drain PROVE Structure'
  OBVIOUS
<1>1. /\ drainSegs' = segments /\ pos' = 1 /\ draining' = TRUE
      /\ segments' = <<>> /\ totalSz' = 0 /\ unstated' = 0
      /\ active' = NoSeg /\ usable' = FALSE
      /\ phase = "idle"
      /\ UNCHANGED <<files, nextSeq, phase, ch, run, next, starts, acked, pruned, skipped, emitted>>
  BY DEF Drain, Taken, history
<1>2. <<>> \in Seq(Nat) /\ ToSet(<<>>) = {} /\ Increasing(<<>>)
  BY ListNone
<1>3. segments \in Seq(Nat) /\ Newest(drainSegs, segments, active) /\ Listed \subseteq DOMAIN files
  BY Placement
<1>4. WalTypes'
  <2>1. usable' \in BOOLEAN /\ draining' \in BOOLEAN
    BY <1>1, Zenon
  <2> QED
    BY <1>1, <1>2, <1>3, <2>1 DEF Structure, WalTypes, TypeOK, Listed
<1>5. ActiveIsNewest'
  <2>1. Newest(drainSegs', segments', active')
    BY <1>1, <1>2, <1>3 DEF Newest
  <2> QED
    BY <1>1, <1>2, <1>3, <2>1, NewestIs DEF ActiveIsNewest
<1>6. WriterPlaced'
  <2>1. ~ usable'
    BY <1>1, Zenon
  <2> QED
    BY <1>1, <2>1 DEF Structure, WriterPlaced
<1> QED
  BY <1>4, <1>5, <1>6 DEF Structure

\* The drain deletes a segment it has read, and no other.
LEMMA NextSegmentStructure == Structure /\ DrainNextSegment => Structure'
<1> SUFFICES ASSUME Structure, DrainNextSegment PROVE Structure'
  OBVIOUS
<1>1. PICK o : o = Head(drainSegs)
  OBVIOUS
<1>2. /\ drainSegs # <<>> /\ drainSegs' = Tail(drainSegs) /\ pos' = 1
      /\ files' = WithoutFile(o) \/ files' = files
      /\ UNCHANGED <<segments, active, usable, totalSz, nextSeq, phase, draining, ch, run, next,
                     starts, acked, pruned, skipped, emitted, unstated>>
  BY <1>1 DEF DrainNextSegment, Draining, writer, history
<1>3. /\ DOMAIN files' \subseteq DOMAIN files
      /\ \A t \in DOMAIN files : t # o => t \in DOMAIN files'
      /\ \A t \in DOMAIN files' : files'[t] = files[t]
  BY <1>2, FileGone
<1>4. /\ segments \in Seq(Nat) /\ drainSegs \in Seq(Nat)
      /\ Newest(drainSegs, segments, active)
      /\ Listed \subseteq DOMAIN files /\ Drained \subseteq DOMAIN files
      /\ DOMAIN files \in SUBSET Nat
      /\ active # NoSeg => active \in DOMAIN files /\ active \notin Drained
      /\ \A s \in DOMAIN files : files[s] \in Seq(Records)
  BY Placement
<1>5. /\ o \in Nat /\ o \in Drained
      /\ drainSegs' \in Seq(Nat) /\ Increasing(drainSegs')
      /\ ToSet(drainSegs') = Drained \ {o}
  BY <1>1, <1>2, <1>4, ListTail DEF Newest, Drained
<1>6. o \notin Listed
  BY <1>4, <1>5 DEF Newest, Listed, Drained
<1>7. WalTypes'
  <2>1. /\ DOMAIN files' \subseteq 0 .. nextSeq' - 1
        /\ \A s \in DOMAIN files' : files'[s] \in Seq(Records)
        /\ ToSet(segments') \subseteq DOMAIN files'
        /\ ToSet(drainSegs') \subseteq DOMAIN files'
        /\ active' \in DOMAIN files' \cup {NoSeg}
    BY <1>2, <1>3, <1>4, <1>5, <1>6 DEF Structure, WalTypes, TypeOK, Listed, Drained
  <2> QED
    BY <1>2, <1>4, <1>5, <2>1 DEF Structure, WalTypes, TypeOK
<1>8. ActiveIsNewest'
  <2>1. Newest(drainSegs', segments', active')
    BY <1>2, <1>4, <1>5 DEF Newest, Drained
  <2>2. drainSegs' \in Seq(Nat) /\ segments' \in Seq(Nat)
    BY <1>2, <1>4, <1>5
  <2> QED
    BY ONLY <2>1, <2>2, NewestIs DEF ActiveIsNewest
<1>9. WriterPlaced'
  <2>1. active # NoSeg => active \in DOMAIN files' /\ files'[active] = files[active]
    BY <1>3, <1>4, <1>5
  <2>2. phase = "sync" => active # NoSeg
    BY DEF Structure, WriterPlaced
  <2> QED
    BY <1>2, <1>3, <2>1, <2>2 DEF Structure, WriterPlaced
<1> QED
  BY <1>7, <1>8, <1>9 DEF Structure

\* A drain that is given up leaves its segments to the next start.
LEMMA AbortStructure == Structure /\ DrainAbort => Structure'
<1> SUFFICES ASSUME Structure, DrainAbort PROVE Structure'
  OBVIOUS
<1>1. /\ drainSegs' = <<>> /\ pos' = 1 /\ draining' = FALSE
      /\ UNCHANGED <<files, segments, active, usable, totalSz, nextSeq, phase, ch, run, next,
                     starts, acked, pruned, skipped, emitted, unstated>>
  BY DEF DrainAbort, writer, history
<1>2. <<>> \in Seq(Nat) /\ ToSet(<<>>) = {} /\ Increasing(<<>>)
  BY ListNone
<1>3. segments \in Seq(Nat) /\ Newest(drainSegs, segments, active)
  BY Placement
<1>4. WalTypes'
  <2>1. draining' \in BOOLEAN
    BY <1>1, Zenon
  <2> QED
    BY <1>1, <1>2, <2>1 DEF Structure, WalTypes, TypeOK
<1>5. ActiveIsNewest'
  <2>1. Newest(drainSegs', segments', active')
    BY <1>1, <1>2, <1>3 DEF Newest
  <2>2. drainSegs' \in Seq(Nat) /\ segments' \in Seq(Nat)
    BY <1>1, <1>2, <1>3
  <2> QED
    BY ONLY <2>1, <2>2, NewestIs DEF ActiveIsNewest
<1>6. WriterPlaced'
  BY <1>1 DEF Structure, WriterPlaced
<1> QED
  BY <1>4, <1>5, <1>6 DEF Structure

\* What a record that rots leaves.
LEMMA Rotten ==
  ASSUME Structure, Rot
  PROVE  /\ DOMAIN files' = DOMAIN files
         /\ \A s \in DOMAIN files :
              /\ files'[s] \in Seq(Records)
              /\ Len(files'[s]) = Len(files[s]) /\ DOMAIN files'[s] = DOMAIN files[s]
              /\ \A i \in DOMAIN files[s] :
                   /\ files'[s][i].point = files[s][i].point
                   /\ \/ files'[s][i].state = files[s][i].state
                      \/ files[s][i].state = "whole" /\ files'[s][i].state = "rotten"
<1>0. PICK t \in DOMAIN files : \E j \in DOMAIN files[t] :
        /\ files[t][j].state = "whole"
        /\ files' = [files EXCEPT ![t][j].state = "rotten"]
  BY DEF Rot
<1>1. PICK j \in DOMAIN files[t] :
        /\ files[t][j].state = "whole"
        /\ files' = [files EXCEPT ![t][j].state = "rotten"]
  BY <1>0
<1>00. PICK q : q = files[t]
  OBVIOUS
<1>2. PICK n \in Nat : q = files[t] /\ n = Len(q) /\ q \in Seq(Records) /\ j \in 1 .. n
  <2>1. files[t] \in Seq(Records)
    BY Placement
  <2>2. Len(files[t]) \in Nat /\ DOMAIN files[t] = 1 .. Len(files[t])
    BY <2>1, LenProperties
  <2> QED
    BY <1>00, <2>1, <2>2
<1>3. PICK e, a : e = [q[j] EXCEPT !.state = "rotten"] /\ a = [q EXCEPT ![j] = e]
  OBVIOUS
<1>4. q[j] \in Records
  BY <1>2, ElementOfSeq
<1>5. e \in Records /\ e.point = q[j].point /\ e.state = "rotten"
  BY <1>3, <1>4 DEF Records
<1>6. /\ a \in Seq(Records) /\ Len(a) = n
      /\ \A i \in 1 .. n : a[i] = IF i = j THEN e ELSE q[i]
  BY <1>2, <1>3, <1>5, ExceptSeq
<1>7. DOMAIN a = 1 .. n /\ DOMAIN q = 1 .. n
  BY <1>2, <1>6, LenProperties
<1>8. /\ DOMAIN files' = DOMAIN files /\ files'[t] = a
      /\ \A s \in DOMAIN files : s # t => files'[s] = files[s]
  BY <1>1, <1>2, <1>3
<1>9. ASSUME NEW s \in DOMAIN files
      PROVE  /\ files'[s] \in Seq(Records)
             /\ Len(files'[s]) = Len(files[s]) /\ DOMAIN files'[s] = DOMAIN files[s]
             /\ \A i \in DOMAIN files[s] :
                  /\ files'[s][i].point = files[s][i].point
                  /\ \/ files'[s][i].state = files[s][i].state
                     \/ files[s][i].state = "whole" /\ files'[s][i].state = "rotten"
  <2>1. CASE s = t
    BY <1>1, <1>2, <1>5, <1>6, <1>7, <1>8, <2>1
  <2>2. CASE s # t
    <3>1. files'[s] = files[s] /\ files[s] \in Seq(Records)
      BY <1>8, <2>2, Placement
    <3> QED
      BY <3>1
  <2> QED
    BY <2>1, <2>2
<1> QED
  BY <1>8, <1>9

\* A record that rots stays where it is.
LEMMA RotStructure == Structure /\ Rot => Structure'
<1> SUFFICES ASSUME Structure, Rot PROVE Structure'
  OBVIOUS
<1>1. UNCHANGED <<segments, active, usable, totalSz, nextSeq, phase, drainSegs, pos, draining, ch,
                  run, next, starts, acked, pruned, skipped, emitted, unstated>>
  BY DEF Rot, writer, drainer, history
<1>2. /\ DOMAIN files' = DOMAIN files
      /\ \A s \in DOMAIN files : files'[s] \in Seq(Records)
  BY Rotten
<1>3. WalTypes'
  BY <1>1, <1>2 DEF Structure, WalTypes, TypeOK
<1>4. ActiveIsNewest'
  BY <1>1 DEF Structure, ActiveIsNewest
<1>5. WriterPlaced'
  <2>1. ASSUME phase = "sync"
        PROVE  LET recs == files'[active]
               IN  /\ recs # <<>> /\ recs[Len(recs)].point = next
                   /\ recs[Len(recs)].state # "torn"
    <3>1. PICK q, a : q = files[active] /\ a = files'[active]
      OBVIOUS
    <3>2. q # <<>> /\ q[Len(q)].point = next /\ q[Len(q)].state # "torn" /\ active # NoSeg
      BY <2>1, <3>1 DEF Structure, WriterPlaced
    <3>3. active \in DOMAIN files /\ q \in Seq(Records)
      BY <3>1, <3>2, Placement
    <3>4. Len(q) \in DOMAIN q
      BY <3>2, <3>3, EmptySeq, LenProperties
    <3>5. /\ a \in Seq(Records) /\ Len(a) = Len(q)
          /\ a[Len(q)].point = q[Len(q)].point
          /\ a[Len(q)].state = q[Len(q)].state \/ a[Len(q)].state = "rotten"
      BY <3>1, <3>3, <3>4, Rotten
    <3>6. a # <<>>
      BY <3>2, <3>3, <3>5, EmptySeq
    <3> QED
      BY <3>1, <3>2, <3>5, <3>6
  <2> QED
    BY <1>1, <1>2, <2>1 DEF Structure, WriterPlaced
<1> QED
  BY <1>3, <1>4, <1>5 DEF Structure

\* A sequence of records without its last.
LEMMA FrontIs ==
  ASSUME NEW q \in Seq(Records), NEW n \in Nat, n = Len(q), n # 0
  PROVE  /\ Front(q) \in Seq(Records) /\ Len(Front(q)) = n - 1
         /\ \A i \in 1 .. n - 1 : Front(q)[i] = q[i]
<1>. PICK f : f = Front(q)
  OBVIOUS
<1>1. f = SubSeq(q, 1, n - 1)
  BY DEF Front
<1>2. \A i \in 1 .. n - 1 : q[i] \in Records
  BY ElementOfSeq
<1>3. 1 \in Int /\ n - 1 \in Int
  OBVIOUS
<1>4. /\ f \in Seq(Records)
      /\ Len(f) = IF 1 <= n - 1 THEN n - 1 - 1 + 1 ELSE 0
      /\ \A i \in 1 .. n - 1 - 1 + 1 : f[i] = q[1 + i - 1]
  BY ONLY <1>1, <1>2, <1>3, SubSeqProperties
<1>5. Len(f) = n - 1
  BY <1>4
<1>6. \A i \in 1 .. n - 1 : f[i] = q[i]
  <2>1. \A i \in 1 .. n - 1 : i \in 1 .. n - 1 - 1 + 1 /\ 1 + i - 1 = i
    OBVIOUS
  <2> QED
    BY <1>4, <2>1
<1> QED
  BY <1>4, <1>5, <1>6

\* What a kill leaves of the log: only the record whose write was not over may
\* be missing, or torn.
LEMMA KeptFiles ==
  ASSUME Structure, NEW kept \in AfterKill
  PROVE  /\ DOMAIN kept = DOMAIN files
         /\ \A s \in DOMAIN files :
              /\ kept[s] \in Seq(Records)
              /\ \A i \in DOMAIN kept[s] :
                   i \in DOMAIN files[s] /\ kept[s][i].point = files[s][i].point
              /\ \A i \in DOMAIN files[s] :
                   \/ i \in DOMAIN kept[s] /\ kept[s][i] = files[s][i]
                   \/ phase = "sync" /\ files[s][i].point = next
<1>1. CASE kept = files
  BY <1>1, Placement
<1>2. CASE kept # files
  <2>1. PICK q : q = files[active]
    OBVIOUS
  <2>2. PICK f, r, a :
          /\ f = Front(q) /\ r = Record(next, "torn")
          /\ a = f \/ a = Append(f, r)
          /\ phase = "sync" /\ kept = [files EXCEPT ![active] = a]
    <3>1. /\ phase = "sync"
          /\ \/ kept = [files EXCEPT ![active] = Front(q)]
             \/ kept = [files EXCEPT ![active] = Append(Front(q), Record(next, "torn"))]
      BY <1>2, <2>1 DEF AfterKill
    <3> QED
      BY <3>1
  <2>3. /\ active # NoSeg /\ next \in 1 .. MaxPoints
        /\ q # <<>> /\ q[Len(q)].point = next
    BY <2>1, <2>2, WALAssumption DEF Structure, WriterPlaced, WalTypes, TypeOK
  <2>4. active \in DOMAIN files /\ q \in Seq(Records)
    BY <2>1, <2>3, Placement
  <2>5. PICK n \in Nat : n = Len(q) /\ n # 0
    BY <2>3, <2>4, EmptySeq, LenProperties
  <2>6. f \in Seq(Records) /\ Len(f) = n - 1 /\ \A i \in 1 .. n - 1 : f[i] = q[i]
    BY <2>2, <2>4, <2>5, FrontIs
  <2>7. r \in Records /\ r.point = next
    BY <2>2, <2>3 DEF Record, Records
  <2>8. PICK g : g = Append(f, r)
    OBVIOUS
  <2>9. /\ g \in Seq(Records) /\ Len(g) = n /\ g[n] = r
        /\ \A i \in 1 .. n - 1 : g[i] = f[i]
    <3>1. /\ g \in Seq(Records) /\ Len(g) = Len(f) + 1 /\ g[Len(f) + 1] = r
          /\ \A i \in 1 .. Len(f) : g[i] = f[i]
      BY ONLY <2>6, <2>7, <2>8, AppendProperties
    <3>2. n - 1 + 1 = n
      BY <2>5
    <3> QED
      BY <2>6, <3>1, <3>2
  <2>10. /\ a \in Seq(Records) /\ Len(a) \in {n - 1, n}
         /\ \A i \in 1 .. n - 1 : a[i] = q[i]
         /\ Len(a) = n => a[n].point = next
    <3>1. CASE a = f
      BY <2>5, <2>6, <3>1
    <3>2. CASE a = g
      BY <2>6, <2>7, <2>9, <3>2
    <3> QED
      BY <2>2, <2>8, <3>1, <3>2
  <2>11. DOMAIN a = 1 .. Len(a) /\ DOMAIN q = 1 .. n
    BY <2>4, <2>5, <2>10, LenProperties
  <2>12. \A i \in 1 .. n : i \in 1 .. n - 1 \/ i = n
    BY <2>5
  <2>13. \A i \in DOMAIN a : i \in DOMAIN q /\ a[i].point = q[i].point
    <3>1. \A i \in DOMAIN a : i \in 1 .. n /\ (i = n => Len(a) = n)
      BY <2>5, <2>10, <2>11
    <3> QED
      BY <2>3, <2>5, <2>10, <2>11, <2>12, <3>1
  <2>14. \A i \in DOMAIN q : (i \in DOMAIN a /\ a[i] = q[i]) \/ q[i].point = next
    <3>1. \A i \in 1 .. n - 1 : i \in DOMAIN a
      <4>1. PICK k \in Nat : k = Len(a) /\ k \in {n - 1, n}
        BY <2>10, LenProperties
      <4>2. \A i \in 1 .. n - 1 : i \in 1 .. k
        BY ONLY <2>5, <4>1
      <4> QED
        BY <2>11, <4>1, <4>2
    <3> QED
      BY <2>3, <2>5, <2>10, <2>11, <2>12, <3>1
  <2>15. /\ DOMAIN kept = DOMAIN files /\ kept[active] = a
         /\ \A s \in DOMAIN files : s # active => kept[s] = files[s]
    BY <2>2, <2>4
  <2>16. ASSUME NEW s \in DOMAIN files
         PROVE  /\ kept[s] \in Seq(Records)
                /\ \A i \in DOMAIN kept[s] :
                     i \in DOMAIN files[s] /\ kept[s][i].point = files[s][i].point
                /\ \A i \in DOMAIN files[s] :
                     \/ i \in DOMAIN kept[s] /\ kept[s][i] = files[s][i]
                     \/ phase = "sync" /\ files[s][i].point = next
    <3>1. CASE s = active
      BY <2>1, <2>2, <2>10, <2>13, <2>14, <2>15, <3>1
    <3>2. CASE s # active
      BY <2>15, <2>16, <3>2, Placement
    <3> QED
      BY <3>1, <3>2
  <2> QED
    BY <2>15, <2>16
<1> QED
  BY <1>1, <1>2

\* At a start the segments found are listed in their order.
LEMMA RestartStructure == Structure /\ Restart => Structure'
<1> SUFFICES ASSUME Structure, Restart PROVE Structure'
  OBVIOUS
<1>1. PICK kept \in AfterKill : NewWAL(kept)
  BY DEF Restart
<1>2. PICK D : D = DOMAIN kept
  OBVIOUS
<1>3. D = DOMAIN files /\ \A s \in D : kept[s] \in Seq(Records)
  BY <1>2, KeptFiles
<1>4. nextSeq \in Nat /\ D \in SUBSET (0 .. nextSeq - 1) /\ D \in SUBSET Nat
  BY <1>3 DEF Structure, WalTypes, TypeOK
<1>5. IsFiniteSet(D)
  <2>1. IsFiniteSet(0 .. nextSeq - 1)
    BY <1>4, FS_Interval
  <2> QED
    BY <1>4, <2>1, FS_Subset
<1>6. /\ segments' = Sorted(kept) /\ Sorted(kept) \in Seq(Nat) /\ Increasing(Sorted(kept))
      /\ ToSet(Sorted(kept)) = D
  BY <1>1, <1>2, <1>4, <1>5, SortedLists DEF NewWAL
<1>7. /\ files' = kept /\ totalSz' = SizeIn(kept, D) /\ nextSeq' = Max(D \cup {NoSeg}) + 1
      /\ active' = NoSeg /\ usable' = FALSE /\ phase' = "idle"
      /\ drainSegs' = <<>> /\ pos' = 1 /\ draining' = FALSE /\ ch' = <<>>
      /\ run' = "run" /\ unstated' = 0
  BY <1>1, <1>2 DEF NewWAL
<1>8. /\ starts' = starts + 1 /\ starts < MaxStarts
      /\ UNCHANGED <<next, acked, pruned, skipped, emitted>>
  BY DEF Restart
<1>9. nextSeq' \in Nat /\ D \subseteq 0 .. nextSeq' - 1
  <2>1. PICK m : m = Max(D \cup {NoSeg})
    OBVIOUS
  <2>2. m \in Int /\ m + 1 \in Nat /\ \A s \in D : s <= m
    BY <1>4, <2>1, NextNumber
  <2>3. \A s \in D : s \in Nat
    BY <1>4
  <2>4. nextSeq' = m + 1
    BY <1>7, <2>1
  <2>5. \A s \in D : s \in 0 .. m + 1 - 1
    BY ONLY <2>2, <2>3
  <2> QED
    BY ONLY <2>2, <2>4, <2>5
<1>10. totalSz' \in Nat
  BY <1>3, <1>5, <1>7, SizeIsNumber
<1>11. <<>> \in Seq(Nat) /\ ToSet(<<>>) = {} /\ Increasing(<<>>) /\ <<>> \in Seq(1 .. MaxPoints)
       /\ Len(<<>>) = 0
  BY ListNone, EmptySeq
<1>12. WalTypes'
  <2>1. usable' \in BOOLEAN /\ draining' \in BOOLEAN
    BY <1>7, Zenon
  <2>2. /\ DOMAIN files' \subseteq 0 .. nextSeq' - 1
        /\ \A s \in DOMAIN files' : files'[s] \in Seq(Records)
        /\ ToSet(segments') \subseteq DOMAIN files' /\ ToSet(drainSegs') \subseteq DOMAIN files'
    BY <1>2, <1>3, <1>6, <1>7, <1>9, <1>11
  <2>3. Len(ch') <= ChCap /\ starts' \in 1 .. MaxStarts
    BY <1>7, <1>8, <1>11, WALAssumption DEF Structure, WalTypes, TypeOK
  <2>4. /\ totalSz' \in Int /\ unstated' \in Nat /\ nextSeq' \in Nat /\ pos' \in Nat \ {0}
        /\ phase' \in {"idle", "prune", "append", "sync"}
        /\ run' \in {"run", "cancel", "closed"} /\ active' \in DOMAIN files' \cup {NoSeg}
    BY <1>7, <1>9, <1>10
  <2>5. next' \in 0 .. MaxPoints /\ acked' \cup pruned' \cup skipped' \subseteq 1 .. MaxPoints
    BY <1>8 DEF Structure, WalTypes, TypeOK
  <2>6. TypeOK'
    BY ONLY <2>1, <2>2, <2>3, <2>4, <2>5 DEF TypeOK
  <2> QED
    BY <1>6, <1>7, <1>8, <1>11, <2>6 DEF Structure, WalTypes
<1>13. ActiveIsNewest'
  <2>1. Newest(drainSegs', segments', active')
    BY <1>6, <1>7, <1>11 DEF Newest
  <2>2. drainSegs' \in Seq(Nat) /\ segments' \in Seq(Nat)
    BY <1>6, <1>7, <1>11
  <2> QED
    BY ONLY <2>1, <2>2, NewestIs DEF ActiveIsNewest
<1>14. WriterPlaced'
  <2>1. ~ usable'
    BY <1>7, Zenon
  <2> QED
    BY <1>7, <1>8, <2>1 DEF Structure, WriterPlaced
<1> QED
  BY <1>12, <1>13, <1>14 DEF Structure

\* Every step keeps the structure.
LEMMA StructureNext == Structure /\ [Next]_vars => Structure'
<1> SUFFICES ASSUME Structure, [Next]_vars PROVE Structure'
  OBVIOUS
<1>1. CASE WriteBegin
  BY <1>1, BeginStructure
<1>2. CASE WriteStep
  <2>1. CASE PruneOldest
    BY <2>1, PruneStructure
  <2>2. CASE Rotate
    BY <2>2, RotateStructure
  <2>3. CASE AppendWhole
    BY <2>3, AppendStructure DEF AppendWhole
  <2>4. CASE AppendFails
    <3>1. CASE UNCHANGED files
      BY <2>4, <3>1, EndStructure
    <3>2. CASE Appending /\ usable /\ AppendRecord("torn")
      BY <2>4, <3>2, AppendStructure
    <3> QED
      BY <2>4, <3>1, <3>2 DEF AppendFails
  <2>5. CASE SyncOK
    BY <2>5, StoredStructure
  <2>6. CASE RotateSyncFails \/ RotateCloseFails \/ RotateCreateFails \/ SyncFails
    BY <2>6, EndStructure
  <2> QED
    BY <1>2, <2>1, <2>2, <2>3, <2>4, <2>5, <2>6 DEF WriteStep
<1>3. CASE Drain
  BY <1>3, DrainStructure
<1>4. CASE DrainNextSegment
  BY <1>4, NextSegmentStructure
<1>5. CASE DrainAbort
  BY <1>5, AbortStructure
<1>6. CASE DrainPut \/ DrainSkipRotten \/ DrainSkipTorn \/ DrainDone \/ Receive \/ Cancel \/ Close
  BY <1>6, QuietStructure
<1>7. CASE Rot
  BY <1>7, RotStructure
<1>8. CASE Restart
  BY <1>8, RestartStructure
<1>9. CASE Over \/ UNCHANGED vars
  <2>1. UNCHANGED vars
    BY <1>9 DEF Over
  <2>2. WalTypes'
    BY <2>1 DEF vars, Structure, WalTypes, TypeOK
  <2>3. ActiveIsNewest'
    BY <2>1 DEF vars, Structure, ActiveIsNewest
  <2>4. WriterPlaced'
    BY <2>1 DEF vars, Structure, WriterPlaced
  <2> QED
    BY <2>2, <2>3, <2>4 DEF Structure
<1> QED
  BY <1>1, <1>2, <1>3, <1>4, <1>5, <1>6, <1>7, <1>8, <1>9 DEF Next, DrainStep

\* The log's state is of its types: every segment listed, drained or written is a
\* file on disk whose number is below the next, whatever failed and was restarted.
THEOREM WalTyped == Spec => []TypeOK
<1>1. Structure => TypeOK
  BY DEF Structure, WalTypes
<1> QED
  BY <1>1, StructureInit, StructureNext, PTL DEF Spec

-----------------------------------------------------------------------------
(* Ordered: what is on disk and what was handed over *)

\* A step that adds no record.
Shrinks ==
  \A s \in DOMAIN files' : \A i \in DOMAIN files'[s] :
    /\ s \in DOMAIN files /\ i \in DOMAIN files[s]
    /\ files'[s][i].point = files[s][i].point

\* Records hold points, and points are numbers.
LEMMA PointsOnDisk ==
  ASSUME Structure
  PROVE  /\ \A s \in DOMAIN files : s \in Nat /\ \A i \in DOMAIN files[s] :
              i \in Nat /\ i >= 1 /\ files[s][i] \in Records /\ files[s][i].point \in Nat
         /\ next \in Nat /\ Written \in Int
<1>1. ASSUME NEW s \in DOMAIN files
      PROVE  s \in Nat /\ \A i \in DOMAIN files[s] :
               i \in Nat /\ i >= 1 /\ files[s][i] \in Records /\ files[s][i].point \in Nat
  <2>1. s \in Nat /\ files[s] \in Seq(Records)
    BY <1>1, Placement
  <2>2. \A i \in DOMAIN files[s] : i \in Nat /\ i >= 1 /\ files[s][i] \in Records
    BY <2>1, ElementOfSeq, LenProperties
  <2> QED
    BY <2>1, <2>2 DEF Records
<1>2. next \in Nat
  BY WALAssumption DEF Structure, WalTypes, TypeOK
<1> QED
  BY <1>1, <1>2 DEF Written

\* The last point a record may hold only grows.
LEMMA WrittenGrows == Structure /\ [Next]_vars => Written <= Written'
<1> SUFFICES ASSUME Structure, [Next]_vars PROVE Written <= Written'
  OBVIOUS
<1>1. next \in Nat /\ next' \in {next, next + 1}
  <2>1. next \in Nat
    BY PointsOnDisk
  <2>2. CASE WriteBegin
    BY <2>1, <2>2 DEF WriteBegin
  <2>3. CASE UNCHANGED next
    BY <2>1, <2>3
  <2>4. WriteBegin \/ UNCHANGED next
    <3>1. WriteStep => UNCHANGED next
      BY DEF WriteStep, PruneOldest, Rotate, RotateSyncFails, RotateCloseFails, RotateCreateFails,
             AppendWhole, AppendFails, SyncOK, SyncFails, Refuse
    <3>2. DrainStep => UNCHANGED next
      BY DEF DrainStep, DrainPut, DrainSkipRotten, DrainSkipTorn, JumpTo, DrainNextSegment,
             DrainDone, DrainAbort
    <3>3. Drain \/ Receive \/ Cancel \/ Close \/ Rot \/ Restart \/ Over \/ UNCHANGED vars
            => UNCHANGED next
      BY DEF Drain, Receive, Cancel, Close, Rot, Restart, Over, vars
    <3> QED
      BY <3>1, <3>2, <3>3 DEF Next
  <2> QED
    BY <2>1, <2>2, <2>3, <2>4
<1>2. CASE WriteBegin
  BY <1>1, <1>2 DEF Written, WriteBegin
<1>3. CASE WriteStep
  BY <1>1, <1>3 DEF Written, WriteStep, PruneOldest, Rotate, RotateSyncFails, RotateCloseFails,
     RotateCreateFails, AppendWhole, AppendFails, SyncOK, SyncFails, Refuse, Rotating, Appending
<1>4. CASE DrainStep
  BY <1>1, <1>4 DEF Written, DrainStep, DrainPut, DrainSkipRotten, DrainSkipTorn, JumpTo,
     DrainNextSegment, DrainDone, DrainAbort
<1>5. CASE Drain \/ Receive \/ Cancel \/ Close \/ Rot \/ Over \/ UNCHANGED vars
  BY <1>1, <1>5 DEF Written, Drain, Receive, Cancel, Close, Rot, Over, vars
<1>6. CASE Restart
  BY <1>1, <1>6 DEF Written, Restart, NewWAL
<1> QED
  BY <1>2, <1>3, <1>4, <1>5, <1>6 DEF Next

\* A step that adds no record and hands nothing over keeps the order.
LEMMA OrderedKept ==
  ASSUME Structure, Structure', Ordered, Written <= Written',
         Shrinks, emitted' = emitted, starts' = starts,
         \A s \in DOMAIN files' : \A i \in DOMAIN files'[s] : Unread(s, i)' => Unread(s, i)
  PROVE  Ordered'
<1>1. /\ \A s \in DOMAIN files : \A i \in DOMAIN files[s] : files[s][i].point \in Nat
      /\ Written \in Int /\ Written' \in Int
  <2>1. Written' \in Int
    <3>1. next' \in Nat
      BY WALAssumption DEF Structure, WalTypes, TypeOK
    <3> QED
      BY <3>1 DEF Written
  <2> QED
    BY <2>1, PointsOnDisk
<1>2. DiskOrdered'
  <2>1. \A s, t \in DOMAIN files' : \A i \in DOMAIN files'[s], j \in DOMAIN files'[t] :
          s < t \/ (s = t /\ i < j) => files'[s][i].point < files'[t][j].point
    BY DEF Ordered, DiskOrdered, Shrinks
  <2>2. \A s \in DOMAIN files' : \A i \in DOMAIN files'[s] : files'[s][i].point <= Written'
    <3> SUFFICES ASSUME NEW s \in DOMAIN files', NEW i \in DOMAIN files'[s]
                 PROVE  files'[s][i].point <= Written'
      OBVIOUS
    <3>1. /\ files'[s][i].point = files[s][i].point
          /\ s \in DOMAIN files /\ i \in DOMAIN files[s]
      BY DEF Shrinks
    <3>2. files[s][i].point <= Written /\ files[s][i].point \in Nat
      BY <1>1, <3>1 DEF Ordered, DiskOrdered
    <3> QED
      BY <1>1, <3>1, <3>2
  <2> QED
    BY <2>1, <2>2 DEF DiskOrdered
<1>3. Handed' = Handed
  BY DEF Handed
<1>4. Handed \subseteq Nat
  <2>1. emitted[starts] \in Seq(1 .. MaxPoints)
    BY DEF Structure, WalTypes, TypeOK
  <2>2. Handed \subseteq 1 .. MaxPoints
    BY <2>1, ListElements DEF Handed
  <2> QED
    BY <2>2
<1>5. Ahead'
  <2>1. ASSUME NEW p \in Handed'
        PROVE  /\ p <= Written'
               /\ \A s \in DOMAIN files' : \A i \in DOMAIN files'[s] :
                    Unread(s, i)' => p < files'[s][i].point
    <3>1. p \in Handed /\ p \in Nat /\ p <= Written
      BY <1>3, <1>4 DEF Ordered, Ahead
    <3>2. p <= Written'
      BY <1>1, <3>1
    <3>3. \A s \in DOMAIN files' : \A i \in DOMAIN files'[s] :
            Unread(s, i)' => p < files'[s][i].point
      BY <3>1 DEF Ordered, Ahead, Shrinks
    <3> QED
      BY <3>2, <3>3
  <2>2. \A n \in 1 .. MaxStarts : starts' < n => emitted'[n] = <<>>
    BY DEF Ordered, Ahead
  <2> QED
    BY <2>1, <2>2 DEF Ahead
<1>6. DrainOrdered'
  BY DEF Ordered, DrainOrdered
<1> QED
  BY <1>2, <1>5, <1>6 DEF Ordered

\* Most steps leave every record where it is and hand nothing over.
LEMMA StillOrdered ==
  ASSUME Structure, Structure', Ordered, Written <= Written',
         UNCHANGED <<files, segments, drainSegs, pos, emitted, starts>>
  PROVE  Ordered'
<1>1. Shrinks
  BY DEF Shrinks
<1>2. \A s, i : Unread(s, i)' => Unread(s, i)
  BY DEF Unread, Listed, Drained
<1> QED
  BY <1>1, <1>2, OrderedKept

\* Segments are pruned, created, drained and left, and records jumped and lost.
LEMMA MovesOrdered ==
  ASSUME Structure, Structure', Ordered, Written <= Written',
         \/ PruneOldest \/ Rotate \/ Drain \/ DrainNextSegment \/ DrainAbort
         \/ DrainSkipRotten \/ DrainSkipTorn \/ Rot
  PROVE  Ordered'
<1>1. emitted' = emitted /\ starts' = starts
  BY DEF PruneOldest, Rotate, Drain, DrainNextSegment, DrainAbort, DrainSkipRotten, DrainSkipTorn,
         JumpTo, Rot, history
<1>2. /\ segments \in Seq(Nat) /\ drainSegs \in Seq(Nat)
      /\ Newest(drainSegs, segments, active)
      /\ \A s \in Drained : s \notin Listed
  <2>1. /\ segments \in Seq(Nat) /\ drainSegs \in Seq(Nat)
        /\ Newest(drainSegs, segments, active)
        /\ DOMAIN files \in SUBSET Nat /\ Drained \subseteq DOMAIN files
    BY Placement
  <2>2. \A x \in Drained, y \in Listed : x < y /\ x \in Nat
    BY <2>1 DEF Newest, Drained, Listed
  <2>3. \A s \in Drained : s \notin Listed
    BY ONLY <2>2
  <2> QED
    BY <2>1, <2>3
<1>3. drainSegs # <<>> => Head(drainSegs) \in Drained /\ Head(drainSegs) \notin Listed
  BY <1>2, ListTail DEF Newest, Drained
<1>4. CASE PruneOldest
  <2>1. /\ segments # <<>> /\ segments' = Tail(segments) /\ UNCHANGED <<drainSegs, pos>>
        /\ files' = WithoutFile(Head(segments)) \/ files' = files
    BY <1>4 DEF PruneOldest, OverLimit, drainer
  <2>2. Shrinks
    BY <2>1, FileGone DEF Shrinks
  <2>3. Listed' \subseteq Listed
    BY <1>2, <2>1, ListTail DEF Newest, Listed
  <2>4. \A s \in DOMAIN files' : \A i \in DOMAIN files'[s] : Unread(s, i)' => Unread(s, i)
    BY <2>1, <2>2, <2>3 DEF Unread, Shrinks, Drained
  <2> QED
    BY <1>1, <2>2, <2>4, OrderedKept
<1>5. CASE Rotate
  <2>1. PICK n : /\ n = nextSeq
                 /\ files' = [s \in DOMAIN files \cup {n} |-> IF s = n THEN <<>> ELSE files[s]]
                 /\ segments' = Append(segments, n)
                 /\ UNCHANGED <<drainSegs, pos>>
    BY <1>5 DEF Rotate, drainer
  <2>2. files'[n] = <<>> /\ \A s \in DOMAIN files' : s # n => s \in DOMAIN files /\ files'[s] = files[s]
    BY <2>1
  <2>3. DOMAIN <<>> = {}
    OBVIOUS
  <2>4. Shrinks
    BY <2>2, <2>3 DEF Shrinks
  <2>5. n \in Nat /\ \A x \in Listed : x < n
    BY <2>1, Placement DEF Structure, WalTypes, TypeOK
  <2>6. Listed' = Listed \cup {n}
    BY <1>2, <2>1, <2>5, ListAppend DEF Newest, Listed
  <2>7. \A s \in DOMAIN files' : \A i \in DOMAIN files'[s] : Unread(s, i)' => Unread(s, i)
    <3> SUFFICES ASSUME NEW s \in DOMAIN files', NEW i \in DOMAIN files'[s], Unread(s, i)'
                 PROVE  Unread(s, i)
      OBVIOUS
    <3>1. s # n
      BY <2>2, <2>3
    <3>2. files'[s] = files[s] /\ s \in Listed \cup Drained
      BY <2>1, <2>2, <2>6, <3>1 DEF Unread, Drained
    <3> QED
      BY <2>1, <3>2 DEF Unread
  <2> QED
    BY <1>1, <2>4, <2>7, OrderedKept
<1>6. CASE Drain
  <2>1. drainSegs' = segments /\ pos' = 1 /\ segments' = <<>> /\ files' = files
    BY <1>6 DEF Drain, Taken
  <2>2. Shrinks
    BY <2>1 DEF Shrinks
  <2>3. \A s, i : Unread(s, i)' => Unread(s, i)
    BY <1>3, <2>1, ListNone DEF Unread, Listed, Drained
  <2> QED
    BY <1>1, <2>2, <2>3, OrderedKept
<1>7. CASE DrainNextSegment
  <2>1. /\ drainSegs # <<>> /\ drainSegs' = Tail(drainSegs) /\ segments' = segments
        /\ files' = WithoutFile(Head(drainSegs)) \/ files' = files
    BY <1>7 DEF DrainNextSegment, Draining, writer
  <2>2. Shrinks
    BY <2>1, FileGone DEF Shrinks
  <2>3. Drained' = Drained \ {Head(drainSegs)} /\ Listed' = Listed
    BY <1>2, <2>1, ListTail DEF Newest, Drained, Listed
  <2>4. \A s \in DOMAIN files' : \A i \in DOMAIN files'[s] : Unread(s, i)' => Unread(s, i)
    <3> SUFFICES ASSUME NEW s \in DOMAIN files', NEW i \in DOMAIN files'[s], Unread(s, i)'
                 PROVE  Unread(s, i)
      OBVIOUS
    <3>1. s \in Listed \cup Drained /\ s # Head(drainSegs)
      BY <1>3, <2>1, <2>3 DEF Unread
    <3>2. i \in DOMAIN files[s]
      BY <2>2 DEF Shrinks
    <3> QED
      BY <3>1, <3>2 DEF Unread
  <2> QED
    BY <1>1, <2>2, <2>4, OrderedKept
<1>8. CASE DrainAbort
  <2>1. drainSegs' = <<>> /\ segments' = segments /\ files' = files
    BY <1>8 DEF DrainAbort, writer
  <2>2. Shrinks
    BY <2>1 DEF Shrinks
  <2>3. \A s, i : Unread(s, i)' => Unread(s, i)
    BY <1>3, <2>1, ListNone DEF Unread, Listed, Drained
  <2> QED
    BY <1>1, <2>2, <2>3, OrderedKept
<1>9. CASE DrainSkipRotten \/ DrainSkipTorn
  <2>1. /\ pos' > pos /\ pos \in Nat /\ pos' \in Nat
        /\ UNCHANGED <<files, segments, drainSegs>>
    <3>0. pos \in Nat
      BY DEF Structure, WalTypes, TypeOK
    <3>1. PICK to \in Int : to > pos /\ JumpTo(to)
      <4>1. ASSUME DrainSkipRotten
            PROVE  \E to \in Int : to > pos /\ JumpTo(to)
        <5>1. PICK to \in (pos + 1) .. (Len(Reading) + 1) : JumpTo(to)
          BY <4>1 DEF DrainSkipRotten
        <5> QED
          BY <3>0, <5>1
      <4>2. ASSUME DrainSkipTorn
            PROVE  \E to \in Int : to > pos /\ JumpTo(to)
        <5>1. PICK to \in (pos + 2) .. (Len(Reading) + 2) : JumpTo(to)
          BY <4>2 DEF DrainSkipTorn
        <5> QED
          BY <3>0, <5>1
      <4> QED
        BY <1>9, <4>1, <4>2
    <3>2. /\ pos' = to /\ UNCHANGED <<files, segments, drainSegs>>
      BY <3>1 DEF JumpTo, writer
    <3> QED
      BY <3>0, <3>1, <3>2
  <2>2. Shrinks
    BY <2>1 DEF Shrinks
  <2>3. \A s \in DOMAIN files' : \A i \in DOMAIN files'[s] : Unread(s, i)' => Unread(s, i)
    <3> SUFFICES ASSUME NEW s \in DOMAIN files', NEW i \in DOMAIN files'[s], Unread(s, i)'
                 PROVE  Unread(s, i)
      OBVIOUS
    <3>1. s \in DOMAIN files /\ i \in DOMAIN files[s] /\ i \in Nat
      BY <2>1, PointsOnDisk
    <3>2. drainSegs # <<>> /\ s = Head(drainSegs) => pos' <= i
      BY <2>1 DEF Unread
    <3>3. drainSegs # <<>> /\ s = Head(drainSegs) => pos <= i
      BY <2>1, <3>1, <3>2
    <3>4. s \in Listed \cup Drained
      BY <2>1 DEF Unread, Listed, Drained
    <3> QED
      BY <3>1, <3>3, <3>4 DEF Unread
  <2> QED
    BY <1>1, <2>2, <2>3, OrderedKept
<1>10. CASE Rot
  <2>1. UNCHANGED <<segments, drainSegs, pos>>
    BY <1>10 DEF Rot, writer, drainer
  <2>2. Shrinks
    BY <1>10, Rotten DEF Shrinks
  <2>3. \A s \in DOMAIN files' : \A i \in DOMAIN files'[s] : Unread(s, i)' => Unread(s, i)
    BY <2>1, <2>2 DEF Unread, Listed, Drained, Shrinks
  <2> QED
    BY <1>1, <2>2, <2>3, OrderedKept
<1> QED
  BY <1>4, <1>5, <1>6, <1>7, <1>8, <1>9, <1>10

\* What an append adds is one record, behind all others.
LEMMA AppendedLast ==
  ASSUME Structure, Appending, usable, NEW st \in {"whole", "torn"}, AppendRecord(st)
  PROVE  \E n \in Nat :
           /\ DOMAIN files' = DOMAIN files /\ active \in DOMAIN files
           /\ \A s \in DOMAIN files : s <= active
           /\ DOMAIN files[active] = 1 .. n /\ DOMAIN files'[active] = 1 .. n + 1
           /\ files'[active][n + 1] = Record(next, st)
           /\ \A s \in DOMAIN files : \A i \in DOMAIN files'[s] :
                \/ i \in DOMAIN files[s] /\ files'[s][i] = files[s][i]
                \/ s = active /\ i = n + 1
           /\ \A s \in DOMAIN files : \A i \in DOMAIN files[s] :
                i \in DOMAIN files'[s] /\ files'[s][i] = files[s][i]
<1>1. /\ active # NoSeg /\ active \in DOMAIN files
      /\ DOMAIN files' = DOMAIN files
      /\ \A s \in DOMAIN files : s # active => files'[s] = files[s]
  BY Appended
<1>2. PICK q, a : q = files[active] /\ a = files'[active]
  OBVIOUS
<1>3. q \in Seq(Records) /\ a \in Seq(Records)
  BY <1>1, <1>2, Appended, Placement
<1>4. PICK n \in Nat : n = Len(q)
  BY <1>3, LenProperties
<1>5. /\ Len(a) = n + 1 /\ a[n + 1] = Record(next, st)
      /\ \A i \in 1 .. n : a[i] = q[i]
  BY <1>2, <1>4, Appended
<1>6. DOMAIN q = 1 .. n /\ DOMAIN a = 1 .. n + 1
  BY <1>3, <1>4, <1>5, LenProperties
<1>7. \A s \in DOMAIN files : s <= active
  BY <1>1, Placement
<1>8. \A i \in DOMAIN a : (i \in DOMAIN q /\ a[i] = q[i]) \/ i = n + 1
  BY <1>4, <1>5, <1>6
<1>9. \A i \in DOMAIN q : i \in DOMAIN a /\ a[i] = q[i]
  BY <1>4, <1>5, <1>6
<1> QED
  BY <1>1, <1>2, <1>4, <1>5, <1>6, <1>7, <1>8, <1>9

\* A record appended holds a point later than all others.
LEMMA AppendOrdered ==
  ASSUME Structure, Structure', Ordered, Written <= Written', Appending, usable,
         \/ AppendWhole /\ AppendRecord("whole")
         \/ AppendFails /\ AppendRecord("torn")
  PROVE  Ordered'
<1>1. PICK st \in {"whole", "torn"} : AppendRecord(st)
  OBVIOUS
<1>2. /\ UNCHANGED <<segments, drainSegs, pos, emitted, starts, next>>
      /\ phase' \in {"sync", "idle"} /\ phase \in {"prune", "append"}
  BY DEF AppendWhole, AppendFails, Refuse, writer, drainer, history, Appending
<1>3. Written = next - 1 /\ Written' = next /\ next \in Nat
  BY <1>2, PointsOnDisk DEF Written
<1>4. PICK n \in Nat :
        /\ DOMAIN files' = DOMAIN files /\ active \in DOMAIN files
        /\ \A s \in DOMAIN files : s <= active
        /\ DOMAIN files[active] = 1 .. n /\ DOMAIN files'[active] = 1 .. n + 1
        /\ files'[active][n + 1].point = next
        /\ \A s \in DOMAIN files : \A i \in DOMAIN files'[s] :
             \/ i \in DOMAIN files[s] /\ files'[s][i] = files[s][i]
             \/ s = active /\ i = n + 1
  BY <1>1, AppendedLast DEF Record
<1>5. \A s \in DOMAIN files : s \in Nat /\ \A i \in DOMAIN files[s] :
        files[s][i].point \in Nat /\ files[s][i].point <= next - 1
  BY <1>3, PointsOnDisk DEF Ordered, DiskOrdered
<1>6. DiskOrdered'
  <2>1. ASSUME NEW s \in DOMAIN files', NEW t \in DOMAIN files',
               NEW i \in DOMAIN files'[s], NEW j \in DOMAIN files'[t],
               s < t \/ (s = t /\ i < j)
        PROVE  files'[s][i].point < files'[t][j].point
    <3>1. ~ (s = active /\ i = n + 1)
      <4> SUFFICES ASSUME s = active, i = n + 1 PROVE FALSE
        OBVIOUS
      <4>1. t \in Nat /\ t <= active /\ active \in Nat
        BY <1>4, <1>5
      <4>2. t = active /\ i < j
        BY <2>1, <4>1
      <4>3. j \in 1 .. n + 1
        BY <1>4, <4>2
      <4> QED
        BY <4>2, <4>3
    <3>2. i \in DOMAIN files[s] /\ files'[s][i] = files[s][i] /\ s \in DOMAIN files
      BY <1>4, <3>1
    <3>3. files'[s][i].point \in Nat /\ files'[s][i].point <= next - 1
      BY <1>5, <3>2
    <3>4. CASE t = active /\ j = n + 1
      BY <1>3, <1>4, <3>3, <3>4
    <3>5. CASE j \in DOMAIN files[t] /\ files'[t][j] = files[t][j]
      BY <1>4, <2>1, <3>2, <3>5 DEF Ordered, DiskOrdered
    <3> QED
      BY <1>4, <3>4, <3>5
  <2>2. ASSUME NEW s \in DOMAIN files', NEW i \in DOMAIN files'[s]
        PROVE  files'[s][i].point <= Written'
    BY <1>3, <1>4, <1>5, <2>2
  <2> QED
    BY <2>1, <2>2 DEF DiskOrdered
<1>7. Ahead'
  <2>1. ASSUME NEW p \in Handed'
        PROVE  /\ p <= Written'
               /\ \A s \in DOMAIN files' : \A i \in DOMAIN files'[s] :
                    Unread(s, i)' => p < files'[s][i].point
    <3>1. p \in Handed /\ p <= Written
      BY <1>2, <2>1 DEF Handed, Ordered, Ahead
    <3>2. p \in Nat
      <4>1. emitted[starts] \in Seq(1 .. MaxPoints)
        BY DEF Structure, WalTypes, TypeOK
      <4>2. Handed \subseteq 1 .. MaxPoints
        BY <4>1, ListElements DEF Handed
      <4> QED
        BY <3>1, <4>2
    <3>3. p <= next - 1 /\ p < next /\ p <= Written'
      BY <1>3, <3>1, <3>2
    <3>4. ASSUME NEW s \in DOMAIN files', NEW i \in DOMAIN files'[s], Unread(s, i)'
          PROVE  p < files'[s][i].point
      <4>1. CASE i \in DOMAIN files[s] /\ files'[s][i] = files[s][i]
        <5>1. Unread(s, i)
          BY <1>2, <3>4, <4>1 DEF Unread, Listed, Drained
        <5> QED
          BY <1>4, <3>1, <4>1, <5>1 DEF Ordered, Ahead
      <4>2. CASE s = active /\ i = n + 1
        BY <1>4, <3>3, <4>2
      <4> QED
        BY <1>4, <4>1, <4>2
    <3> QED
      BY <3>3, <3>4
  <2> QED
    BY <1>2, <2>1 DEF Ahead, Ordered
<1>8. DrainOrdered'
  BY <1>2 DEF Ordered, DrainOrdered
<1> QED
  BY <1>6, <1>7, <1>8 DEF Ordered

\* What the drain hands over comes behind what it has handed over, and before
\* what it has yet to read.
LEMMA PutOrdered ==
  ASSUME Structure, Structure', Ordered, DrainPut
  PROVE  Ordered'
<1>1. PICK h, p : h = Head(drainSegs) /\ p = files[h][pos].point
  OBVIOUS
<1>2. /\ drainSegs # <<>> /\ pos <= Len(files[h])
      /\ emitted' = [emitted EXCEPT ![starts] = Append(emitted[starts], p)]
      /\ pos' = pos + 1
      /\ UNCHANGED <<files, segments, drainSegs, phase, next, starts>>
  BY <1>1 DEF DrainPut, AtRecord, Draining, Reading, writer
<1>3. /\ segments \in Seq(Nat) /\ drainSegs \in Seq(Nat)
      /\ Newest(drainSegs, segments, active) /\ Drained \subseteq DOMAIN files
      /\ Listed \subseteq DOMAIN files /\ DOMAIN files \in SUBSET Nat
  BY Placement
<1>4. h \in Drained /\ h \in DOMAIN files /\ \A s \in Drained : h <= s
  BY <1>1, <1>2, <1>3, ListTail DEF Newest, Drained
<1>5. \A s \in Listed \cup Drained : s = h \/ h < s
  <2>1. \A s \in Listed : h < s
    BY <1>3, <1>4 DEF Newest, Drained, Listed
  <2>2. \A s \in Drained : s \in Nat /\ h \in Nat
    BY <1>3, <1>4
  <2> QED
    BY <1>4, <2>1, <2>2
<1>6. pos \in DOMAIN files[h] /\ pos \in Nat
  <2>1. files[h] \in Seq(Records)
    BY <1>4, Placement
  <2>2. pos \in Nat \ {0}
    BY DEF Structure, WalTypes, TypeOK
  <2> QED
    BY <1>2, <2>1, <2>2, LenProperties
<1>7. p \in Nat /\ p <= Written
  BY <1>1, <1>4, <1>6, PointsOnDisk DEF Ordered, DiskOrdered
<1>8. \A x \in Handed : x < p
  <2>1. Unread(h, pos)
    BY <1>1, <1>4, <1>6 DEF Unread
  <2> QED
    BY <1>1, <1>4, <1>6, <2>1 DEF Ordered, Ahead
<1>9. \A s \in DOMAIN files : \A i \in DOMAIN files[s] : Unread(s, i)' => Unread(s, i) /\ p < files[s][i].point
  <2> SUFFICES ASSUME NEW s \in DOMAIN files, NEW i \in DOMAIN files[s], Unread(s, i)'
               PROVE  Unread(s, i) /\ p < files[s][i].point
    OBVIOUS
  <2>1. s \in Listed \cup Drained /\ i \in Nat
    BY <1>2, PointsOnDisk DEF Unread, Listed, Drained
  <2>2. s = h => pos + 1 <= i
    BY <1>1, <1>2 DEF Unread
  <2>3. Unread(s, i)
    BY <1>1, <1>6, <2>1, <2>2 DEF Unread
  <2>4. h < s \/ (h = s /\ pos < i)
    BY <1>5, <1>6, <2>1, <2>2
  <2>5. files[h][pos].point < files[s][i].point
    BY <1>4, <1>6, <2>4 DEF Ordered, DiskOrdered
  <2> QED
    BY <1>1, <2>3, <2>5
<1>10. /\ emitted \in [1 .. MaxStarts -> Seq(1 .. MaxPoints)] /\ starts \in 1 .. MaxStarts
       /\ MaxStarts \in Nat
  BY WALAssumption DEF Structure, WalTypes, TypeOK
<1>11. PICK e, a : e = emitted[starts] /\ a = Append(e, p)
  OBVIOUS
<1>12. /\ emitted'[starts] = a
       /\ \A n \in 1 .. MaxStarts : n # starts => emitted'[n] = emitted[n]
  BY <1>2, <1>10, <1>11
<1>13. e \in Seq(Nat) /\ Increasing(e) /\ ToSet(e) = Handed
  <2>1. e \in Seq(1 .. MaxPoints)
    BY <1>10, <1>11
  <2>2. 1 .. MaxPoints \subseteq Nat
    OBVIOUS
  <2>3. e \in Seq(Nat)
    BY <2>1, <2>2, SeqMonotonic
  <2> QED
    BY <1>10, <1>11, <2>3 DEF Ordered, DrainOrdered, Handed
<1>14. Increasing(a) /\ ToSet(a) = Handed \cup {p}
  BY <1>7, <1>8, <1>11, <1>13, ListAppend
<1>15. Written' = Written
  BY <1>2 DEF Written
<1>16. DiskOrdered'
  BY <1>2, <1>15 DEF Ordered, DiskOrdered
<1>17. Ahead'
  <2>1. Handed' = Handed \cup {p}
    BY <1>2, <1>12, <1>14 DEF Handed
  <2>2. \A x \in Handed' : x <= Written'
    BY <1>7, <1>15, <2>1 DEF Ordered, Ahead
  <2>3. ASSUME NEW x \in Handed', NEW s \in DOMAIN files', NEW i \in DOMAIN files'[s], Unread(s, i)'
        PROVE  x < files'[s][i].point
    BY <1>2, <1>9, <2>1, <2>3 DEF Ordered, Ahead
  <2>4. \A n \in 1 .. MaxStarts : starts' < n => emitted'[n] = <<>>
    BY <1>2, <1>10, <1>12 DEF Ordered, Ahead
  <2> QED
    BY <2>2, <2>3, <2>4 DEF Ahead
<1>18. DrainOrdered'
  BY <1>12, <1>14 DEF Ordered, DrainOrdered
<1> QED
  BY <1>16, <1>17, <1>18 DEF Ordered

\* A start hands nothing over yet.
LEMMA RestartOrdered ==
  ASSUME Structure, Structure', Ordered, Written <= Written', Restart
  PROVE  Ordered'
<1>1. PICK kept \in AfterKill : NewWAL(kept)
  BY DEF Restart
<1>2. files' = kept /\ starts' = starts + 1 /\ starts < MaxStarts /\ emitted' = emitted
  BY <1>1 DEF NewWAL, Restart, history
<1>3. DOMAIN files' = DOMAIN files
  BY <1>2, KeptFiles
<1>4. Shrinks
  BY <1>2, KeptFiles DEF Shrinks
<1>5. DiskOrdered'
  <2>1. \A s, t \in DOMAIN files' : \A i \in DOMAIN files'[s], j \in DOMAIN files'[t] :
          s < t \/ (s = t /\ i < j) => files'[s][i].point < files'[t][j].point
    BY <1>4 DEF Ordered, DiskOrdered, Shrinks
  <2>2. ASSUME NEW s \in DOMAIN files', NEW i \in DOMAIN files'[s]
        PROVE  files'[s][i].point <= Written'
    <3>1. s \in DOMAIN files /\ i \in DOMAIN files[s] /\ files'[s][i].point = files[s][i].point
      BY <1>4 DEF Shrinks
    <3>2. files[s][i].point \in Nat /\ Written \in Int /\ files[s][i].point <= Written
      BY <3>1, PointsOnDisk DEF Ordered, DiskOrdered
    <3>3. Written' \in Int
      <4>1. next' \in Nat
        BY WALAssumption DEF Structure, WalTypes, TypeOK
      <4> QED
        BY <4>1 DEF Written
    <3> QED
      BY <3>1, <3>2, <3>3
  <2> QED
    BY <2>1, <2>2 DEF DiskOrdered
<1>6. starts \in Nat /\ starts' \in 1 .. MaxStarts /\ MaxStarts \in Nat
  BY WALAssumption DEF Structure, WalTypes, TypeOK
<1>7. emitted[starts'] = <<>>
  BY <1>2, <1>6 DEF Ordered, Ahead
<1>8. Handed' = {}
  BY <1>2, <1>7, ListNone DEF Handed
<1>9. Ahead'
  <2>1. \A n \in 1 .. MaxStarts : starts' < n => emitted'[n] = <<>>
    <3>1. \A n \in 1 .. MaxStarts : starts + 1 < n => starts < n
      BY <1>6
    <3> QED
      BY <1>2, <3>1 DEF Ordered, Ahead
  <2> QED
    BY <1>8, <2>1 DEF Ahead
<1>10. DrainOrdered'
  BY <1>2 DEF Ordered, DrainOrdered
<1> QED
  BY <1>5, <1>9, <1>10 DEF Ordered

\* Before the first step.
LEMMA OrderedInit == Init => Ordered
<1> SUFFICES ASSUME Init PROVE Ordered
  OBVIOUS
<1>1. DOMAIN files = {} /\ \A n \in 1 .. MaxStarts : emitted[n] = <<>>
  BY DEF Init
<1>2. starts \in 1 .. MaxStarts
  BY WALAssumption DEF Init
<1>3. Handed = {}
  BY <1>1, <1>2, ListNone DEF Handed
<1> QED
  BY <1>1, <1>3, ListNone DEF Ordered, DiskOrdered, Ahead, DrainOrdered

\* Every step keeps the order.
LEMMA OrderedNext == Structure /\ Structure' /\ Ordered /\ [Next]_vars => Ordered'
<1> SUFFICES ASSUME Structure, Structure', Ordered, [Next]_vars PROVE Ordered'
  OBVIOUS
<1>0. Written <= Written'
  BY WrittenGrows
<1>1. CASE UNCHANGED <<files, segments, drainSegs, pos, emitted, starts>>
  BY <1>0, <1>1, StillOrdered
<1>2. CASE \/ PruneOldest \/ Rotate \/ Drain \/ DrainNextSegment \/ DrainAbort
           \/ DrainSkipRotten \/ DrainSkipTorn \/ Rot
  BY <1>0, <1>2, MovesOrdered
<1>3. CASE DrainPut
  BY <1>3, PutOrdered
<1>4. CASE Restart
  BY <1>0, <1>4, RestartOrdered
<1>5. CASE Appending /\ usable /\ \/ AppendWhole /\ AppendRecord("whole")
                                  \/ AppendFails /\ AppendRecord("torn")
  BY <1>0, <1>5, AppendOrdered
<1>6. ASSUME \/ WriteBegin \/ RotateSyncFails \/ RotateCloseFails \/ RotateCreateFails
             \/ SyncOK \/ SyncFails \/ (AppendFails /\ UNCHANGED files)
             \/ DrainDone \/ Receive \/ Cancel \/ Close \/ Over \/ UNCHANGED vars
      PROVE  UNCHANGED <<files, segments, drainSegs, pos, emitted, starts>>
  BY <1>6 DEF WriteBegin, RotateSyncFails, RotateCloseFails, RotateCreateFails, SyncOK, SyncFails,
         AppendFails, Refuse, DrainDone, Receive, Cancel, Close, Over, vars,
         writer, drainer, history
<1>7. AppendWhole => Appending /\ usable /\ AppendRecord("whole")
  BY DEF AppendWhole
<1>8. AppendFails => UNCHANGED files \/ (Appending /\ usable /\ AppendRecord("torn"))
  BY DEF AppendFails
<1>9. CASE AppendWhole
  BY <1>5, <1>7, <1>9
<1>10. CASE AppendFails
  BY <1>1, <1>5, <1>6, <1>8, <1>10
<1>11. CASE \/ WriteBegin \/ RotateSyncFails \/ RotateCloseFails \/ RotateCreateFails \/ SyncOK
            \/ SyncFails \/ DrainDone \/ Receive \/ Cancel \/ Close \/ Over \/ UNCHANGED vars
  BY <1>1, <1>6, <1>11
<1> QED
  BY <1>2, <1>3, <1>4, <1>9, <1>10, <1>11 DEF Next, WriteStep, DrainStep

-----------------------------------------------------------------------------
(* Saved: where every acknowledged point is *)

\* A point stored completely in a file on disk, and one that is not lost.
OnDisk(p) ==
  \E s \in DOMAIN files : \E i \in DOMAIN files[s] :
    files[s][i].point = p /\ files[s][i].state # "torn"
HandedOver(p) == \E n \in 1 .. MaxStarts : p \in ToSet(emitted[n])
Kept(p) == OnDisk(p) \/ HandedOver(p) \/ p \in pruned \cup skipped

\* Durable, record by record.
LEMMA DurableIs == Structure => (Durable <=> \A p \in acked : Kept(p))
<1> SUFFICES ASSUME Structure PROVE Durable <=> \A p \in acked : Kept(p)
  OBVIOUS
<1>1. ASSUME NEW p
      PROVE  (\/ \E s \in DOMAIN files : Record(p, "whole") \in ToSet(files[s])
              \/ \E s \in DOMAIN files : Record(p, "rotten") \in ToSet(files[s]))
             <=> OnDisk(p)
  <2>1. ASSUME NEW s \in DOMAIN files, NEW st \in {"whole", "rotten"},
               Record(p, st) \in ToSet(files[s])
        PROVE  OnDisk(p)
    <3>1. PICK i \in DOMAIN files[s] : files[s][i] = Record(p, st)
      BY <2>1 DEF ToSet
    <3>2. files[s][i].point = p /\ files[s][i].state # "torn"
      BY <3>1 DEF Record
    <3> QED
      BY <3>2 DEF OnDisk
  <2>2. ASSUME OnDisk(p)
        PROVE  \/ \E s \in DOMAIN files : Record(p, "whole") \in ToSet(files[s])
               \/ \E s \in DOMAIN files : Record(p, "rotten") \in ToSet(files[s])
    <3>1. PICK s \in DOMAIN files :
            \E i \in DOMAIN files[s] : files[s][i].point = p /\ files[s][i].state # "torn"
      BY <2>2 DEF OnDisk
    <3>2. PICK i \in DOMAIN files[s] : files[s][i].point = p /\ files[s][i].state # "torn"
      BY <3>1
    <3>3. files[s][i] \in Records
      BY PointsOnDisk
    <3>4. files[s][i] = Record(p, "whole") \/ files[s][i] = Record(p, "rotten")
      BY <3>2, <3>3 DEF Record, Records
    <3> QED
      BY <3>4 DEF ToSet
  <2> QED
    BY <2>1, <2>2
<1> QED
  BY <1>1 DEF Durable, Kept, HandedOver

\* A step that acknowledges nothing and loses no point that was.
LEMMA DurableKept ==
  ASSUME Structure, Structure', Durable,
         acked' = acked, pruned \subseteq pruned', skipped \subseteq skipped',
         \A n \in 1 .. MaxStarts : ToSet(emitted[n]) \subseteq ToSet(emitted'[n]),
         \A p \in acked : OnDisk(p) => Kept(p)'
  PROVE  Durable'
<1>1. \A p \in acked : Kept(p)
  BY DurableIs
<1>2. \A p : HandedOver(p) => HandedOver(p)'
  BY DEF HandedOver
<1>3. \A p \in acked' : Kept(p)'
  BY <1>1, <1>2 DEF Kept
<1>4. (Structure => (Durable <=> \A p \in acked : Kept(p)))'
  BY DurableIs, PTL
<1> QED
  BY <1>3, <1>4

\* A step that hands nothing over and moves no drain.
LEMMA ConsumedKept ==
  ASSUME Consumed, UNCHANGED <<drainSegs, pos, emitted, starts, skipped>>,
         drainSegs # <<>> =>
           \A i \in DOMAIN files'[Head(drainSegs)] :
             /\ i \in DOMAIN files[Head(drainSegs)]
             /\ files'[Head(drainSegs)][i].point = files[Head(drainSegs)][i].point
             /\ files[Head(drainSegs)][i].state = "torn"
                  => files'[Head(drainSegs)][i].state = "torn"
  PROVE  Consumed'
BY DEF Consumed, Handed

\* The first segment of the drain.
LEMMA FirstDrained ==
  ASSUME Structure, drainSegs # <<>>
  PROVE  /\ Head(drainSegs) \in Drained /\ Head(drainSegs) \in DOMAIN files
         /\ Head(drainSegs) \notin Listed
         /\ files[Head(drainSegs)] \in Seq(Records)
         /\ active # NoSeg => Head(drainSegs) # active
<1>1. /\ segments \in Seq(Nat) /\ drainSegs \in Seq(Nat)
      /\ Newest(drainSegs, segments, active)
      /\ Drained \subseteq DOMAIN files /\ DOMAIN files \in SUBSET Nat
      /\ \A s \in DOMAIN files : files[s] \in Seq(Records)
      /\ active # NoSeg => active \notin Drained
  BY Placement
<1>2. Head(drainSegs) \in Drained
  BY <1>1, ListTail DEF Newest, Drained
<1>3. \A y \in Listed : Head(drainSegs) < y /\ Head(drainSegs) \in Nat
  BY <1>1, <1>2 DEF Newest, Drained, Listed
<1>4. Head(drainSegs) \notin Listed
  BY ONLY <1>3
<1> QED
  BY <1>1, <1>2, <1>4

\* Steps that leave the records and the points handed over, jumped or
\* acknowledged alone.
LEMMA StillSaved ==
  ASSUME Structure, Structure', Saved,
         UNCHANGED <<files, drainSegs, pos, emitted, starts, skipped, pruned, acked>>
  PROVE  Saved'
<1>1. Consumed'
  BY ConsumedKept DEF Saved
<1>2. \A p : OnDisk(p) => Kept(p)'
  BY DEF OnDisk, Kept
<1> QED
  BY <1>1, <1>2, DurableKept DEF Saved

\* What was on disk is, whatever the segments around it.
LEMMA DiskKeeps ==
  ASSUME Structure, Structure', Saved,
         UNCHANGED <<emitted, starts, skipped, pruned, acked>>,
         \A s \in DOMAIN files : \A i \in DOMAIN files[s] :
           /\ s \in DOMAIN files' /\ i \in DOMAIN files'[s]
           /\ files'[s][i].point = files[s][i].point
           /\ files[s][i].state # "torn" => files'[s][i].state # "torn"
  PROVE  Durable'
<1>1. ASSUME NEW p, OnDisk(p)
      PROVE  Kept(p)'
  <2>1. OnDisk(p)'
    BY <1>1 DEF OnDisk
  <2> QED
    BY <2>1 DEF Kept
<1> QED
  BY <1>1, DurableKept DEF Saved

\* Segments are created, drained and left, records appended and lost.
LEMMA MovesSaved ==
  ASSUME Structure, Structure', Saved,
         \/ Rotate \/ Drain \/ DrainAbort \/ Rot
         \/ Appending /\ usable /\ AppendWhole /\ AppendRecord("whole")
         \/ Appending /\ usable /\ AppendFails /\ AppendRecord("torn")
  PROVE  Saved'
<1>1. UNCHANGED <<emitted, starts, skipped, pruned, acked>>
  BY DEF Rotate, Drain, DrainAbort, Rot, AppendWhole, AppendFails, Refuse, history
<1>2. CASE Rotate
  <2>1. PICK n : /\ n = nextSeq
                 /\ files' = [s \in DOMAIN files \cup {n} |-> IF s = n THEN <<>> ELSE files[s]]
                 /\ UNCHANGED <<drainSegs, pos>>
    BY <1>2 DEF Rotate, drainer
  <2>2. n \notin DOMAIN files
    <3>1. \A s \in DOMAIN files : s < nextSeq /\ s \in Nat
      BY Placement
    <3> QED
      BY <2>1, <3>1
  <2>3. \A s \in DOMAIN files : s \in DOMAIN files' /\ files'[s] = files[s]
    BY <2>1, <2>2
  <2>4. Consumed'
    <3>1. drainSegs # <<>> => files'[Head(drainSegs)] = files[Head(drainSegs)]
      BY <2>3, FirstDrained
    <3> QED
      BY <1>1, <2>1, <3>1, ConsumedKept DEF Saved
  <2> QED
    BY <1>1, <2>3, <2>4, DiskKeeps DEF Saved
<1>3. CASE Drain
  <2>1. files' = files /\ pos' = 1 /\ drainSegs' = segments
    BY <1>3 DEF Drain, Taken
  <2>2. segments # <<>> => Head(segments) \in DOMAIN files
    <3>1. /\ segments \in Seq(Nat) /\ Newest(drainSegs, segments, active)
          /\ Listed \subseteq DOMAIN files
      BY Placement
    <3> QED
      BY <3>1, ListTail DEF Newest, Listed
  <2>3. segments # <<>> => \A i \in DOMAIN files[Head(segments)] : ~ (i < 1)
    BY <2>2, PointsOnDisk
  <2>4. Consumed'
    BY <2>1, <2>3 DEF Consumed
  <2>5. Durable'
    BY <1>1, <2>1, DiskKeeps
  <2> QED
    BY <2>4, <2>5 DEF Saved
<1>4. CASE DrainAbort
  <2>1. files' = files /\ drainSegs' = <<>>
    BY <1>4 DEF DrainAbort
  <2>2. Durable'
    BY <1>1, <2>1, DiskKeeps
  <2> QED
    BY <2>1, <2>2 DEF Saved, Consumed
<1>5. CASE Rot
  <2>1. UNCHANGED <<drainSegs, pos>>
    BY <1>5 DEF Rot, drainer
  <2>2. \A s \in DOMAIN files :
          /\ s \in DOMAIN files' /\ DOMAIN files'[s] = DOMAIN files[s]
          /\ \A i \in DOMAIN files[s] :
               /\ files'[s][i].point = files[s][i].point
               /\ files'[s][i].state = "torn" <=> files[s][i].state = "torn"
    BY <1>5, Rotten
  <2>3. Consumed'
    <3>1. drainSegs # <<>> => Head(drainSegs) \in DOMAIN files
      BY FirstDrained
    <3> QED
      BY <1>1, <2>1, <2>2, <3>1, ConsumedKept DEF Saved
  <2>4. Durable'
    BY <1>1, <2>2, DiskKeeps
  <2> QED
    BY <2>3, <2>4 DEF Saved
<1>6. CASE Appending /\ usable /\ (AppendWhole \/ AppendFails)
           /\ (AppendRecord("whole") \/ AppendRecord("torn"))
  <2>1. UNCHANGED <<drainSegs, pos>>
    BY <1>6 DEF AppendWhole, AppendFails, Refuse, drainer
  <2>2. /\ DOMAIN files' = DOMAIN files
        /\ \A s \in DOMAIN files : \A i \in DOMAIN files[s] :
             i \in DOMAIN files'[s] /\ files'[s][i] = files[s][i]
    BY <1>6, AppendedLast
  <2>3. \A s \in DOMAIN files : s # active => files'[s] = files[s]
    BY <1>6, Appended
  <2>4. active # NoSeg
    BY <1>6, Appended
  <2>5. Consumed'
    <3>1. drainSegs # <<>> => files'[Head(drainSegs)] = files[Head(drainSegs)]
      BY <2>3, <2>4, FirstDrained
    <3> QED
      BY <1>1, <2>1, <3>1, ConsumedKept DEF Saved
  <2>6. Durable'
    BY <1>1, <2>2, DiskKeeps
  <2> QED
    BY <2>5, <2>6 DEF Saved
<1> QED
  BY <1>2, <1>3, <1>4, <1>5, <1>6

\* A point is told as stored when its record is on disk.
LEMMA StoredSaved ==
  ASSUME Structure, Structure', Saved, SyncOK
  PROVE  Saved'
<1>1. /\ phase = "sync" /\ acked' = acked \cup {next}
      /\ UNCHANGED <<files, drainSegs, pos, emitted, starts, skipped, pruned>>
  BY DEF SyncOK, drainer
<1>2. Consumed'
  BY <1>1, ConsumedKept DEF Saved
<1>3. OnDisk(next)
  <2>1. PICK q : q = files[active]
    OBVIOUS
  <2>2. /\ usable /\ q # <<>> /\ q[Len(q)].point = next /\ q[Len(q)].state # "torn"
        /\ active # NoSeg
    BY <1>1, <2>1 DEF Structure, WriterPlaced
  <2>3. active \in DOMAIN files /\ q \in Seq(Records)
    BY <2>1, <2>2, Placement
  <2>4. Len(q) \in DOMAIN q
    BY <2>2, <2>3, EmptySeq, LenProperties
  <2> QED
    BY <2>1, <2>2, <2>3, <2>4 DEF OnDisk
<1>4. \A p \in acked' : Kept(p)
  BY <1>1, <1>3, DurableIs DEF Saved, Kept
<1>5. \A p : Kept(p) => Kept(p)'
  BY <1>1 DEF Kept, OnDisk, HandedOver
<1>6. (Structure => (Durable <=> \A p \in acked : Kept(p)))'
  BY DurableIs, PTL
<1> QED
  BY <1>2, <1>4, <1>5, <1>6 DEF Saved

\* The points of a segment that is pruned are counted as pruned.
LEMMA PruneSaved ==
  ASSUME Structure, Structure', Saved, PruneOldest
  PROVE  Saved'
<1>1. PICK o : o = Head(segments)
  OBVIOUS
<1>2. /\ segments # <<>> /\ pruned' = pruned \cup StoredPoints(files[o])
      /\ files' = WithoutFile(o) \/ files' = files
      /\ UNCHANGED <<drainSegs, pos, starts, acked, skipped, emitted>>
  BY <1>1 DEF PruneOldest, OverLimit, drainer
<1>3. /\ \A t \in DOMAIN files : t # o => t \in DOMAIN files'
      /\ \A t \in DOMAIN files' : t \in DOMAIN files /\ files'[t] = files[t]
  BY <1>2, FileGone
<1>4. o \in Listed
  <2>1. segments \in Seq(Nat) /\ Newest(drainSegs, segments, active)
    BY Placement
  <2> QED
    BY <1>1, <1>2, <2>1, ListTail DEF Newest, Listed
<1>5. Consumed'
  <2>1. drainSegs # <<>> => files'[Head(drainSegs)] = files[Head(drainSegs)]
    BY <1>3, <1>4, FirstDrained
  <2> QED
    BY <1>2, <2>1, ConsumedKept DEF Saved
<1>6. ASSUME NEW p, OnDisk(p)
      PROVE  Kept(p)'
  <2>1. PICK s \in DOMAIN files :
          \E i \in DOMAIN files[s] : files[s][i].point = p /\ files[s][i].state # "torn"
    BY <1>6 DEF OnDisk
  <2>2. CASE s = o
    <3>1. p \in pruned'
      BY <1>2, <2>1, <2>2 DEF StoredPoints
    <3> QED
      BY <3>1 DEF Kept
  <2>3. CASE s # o
    <3>1. OnDisk(p)'
      BY <1>3, <2>1, <2>3 DEF OnDisk
    <3> QED
      BY <3>1 DEF Kept
  <2> QED
    BY <2>2, <2>3
<1>7. Durable'
  BY <1>2, <1>6, DurableKept DEF Saved
<1> QED
  BY <1>5, <1>7 DEF Saved

\* The points of a segment that has been read are handed over or jumped over.
LEMMA NextSegmentSaved ==
  ASSUME Structure, Structure', Saved, DrainNextSegment
  PROVE  Saved'
<1>1. PICK o : o = Head(drainSegs)
  OBVIOUS
<1>2. /\ drainSegs # <<>> /\ pos > Len(files[o]) /\ pos' = 1 /\ drainSegs' = Tail(drainSegs)
      /\ files' = WithoutFile(o) \/ files' = files
      /\ UNCHANGED <<starts, acked, pruned, skipped, emitted>>
  BY <1>1 DEF DrainNextSegment, Draining, Reading, history
<1>3. /\ \A t \in DOMAIN files : t # o => t \in DOMAIN files'
      /\ \A t \in DOMAIN files' : t \in DOMAIN files /\ files'[t] = files[t]
  BY <1>2, FileGone
<1>4. o \in DOMAIN files /\ files[o] \in Seq(Records)
  BY <1>1, <1>2, FirstDrained
<1>5. pos \in Nat /\ starts \in 1 .. MaxStarts
  BY DEF Structure, WalTypes, TypeOK
<1>6. \A i \in DOMAIN files[o] : i < pos
  <2>1. PICK n \in Nat : n = Len(files[o]) /\ DOMAIN files[o] = 1 .. n
    BY <1>4, LenProperties
  <2> QED
    BY <1>2, <1>5, <2>1
<1>7. Consumed'
  <2>1. ASSUME drainSegs' # <<>>
        PROVE  Head(drainSegs') \in DOMAIN files'
    <3>1. /\ drainSegs' \in Seq(Nat) /\ Increasing(drainSegs')
          /\ ToSet(drainSegs') = Drained \ {o}
      <4>1. drainSegs \in Seq(Nat) /\ Newest(drainSegs, segments, active)
        BY Placement
      <4> QED
        BY <1>1, <1>2, <4>1, ListTail DEF Newest, Drained
    <3>2. Head(drainSegs') \in Drained /\ Head(drainSegs') # o
      BY <2>1, <3>1, ListTail
    <3> QED
      BY <1>3, <3>2, Placement
  <2>2. ASSUME drainSegs' # <<>>, NEW i \in DOMAIN files'[Head(drainSegs')]
        PROVE  ~ (i < pos')
    <3>1. PICK g : g = Head(drainSegs')
      OBVIOUS
    <3>2. g \in DOMAIN files /\ i \in DOMAIN files[g]
      BY <1>3, <2>1, <2>2, <3>1
    <3>3. i \in Nat /\ i >= 1
      BY <3>2, PointsOnDisk
    <3> QED
      BY <1>2, <3>3
  <2> QED
    BY <2>2 DEF Consumed
<1>8. ASSUME NEW p, OnDisk(p)
      PROVE  Kept(p)'
  <2>1. PICK s \in DOMAIN files :
          \E i \in DOMAIN files[s] : files[s][i].point = p /\ files[s][i].state # "torn"
    BY <1>8 DEF OnDisk
  <2>2. CASE s = o
    <3>1. p \in Handed \cup skipped
      BY <1>1, <1>2, <1>6, <2>1, <2>2 DEF Saved, Consumed
    <3> QED
      BY <1>2, <1>5, <3>1 DEF Kept, HandedOver, Handed
  <2>3. CASE s # o
    <3>1. OnDisk(p)'
      BY <1>3, <2>1, <2>3 DEF OnDisk
    <3> QED
      BY <3>1 DEF Kept
  <2> QED
    BY <2>2, <2>3
<1>9. Durable'
  BY <1>2, <1>8, DurableKept DEF Saved
<1> QED
  BY <1>7, <1>9 DEF Saved

\* A record the drain reads is handed over.
LEMMA PutSaved ==
  ASSUME Structure, Structure', Saved, DrainPut
  PROVE  Saved'
<1>1. PICK h, p, e, a : /\ h = Head(drainSegs) /\ p = files[h][pos].point
                        /\ e = emitted[starts] /\ a = Append(e, p)
  OBVIOUS
<1>2. /\ drainSegs # <<>> /\ pos <= Len(files[h])
      /\ emitted' = [emitted EXCEPT ![starts] = a]
      /\ pos' = pos + 1
      /\ UNCHANGED <<files, drainSegs, starts, acked, pruned, skipped>>
  BY <1>1 DEF DrainPut, AtRecord, Draining, Reading
<1>3. h \in DOMAIN files /\ files[h] \in Seq(Records)
  BY <1>1, <1>2, FirstDrained
<1>4. /\ emitted \in [1 .. MaxStarts -> Seq(1 .. MaxPoints)] /\ starts \in 1 .. MaxStarts
      /\ pos \in Nat \ {0}
  BY DEF Structure, WalTypes, TypeOK
<1>5. e \in Seq(1 .. MaxPoints) /\ p \in 1 .. MaxPoints
  <2>1. pos \in DOMAIN files[h]
    BY <1>2, <1>3, <1>4, LenProperties
  <2>2. files[h][pos] \in Records
    BY <1>3, <2>1, PointsOnDisk
  <2> QED
    BY <1>1, <1>4, <2>2 DEF Records
<1>6. ToSet(a) = ToSet(e) \cup {p}
  <2>1. PICK n \in Nat : n = Len(e)
    BY <1>5, LenProperties
  <2>2. /\ a \in Seq(1 .. MaxPoints) /\ Len(a) = n + 1 /\ a[n + 1] = p
        /\ \A i \in 1 .. n : a[i] = e[i]
    BY <1>1, <1>5, <2>1, AppendProperties
  <2>3. \A x : x \in ToSet(e) <=> \E i \in 1 .. n : e[i] = x
    BY <1>5, <2>1, ListElements
  <2>4. \A x : x \in ToSet(a) <=> \E i \in 1 .. n + 1 : a[i] = x
    BY <2>2, ListElements
  <2>5. /\ \A i \in 1 .. n + 1 : i \in 1 .. n \/ i = n + 1
        /\ \A i \in 1 .. n : i \in 1 .. n + 1
        /\ n + 1 \in 1 .. n + 1
    OBVIOUS
  <2> QED
    BY <2>2, <2>3, <2>4, <2>5
<1>7. /\ emitted'[starts] = a
      /\ \A n \in 1 .. MaxStarts : n # starts => emitted'[n] = emitted[n]
  BY <1>2, <1>4
<1>8. Handed' = Handed \cup {p}
  BY <1>1, <1>2, <1>6, <1>7 DEF Handed
<1>9. Consumed'
  <2>1. ASSUME NEW i \in DOMAIN files[h], i < pos + 1
        PROVE  files[h][i].state = "torn" \/ files[h][i].point \in Handed' \cup skipped'
    <3>1. i \in Nat
      BY <1>3, <2>1, PointsOnDisk
    <3>2. i < pos \/ i = pos
      BY <1>4, <2>1, <3>1
    <3> QED
      BY <1>1, <1>2, <1>8, <2>1, <3>2 DEF Saved, Consumed
  <2> QED
    BY <1>1, <1>2, <2>1 DEF Consumed
<1>10. \A n \in 1 .. MaxStarts : ToSet(emitted[n]) \subseteq ToSet(emitted'[n])
  BY <1>1, <1>6, <1>7
<1>11. \A x : OnDisk(x) => Kept(x)'
  BY <1>2 DEF OnDisk, Kept
<1>12. Durable'
  BY <1>2, <1>10, <1>11, DurableKept DEF Saved
<1> QED
  BY <1>9, <1>12 DEF Saved

\* Records the drain cannot read are jumped over.
LEMMA SkipSaved ==
  ASSUME Structure, Structure', Saved, DrainSkipRotten \/ DrainSkipTorn
  PROVE  Saved'
<1>1. PICK to : JumpTo(to) /\ drainSegs # <<>> /\ to \in Int
  <2>1. pos \in Nat
    BY DEF Structure, WalTypes, TypeOK
  <2>2. ASSUME DrainSkipRotten
        PROVE  \E to \in Int : JumpTo(to) /\ drainSegs # <<>>
    <3>1. PICK to \in (pos + 1) .. (Len(Reading) + 1) : JumpTo(to)
      BY <2>2 DEF DrainSkipRotten
    <3>2. to \in Int
      BY <2>1
    <3> QED
      BY <2>2, <3>1, <3>2 DEF DrainSkipRotten, AtRecord, Draining
  <2>3. ASSUME DrainSkipTorn
        PROVE  \E to \in Int : JumpTo(to) /\ drainSegs # <<>>
    <3>1. PICK to \in (pos + 2) .. (Len(Reading) + 2) : JumpTo(to)
      BY <2>3 DEF DrainSkipTorn
    <3>2. to \in Int
      BY <2>1
    <3> QED
      BY <2>3, <3>1, <3>2 DEF DrainSkipTorn, AtRecord, Draining
  <2> QED
    BY <2>2, <2>3
<1>2. PICK h : h = Head(drainSegs)
  OBVIOUS
<1>3. /\ pos' = to
      /\ skipped' = skipped \cup {files[h][i].point : i \in {j \in DOMAIN files[h] : pos <= j /\ j < to}}
      /\ UNCHANGED <<files, drainSegs, starts, acked, pruned, emitted>>
  BY <1>1, <1>2 DEF JumpTo, Reading
<1>4. h \in DOMAIN files /\ pos \in Nat
  BY <1>1, <1>2, FirstDrained DEF Structure, WalTypes, TypeOK
<1>5. Consumed'
  <2>1. ASSUME NEW i \in DOMAIN files[h], i < to
        PROVE  files[h][i].state = "torn" \/ files[h][i].point \in Handed' \cup skipped'
    <3>1. i \in Nat
      BY <1>4, <2>1, PointsOnDisk
    <3>2. CASE i < pos
      BY <1>1, <1>2, <1>3, <2>1, <3>2 DEF Saved, Consumed, Handed
    <3>3. CASE pos <= i
      BY <1>3, <2>1, <3>3
    <3> QED
      BY <1>4, <3>1, <3>2, <3>3
  <2> QED
    BY <1>2, <1>3, <2>1 DEF Consumed
<1>6. \A x : OnDisk(x) => Kept(x)'
  BY <1>3 DEF OnDisk, Kept
<1>7. Durable'
  BY <1>3, <1>6, DurableKept DEF Saved
<1> QED
  BY <1>5, <1>7 DEF Saved

\* A kill loses no point whose write was over.
LEMMA RestartSaved ==
  ASSUME Structure, Structure', Saved, Restart
  PROVE  Saved'
<1>1. PICK kept \in AfterKill : NewWAL(kept)
  BY DEF Restart
<1>2. /\ files' = kept /\ drainSegs' = <<>>
      /\ UNCHANGED <<next, acked, pruned, skipped, emitted>>
  BY <1>1 DEF NewWAL, Restart, history
<1>3. Consumed'
  BY <1>2 DEF Consumed
<1>4. ASSUME NEW p \in acked, OnDisk(p)
      PROVE  Kept(p)'
  <2>1. PICK s \in DOMAIN files :
          \E i \in DOMAIN files[s] : files[s][i].point = p /\ files[s][i].state # "torn"
    BY <1>4 DEF OnDisk
  <2>2. PICK i \in DOMAIN files[s] : files[s][i].point = p /\ files[s][i].state # "torn"
    BY <2>1
  <2>3. phase = "sync" => p # next
    BY DEF Structure, WriterPlaced
  <2>4. s \in DOMAIN kept /\ i \in DOMAIN kept[s] /\ kept[s][i] = files[s][i]
    BY <2>2, <2>3, KeptFiles
  <2>5. OnDisk(p)'
    BY <1>2, <2>2, <2>4 DEF OnDisk
  <2> QED
    BY <2>5 DEF Kept
<1>5. Durable'
  BY <1>2, <1>4, DurableKept DEF Saved
<1> QED
  BY <1>3, <1>5 DEF Saved

\* Before the first step.
LEMMA SavedInit == Init => Saved
BY DEF Init, Saved, Consumed, Durable

\* Every step keeps what was acknowledged.
LEMMA SavedNext == Structure /\ Structure' /\ Saved /\ [Next]_vars => Saved'
<1> SUFFICES ASSUME Structure, Structure', Saved, [Next]_vars PROVE Saved'
  OBVIOUS
<1>1. CASE UNCHANGED <<files, drainSegs, pos, emitted, starts, skipped, pruned, acked>>
  BY <1>1, StillSaved
<1>2. CASE Rotate \/ Drain \/ DrainAbort \/ Rot
  BY <1>2, MovesSaved
<1>3. CASE AppendWhole
  <2>1. Appending /\ usable /\ AppendRecord("whole")
    BY <1>3 DEF AppendWhole
  <2> QED
    BY <1>3, <2>1, MovesSaved
<1>4. CASE AppendFails /\ ~ UNCHANGED files
  <2>1. Appending /\ usable /\ AppendRecord("torn")
    BY <1>4 DEF AppendFails
  <2> QED
    BY <1>4, <2>1, MovesSaved
<1>5. CASE PruneOldest
  BY <1>5, PruneSaved
<1>6. CASE DrainNextSegment
  BY <1>6, NextSegmentSaved
<1>7. CASE DrainPut
  BY <1>7, PutSaved
<1>8. CASE DrainSkipRotten \/ DrainSkipTorn
  BY <1>8, SkipSaved
<1>9. CASE Restart
  BY <1>9, RestartSaved
<1>10. CASE SyncOK
  BY <1>10, StoredSaved
<1>11. ASSUME \/ WriteBegin \/ RotateSyncFails \/ RotateCloseFails \/ RotateCreateFails
              \/ SyncFails \/ (AppendFails /\ UNCHANGED files)
              \/ DrainDone \/ Receive \/ Cancel \/ Close \/ Over \/ UNCHANGED vars
       PROVE  UNCHANGED <<files, drainSegs, pos, emitted, starts, skipped, pruned, acked>>
  BY <1>11 DEF WriteBegin, RotateSyncFails, RotateCloseFails, RotateCreateFails, SyncFails,
         AppendFails, Refuse, DrainDone, Receive, Cancel, Close, Over, vars,
         writer, drainer, history
<1>12. CASE \/ WriteBegin \/ RotateSyncFails \/ RotateCloseFails \/ RotateCreateFails
            \/ SyncFails \/ (AppendFails /\ UNCHANGED files)
            \/ DrainDone \/ Receive \/ Cancel \/ Close \/ Over \/ UNCHANGED vars
  BY <1>1, <1>11, <1>12
<1> QED
  BY <1>2, <1>3, <1>4, <1>5, <1>6, <1>7, <1>8, <1>9, <1>10, <1>12 DEF Next, WriteStep, DrainStep

-----------------------------------------------------------------------------
(* Counted: the running total *)

\* What is counted for the listed segments: the record that has been appended is
\* added to the total once it is synced.
Pending == IF phase = "sync" THEN RecSize ELSE 0

\* Segments on disk are finitely many and have sizes.
LEMMA SizesOnDisk ==
  ASSUME Structure, NEW S \in SUBSET DOMAIN files
  PROVE  /\ IsFiniteSet(S) /\ \A s \in S : files[s] \in Seq(Records)
         /\ SizeIn(files, S) \in Nat
<1>1. nextSeq \in Nat /\ DOMAIN files \subseteq 0 .. nextSeq - 1
  BY DEF Structure, WalTypes, TypeOK
<1>2. IsFiniteSet(0 .. nextSeq - 1)
  BY <1>1, FS_Interval
<1>3. S \subseteq 0 .. nextSeq - 1
  BY <1>1
<1>4. IsFiniteSet(S)
  BY <1>2, <1>3, FS_Subset
<1>5. \A s \in S : files[s] \in Seq(Records)
  BY Placement
<1> QED
  BY <1>4, <1>5, SizeIsNumber

\* The size of the listed segments, and the numbers that go with it.
LEMMA ListedSize ==
  ASSUME Structure
  PROVE  /\ Listed \in SUBSET DOMAIN files /\ IsFiniteSet(Listed)
         /\ SizeOfAll(segments) = SizeIn(files, Listed) /\ SizeOfAll(segments) \in Nat
         /\ totalSz \in Int /\ Pending \in Nat /\ unstated \in Nat
         /\ \A s \in DOMAIN files : FileSize(s) \in Nat /\ FileSize(s) = SizeIn(files, {s})
<1>1. Listed \in SUBSET DOMAIN files
  BY Placement
<1>2. totalSz \in Int /\ Pending \in Nat /\ unstated \in Nat
  BY WALAssumption DEF Structure, WalTypes, TypeOK, Pending
<1>3. \A s \in DOMAIN files : FileSize(s) \in Nat
  <2> SUFFICES ASSUME NEW s \in DOMAIN files PROVE FileSize(s) \in Nat
    OBVIOUS
  <2>1. {s} \in SUBSET DOMAIN files
    OBVIOUS
  <2> QED
    BY <2>1, SizesOnDisk DEF FileSize
<1> QED
  BY <1>1, <1>2, <1>3, SizesOnDisk DEF SizeOfAll, Listed, FileSize

\* The total, as it was checked.
LEMMA CountedIs ==
  Counted <=> /\ totalSz + Pending <= SizeOfAll(segments) + unstated
              /\ Faults = {} => totalSz + Pending = SizeOfAll(segments)
BY DEF Counted, Pending

\* A step that changes neither the total nor the sizes of the listed segments.
LEMMA CountedKept ==
  ASSUME Counted, UNCHANGED <<segments, totalSz, unstated>>, Pending' = Pending,
         \A s \in Listed : /\ DOMAIN files'[s] = DOMAIN files[s]
                           /\ \A i \in DOMAIN files[s] : SizeOf(files'[s][i]) = SizeOf(files[s][i])
  PROVE  Counted'
<1>1. SizeIn(files', Listed) = SizeIn(files, Listed)
  BY SizeSame
<1>2. SizeOfAll(segments)' = SizeOfAll(segments)
  BY <1>1 DEF SizeOfAll, Listed
<1> QED
  BY <1>2, CountedIs DEF Counted, Pending

\* A segment that is pruned is taken off the total with its size.
LEMMA PruneSize ==
  ASSUME Structure, PruneOldest
  PROVE  /\ SizeOfAll(segments) = SizeOfAll(segments)' + FileSize(Head(segments))
         /\ SizeOfAll(segments)' \in Nat /\ FileSize(Head(segments)) \in Nat
         /\ Head(segments) \in DOMAIN files
<1>1. PICK o, S, T : o = Head(segments) /\ S = Listed \ {o} /\ T = {o}
  OBVIOUS
<1>2. /\ segments # <<>> /\ segments' = Tail(segments)
      /\ files' = WithoutFile(o) \/ files' = files
  BY <1>1 DEF PruneOldest, OverLimit
<1>3. /\ \A t \in DOMAIN files : t # o => t \in DOMAIN files'
      /\ \A t \in DOMAIN files' : files'[t] = files[t]
  BY <1>2, FileGone
<1>4. segments \in Seq(Nat) /\ Newest(drainSegs, segments, active) /\ Listed \subseteq DOMAIN files
  BY Placement
<1>5. o \in Listed /\ o \in DOMAIN files /\ Listed' = S
  BY <1>1, <1>2, <1>4, ListTail DEF Newest, Listed
<1>6. /\ IsFiniteSet(S) /\ IsFiniteSet(T) /\ S \cap T = {} /\ S \cup T = Listed
      /\ \A s \in S \cup T : files[s] \in Seq(Records)
      /\ SizeIn(files, S) \in Nat /\ SizeIn(files, T) \in Nat
  <2>1. S \in SUBSET DOMAIN files /\ T \in SUBSET DOMAIN files
    BY <1>1, <1>4, <1>5
  <2>2. S \cap T = {} /\ S \cup T = Listed
    BY <1>1, <1>5
  <2> QED
    BY <2>1, <2>2, SizesOnDisk
<1>7. SizeIn(files, Listed) = SizeIn(files, S) + SizeIn(files, T)
  <2>1. SizeIn(files, S \cup T) = SizeIn(files, S) + SizeIn(files, T)
    BY <1>6, SizeOfBoth
  <2> QED
    BY <1>6, <2>1
<1>8. SizeIn(files', S) = SizeIn(files, S)
  <2>1. \A s \in S : files'[s] = files[s]
    BY <1>1, <1>3, <1>4
  <2> QED
    BY <2>1, SizeSame
<1>9. SizeOfAll(segments)' = SizeIn(files, S)
  BY <1>5, <1>8 DEF SizeOfAll, Listed
<1>10. SizeOfAll(segments) = SizeIn(files, Listed) /\ FileSize(o) = SizeIn(files, T)
  BY <1>1 DEF SizeOfAll, Listed, FileSize
<1> QED
  BY <1>1, <1>5, <1>6, <1>7, <1>9, <1>10

\* A new segment is empty.
LEMMA RotateSize ==
  ASSUME Structure, Rotate
  PROVE  /\ SizeOfAll(segments)' = SizeOfAll(segments)
         /\ FileSize(active)' = 0
         /\ DOMAIN files' = DOMAIN files \cup {active'}
         /\ \A s \in DOMAIN files : FileSize(s)' = FileSize(s)
<1>1. PICK n, S, T : n = nextSeq /\ S = Listed /\ T = {n}
  OBVIOUS
<1>2. /\ files' = [s \in DOMAIN files \cup {n} |-> IF s = n THEN <<>> ELSE files[s]]
      /\ segments' = Append(segments, n) /\ active' = n
  BY <1>1 DEF Rotate
<1>3. /\ segments \in Seq(Nat) /\ Newest(drainSegs, segments, active)
      /\ Listed \subseteq DOMAIN files
      /\ \A s \in DOMAIN files : s < n /\ s \in Nat
  BY <1>1, Placement
<1>4. n \in Nat /\ n \notin DOMAIN files
  BY <1>1, <1>3 DEF Structure, WalTypes, TypeOK
<1>5. Listed' = S \cup T
  <2>1. \A x \in ToSet(segments) : x < n
    BY <1>3 DEF Listed
  <2> QED
    BY <1>1, <1>2, <1>3, <1>4, <2>1, ListAppend DEF Newest, Listed
<1>6. DOMAIN files' = DOMAIN files \cup {n} /\ files'[n] = <<>>
      /\ \A s \in DOMAIN files : files'[s] = files[s]
  BY <1>2, <1>4
<1>7. SizeIn(files', T) = 0
  BY <1>1, <1>6, SizeOfEmpty
<1>8. SizeIn(files', S) = SizeIn(files, S)
  <2>1. \A s \in S : files'[s] = files[s]
    BY <1>1, <1>3, <1>6
  <2> QED
    BY <2>1, SizeSame
<1>9. SizeIn(files', S \cup T) = SizeIn(files', S) + SizeIn(files', T)
  <2>1. IsFiniteSet(S) /\ IsFiniteSet(T) /\ S \cap T = {}
    BY <1>1, <1>3, <1>4, ListedSize, FS_Singleton
  <2>2. \A s \in S \cup T : files'[s] \in Seq(Records)
    <3>1. \A s \in S : files[s] \in Seq(Records) /\ files'[s] = files[s]
      BY <1>1, <1>3, <1>6, Placement
    <3> QED
      BY <1>1, <1>6, <3>1, EmptySeq
  <2> QED
    BY <2>1, <2>2, SizeOfBoth
<1>10. SizeIn(files, S) \in Nat
  BY <1>1, ListedSize
<1>11. SizeIn(files', S \cup T) = SizeIn(files, S)
  BY ONLY <1>7, <1>8, <1>9, <1>10
<1>12. SizeOfAll(segments)' = SizeIn(files', S \cup T) /\ SizeOfAll(segments) = SizeIn(files, S)
  BY <1>1, <1>5 DEF SizeOfAll, Listed
<1>13. FileSize(active)' = SizeIn(files', T)
  BY <1>1, <1>2 DEF FileSize
<1>14. \A s \in DOMAIN files : FileSize(s)' = FileSize(s)
  <2> SUFFICES ASSUME NEW s \in DOMAIN files PROVE SizeIn(files', {s}) = SizeIn(files, {s})
    BY DEF FileSize
  <2>1. \A t \in {s} : files'[t] = files[t]
    BY <1>6
  <2> QED
    BY <2>1, SizeSame
<1> QED
  BY <1>2, <1>6, <1>7, <1>11, <1>12, <1>13, <1>14

\* A record appended makes its segment, and the listed segments, so much longer.
LEMMA AppendSize ==
  ASSUME Structure, Appending, usable, NEW st \in {"whole", "torn"}, AppendRecord(st),
         UNCHANGED <<segments, active>>
  PROVE  /\ SizeOfAll(segments)' = SizeOfAll(segments) + SizeOf(Record(next, st))
         /\ FileSize(active)' = FileSize(active) + SizeOf(Record(next, st))
         /\ \A s \in DOMAIN files : s # active => FileSize(s)' = FileSize(s)
         /\ DOMAIN files' = DOMAIN files /\ active \in Listed
<1>1. PICK a, r, S, T : a = active /\ r = Record(next, st) /\ S = Listed \ {a} /\ T = {a}
  OBVIOUS
<1>2. /\ active # NoSeg /\ a \in DOMAIN files /\ r \in Records
      /\ DOMAIN files' = DOMAIN files
      /\ \A s \in DOMAIN files : s # a => files'[s] = files[s]
      /\ files'[a] = Append(files[a], r) /\ files'[a] \in Seq(Records)
  BY <1>1, Appended
<1>3. a \in Listed /\ Listed \subseteq DOMAIN files /\ files[a] \in Seq(Records)
  BY <1>1, <1>2, Placement
<1>4. S \cap T = {} /\ S \cup T = Listed /\ Listed' = Listed
  BY <1>1, <1>3 DEF Listed
<1>5. /\ IsFiniteSet(S) /\ IsFiniteSet(T)
      /\ \A s \in S \cup T : files[s] \in Seq(Records)
      /\ SizeIn(files, S) \in Nat /\ SizeIn(files, T) \in Nat
  <2>1. S \in SUBSET DOMAIN files /\ T \in SUBSET DOMAIN files
    BY <1>1, <1>3
  <2> QED
    BY <2>1, SizesOnDisk
<1>6. \A s \in S \cup T : files'[s] \in Seq(Records)
  BY <1>1, <1>2, <1>3, <1>5
<1>7. SizeIn(files, S \cup T) = SizeIn(files, S) + SizeIn(files, T)
  BY <1>4, <1>5, SizeOfBoth
<1>8. SizeIn(files', S \cup T) = SizeIn(files', S) + SizeIn(files', T)
  BY <1>4, <1>5, <1>6, SizeOfBoth
<1>9. SizeIn(files', S) = SizeIn(files, S)
  <2>1. \A s \in S : files'[s] = files[s]
    BY <1>1, <1>2, <1>3
  <2> QED
    BY <2>1, SizeSame
<1>10. SizeIn(files', T) = SizeIn(files, T) + SizeOf(r)
  BY <1>1, <1>2, <1>3, SizeOfLonger
<1>11. SizeOf(r) \in Nat
  BY <1>2, RecordSize
<1>12. SizeIn(files', S \cup T) = SizeIn(files, S \cup T) + SizeOf(r)
  BY ONLY <1>5, <1>7, <1>8, <1>9, <1>10, <1>11
<1>13. /\ SizeOfAll(segments)' = SizeIn(files', S \cup T)
       /\ SizeOfAll(segments) = SizeIn(files, S \cup T)
  BY <1>4 DEF SizeOfAll, Listed
<1>14. FileSize(active)' = SizeIn(files', T) /\ FileSize(active) = SizeIn(files, T)
  BY <1>1 DEF FileSize
<1>15. \A s \in DOMAIN files : s # active => FileSize(s)' = FileSize(s)
  <2> SUFFICES ASSUME NEW s \in DOMAIN files, s # active
               PROVE  SizeIn(files', {s}) = SizeIn(files, {s})
    BY DEF FileSize
  <2>1. \A t \in {s} : files'[t] = files[t]
    BY <1>1, <1>2
  <2> QED
    BY <2>1, SizeSame
<1> QED
  BY <1>1, <1>2, <1>3, <1>10, <1>12, <1>13, <1>14, <1>15

\* Before the first step nothing is listed.
LEMMA CountedInit == Init => Counted
<1> SUFFICES ASSUME Init PROVE Counted
  OBVIOUS
<1>1. SizeOfAll(segments) = 0
  BY ListNone, SizeOfNone DEF Init, SizeOfAll
<1> QED
  BY <1>1 DEF Init, Counted

\* Every step keeps the count.
LEMMA CountedNext == Structure /\ Structure' /\ Counted /\ [Next]_vars => Counted'
<1> SUFFICES ASSUME Structure, Structure', Counted, [Next]_vars PROVE Counted'
  OBVIOUS
<1> DEFINE Z == SizeOfAll(segments)
           P == Pending
<1>1. Z \in Nat /\ totalSz \in Int /\ unstated \in Nat /\ P \in Nat /\ RecSize \in Nat \ {0, 1}
  BY ListedSize, WALAssumption
<1>2. totalSz + P <= Z + unstated /\ (Faults = {} => totalSz + P = Z)
  BY CountedIs
<1> HIDE DEF Z, P
<1>3. ASSUME totalSz' + P' <= Z' + unstated', Faults = {} => totalSz' + P' = Z'
      PROVE  Counted'
  BY <1>3 DEF Z, P, Counted, Pending
<1>4. CASE UNCHANGED <<files, segments, totalSz, unstated>> /\ Pending' = Pending
  BY <1>4, CountedKept
<1>5. CASE Rot
  <2>1. UNCHANGED <<segments, totalSz, unstated, phase>>
    BY <1>5 DEF Rot, writer, history
  <2>2. \A s \in DOMAIN files :
          /\ DOMAIN files'[s] = DOMAIN files[s]
          /\ \A i \in DOMAIN files[s] : SizeOf(files'[s][i]) = SizeOf(files[s][i])
    <3> SUFFICES ASSUME NEW s \in DOMAIN files
                 PROVE  /\ DOMAIN files'[s] = DOMAIN files[s]
                        /\ \A i \in DOMAIN files[s] : SizeOf(files'[s][i]) = SizeOf(files[s][i])
      OBVIOUS
    <3>1. /\ DOMAIN files'[s] = DOMAIN files[s]
          /\ \A i \in DOMAIN files[s] :
               \/ files'[s][i].state = files[s][i].state
               \/ files[s][i].state = "whole" /\ files'[s][i].state = "rotten"
      BY <1>5, Rotten
    <3> QED
      BY <3>1 DEF SizeOf
  <2>3. Listed \subseteq DOMAIN files
    BY Placement
  <2>4. \A s \in Listed :
          /\ DOMAIN files'[s] = DOMAIN files[s]
          /\ \A i \in DOMAIN files[s] : SizeOf(files'[s][i]) = SizeOf(files[s][i])
    BY ONLY <2>2, <2>3
  <2>5. Pending' = Pending
    BY <2>1 DEF Pending
  <2> QED
    BY <2>1, <2>4, <2>5, CountedKept
<1>6. CASE DrainNextSegment
  <2>1. /\ drainSegs # <<>> /\ UNCHANGED <<segments, totalSz, unstated, phase>>
        /\ files' = WithoutFile(Head(drainSegs)) \/ files' = files
    BY <1>6 DEF DrainNextSegment, Draining, writer, history
  <2>2. \A s \in Listed : files'[s] = files[s]
    BY <2>1, FirstDrained, FileGone, Placement
  <2>3. Pending' = Pending
    BY <2>1 DEF Pending
  <2> QED
    BY <2>1, <2>2, <2>3, CountedKept
<1>7. CASE PruneOldest
  <2>1. /\ phase = "prune" /\ phase' = phase
        /\ \/ totalSz' = totalSz - FileSize(Head(segments)) /\ unstated' = unstated
           \/ /\ totalSz' = totalSz /\ unstated' = unstated + FileSize(Head(segments))
              /\ Faults # {}
    BY <1>7 DEF PruneOldest
  <2>2. PICK k \in Nat : k = FileSize(Head(segments)) /\ Z = Z' + k /\ Z' \in Nat
    BY <1>7, PruneSize DEF Z
  <2>3. /\ P' = P
        /\ \/ totalSz' = totalSz - k /\ unstated' = unstated
           \/ totalSz' = totalSz /\ unstated' = unstated + k /\ Faults # {}
    BY <2>1, <2>2 DEF P, Pending
  <2>4. totalSz' + P' <= Z' + unstated' /\ (Faults = {} => totalSz' + P' = Z')
    BY ONLY <1>1, <1>2, <2>2, <2>3
  <2> QED
    BY <1>3, <2>4
<1>8. CASE Rotate
  <2>1. Z' = Z
    BY <1>8, RotateSize DEF Z
  <2>2. totalSz' = totalSz /\ unstated' = unstated /\ P' = P
    BY <1>8 DEF Rotate, Rotating, P, Pending, history
  <2> QED
    BY <1>2, <1>3, <2>1, <2>2
<1>9. CASE AppendWhole
  <2>1. /\ Appending /\ usable /\ AppendRecord("whole") /\ UNCHANGED <<segments, active, totalSz, unstated>>
        /\ phase' = "sync" /\ phase # "sync"
    BY <1>9 DEF AppendWhole, Appending, writer, history
  <2>2. Z' = Z + SizeOf(Record(next, "whole"))
    BY <2>1, AppendSize DEF Z
  <2>3. SizeOf(Record(next, "whole")) = RecSize
    BY DEF SizeOf, Record
  <2>4. P = 0 /\ P' = RecSize
    BY <2>1 DEF P, Pending
  <2>5. totalSz' + P' <= Z' + unstated' /\ (Faults = {} => totalSz' + P' = Z')
    BY <1>1, <1>2, <2>1, <2>2, <2>3, <2>4
  <2> QED
    BY <1>3, <2>5
<1>10. CASE AppendFails /\ Appending /\ usable /\ AppendRecord("torn") /\ "append" \in Faults
  <2>1. UNCHANGED <<segments, active, totalSz, unstated>> /\ phase' = "idle" /\ phase # "sync"
    BY <1>10 DEF AppendFails, Appending, Refuse, writer, history
  <2>2. Z' = Z + SizeOf(Record(next, "torn"))
    BY <1>10, <2>1, AppendSize DEF Z
  <2>3. SizeOf(Record(next, "torn")) = 1
    BY DEF SizeOf, Record
  <2>4. P = 0 /\ P' = 0
    BY <2>1 DEF P, Pending
  <2>5. totalSz' + P' <= Z' + unstated' /\ Faults # {}
    BY <1>1, <1>2, <1>10, <2>1, <2>2, <2>3, <2>4
  <2> QED
    BY <1>3, <2>5
<1>11. CASE SyncOK
  <2>1. /\ UNCHANGED <<files, segments, unstated>> /\ totalSz' = totalSz + RecSize
        /\ phase = "sync" /\ phase' = "idle"
    BY <1>11 DEF SyncOK
  <2>2. Z' = Z
    BY <2>1 DEF Z, SizeOfAll
  <2>3. P = RecSize /\ P' = 0
    BY <2>1 DEF P, Pending
  <2>4. totalSz' + P' <= Z' + unstated' /\ (Faults = {} => totalSz' + P' = Z')
    BY <1>1, <1>2, <2>1, <2>2, <2>3
  <2> QED
    BY <1>3, <2>4
<1>12. CASE SyncFails
  <2>1. UNCHANGED <<files, segments, totalSz, unstated>> /\ phase' = "idle" /\ Faults # {}
    BY <1>12 DEF SyncFails, Refuse, writer, history
  <2>2. Z' = Z
    BY <2>1 DEF Z, SizeOfAll
  <2>3. P' = 0
    BY <2>1 DEF P, Pending
  <2>4. totalSz' + P' <= Z' + unstated'
    BY <1>1, <1>2, <2>1, <2>2, <2>3
  <2> QED
    BY <1>3, <2>1, <2>4
<1>13. CASE Drain
  <2>1. segments' = <<>> /\ totalSz' = 0 /\ unstated' = 0 /\ phase' = "idle"
    BY <1>13 DEF Drain
  <2>2. Z' = 0
    BY <2>1, ListNone, SizeOfNone DEF Z, SizeOfAll
  <2>3. P' = 0
    BY <2>1 DEF P, Pending
  <2>4. totalSz' + P' = Z' /\ totalSz' + P' <= Z' + unstated'
    BY <2>1, <2>2, <2>3
  <2> QED
    BY <1>3, <2>4
<1>14. CASE Restart
  <2>1. PICK kept \in AfterKill : NewWAL(kept)
    BY <1>14 DEF Restart
  <2>2. /\ files' = kept /\ segments' = Sorted(kept) /\ phase' = "idle"
        /\ totalSz' = SizeIn(kept, DOMAIN kept) /\ unstated' = 0
    BY <2>1 DEF NewWAL
  <2>3. DOMAIN kept \in SUBSET Nat /\ IsFiniteSet(DOMAIN kept)
    <3>1. DOMAIN kept = DOMAIN files
      BY KeptFiles
    <3>2. DOMAIN files \in SUBSET Nat
      BY Placement
    <3> QED
      BY <3>1, <3>2, SizesOnDisk
  <2>4. Z' = totalSz'
    BY <2>2, <2>3, SortedLists DEF Z, SizeOfAll
  <2>5. P' = 0 /\ totalSz' \in Int
    BY <2>2 DEF P, Pending, Structure, WalTypes, TypeOK
  <2>6. \A t \in Int : \A z, p, u : p = 0 /\ u = 0 /\ z = t => t + p = z /\ t + p <= z + u
    OBVIOUS
  <2>7. totalSz' + P' = Z' /\ totalSz' + P' <= Z' + unstated'
    BY ONLY <2>2, <2>4, <2>5, <2>6
  <2> QED
    BY <1>3, <2>7
<1>15. ASSUME \/ WriteBegin \/ RotateSyncFails \/ RotateCloseFails \/ RotateCreateFails
              \/ (AppendFails /\ UNCHANGED files)
              \/ DrainPut \/ DrainSkipRotten \/ DrainSkipTorn \/ DrainDone \/ DrainAbort
              \/ Receive \/ Cancel \/ Close \/ Over \/ UNCHANGED vars
       PROVE  UNCHANGED <<files, segments, totalSz, unstated>> /\ Pending' = Pending
  <2>1. UNCHANGED <<files, segments, totalSz, unstated>>
    BY <1>15 DEF WriteBegin, RotateSyncFails, RotateCloseFails, RotateCreateFails,
         AppendFails, Refuse, DrainPut, DrainSkipRotten, DrainSkipTorn, JumpTo, DrainDone,
         DrainAbort, Receive, Cancel, Close, Over, vars, writer, history
  <2>2. phase' = phase \/ (phase # "sync" /\ phase' # "sync")
    BY <1>15 DEF WriteBegin, RotateSyncFails, RotateCloseFails, RotateCreateFails, Rotating,
         AppendFails, Appending, Refuse, DrainPut, DrainSkipRotten, DrainSkipTorn, JumpTo, DrainDone,
         DrainAbort, Receive, Cancel, Close, Over, vars, writer
  <2> QED
    BY <2>1, <2>2 DEF Pending
<1>16. CASE \/ WriteBegin \/ RotateSyncFails \/ RotateCloseFails \/ RotateCreateFails
            \/ (AppendFails /\ UNCHANGED files)
            \/ DrainPut \/ DrainSkipRotten \/ DrainSkipTorn \/ DrainDone \/ DrainAbort
            \/ Receive \/ Cancel \/ Close \/ Over \/ UNCHANGED vars
  BY <1>4, <1>15, <1>16
<1>17. CASE AppendFails
  BY <1>10, <1>16, <1>17 DEF AppendFails
<1> QED
  BY <1>5, <1>6, <1>7, <1>8, <1>9, <1>11, <1>12, <1>13, <1>14, <1>16, <1>17
     DEF Next, WriteStep, DrainStep

\* After any failures, kills and restarts what was acknowledged is on disk or was
\* handed over, was pruned by the limit or could not be read; each run hands points
\* over once and in the order they were written; and the running total overstates
\* what is listed by no more than the segments pruned while their size could not be
\* read, so that nothing else is pruned too early.
THEOREM WalRecoverable == Spec => []Recoverable
<1> DEFINE IInv == Structure /\ Ordered /\ Saved /\ Counted
<1>1. Init => IInv
  BY StructureInit, OrderedInit, SavedInit, CountedInit
<1>2. IInv /\ [Next]_vars => IInv'
  BY StructureNext, OrderedNext, SavedNext, CountedNext
<1>3. IInv => Recoverable
  <2> SUFFICES ASSUME IInv PROVE Recoverable
    OBVIOUS
  <2>1. Durable /\ DrainOrdered
    BY DEF Saved, Ordered
  <2>2. SizeNotOverstated
    <3>1. phase = "idle" => Pending = 0
      BY DEF Pending
    <3>2. totalSz + Pending <= SizeOfAll(segments) + unstated /\ totalSz \in Int
      BY CountedIs, ListedSize
    <3> QED
      BY <3>1, <3>2 DEF SizeNotOverstated
  <2> QED
    BY <2>1, <2>2 DEF Recoverable
<1> QED
  BY <1>1, <1>2, <1>3, PTL DEF Spec

-----------------------------------------------------------------------------
(* Limited: the size limit, in one run on a healthy disk *)

\* The bound is the larger of the two.
LEMMA LimitIs ==
  /\ Limit \in Nat /\ MaxTotal <= Limit /\ SegMax - 1 + 2 * RecSize <= Limit
  /\ RecSize \in Nat /\ SegMax \in Nat \ {0} /\ MaxTotal \in Nat
<1>1. RecSize \in Nat /\ SegMax \in Nat \ {0} /\ MaxTotal \in Nat
  BY WALAssumption
<1>2. PICK b \in Nat : b = SegMax - 1 + 2 * RecSize
  BY <1>1
<1>3. PICK S : S = {MaxTotal, b}
  OBVIOUS
<1>4. \E x \in S : \A y \in S : x >= y
  <2>1. CASE MaxTotal >= b
    BY <1>1, <1>3, <2>1
  <2>2. CASE ~ (MaxTotal >= b)
    BY <1>1, <1>3, <2>2
  <2> QED
    BY <2>1, <2>2
<1>5. Max(S) \in S /\ \A y \in S : Max(S) >= y
  BY <1>4 DEF Max
<1>6. Limit = Max(S)
  BY <1>2, <1>3 DEF Limit
<1> QED
  BY <1>1, <1>2, <1>3, <1>5, <1>6

\* A write that may go on finds room for its record.
LEMMA RoomForRecord ==
  ASSUME Structure, Counted, Limited, Faults = {}, phase = "prune", ~ OverLimit
  PROVE  SizeOfAll(segments) + RecSize <= Limit
<1> DEFINE Z == SizeOfAll(segments)
<1>1. Z \in Nat /\ totalSz \in Int
  BY ListedSize
<1>2. totalSz = Z
  BY <1>1, CountedIs DEF Pending
<1>3. CASE totalSz + RecSize <= MaxTotal
  BY <1>1, <1>2, <1>3, LimitIs
<1>4. CASE segments = <<>>
  <2>1. Z = 0
    BY <1>4, ListNone, SizeOfNone DEF SizeOfAll
  <2>2. RecSize <= Limit
    BY LimitIs
  <2>3. 0 + RecSize <= Limit
    BY <2>2, LimitIs
  <2> QED
    BY <2>1, <2>3
<1>5. CASE segments # <<>> /\ Head(segments) = active
  <2>1. segments \in Seq(Nat) /\ Newest(drainSegs, segments, active)
    BY Placement
  <2>2. Head(segments) \in Nat
    BY <1>5, <2>1, ListTail DEF Newest
  <2>3. active # NoSeg
    BY <1>5, <2>2 DEF NoSeg
  <2>4. Last(segments) = active
    BY <2>1, <2>3 DEF Newest
  <2>5. Listed = {active}
    BY <1>5, <2>1, <2>4, ListLast DEF Newest, Listed
  <2>6. Z = FileSize(active)
    BY <2>5 DEF SizeOfAll, FileSize, Listed
  <2>7. Z <= SegMax - 1 + RecSize
    BY <2>3, <2>6, Placement DEF Limited
  <2> QED
    BY ONLY <1>1, <2>7, LimitIs
<1>6. totalSz + RecSize <= MaxTotal \/ totalSz + RecSize > MaxTotal
  BY <1>1, LimitIs
<1> QED
  BY <1>3, <1>4, <1>5, <1>6 DEF OverLimit

\* Before the first step.
LEMMA LimitedInit == Init => Limited
<1> SUFFICES ASSUME Init PROVE Limited
  OBVIOUS
<1>1. SizeOfAll(segments) = 0
  BY ListNone, SizeOfNone DEF Init, SizeOfAll
<1>2. SizeBounded
  BY <1>1, LimitIs DEF SizeBounded, Limit
<1> QED
  BY <1>2 DEF Init, Limited

\* A record that is appended is within the limit.
LEMMA AppendLimited ==
  ASSUME Structure, Counted, Limited, Faults = {}, AppendWhole
  PROVE  Limited'
<1>1. /\ Appending /\ usable /\ AppendRecord("whole") /\ UNCHANGED <<segments, active>>
      /\ phase' = "sync"
  BY DEF AppendWhole, writer
<1>2. SizeOf(Record(next, "whole")) = RecSize
  BY DEF SizeOf, Record
<1>3. /\ SizeOfAll(segments)' = SizeOfAll(segments) + RecSize
      /\ FileSize(active)' = FileSize(active) + RecSize
      /\ \A s \in DOMAIN files : s # active => FileSize(s)' = FileSize(s)
      /\ DOMAIN files' = DOMAIN files /\ active \in Listed
  BY <1>1, <1>2, AppendSize
<1>4. FileSize(active) \in Nat
  <2>1. active \in DOMAIN files
    BY <1>3, Placement
  <2> QED
    BY <2>1, ListedSize
<1>5. active # NoSeg
  BY <1>1, Appended
<1>6. /\ SizeOfAll(segments) + RecSize <= Limit
      /\ FileSize(active) <= SegMax - 1
  <2>1. CASE phase = "append"
    <3>1. FileSize(active) = 0 /\ SizeOfAll(segments) + RecSize <= Limit
      BY <2>1 DEF Limited
    <3> QED
      BY <3>1, LimitIs
  <2>2. CASE phase = "prune" /\ ~ OverLimit /\ ~ NeedsRotation
    <3>1. FileSize(active) < SegMax
      BY <1>4, <1>5, <2>2, LimitIs DEF NeedsRotation
    <3>2. FileSize(active) <= SegMax - 1
      BY <1>4, <3>1, LimitIs
    <3> QED
      BY <2>2, <3>2, RoomForRecord
  <2> QED
    BY <1>1, <2>1, <2>2 DEF Appending
<1>7. \A s \in DOMAIN files' : FileSize(s)' <= SegMax - 1 + RecSize
  <2>1. FileSize(active)' <= SegMax - 1 + RecSize
    BY <1>3, <1>4, <1>6, LimitIs
  <2>2. \A s \in DOMAIN files : s # active => FileSize(s)' <= SegMax - 1 + RecSize
    BY <1>3 DEF Limited
  <2>3. \A s : s = active => FileSize(s)' = FileSize(active)'
    BY <1>1 DEF FileSize
  <2> QED
    BY <1>3, <2>1, <2>2, <2>3
<1>8. SizeOfAll(segments)' <= Limit
  BY <1>3, <1>6
<1> QED
  BY <1>1, <1>7, <1>8 DEF Limited, SizeBounded, Limit

\* Every step keeps within the limit.
LEMMA LimitedNext ==
  ASSUME Faults = {}, MaxStarts = 1,
         Structure, Counted, Limited, [Next]_vars
  PROVE  Limited'
<1>1. CASE AppendWhole
  BY <1>1, AppendLimited
<1>2. CASE Rotate
  <2>1. phase = "prune" /\ ~ OverLimit /\ phase' = "append"
    BY <1>2 DEF Rotate, Rotating
  <2>2. /\ SizeOfAll(segments)' = SizeOfAll(segments) /\ FileSize(active)' = 0
        /\ DOMAIN files' = DOMAIN files \cup {active'}
        /\ \A s \in DOMAIN files : FileSize(s)' = FileSize(s)
    BY <1>2, RotateSize
  <2>3. SizeOfAll(segments) + RecSize <= Limit
    BY <2>1, RoomForRecord
  <2>4. 0 <= SegMax - 1 + RecSize
    BY LimitIs
  <2>5. \A s \in DOMAIN files' : FileSize(s)' <= SegMax - 1 + RecSize
    <3>1. FileSize(active)' <= SegMax - 1 + RecSize
      BY <2>2, <2>4
    <3> QED
      BY <2>2, <3>1 DEF Limited, FileSize
  <2>6. SizeBounded'
    BY <2>2 DEF Limited, SizeBounded
  <2>7. FileSize(active)' = 0 /\ SizeOfAll(segments)' + RecSize <= Limit
    BY <2>2, <2>3
  <2> QED
    BY <2>5, <2>6, <2>7 DEF Limited, Limit
<1>3. CASE PruneOldest
  <2>1. phase' = phase /\ phase = "prune"
    BY <1>3 DEF PruneOldest
  <2>2. SizeOfAll(segments)' <= SizeOfAll(segments) /\ SizeOfAll(segments) \in Nat /\ SizeOfAll(segments)' \in Nat
    BY <1>3, PruneSize, ListedSize
  <2>3. \A s \in DOMAIN files' : s \in DOMAIN files /\ FileSize(s)' = FileSize(s)
    <3> SUFFICES ASSUME NEW s \in DOMAIN files'
                 PROVE  s \in DOMAIN files /\ SizeIn(files', {s}) = SizeIn(files, {s})
      BY DEF FileSize
    <3>1. s \in DOMAIN files /\ \A t \in {s} : files'[t] = files[t]
      BY <1>3, FileGone DEF PruneOldest
    <3> QED
      BY <3>1, SizeSame
  <2>4. SizeBounded'
    <3>1. SizeOfAll(segments) <= Limit
      BY DEF Limited, SizeBounded, Limit
    <3>2. SizeOfAll(segments)' <= Limit
      BY <2>2, <3>1, LimitIs
    <3> QED
      BY <3>2 DEF SizeBounded, Limit
  <2> QED
    BY <2>1, <2>3, <2>4 DEF Limited
<1>4. CASE Drain
  <2>1. files' = files /\ segments' = <<>> /\ phase' = "idle"
    BY <1>4 DEF Drain
  <2>2. SizeOfAll(segments)' = 0
    BY <2>1, ListNone, SizeOfNone DEF SizeOfAll
  <2>3. SizeBounded'
    BY <2>2, LimitIs DEF SizeBounded, Limit
  <2> QED
    BY <2>1, <2>3 DEF Limited, FileSize
<1>5. CASE DrainNextSegment
  <2>1. /\ drainSegs # <<>> /\ UNCHANGED <<segments, phase, active>>
        /\ files' = WithoutFile(Head(drainSegs)) \/ files' = files
    BY <1>5 DEF DrainNextSegment, Draining, writer
  <2>2. \A s \in DOMAIN files' : s \in DOMAIN files /\ files'[s] = files[s]
    BY <2>1, FileGone
  <2>3. \A s \in DOMAIN files' : s \in DOMAIN files /\ FileSize(s)' = FileSize(s)
    <3> SUFFICES ASSUME NEW s \in DOMAIN files'
                 PROVE  s \in DOMAIN files /\ SizeIn(files', {s}) = SizeIn(files, {s})
      BY DEF FileSize
    <3>1. \A t \in {s} : files'[t] = files[t]
      BY <2>2
    <3> QED
      BY <2>2, <3>1, SizeSame
  <2>4. SizeOfAll(segments)' = SizeOfAll(segments)
    <3>1. \A s \in Listed : files'[s] = files[s]
      BY <2>1, FirstDrained, FileGone, Placement
    <3>2. SizeIn(files', Listed) = SizeIn(files, Listed)
      BY <3>1, SizeSame
    <3> QED
      BY <2>1, <3>2 DEF SizeOfAll, Listed
  <2>5. phase = "append" => FileSize(active)' = FileSize(active)
    <3>1. phase = "append" => active # NoSeg
      BY DEF Structure, WriterPlaced
    <3>2. active # NoSeg => active \in DOMAIN files /\ active # Head(drainSegs)
      BY <2>1, Placement, FirstDrained
    <3>3. phase = "append" => active \in DOMAIN files' /\ FileSize(active)' = FileSize(active)
      <4> SUFFICES ASSUME phase = "append"
                   PROVE  active \in DOMAIN files' /\ SizeIn(files', {active}) = SizeIn(files, {active})
        BY <2>1 DEF FileSize
      <4>1. active \in DOMAIN files'
        BY <2>1, <3>1, <3>2, FileGone
      <4>2. \A t \in {active} : files'[t] = files[t]
        BY <2>2, <4>1
      <4> QED
        BY <4>1, <4>2, SizeSame
    <3> QED
      BY <3>3
  <2> QED
    BY <2>1, <2>3, <2>4, <2>5 DEF Limited, SizeBounded
<1>6. ASSUME \/ WriteBegin \/ RotateSyncFails \/ RotateCloseFails \/ RotateCreateFails
             \/ AppendFails \/ SyncOK \/ SyncFails
             \/ DrainPut \/ DrainSkipRotten \/ DrainSkipTorn \/ DrainDone \/ DrainAbort
             \/ Receive \/ Cancel \/ Close \/ Rot \/ Over \/ UNCHANGED vars
      PROVE  /\ UNCHANGED <<files, segments, active>>
             /\ phase' # "append" \/ phase' = phase
  <2>1. UNCHANGED <<files, segments, active>>
    BY <1>6 DEF WriteBegin, RotateSyncFails, RotateCloseFails, RotateCreateFails,
         AppendFails, SyncOK, SyncFails, Refuse, DrainPut, DrainSkipRotten, DrainSkipTorn, JumpTo,
         DrainDone, DrainAbort, Receive, Cancel, Close, Rot, Over, vars, writer
  <2>2. phase' # "append" \/ phase' = phase
    BY <1>6 DEF WriteBegin, RotateSyncFails, RotateCloseFails, RotateCreateFails,
         AppendFails, SyncOK, SyncFails, Refuse, DrainPut, DrainSkipRotten, DrainSkipTorn, JumpTo,
         DrainDone, DrainAbort, Receive, Cancel, Close, Rot, Over, vars, writer
  <2> QED
    BY <2>1, <2>2
<1>7. CASE UNCHANGED <<files, segments, active>> /\ (phase' # "append" \/ phase' = phase)
  BY <1>7 DEF Limited, SizeBounded, SizeOfAll, FileSize
<1>8. CASE \/ WriteBegin \/ RotateSyncFails \/ RotateCloseFails \/ RotateCreateFails
           \/ AppendFails \/ SyncOK \/ SyncFails
           \/ DrainPut \/ DrainSkipRotten \/ DrainSkipTorn \/ DrainDone \/ DrainAbort
           \/ Receive \/ Cancel \/ Close \/ Rot \/ Over \/ UNCHANGED vars
  BY <1>6, <1>7, <1>8
<1>9. ~ Restart
  BY DEF Restart, Structure, WalTypes, TypeOK
<1> QED
  BY <1>1, <1>2, <1>3, <1>4, <1>5, <1>8, <1>9 DEF Next, WriteStep, DrainStep

\* In one run on a healthy disk the active segment is the newest and its file
\* exists, the running total is the size of the listed segments whenever no write
\* is in progress, and they outgrow the limit by no more than the segment that must
\* not be pruned and one record.
THEOREM WalSegmentsSound ==
  ASSUME Faults = {}, MaxStarts = 1
  PROVE  Spec => []SegmentsSound
<1> DEFINE IInv == Structure /\ Counted /\ Limited
<1>1. Init => IInv
  BY StructureInit, CountedInit, LimitedInit
<1>2. IInv /\ [Next]_vars => IInv'
  BY StructureNext, CountedNext, LimitedNext
<1>3. IInv => SegmentsSound
  <2> SUFFICES ASSUME IInv PROVE SegmentsSound
    OBVIOUS
  <2>1. ActiveIsNewest /\ SizeBounded
    BY DEF Structure, Limited
  <2>2. SizeAccounted
    <3>1. phase = "idle" => Pending = 0
      BY DEF Pending
    <3>2. totalSz + Pending = SizeOfAll(segments) /\ totalSz \in Int
      BY CountedIs, ListedSize
    <3> QED
      BY <3>1, <3>2 DEF SizeAccounted
  <2> QED
    BY <2>1, <2>2 DEF SegmentsSound
<1> QED
  BY <1>1, <1>2, <1>3, PTL DEF Spec

-----------------------------------------------------------------------------
(* A set of points as a queue *)

\* Of two increasing lists of the same numbers the one begins like the other.
LEMMA ListBegins ==
  ASSUME NEW q \in Seq(Nat), NEW r \in Seq(Nat), Increasing(q), Increasing(r),
         ToSet(q) = ToSet(r)
  PROVE  Len(q) <= Len(r) /\ \A i \in 1 .. Len(q) : q[i] = r[i]
<1>1. PICK m \in Nat, n \in Nat : m = Len(q) /\ n = Len(r)
  BY LenProperties
<1>2. /\ \A x : x \in ToSet(q) <=> \E i \in 1 .. m : q[i] = x
      /\ \A x : x \in ToSet(q) <=> \E i \in 1 .. n : r[i] = x
  BY <1>1, ListElements
<1>3. /\ \A i \in 1 .. m : q[i] \in Nat
      /\ \A i \in 1 .. n : r[i] \in Nat
      /\ DOMAIN q = 1 .. m /\ DOMAIN r = 1 .. n
  BY <1>1, ListElements
<1>4. PICK Bad : Bad = {i \in 1 .. m : i > n \/ q[i] # r[i]}
  OBVIOUS
<1>5. ASSUME Bad # {} PROVE FALSE
  <2>1. PICK i \in Bad : \A k \in Bad : i <= k
    <3>1. Bad \in SUBSET Nat
      BY <1>4
    <3> QED
      BY <1>5, <3>1, LeastElement
  <2>2. i \in 1 .. m /\ i \in Nat /\ (i > n \/ q[i] # r[i])
    BY <1>4
  <2>3. \A k \in 1 .. m : k < i => k <= n /\ k \in 1 .. n /\ q[k] = r[k]
    BY <1>4, <2>1, <2>2
  <2>4. PICK k \in 1 .. n : r[k] = q[i]
    BY <1>2, <2>2
  <2>5. ~ (k < i)
    <3> SUFFICES ASSUME k < i PROVE FALSE
      OBVIOUS
    <3>1. k \in 1 .. m /\ q[k] = q[i]
      BY <2>2, <2>3, <2>4
    <3>2. q[k] < q[i]
      BY <1>3, <2>2, <3>1 DEF Increasing
    <3> QED
      BY <1>3, <2>2, <3>1, <3>2
  <2>6. i <= n /\ i \in 1 .. n /\ q[i] # r[i]
    BY <2>2, <2>4, <2>5
  <2>7. i < k /\ r[i] < q[i]
    <3>1. i < k
      BY <2>2, <2>4, <2>5, <2>6
    <3> QED
      BY <1>3, <2>4, <2>6, <3>1 DEF Increasing
  <2>8. PICK l \in 1 .. m : q[l] = r[i]
    BY <1>2, <2>6
  <2>9. CASE l < i
    <3>1. l \in 1 .. n /\ r[l] = r[i]
      BY <2>3, <2>8, <2>9
    <3>2. r[l] < r[i]
      BY <1>3, <2>6, <2>9, <3>1 DEF Increasing
    <3> QED
      BY <1>3, <2>6, <3>1, <3>2
  <2>10. CASE ~ (l < i)
    <3>1. i < l
      BY <2>2, <2>6, <2>8, <2>10
    <3>2. q[i] < q[l]
      BY <1>3, <2>2, <2>8, <3>1 DEF Increasing
    <3> QED
      BY <1>3, <2>2, <2>6, <2>7, <2>8, <3>2
  <2> QED
    BY <2>9, <2>10
<1>6. \A i \in 1 .. m : i <= n /\ q[i] = r[i]
  BY <1>1, <1>4, <1>5
<1>7. m <= n
  <2>1. m = 0 \/ m \in 1 .. m
    OBVIOUS
  <2> QED
    BY <1>6, <2>1
<1> QED
  BY <1>1, <1>6, <1>7

\* An increasing list is the list of its numbers.
LEMMA NumberedIs ==
  ASSUME NEW q \in Seq(Nat), Increasing(q)
  PROVE  /\ ByNumber(ToSet(q)) = q
         /\ ToSet(q) \in SUBSET Nat /\ IsFiniteSet(ToSet(q))
<1>1. PICK D : D = ToSet(q)
  OBVIOUS
<1>2. D \in SUBSET Nat /\ IsFiniteSet(D)
  <2>1. DOMAIN q = 1 .. Len(q) /\ Len(q) \in Nat
    BY LenProperties
  <2>2. IsFiniteSet(DOMAIN q)
    BY <2>1, FS_Interval
  <2>3. PICK T : T = {q[i] : i \in DOMAIN q}
    OBVIOUS
  <2>4. IsFiniteSet(T)
    BY <2>2, <2>3, ImageFinite
  <2> QED
    BY <1>1, <2>3, <2>4, ListElements DEF ToSet
<1>3. PICK r : r = ByNumber(D)
  OBVIOUS
<1>4. r \in Seq(Nat) /\ Increasing(r) /\ ToSet(r) = ToSet(q)
  BY <1>1, <1>2, <1>3, NumberedList
<1>5. /\ Len(q) <= Len(r) /\ \A i \in 1 .. Len(q) : q[i] = r[i]
      /\ Len(r) <= Len(q) /\ \A i \in 1 .. Len(r) : r[i] = q[i]
  BY <1>4, ListBegins
<1>6. Len(q) = Len(r) /\ Len(q) \in Nat
  BY <1>4, <1>5, LenProperties
<1>7. q = r
  BY <1>4, <1>5, <1>6, SeqEqual
<1> QED
  BY <1>1, <1>2, <1>3, <1>7

\* The list of no numbers is empty, and no other is.
LEMMA NumberedNone ==
  ASSUME NEW D \in SUBSET Nat, IsFiniteSet(D)
  PROVE  ByNumber(D) = <<>> <=> D = {}
<1>1. PICK r : r = ByNumber(D)
  OBVIOUS
<1>2. r \in Seq(Nat) /\ Increasing(r) /\ ToSet(r) = D
  BY <1>1, NumberedList
<1>3. ASSUME r = <<>> PROVE D = {}
  BY <1>2, <1>3, ListNone
<1>4. ASSUME D = {} PROVE r = <<>>
  <2>1. \A i \in 1 .. Len(r) : r[i] \in ToSet(r)
    BY <1>2, ListElements
  <2>2. Len(r) \in Nat /\ \A i \in 1 .. Len(r) : FALSE
    BY <1>2, <1>4, <2>1, LenProperties
  <2>3. Len(r) = 0
    BY <2>2
  <2> QED
    BY <1>2, <2>3, EmptySeq
<1> QED
  BY <1>1, <1>3, <1>4

\* The empty set is listed as the empty queue.
LEMMA NumberedEmpty == ByNumber({}) = <<>>
<1>1. {} \in SUBSET Nat /\ IsFiniteSet({})
  BY FS_EmptySet
<1> QED
  BY <1>1, NumberedNone

\* A number larger than all others is the last in the list.
LEMMA NumberedAppend ==
  ASSUME NEW D \in SUBSET Nat, IsFiniteSet(D), NEW e \in Nat, \A x \in D : x < e
  PROVE  ByNumber(D \cup {e}) = Append(ByNumber(D), e)
<1>1. PICK r : r = ByNumber(D)
  OBVIOUS
<1>2. r \in Seq(Nat) /\ Increasing(r) /\ ToSet(r) = D
  BY <1>1, NumberedList
<1>3. PICK a : a = Append(r, e)
  OBVIOUS
<1>4. a \in Seq(Nat) /\ Increasing(a) /\ ToSet(a) = D \cup {e}
  BY <1>2, <1>3, ListAppend
<1>5. ByNumber(ToSet(a)) = a
  BY <1>4, NumberedIs
<1> QED
  BY <1>1, <1>3, <1>4, <1>5

\* The least number is the first in the list.
LEMMA NumberedHead ==
  ASSUME NEW D \in SUBSET Nat, IsFiniteSet(D), NEW e \in D, \A x \in D : e <= x
  PROVE  /\ ByNumber(D) # <<>> /\ Head(ByNumber(D)) = e
         /\ Tail(ByNumber(D)) = ByNumber(D \ {e})
<1>1. PICK r, t : r = ByNumber(D) /\ t = Tail(r)
  OBVIOUS
<1>2. r \in Seq(Nat) /\ Increasing(r) /\ ToSet(r) = D
  BY <1>1, NumberedList
<1>3. r # <<>>
  BY <1>1, NumberedNone
<1>4. /\ Head(r) \in Nat /\ Head(r) \in D /\ \A x \in D : Head(r) <= x
      /\ t \in Seq(Nat) /\ Increasing(t) /\ ToSet(t) = D \ {Head(r)}
  BY <1>1, <1>2, <1>3, ListTail
<1>5. Head(r) = e
  <2>1. Head(r) <= e /\ e <= Head(r) /\ e \in Nat
    BY <1>4
  <2> QED
    BY <1>4, <2>1
<1>6. ByNumber(ToSet(t)) = t
  BY <1>4, NumberedIs
<1> QED
  BY <1>1, <1>3, <1>4, <1>5, <1>6

\* Without its smallest numbers the list is what is left behind them.
LEMMA NumberedRest ==
  ASSUME NEW D \in SUBSET Nat, IsFiniteSet(D), NEW T \in SUBSET D,
         \A x \in D \ T, y \in T : x < y
  PROVE  \E k \in 0 .. Len(ByNumber(D)) :
           /\ ByNumber(T) = SubSeq(ByNumber(D), k + 1, Len(ByNumber(D)))
           /\ T = D <=> k = 0
<1>1. PICK R : R = D \ T
  OBVIOUS
<1>2. /\ R \in SUBSET Nat /\ T \in SUBSET Nat /\ IsFiniteSet(R) /\ IsFiniteSet(T)
      /\ D = R \cup T
  BY <1>1, FS_Subset
<1>3. PICK r, t, q : r = ByNumber(R) /\ t = ByNumber(T) /\ q = r \o t
  OBVIOUS
<1>4. /\ r \in Seq(Nat) /\ Increasing(r) /\ ToSet(r) = R
      /\ t \in Seq(Nat) /\ Increasing(t) /\ ToSet(t) = T
  BY <1>2, <1>3, NumberedList
<1>5. q \in Seq(Nat) /\ Increasing(q)
  <2>1. r \o t \in Seq(Nat)
    BY <1>4, ConcatProperties
  <2>2. Increasing(r \o t)
    BY <1>1, <1>4, ListBoth
  <2> QED
    BY <1>3, <2>1, <2>2
<1>6. PICK m \in Nat, n \in Nat : m = Len(r) /\ n = Len(t)
  BY <1>4, LenProperties
<1>7. /\ Len(q) = m + n
      /\ \A i \in 1 .. m + n : q[i] = IF i <= m THEN r[i] ELSE t[i - m]
  BY <1>3, <1>4, <1>6, ConcatProperties
<1>8. ToSet(q) = D
  <2>1. /\ \A x : x \in R <=> \E i \in 1 .. m : r[i] = x
        /\ \A x : x \in T <=> \E i \in 1 .. n : t[i] = x
        /\ \A x : x \in ToSet(q) <=> \E i \in 1 .. m + n : q[i] = x
    <3>1. \A x : x \in ToSet(q) <=> \E i \in 1 .. Len(q) : q[i] = x
      BY <1>5, ListElements
    <3>2. \A x : x \in R <=> \E i \in 1 .. m : r[i] = x
      BY <1>4, <1>6, ListElements
    <3>3. \A x : x \in T <=> \E i \in 1 .. n : t[i] = x
      BY <1>4, <1>6, ListElements
    <3> QED
      BY <1>7, <3>1, <3>2, <3>3
  <2>2. \A x : x \in R => x \in ToSet(q)
    <3>1. \A i \in 1 .. m : i \in 1 .. m + n /\ q[i] = r[i]
      BY <1>7
    <3> QED
      BY <2>1, <3>1
  <2>3. \A x : x \in T => x \in ToSet(q)
    <3>1. \A i \in 1 .. n : m + i \in 1 .. m + n /\ q[m + i] = t[i]
      <4> SUFFICES ASSUME NEW i \in 1 .. n PROVE m + i \in 1 .. m + n /\ q[m + i] = t[i]
        OBVIOUS
      <4>1. m + i \in 1 .. m + n /\ ~ (m + i <= m) /\ m + i - m = i
        OBVIOUS
      <4> QED
        BY <1>7, <4>1
    <3> QED
      BY <2>1, <3>1
  <2>4. \A x : x \in ToSet(q) => x \in R \/ x \in T
    <3> SUFFICES ASSUME NEW i \in 1 .. m + n PROVE q[i] \in R \/ q[i] \in T
      BY <2>1
    <3>1. CASE i <= m
      BY <1>7, <2>1, <3>1
    <3>2. CASE ~ (i <= m)
      <4>1. i - m \in 1 .. n /\ q[i] = t[i - m]
        BY <1>7, <3>2
      <4> QED
        BY <2>1, <4>1
    <3> QED
      BY <3>1, <3>2
  <2> QED
    BY <1>2, <2>2, <2>3, <2>4
<1>9. ByNumber(D) = q
  BY <1>5, <1>8, NumberedIs
<1>10. SubSeq(q, m + 1, m + n) = t
  <2>1. PICK u : u = SubSeq(q, m + 1, m + n)
    OBVIOUS
  <2>2. \A i \in m + 1 .. m + n : q[i] \in Nat
    <3>1. \A i \in 1 .. m + n : q[i] \in Nat
      BY <1>5, <1>7, ListElements
    <3> QED
      BY <3>1
  <2>3. /\ u \in Seq(Nat) /\ Len(u) = n
        /\ \A i \in 1 .. n : u[i] = q[m + i]
    <3>1. /\ u \in Seq(Nat)
          /\ Len(u) = IF m + 1 <= m + n THEN m + n - (m + 1) + 1 ELSE 0
          /\ \A i \in 1 .. m + n - (m + 1) + 1 : u[i] = q[m + 1 + i - 1]
      BY <1>5, <1>7, <2>1, <2>2, SubSeqProperties
    <3>2. m + n - (m + 1) + 1 = n /\ (m + 1 <= m + n <=> n # 0)
      OBVIOUS
    <3>3. \A i \in 1 .. n : m + 1 + i - 1 = m + i
      OBVIOUS
    <3> QED
      BY <3>1, <3>2, <3>3
  <2>4. \A i \in 1 .. n : u[i] = t[i]
    <3> SUFFICES ASSUME NEW i \in 1 .. n PROVE u[i] = t[i]
      OBVIOUS
    <3>1. m + i \in 1 .. m + n /\ ~ (m + i <= m) /\ m + i - m = i
      OBVIOUS
    <3> QED
      BY <1>7, <2>3, <3>1
  <2> QED
    BY <1>4, <1>6, <2>1, <2>3, <2>4, SeqEqual
<1>11. T = D <=> m = 0
  <2>1. T = D <=> R = {}
    BY <1>1
  <2>2. r = <<>> <=> R = {}
    BY <1>2, <1>3, NumberedNone
  <2>3. r = <<>> <=> m = 0
    BY <1>4, <1>6, EmptySeq
  <2> QED
    BY <2>1, <2>2, <2>3
<1>12. m \in 0 .. Len(q)
  BY <1>7
<1> QED
  BY <1>3, <1>7, <1>9, <1>10, <1>11, <1>12

-----------------------------------------------------------------------------
(* The queues PointLog sees: what is stored in the segments, and what the   *)
(* drain has yet to read                                                    *)

\* Sets with the same elements are the same.
LEMMA SetsAlike ==
  ASSUME NEW F, NEW G, \A p : p \in F <=> p \in G
  PROVE  F = G
OBVIOUS

\* The point p is stored completely in record i of segment s of the log fs.
StoredAt(fs, s, i, p) ==
  i \in DOMAIN fs[s] /\ fs[s][i].state # "torn" /\ fs[s][i].point = p

\* The points stored in the segments S of the log fs, and those that a drain of
\* the segments d has yet to read from record k of the first on.
LogSet(fs, S) == UNION {StoredPoints(fs[s]) : s \in S}
FeedSet(fs, d, k) ==
  IF d = <<>> THEN {}
  ELSE {fs[Head(d)][i].point : i \in {j \in DOMAIN fs[Head(d)] :
                                         k <= j /\ fs[Head(d)][j].state # "torn"}}
       \cup LogSet(fs, ToSet(Tail(d)))

\* Which points these are.
LEMMA LogSetIs ==
  ASSUME NEW fs, NEW S, NEW p
  PROVE  p \in LogSet(fs, S) <=> \E s \in S : \E i : StoredAt(fs, s, i, p)
BY DEF LogSet, StoredPoints, StoredAt

LEMMA FeedSetIs ==
  ASSUME NEW fs, NEW d \in Seq(Nat), Increasing(d), NEW k, NEW p
  PROVE  p \in FeedSet(fs, d, k) <=>
           \E s \in ToSet(d) : \E i : StoredAt(fs, s, i, p) /\ (s = Head(d) => k <= i)
<1>1. CASE d = <<>>
  <2>1. ToSet(d) = {} /\ FeedSet(fs, d, k) = {}
    BY <1>1, ListNone DEF FeedSet
  <2> QED
    BY <2>1
<1>2. CASE d # <<>>
  <2>1. PICK h, R : h = Head(d) /\ R = ToSet(Tail(d))
    OBVIOUS
  <2>2. h \in ToSet(d) /\ R = ToSet(d) \ {h}
    BY <1>2, <2>1, ListTail
  <2>3. p \in FeedSet(fs, d, k) <=>
          (\E i : StoredAt(fs, h, i, p) /\ k <= i) \/ p \in LogSet(fs, R)
    BY <1>2, <2>1 DEF FeedSet, StoredAt
  <2>4. p \in LogSet(fs, R) <=> \E s \in R : \E i : StoredAt(fs, s, i, p)
    BY LogSetIs
  <2> QED
    BY <2>1, <2>2, <2>3, <2>4
<1> QED
  BY <1>1, <1>2

\* They are finitely many numbers.
LEMMA PointSets ==
  ASSUME NEW fs, NEW S, \A s \in S : fs[s] \in Seq(Records)
  PROVE  /\ LogSet(fs, S) \in SUBSET Nat /\ IsFiniteSet(LogSet(fs, S))
         /\ LogSet(fs, S) \in SUBSET (1 .. MaxPoints)
         /\ \A D \in SUBSET LogSet(fs, S) : D \in SUBSET Nat /\ IsFiniteSet(D)
<1>1. LogSet(fs, S) \in SUBSET (1 .. MaxPoints)
  BY StoredArePoints DEF LogSet
<1>2. IsFiniteSet(1 .. MaxPoints)
  <2>1. MaxPoints \in Int
    BY WALAssumption
  <2> QED
    BY <2>1, FS_Interval
<1>3. \A D \in SUBSET LogSet(fs, S) : D \in SUBSET (1 .. MaxPoints)
  BY <1>1
<1>4. ASSUME NEW D \in SUBSET (1 .. MaxPoints)
      PROVE  D \in SUBSET Nat /\ IsFiniteSet(D)
  <2>1. IsFiniteSet(D)
    BY <1>2, FS_Subset
  <2>2. 1 .. MaxPoints \subseteq Nat
    OBVIOUS
  <2> QED
    BY <2>1, <2>2
<1> QED
  BY <1>1, <1>3, <1>4

\* The queue of the log and that of its drain, before and after a step.
LEMMA Queues ==
  ASSUME Structure, Structure'
  PROVE  /\ LogPoints = ByNumber(LogSet(files, Listed))
         /\ LogPoints' = ByNumber(LogSet(files', Listed'))
         /\ UnreadPoints = ByNumber(FeedSet(files, drainSegs, pos))
         /\ UnreadPoints' = ByNumber(FeedSet(files', drainSegs', pos'))
         /\ HasData <=> segments # <<>>
         /\ HasData' <=> segments' # <<>>
         /\ HasData \in BOOLEAN /\ HasData' \in BOOLEAN
<1>1. /\ LogPoints = ByNumber(LogSet(files, Listed))
      /\ LogPoints' = ByNumber(LogSet(files', Listed'))
  BY DEF LogPoints, StoredIn, LogSet, Listed
<1>2. /\ UnreadPoints = ByNumber(FeedSet(files, drainSegs, pos))
      /\ UnreadPoints' = ByNumber(FeedSet(files', drainSegs', pos'))
  BY DEF UnreadPoints, UnreadStored, FeedSet, StoredIn, LogSet, Reading
<1>3. (HasData <=> segments # <<>>) /\ (HasData' <=> segments' # <<>>)
  BY DEF HasData, Structure, ActiveIsNewest
<1>4. HasData \in BOOLEAN /\ HasData' \in BOOLEAN
  BY DEF HasData
<1> QED
  BY <1>1, <1>2, <1>3, <1>4

\* The facts about the segments that the steps below rest on.
LEMMA QueueSets ==
  ASSUME Structure
  PROVE  /\ segments \in Seq(Nat) /\ drainSegs \in Seq(Nat)
         /\ Increasing(segments) /\ Increasing(drainSegs)
         /\ \A s \in Drained, t \in Listed : s < t
         /\ LogSet(files, Listed) \in SUBSET Nat /\ IsFiniteSet(LogSet(files, Listed))
         /\ FeedSet(files, drainSegs, pos) \in SUBSET Nat
         /\ IsFiniteSet(FeedSet(files, drainSegs, pos))
         /\ \A p : p \in LogSet(files, Listed) <=> \E s \in Listed : \E i : StoredAt(files, s, i, p)
         /\ \A p : p \in FeedSet(files, drainSegs, pos) <=>
              \E s \in Drained : \E i : StoredAt(files, s, i, p) /\ (s = Head(drainSegs) => pos <= i)
<1>1. /\ segments \in Seq(Nat) /\ drainSegs \in Seq(Nat)
      /\ Newest(drainSegs, segments, active)
      /\ Listed \subseteq DOMAIN files /\ Drained \subseteq DOMAIN files
      /\ \A s \in DOMAIN files : files[s] \in Seq(Records)
  BY Placement
<1>2. /\ Increasing(segments) /\ Increasing(drainSegs)
      /\ \A s \in Drained, t \in Listed : s < t
  BY <1>1 DEF Newest, Listed, Drained
<1>3. /\ \A s \in Listed : files[s] \in Seq(Records)
      /\ \A s \in Drained : files[s] \in Seq(Records)
  BY <1>1
<1>4. LogSet(files, Listed) \in SUBSET Nat /\ IsFiniteSet(LogSet(files, Listed))
  BY <1>3, PointSets
<1>5. \A p : p \in LogSet(files, Listed) <=> \E s \in Listed : \E i : StoredAt(files, s, i, p)
  BY LogSetIs
<1>6. \A p : p \in FeedSet(files, drainSegs, pos) <=>
        \E s \in Drained : \E i : StoredAt(files, s, i, p) /\ (s = Head(drainSegs) => pos <= i)
  BY <1>1, <1>2, FeedSetIs DEF Drained
<1>7. \A p : p \in LogSet(files, Drained) <=> \E s \in Drained : \E i : StoredAt(files, s, i, p)
  BY LogSetIs
<1>8. FeedSet(files, drainSegs, pos) \in SUBSET LogSet(files, Drained)
  BY <1>6, <1>7
<1>9. FeedSet(files, drainSegs, pos) \in SUBSET Nat /\ IsFiniteSet(FeedSet(files, drainSegs, pos))
  BY <1>3, <1>8, PointSets
<1> QED
  BY <1>1, <1>2, <1>4, <1>5, <1>6, <1>9

\* A step that leaves what the drain has yet to read.
LEMMA FeedKept ==
  ASSUME Structure, Structure', UNCHANGED <<drainSegs, pos>>,
         \A s \in Drained : \A i, p : StoredAt(files, s, i, p) <=> StoredAt(files', s, i, p)
  PROVE  UnreadPoints' = UnreadPoints
<1>1. drainSegs \in Seq(Nat) /\ Increasing(drainSegs)
  BY QueueSets
<1>2. PICK F, G : F = FeedSet(files, drainSegs, pos) /\ G = FeedSet(files', drainSegs, pos)
  OBVIOUS
<1>3. /\ \A p : p \in F <=>
          \E s \in Drained : \E i : StoredAt(files, s, i, p) /\ (s = Head(drainSegs) => pos <= i)
      /\ \A p : p \in G <=>
          \E s \in Drained : \E i : StoredAt(files', s, i, p) /\ (s = Head(drainSegs) => pos <= i)
  BY <1>1, <1>2, FeedSetIs DEF Drained
<1>4. \A p : p \in F <=> p \in G
  BY <1>3
<1>5. F = G
  BY ONLY <1>4, SetsAlike
<1> QED
  BY <1>2, <1>5, Queues

\* A step that leaves what is stored in the listed segments.
LEMMA LogKept ==
  ASSUME Structure, Structure',
         \A p : (\E s \in Listed : \E i : StoredAt(files, s, i, p))
                  <=> (\E s \in Listed' : \E i : StoredAt(files', s, i, p))
  PROVE  LogPoints' = LogPoints
<1>2. PICK F, G : F = LogSet(files, Listed) /\ G = LogSet(files', Listed')
  OBVIOUS
<1>3. /\ \A p : p \in F <=> \E s \in Listed : \E i : StoredAt(files, s, i, p)
      /\ \A p : p \in G <=> \E s \in Listed' : \E i : StoredAt(files', s, i, p)
  BY <1>2, LogSetIs
<1>4. \A p : p \in F <=> p \in G
  BY <1>3
<1>5. F = G
  BY ONLY <1>4, SetsAlike
<1> QED
  BY <1>2, <1>5, Queues

-----------------------------------------------------------------------------
(* The steps of the writer, as steps of PointLog *)

\* What the record of a stored point is, and its order among the others.
LEMMA StoredOrdered ==
  ASSUME Structure, Ordered
  PROVE  \A s, t \in DOMAIN files : \A i, j, x, y :
           StoredAt(files, s, i, x) /\ StoredAt(files, t, j, y) =>
             /\ x \in Nat /\ x <= Written /\ i \in Nat /\ i >= 1
             /\ s < t \/ (s = t /\ i < j) => x < y
BY PointsOnDisk DEF StoredAt, Ordered, DiskOrdered

\* Of two stored points the one in the earlier record comes first.
LEMMA StoredBefore ==
  ASSUME Structure, Ordered, NEW s \in DOMAIN files, NEW t \in DOMAIN files,
         NEW i, NEW j, NEW x, NEW y, StoredAt(files, s, i, x), StoredAt(files, t, j, y),
         s < t \/ (s = t /\ i < j)
  PROVE  x < y
BY DEF StoredAt, Ordered, DiskOrdered

\* The size limit drops the oldest points.
LEMMA PruneMaps ==
  ASSUME NEW lossy \in BOOLEAN, Structure, Structure', Ordered, PruneOldest,
         lossy \/ StoredPoints(files[Head(segments)]) = {}
  PROVE  \E k \in 0 .. Len(LogPoints) : Abstract(lossy)!LogRefuse(k)
<1>1. PICK o : o = Head(segments)
  OBVIOUS
<1>2. /\ segments # <<>> /\ segments' = Tail(segments)
      /\ files' = WithoutFile(o) \/ files' = files
      /\ UNCHANGED <<active, drainSegs, pos, draining, ch>>
  BY <1>1 DEF PruneOldest, OverLimit, drainer
<1>3. \A t \in DOMAIN files : t # o => t \in DOMAIN files' /\ files'[t] = files[t]
  BY <1>2, FileGone
<1>4. /\ segments \in Seq(Nat) /\ Increasing(segments)
      /\ \A s \in Drained, t \in Listed : s < t
      /\ Listed \subseteq DOMAIN files /\ Drained \subseteq DOMAIN files
      /\ DOMAIN files \in SUBSET Nat
  BY QueueSets, Placement
<1>5. o \in Listed /\ Listed' = Listed \ {o} /\ \A s \in Listed : o <= s
  BY <1>1, <1>2, <1>4, ListTail DEF Listed
<1>6. \A s \in Drained : s # o
  <2>1. \A s \in Drained : s < o /\ s \in Nat /\ o \in Nat
    BY <1>4, <1>5
  <2> QED
    BY <2>1
<1>7. UnreadPoints' = UnreadPoints
  <2>1. \A s \in Drained : \A i, p : StoredAt(files, s, i, p) <=> StoredAt(files', s, i, p)
    BY <1>3, <1>4, <1>6 DEF StoredAt
  <2> QED
    BY <1>2, <2>1, FeedKept
<1>8. PICK D, T : D = LogSet(files, Listed) /\ T = LogSet(files', Listed')
  OBVIOUS
<1>9. /\ D \in SUBSET Nat /\ IsFiniteSet(D)
      /\ \A p : p \in D <=> \E s \in Listed : \E i : StoredAt(files, s, i, p)
  BY <1>8, QueueSets
<1>10. \A p : p \in T <=> \E s \in Listed : s # o /\ \E i : StoredAt(files, s, i, p)
  <2>1. \A p : p \in T <=> \E s \in Listed' : \E i : StoredAt(files', s, i, p)
    BY <1>8, LogSetIs
  <2>2. \A s \in Listed' : \A i, p : StoredAt(files, s, i, p) <=> StoredAt(files', s, i, p)
    BY <1>3, <1>4, <1>5 DEF StoredAt
  <2> QED
    BY <1>5, <2>1, <2>2
<1>11. T \in SUBSET D
  BY <1>9, <1>10
<1>12. \A x \in D \ T, y \in T : x < y
  <2> SUFFICES ASSUME NEW x \in D \ T, NEW y \in T PROVE x < y
    OBVIOUS
  <2>1. PICK i : StoredAt(files, o, i, x)
    BY <1>9, <1>10
  <2>2. PICK t \in Listed : t # o /\ \E j : StoredAt(files, t, j, y)
    BY <1>10
  <2>4. PICK j : StoredAt(files, t, j, y)
    BY <2>2
  <2>3. o < t /\ o \in DOMAIN files /\ t \in DOMAIN files
    <3>1. o <= t /\ o \in DOMAIN files /\ t \in DOMAIN files
      BY <1>4, <1>5, <2>2
    <3>2. o \in Nat /\ t \in Nat
      BY <1>4, <3>1
    <3> QED
      BY <2>2, <3>1, <3>2
  <2> QED
    BY <2>1, <2>3, <2>4, StoredOrdered
<1>13. PICK k \in 0 .. Len(ByNumber(D)) :
         /\ ByNumber(T) = SubSeq(ByNumber(D), k + 1, Len(ByNumber(D)))
         /\ T = D <=> k = 0
  BY <1>9, <1>11, <1>12, NumberedRest
<1>14. k > 0 => lossy
  <2> SUFFICES ASSUME ~ lossy PROVE k = 0
    OBVIOUS
  <2>1. \A i, p : ~ StoredAt(files, o, i, p)
    BY <1>1 DEF StoredAt, StoredPoints
  <2>2. \A p : p \in D <=> p \in T
    BY <1>9, <1>10, <2>1
  <2>3. D = T
    BY ONLY <2>2, SetsAlike
  <2> QED
    BY <1>13, <2>3
<1>15. LogPoints = ByNumber(D) /\ LogPoints' = ByNumber(T) /\ HasData' \in BOOLEAN
  BY <1>8, Queues
<1>16. LogPoints' # <<>> => HasData'
  <2> SUFFICES ASSUME LogPoints' # <<>> PROVE segments' # <<>>
    BY Queues
  <2>1. T # {}
    BY <1>15, NumberedEmpty
  <2>2. Listed' # {}
    BY <1>5, <1>10, <2>1
  <2> QED
    BY <2>2, ListNone DEF Listed
<1> QED
  BY <1>2, <1>7, <1>13, <1>14, <1>15, <1>16 DEF Abstract!LogRefuse, Abstract!Without

\* The whole list, as the log's refusals see it.
LEMMA NothingDropped ==
  ASSUME Structure
  PROVE  /\ SubSeq(LogPoints, 0 + 1, Len(LogPoints)) = LogPoints
         /\ 0 \in 0 .. Len(LogPoints)
<1>1. PICK q : q = LogPoints
  OBVIOUS
<1>2. q \in Seq(Nat)
  <2>1. LogPoints = ByNumber(LogSet(files, Listed))
    BY DEF LogPoints, StoredIn, LogSet, Listed
  <2> QED
    BY <1>1, <2>1, QueueSets, NumberedList
<1>3. PICK n \in Nat : n = Len(q)
  BY <1>2, LenProperties
<1>4. SubSeq(q, 1, n) = q
  <2>1. PICK u : u = SubSeq(q, 1, n)
    OBVIOUS
  <2>2. \A i \in 1 .. n : q[i] \in Nat
    BY <1>2, <1>3, ListElements
  <2>3. /\ u \in Seq(Nat)
        /\ Len(u) = IF 1 <= n THEN n - 1 + 1 ELSE 0
        /\ \A i \in 1 .. n - 1 + 1 : u[i] = q[1 + i - 1]
    BY <2>1, <2>2, SubSeqProperties
  <2>4. Len(u) = n /\ \A i \in 1 .. n : u[i] = q[i]
    BY <2>3
  <2> QED
    BY <1>2, <1>3, <2>1, <2>3, <2>4, SeqEqual
<1> QED
  BY <1>1, <1>3, <1>4

\* A new segment stores nothing yet, but the log has data from now on.
LEMMA RotateMaps ==
  ASSUME NEW lossy \in BOOLEAN, Structure, Structure', Rotate
  PROVE  \E k \in 0 .. Len(LogPoints) : Abstract(lossy)!LogRefuse(k)
<1>1. PICK n : n = nextSeq
  OBVIOUS
<1>2. /\ files' = [s \in DOMAIN files \cup {n} |-> IF s = n THEN <<>> ELSE files[s]]
      /\ segments' = Append(segments, n)
      /\ UNCHANGED <<drainSegs, pos, draining, ch>>
  BY <1>1 DEF Rotate, drainer
<1>3. /\ segments \in Seq(Nat) /\ Increasing(segments)
      /\ Listed \subseteq DOMAIN files /\ Drained \subseteq DOMAIN files
      /\ DOMAIN files \in SUBSET Nat /\ \A s \in DOMAIN files : s < n
  BY <1>1, QueueSets, Placement
<1>4. n \in Nat
  BY <1>1 DEF Structure, WalTypes, TypeOK
<1>5. segments' # <<>> /\ Listed' = Listed \cup {n}
  <2>1. \A x \in Listed : x < n
    BY <1>3
  <2> QED
    BY <1>2, <1>3, <1>4, <2>1, ListAppend DEF Listed
<1>6. n \notin DOMAIN files
  BY <1>3, <1>4
<1>7. /\ \A s \in DOMAIN files : files'[s] = files[s]
      /\ files'[n] = <<>>
  BY <1>2, <1>6
<1>8. UnreadPoints' = UnreadPoints
  <2>1. \A s \in Drained : \A i, p : StoredAt(files, s, i, p) <=> StoredAt(files', s, i, p)
    BY <1>3, <1>7 DEF StoredAt
  <2> QED
    BY <1>2, <2>1, FeedKept
<1>9. LogPoints' = LogPoints
  <2>1. \A s \in Listed : \A i, p : StoredAt(files, s, i, p) <=> StoredAt(files', s, i, p)
    BY <1>3, <1>7 DEF StoredAt
  <2>2. \A i, p : ~ StoredAt(files', n, i, p)
    <3>1. DOMAIN files'[n] = {}
      BY <1>7
    <3> QED
      BY <3>1 DEF StoredAt
  <2>3. \A p : (\E s \in Listed : \E i : StoredAt(files, s, i, p))
                 <=> (\E s \in Listed' : \E i : StoredAt(files', s, i, p))
    BY <1>5, <2>1, <2>2
  <2> QED
    BY <2>3, LogKept
<1>10. HasData'
  BY <1>5, Queues
<1> QED
  BY <1>2, <1>8, <1>9, <1>10, NothingDropped DEF Abstract!LogRefuse, Abstract!Without

\* A record appended is behind all others; a torn one stores nothing.
LEMMA AppendMaps ==
  ASSUME NEW lossy \in BOOLEAN, Structure, Structure', Ordered, Appending, usable,
         NEW st \in {"whole", "torn"}, AppendRecord(st),
         UNCHANGED <<segments, active, drainSegs, pos, draining, ch>>
  PROVE  /\ st = "whole" => \E k \in 0 .. Len(LogPoints) : Abstract(lossy)!LogStore(next, k)
         /\ st = "torn" => UNCHANGED Abstract(lossy)!logVars
<1>1. PICK n \in Nat :
        /\ DOMAIN files' = DOMAIN files /\ active \in DOMAIN files
        /\ DOMAIN files[active] = 1 .. n /\ DOMAIN files'[active] = 1 .. n + 1
        /\ files'[active][n + 1] = Record(next, st)
        /\ \A s \in DOMAIN files : \A i \in DOMAIN files'[s] :
             \/ i \in DOMAIN files[s] /\ files'[s][i] = files[s][i]
             \/ s = active /\ i = n + 1
        /\ \A s \in DOMAIN files : \A i \in DOMAIN files[s] :
             i \in DOMAIN files'[s] /\ files'[s][i] = files[s][i]
  BY AppendedLast
<1>2. active # NoSeg
  BY Appended
<1>3. active \in Listed /\ active \notin Drained /\ Drained \subseteq DOMAIN files
      /\ Listed \subseteq DOMAIN files /\ Listed' = Listed
  BY <1>2, Placement DEF Listed
<1>4. next \in Nat /\ Written = next - 1
  <2>1. phase \in {"prune", "append"}
    BY DEF Appending
  <2> QED
    BY <2>1, PointsOnDisk DEF Written
<1>5. \A s \in DOMAIN files : \A i, p :
        StoredAt(files', s, i, p) <=>
          \/ StoredAt(files, s, i, p)
          \/ s = active /\ i = n + 1 /\ p = next /\ st # "torn"
  <2> SUFFICES ASSUME NEW s \in DOMAIN files, NEW i, NEW p
               PROVE  StoredAt(files', s, i, p) <=>
                        \/ StoredAt(files, s, i, p)
                        \/ s = active /\ i = n + 1 /\ p = next /\ st # "torn"
    OBVIOUS
  <2>1. CASE s = active /\ i = n + 1
    <3>1. i \in DOMAIN files'[s] /\ i \notin DOMAIN files[s]
      BY <1>1, <2>1
    <3>2. files'[s][i].point = next /\ files'[s][i].state = st
      BY <1>1, <2>1 DEF Record
    <3> QED
      BY <2>1, <3>1, <3>2 DEF StoredAt
  <2>2. CASE ~ (s = active /\ i = n + 1)
    BY <1>1, <2>2 DEF StoredAt
  <2> QED
    BY <2>1, <2>2
<1>6. UnreadPoints' = UnreadPoints
  <2>1. \A s \in Drained : \A i, p : StoredAt(files, s, i, p) <=> StoredAt(files', s, i, p)
    BY <1>3, <1>5
  <2> QED
    BY <2>1, FeedKept
<1>7. HasData /\ HasData'
  <2>1. segments # <<>>
    BY <1>2 DEF Structure, ActiveIsNewest
  <2> QED
    BY <2>1, Queues
<1>8. ASSUME st = "torn"
      PROVE  UNCHANGED Abstract(lossy)!logVars
  <2>1. \A p : (\E s \in Listed : \E i : StoredAt(files, s, i, p))
                 <=> (\E s \in Listed' : \E i : StoredAt(files', s, i, p))
    BY <1>3, <1>5, <1>8
  <2>2. LogPoints' = LogPoints
    BY <2>1, LogKept
  <2>3. HasData' = HasData
    BY <1>7, Queues
  <2> QED
    BY <1>6, <2>2, <2>3 DEF Abstract!logVars
<1>9. ASSUME st = "whole"
      PROVE  \E k \in 0 .. Len(LogPoints) : Abstract(lossy)!LogStore(next, k)
  <2>1. PICK D, T : D = LogSet(files, Listed) /\ T = LogSet(files', Listed')
    OBVIOUS
  <2>2. /\ D \in SUBSET Nat /\ IsFiniteSet(D)
        /\ \A p : p \in D <=> \E s \in Listed : \E i : StoredAt(files, s, i, p)
    BY <2>1, QueueSets
  <2>3. \A p : p \in T <=> \E s \in Listed : \E i : StoredAt(files', s, i, p)
    BY <1>3, <2>1, LogSetIs
  <2>4. \A p : p \in T <=> p \in D \cup {next}
    BY <1>3, <1>5, <1>9, <2>2, <2>3
  <2>5. T = D \cup {next}
    BY ONLY <2>4, SetsAlike
  <2>6. \A x \in D : x < next
    <3>1. \A x \in D : x \in Nat /\ x <= next - 1
      BY <1>3, <1>4, <2>2, StoredOrdered
    <3> QED
      BY <1>4, <3>1
  <2>7. ByNumber(D \cup {next}) = Append(ByNumber(D), next)
    BY <1>4, <2>2, <2>6, NumberedAppend
  <2>8. LogPoints' = Append(LogPoints, next)
    BY <2>1, <2>5, <2>7, Queues
  <2>9. HasData' = TRUE
    BY <1>7, Queues
  <2> QED
    BY <1>6, <2>8, <2>9, NothingDropped DEF Abstract!LogStore, Abstract!Without
<1> QED
  BY <1>8, <1>9

-----------------------------------------------------------------------------
(* The steps of the drain, as steps of PointLog *)

\* A drain takes everything stored in the listed segments.
LEMMA DrainMaps ==
  ASSUME NEW lossy \in BOOLEAN, Structure, Structure', Drain
  PROVE  Abstract(lossy)!LogDrain
<1>1. /\ ~ draining /\ ch = <<>>
      /\ drainSegs' = segments /\ pos' = 1 /\ draining' = TRUE /\ segments' = <<>>
      /\ UNCHANGED <<files, ch>>
  BY DEF Drain, Taken
<1>2. PICK D, F : D = LogSet(files, Listed) /\ F = FeedSet(files, segments, 1)
  OBVIOUS
<1>3. /\ segments \in Seq(Nat) /\ Increasing(segments)
      /\ Listed \subseteq DOMAIN files
      /\ \A p : p \in D <=> \E s \in Listed : \E i : StoredAt(files, s, i, p)
  BY <1>2, QueueSets, Placement
<1>4. \A p : p \in F <=>
        \E s \in Listed : \E i : StoredAt(files, s, i, p) /\ (s = Head(segments) => 1 <= i)
  BY <1>2, <1>3, FeedSetIs DEF Listed
<1>5. \A s \in Listed : \A i, p : StoredAt(files, s, i, p) => 1 <= i
  BY <1>3, PointsOnDisk DEF StoredAt
<1>6. \A p : p \in F <=> p \in D
  BY <1>3, <1>4, <1>5
<1>7. F = D
  BY ONLY <1>6, SetsAlike
<1>8. UnreadPoints' = LogPoints
  BY <1>1, <1>2, <1>7, Queues
<1>9. LogPoints' = <<>>
  <2>1. Listed' = {}
    BY <1>1, ListNone DEF Listed
  <2>2. LogSet(files', Listed') = {}
    BY <2>1 DEF LogSet
  <2> QED
    BY <2>2, NumberedEmpty, Queues
<1>10. HasData' = FALSE
  BY <1>1, Queues
<1> QED
  BY <1>1, <1>8, <1>9, <1>10 DEF Abstract!LogDrain

\* What the drain hands over is the first of what it has yet to read.
LEMMA PutMaps ==
  ASSUME NEW lossy \in BOOLEAN, Structure, Structure', Ordered, DrainPut
  PROVE  Abstract(lossy)!FeedPut
<1>1. PICK h, p : h = Head(drainSegs) /\ p = files[h][pos].point
  OBVIOUS
<1>2. /\ draining /\ drainSegs # <<>> /\ pos <= Len(files[h]) /\ Len(ch) < ChCap
      /\ files[h][pos].state = "whole"
      /\ ch' = Append(ch, p) /\ pos' = pos + 1
      /\ UNCHANGED <<files, segments, active, drainSegs, draining>>
  BY <1>1 DEF DrainPut, AtRecord, Draining, Reading, writer
<1>3. /\ h \in Drained /\ h \in DOMAIN files /\ files[h] \in Seq(Records)
      /\ Drained \subseteq DOMAIN files /\ DOMAIN files \in SUBSET Nat
  BY <1>1, <1>2, FirstDrained, Placement
<1>4. pos \in Nat /\ pos \in DOMAIN files[h]
  <2>1. pos \in Nat \ {0}
    BY DEF Structure, WalTypes, TypeOK
  <2> QED
    BY <1>2, <1>3, <2>1, LenProperties
<1>5. StoredAt(files, h, pos, p)
  BY <1>1, <1>2, <1>4 DEF StoredAt
<1>6. \A s \in Drained : s = h \/ h < s
  <2>1. \A s \in Drained : h <= s
    BY <1>1, <1>2, QueueSets, ListTail DEF Drained
  <2>2. \A s \in Drained : s \in Nat /\ h \in Nat
    BY <1>3
  <2> QED
    BY <2>1, <2>2
<1>7. PICK F, G : F = FeedSet(files, drainSegs, pos) /\ G = FeedSet(files, drainSegs, pos + 1)
  OBVIOUS
<1>8. /\ F \in SUBSET Nat /\ IsFiniteSet(F)
      /\ \A x : x \in F <=>
           \E s \in Drained : \E i : StoredAt(files, s, i, x) /\ (s = h => pos <= i)
      /\ \A x : x \in G <=>
           \E s \in Drained : \E i : StoredAt(files, s, i, x) /\ (s = h => pos + 1 <= i)
  BY <1>1, <1>7, QueueSets, FeedSetIs DEF Drained
<1>9. p \in F /\ p \in Nat
  <2>1. pos <= pos
    BY <1>4
  <2> QED
    BY <1>3, <1>5, <1>8, <2>1
<1>10. \A s \in Drained : \A i, x : StoredAt(files, s, i, x) /\ (s = h => pos + 1 <= i) => p < x
  <2> SUFFICES ASSUME NEW s \in Drained, NEW i, NEW x,
                      StoredAt(files, s, i, x), s = h => pos + 1 <= i
               PROVE  p < x
    OBVIOUS
  <2>1. i \in Nat
    BY <1>3, StoredOrdered
  <2>2. h < s \/ (h = s /\ pos < i)
    BY <1>4, <1>6, <2>1
  <2>3. h \in DOMAIN files /\ s \in DOMAIN files /\ StoredAt(files, s, i, x)
    BY <1>3
  <2> QED
    BY ONLY Structure, Ordered, <1>5, <2>2, <2>3, StoredBefore
<1>11. \A s \in Drained : \A i, x : StoredAt(files, s, i, x) /\ (s = h => pos <= i) =>
         (s = h => pos + 1 <= i) \/ x = p
  <2> SUFFICES ASSUME NEW s \in Drained, NEW i, NEW x,
                      StoredAt(files, s, i, x), s = h, pos <= i
               PROVE  pos + 1 <= i \/ x = p
    OBVIOUS
  <2>1. i \in Nat
    BY <1>3, StoredOrdered
  <2>2. pos + 1 <= i \/ i = pos
    BY <1>4, <2>1
  <2> QED
    BY <1>1, <2>2 DEF StoredAt
<1>12. \A x \in F : p <= x
  BY <1>8, <1>9, <1>10, <1>11
<1>13. \A x : x \in G <=> x \in F \ {p}
  <2>1. ASSUME NEW x \in G PROVE x \in F /\ x # p
    <3>1. PICK s \in Drained : \E i : StoredAt(files, s, i, x) /\ (s = h => pos + 1 <= i)
      BY <1>8
    <3>2. PICK i : StoredAt(files, s, i, x) /\ (s = h => pos + 1 <= i)
      BY <3>1
    <3>3. i \in Nat /\ x \in Nat
      BY <1>3, <3>2, StoredOrdered
    <3>4. s = h => pos <= i
      BY <1>4, <3>2, <3>3
    <3>5. p < x
      BY <1>10, <3>2
    <3> QED
      BY <1>8, <1>9, <3>2, <3>3, <3>4, <3>5
  <2>2. ASSUME NEW x \in F, x # p PROVE x \in G
    BY <1>8, <1>11, <2>2
  <2> QED
    BY <2>1, <2>2
<1>14. G = F \ {p}
  BY ONLY <1>13, SetsAlike
<1>15. /\ ByNumber(F) # <<>> /\ Head(ByNumber(F)) = p
       /\ Tail(ByNumber(F)) = ByNumber(G)
  BY <1>8, <1>9, <1>12, <1>14, NumberedHead
<1>16. UnreadPoints = ByNumber(F) /\ UnreadPoints' = ByNumber(G)
  BY <1>2, <1>7, Queues
<1>17. LogPoints' = LogPoints /\ HasData' = HasData
  <2>1. Listed' = Listed
    BY <1>2 DEF Listed
  <2> QED
    BY <1>2, <2>1, Queues
<1> QED
  BY <1>2, <1>15, <1>16, <1>17 DEF Abstract!FeedPut

\* The drain jumps over a record that holds its point.
JumpsStored == \E i \in DOMAIN Reading : pos <= i /\ i < pos' /\ Reading[i].state # "torn"

\* Records jumped over are the first of what the drain has yet to read.
LEMMA SkipMaps ==
  ASSUME NEW lossy \in BOOLEAN, Structure, Structure', Ordered, DrainSkipRotten \/ DrainSkipTorn,
         lossy \/ ~ JumpsStored
  PROVE  [Abstract(lossy)!LogNext]_(Abstract(lossy)!logVars)
<1>1. PICK h, to : h = Head(drainSegs) /\ to = pos'
  OBVIOUS
<1>2. /\ draining /\ drainSegs # <<>>
      /\ UNCHANGED <<files, segments, active, drainSegs, draining, ch>>
  BY DEF DrainSkipRotten, DrainSkipTorn, JumpTo, AtRecord, Draining, writer
<1>3. pos \in Nat /\ to \in Nat /\ pos < to
  <2>1. pos \in Nat /\ to \in Nat
    BY <1>1 DEF Structure, WalTypes, TypeOK
  <2>2. CASE DrainSkipRotten
    <3>1. PICK e \in (pos + 1) .. (Len(Reading) + 1) : JumpTo(e)
      BY <2>2 DEF DrainSkipRotten
    <3> QED
      BY <1>1, <2>1, <3>1 DEF JumpTo
  <2>3. CASE DrainSkipTorn
    <3>1. PICK e \in (pos + 2) .. (Len(Reading) + 2) : JumpTo(e)
      BY <2>3 DEF DrainSkipTorn
    <3> QED
      BY <1>1, <2>1, <3>1 DEF JumpTo
  <2> QED
    BY <2>1, <2>2, <2>3
<1>4. /\ h \in Drained /\ Drained \subseteq DOMAIN files /\ DOMAIN files \in SUBSET Nat
  BY <1>1, <1>2, FirstDrained, Placement
<1>5. \A s \in Drained : s = h \/ h < s
  <2>1. \A s \in Drained : h <= s
    BY <1>1, <1>2, QueueSets, ListTail DEF Drained
  <2>2. \A s \in Drained : s \in Nat /\ h \in Nat
    BY <1>4
  <2> QED
    BY <2>1, <2>2
<1>6. PICK F, G : F = FeedSet(files, drainSegs, pos) /\ G = FeedSet(files, drainSegs, to)
  OBVIOUS
<1>7. /\ F \in SUBSET Nat /\ IsFiniteSet(F)
      /\ \A x : x \in F <=>
           \E s \in Drained : \E i : StoredAt(files, s, i, x) /\ (s = h => pos <= i)
      /\ \A x : x \in G <=>
           \E s \in Drained : \E i : StoredAt(files, s, i, x) /\ (s = h => to <= i)
  BY <1>1, <1>6, QueueSets, FeedSetIs DEF Drained
<1>8. \A s \in Drained : \A i, x : StoredAt(files, s, i, x) => i \in Nat
  BY <1>4, StoredOrdered
<1>9. G \in SUBSET F
  <2> SUFFICES ASSUME NEW x \in G PROVE x \in F
    OBVIOUS
  <2>1. PICK s \in Drained : \E i : StoredAt(files, s, i, x) /\ (s = h => to <= i)
    BY <1>7
  <2>2. PICK i : StoredAt(files, s, i, x) /\ (s = h => to <= i)
    BY <2>1
  <2>3. s = h => pos <= i
    BY <1>3, <1>8, <2>2
  <2> QED
    BY <1>7, <2>2, <2>3
<1>10. \A x \in F \ G, y \in G : x < y
  <2> SUFFICES ASSUME NEW x \in F \ G, NEW y \in G PROVE x < y
    OBVIOUS
  <2>1. PICK s \in Drained : \E i : StoredAt(files, s, i, x) /\ (s = h => pos <= i)
    BY <1>7
  <2>2. PICK i : StoredAt(files, s, i, x)
    BY <2>1
  <2>3. s = h /\ ~ (to <= i)
    BY <1>7, <2>2
  <2>4. PICK t \in Drained : \E j : StoredAt(files, t, j, y) /\ (t = h => to <= j)
    BY <1>7
  <2>5. PICK j : StoredAt(files, t, j, y) /\ (t = h => to <= j)
    BY <2>4
  <2>6. i \in Nat /\ j \in Nat
    BY <1>8, <2>2, <2>5
  <2>7. s < t \/ (s = t /\ i < j)
    BY <1>3, <1>5, <2>3, <2>5, <2>6
  <2>8. s \in DOMAIN files /\ t \in DOMAIN files
    BY <1>4
  <2> QED
    BY ONLY Structure, Ordered, <2>2, <2>5, <2>7, <2>8, StoredBefore
<1>11. PICK k \in 0 .. Len(ByNumber(F)) :
         /\ ByNumber(G) = SubSeq(ByNumber(F), k + 1, Len(ByNumber(F)))
         /\ G = F <=> k = 0
  BY <1>7, <1>9, <1>10, NumberedRest
<1>12. UnreadPoints = ByNumber(F) /\ UnreadPoints' = ByNumber(G)
  BY <1>1, <1>2, <1>6, Queues
<1>13. LogPoints' = LogPoints /\ HasData' = HasData
  <2>1. Listed' = Listed
    BY <1>2 DEF Listed
  <2> QED
    BY <1>2, <2>1, Queues
<1>14. CASE k = 0
  <2>1. UnreadPoints' = UnreadPoints
    BY <1>11, <1>12, <1>14
  <2> QED
    BY <1>2, <1>13, <2>1 DEF Abstract!logVars
<1>15. CASE k # 0
  <2>0. lossy
    <3>1. PICK x : x \in F /\ x \notin G
      <4>1. ~ \A x : x \in F <=> x \in G
        BY <1>11, <1>15, SetsAlike
      <4> QED
        BY <1>9, <4>1
    <3>2. PICK s \in Drained : \E i : StoredAt(files, s, i, x) /\ (s = h => pos <= i)
      BY <1>7, <3>1
    <3>3. PICK i : StoredAt(files, s, i, x) /\ (s = h => pos <= i)
      BY <3>2
    <3>4. s = h /\ ~ (to <= i) /\ i \in Nat
      BY <1>7, <1>8, <3>1, <3>3
    <3>5. i < to /\ pos <= i
      BY <1>3, <3>3, <3>4
    <3>6. JumpsStored
      BY <1>1, <3>3, <3>4, <3>5 DEF JumpsStored, StoredAt, Reading
    <3> QED
      BY <3>6
  <2>1. k \in 1 .. Len(UnreadPoints)
    BY <1>12, <1>15
  <2>2. Abstract(lossy)!FeedSkip
    BY <1>2, <1>11, <1>12, <1>13, <2>0, <2>1 DEF Abstract!FeedSkip
  <2> QED
    BY <2>2 DEF Abstract!LogNext
<1> QED
  BY <1>14, <1>15

\* A segment that was read to its end holds nothing unread.
LEMMA NextSegmentMaps ==
  ASSUME NEW lossy \in BOOLEAN, Structure, Structure', DrainNextSegment
  PROVE  UNCHANGED Abstract(lossy)!logVars
<1>1. PICK h : h = Head(drainSegs)
  OBVIOUS
<1>2. /\ drainSegs # <<>> /\ pos > Len(files[h])
      /\ files' = WithoutFile(h) \/ files' = files
      /\ drainSegs' = Tail(drainSegs) /\ pos' = 1
      /\ UNCHANGED <<segments, active, draining, ch>>
  BY <1>1 DEF DrainNextSegment, Draining, Reading, writer
<1>3. \A t \in DOMAIN files : t # h => t \in DOMAIN files' /\ files'[t] = files[t]
  BY <1>2, FileGone
<1>4. /\ h \in Drained /\ h \notin Listed /\ files[h] \in Seq(Records)
      /\ Drained \subseteq DOMAIN files /\ Listed \subseteq DOMAIN files
  BY <1>1, <1>2, FirstDrained, Placement
<1>5. /\ drainSegs \in Seq(Nat) /\ Increasing(drainSegs)
      /\ drainSegs' \in Seq(Nat) /\ Increasing(drainSegs')
      /\ Drained' = Drained \ {h}
  BY <1>1, <1>2, QueueSets, ListTail DEF Drained
<1>6. PICK F, G : F = FeedSet(files, drainSegs, pos) /\ G = FeedSet(files', drainSegs', 1)
  OBVIOUS
<1>7. /\ \A p : p \in F <=>
           \E s \in Drained : \E i : StoredAt(files, s, i, p) /\ (s = h => pos <= i)
      /\ \A p : p \in G <=>
           \E s \in Drained' : \E i : StoredAt(files', s, i, p) /\ (s = Head(drainSegs') => 1 <= i)
  BY <1>1, <1>5, <1>6, FeedSetIs DEF Drained
<1>8. \A i, p : StoredAt(files, h, i, p) => ~ (pos <= i)
  <2>1. pos \in Nat
    BY DEF Structure, WalTypes, TypeOK
  <2>2. DOMAIN files[h] = 1 .. Len(files[h]) /\ Len(files[h]) \in Nat
    BY <1>4, LenProperties
  <2> QED
    BY <1>2, <2>1, <2>2 DEF StoredAt
<1>9. \A s \in Drained' : \A i, p : StoredAt(files', s, i, p) <=> StoredAt(files, s, i, p)
  BY <1>3, <1>4, <1>5 DEF StoredAt
<1>10. \A s \in Drained' : \A i, p : StoredAt(files, s, i, p) => 1 <= i
  BY <1>4, <1>5, PointsOnDisk DEF StoredAt
<1>11. \A p : p \in F <=> p \in G
  BY <1>5, <1>7, <1>8, <1>9, <1>10
<1>12. F = G
  BY ONLY <1>11, SetsAlike
<1>13. UnreadPoints' = UnreadPoints
  BY <1>2, <1>6, <1>12, Queues
<1>14. LogPoints' = LogPoints
  <2>1. Listed' = Listed
    BY <1>2 DEF Listed
  <2>2. \A s \in Listed : \A i, p : StoredAt(files, s, i, p) <=> StoredAt(files', s, i, p)
    BY <1>3, <1>4 DEF StoredAt
  <2> QED
    BY <2>1, <2>2, LogKept
<1>15. HasData' = HasData
  BY <1>2, Queues
<1> QED
  BY <1>2, <1>13, <1>14, <1>15 DEF Abstract!logVars

\* A drain ends when it has nothing left, or gives up what it has left.
LEMMA EndMaps ==
  ASSUME NEW lossy \in BOOLEAN, Structure, Structure', DrainDone \/ DrainAbort
  PROVE  Abstract(lossy)!FeedDone \/ Abstract(lossy)!FeedAbort
<1>1. /\ draining /\ draining' = FALSE /\ drainSegs' = <<>>
      /\ DrainDone => drainSegs = <<>>
      /\ UNCHANGED <<files, segments, active, ch>>
  BY DEF DrainDone, DrainAbort, Draining, writer
<1>2. UnreadPoints' = <<>> /\ (DrainDone => UnreadPoints = <<>>)
  BY <1>1, NumberedEmpty, Queues DEF FeedSet
<1>3. LogPoints' = LogPoints /\ HasData' = HasData
  <2>1. Listed' = Listed
    BY <1>1 DEF Listed
  <2> QED
    BY <1>1, <2>1, Queues
<1> QED
  BY <1>1, <1>2, <1>3 DEF Abstract!FeedDone, Abstract!FeedAbort

\* A step that leaves the records that are stored, and what is read of them.
LEMMA QuietMaps ==
  ASSUME NEW lossy \in BOOLEAN, Structure, Structure',
         UNCHANGED <<segments, drainSegs, pos, draining>>,
         files' = files \/ Rot
  PROVE  /\ UnreadPoints' = UnreadPoints /\ LogPoints' = LogPoints /\ HasData' = HasData
         /\ UNCHANGED ch => UNCHANGED Abstract(lossy)!logVars
<1>1. Drained \subseteq DOMAIN files /\ Listed \subseteq DOMAIN files /\ Listed' = Listed
  BY Placement DEF Listed
<1>2. \A s \in DOMAIN files : \A i, p : StoredAt(files, s, i, p) <=> StoredAt(files', s, i, p)
  <2>1. CASE files' = files
    BY <2>1
  <2>2. CASE Rot
    <3>1. \A s \in DOMAIN files :
            /\ DOMAIN files'[s] = DOMAIN files[s]
            /\ \A i \in DOMAIN files[s] :
                 /\ files'[s][i].point = files[s][i].point
                 /\ \/ files'[s][i].state = files[s][i].state
                    \/ files[s][i].state = "whole" /\ files'[s][i].state = "rotten"
      BY <2>2, Rotten
    <3> QED
      BY <3>1 DEF StoredAt
  <2> QED
    BY <2>1, <2>2
<1>3. UnreadPoints' = UnreadPoints
  BY <1>1, <1>2, FeedKept
<1>4. LogPoints' = LogPoints
  BY <1>1, <1>2, LogKept
<1>5. HasData' = HasData
  BY Queues
<1> QED
  BY <1>3, <1>4, <1>5 DEF Abstract!logVars

-----------------------------------------------------------------------------
(* The log implements PointLog *)

\* The steps that a queue which loses nothing would not take.
Loses ==
  \/ (DrainSkipRotten \/ DrainSkipTorn) /\ JumpsStored
  \/ PruneOldest /\ StoredPoints(files[Head(segments)]) # {}

\* An empty log is an empty queue.
LEMMA InitMaps ==
  ASSUME NEW lossy \in BOOLEAN, Init
  PROVE  Abstract(lossy)!LogInit
<1>1. segments = <<>> /\ drainSegs = <<>> /\ active = NoSeg /\ ch = <<>> /\ draining = FALSE
  BY DEF Init
<1>2. LogPoints = <<>>
  <2>1. StoredIn(ToSet(segments)) = {}
    BY <1>1, ListNone DEF StoredIn
  <2> QED
    BY <2>1, NumberedEmpty DEF LogPoints
<1>3. UnreadPoints = <<>>
  BY <1>1, NumberedEmpty DEF UnreadPoints, UnreadStored
<1>4. HasData = FALSE
  BY <1>1 DEF HasData
<1> QED
  BY <1>1, <1>2, <1>3, <1>4 DEF Abstract!LogInit

\* Every step of the log but a start is a step of the queue or leaves it alone.
LEMMA StepMaps ==
  ASSUME NEW lossy \in BOOLEAN, Structure, Structure', Ordered, [Next]_vars, starts' = starts,
         lossy \/ ~ Loses
  PROVE  [Abstract(lossy)!LogNext]_(Abstract(lossy)!logVars)
<1>1. ASSUME NEW k \in 0 .. Len(LogPoints),
             Abstract(lossy)!LogRefuse(k) \/ Abstract(lossy)!LogStore(next, k),
             next \in 1 .. MaxPoints
      PROVE  Abstract(lossy)!LogNext
  BY <1>1 DEF Abstract!LogNext, Abstract!LogWrite
<1>2. phase \in {"prune", "append"} => next \in 1 .. MaxPoints
  BY DEF Structure, WriterPlaced, WalTypes, TypeOK
<1>3. CASE PruneOldest
  <2>1. lossy \/ StoredPoints(files[Head(segments)]) = {}
    BY <1>3 DEF Loses
  <2>2. phase = "prune"
    BY <1>3 DEF PruneOldest
  <2> QED
    BY <1>1, <1>2, <1>3, <2>1, <2>2, PruneMaps
<1>4. CASE Rotate
  <2>1. phase = "prune"
    BY <1>4 DEF Rotate, Rotating
  <2> QED
    BY <1>1, <1>2, <1>4, <2>1, RotateMaps
<1>5. CASE AppendWhole
  <2>1. /\ Appending /\ usable /\ AppendRecord("whole") /\ phase \in {"prune", "append"}
        /\ UNCHANGED <<segments, active, drainSegs, pos, draining, ch>>
    BY <1>5 DEF AppendWhole, Appending, writer, drainer
  <2>2. \E k \in 0 .. Len(LogPoints) : Abstract(lossy)!LogStore(next, k)
    BY <2>1, AppendMaps
  <2> QED
    BY <1>1, <1>2, <2>1, <2>2
<1>6. CASE AppendFails /\ ~ UNCHANGED files
  <2>1. /\ Appending /\ usable /\ AppendRecord("torn")
        /\ UNCHANGED <<segments, active, drainSegs, pos, draining, ch>>
    BY <1>6 DEF AppendFails, Refuse, writer, drainer
  <2> QED
    BY <2>1, AppendMaps
<1>7. CASE Drain
  BY <1>7, DrainMaps DEF Abstract!LogNext
<1>8. CASE DrainPut
  BY <1>8, PutMaps DEF Abstract!LogNext
<1>9. CASE DrainSkipRotten \/ DrainSkipTorn
  <2>1. lossy \/ ~ JumpsStored
    BY <1>9 DEF Loses
  <2> QED
    BY <1>9, <2>1, SkipMaps
<1>10. CASE DrainNextSegment
  BY <1>10, NextSegmentMaps
<1>11. CASE DrainDone \/ DrainAbort
  BY <1>11, EndMaps DEF Abstract!LogNext
<1>12. CASE Receive
  <2>1. /\ ch # <<>> /\ ch' = Tail(ch)
        /\ UNCHANGED <<files, segments, drainSegs, pos, draining>>
    BY <1>12 DEF Receive, writer
  <2>2. UnreadPoints' = UnreadPoints /\ LogPoints' = LogPoints /\ HasData' = HasData
    BY <2>1, QuietMaps
  <2> QED
    BY <2>1, <2>2 DEF Abstract!ChReceive, Abstract!LogNext
<1>13. CASE Rot
  <2>1. UNCHANGED <<segments, drainSegs, pos, draining, ch>>
    BY <1>13 DEF Rot, writer, drainer
  <2> QED
    BY <1>13, <2>1, QuietMaps
<1>14. ASSUME \/ WriteBegin \/ RotateSyncFails \/ RotateCloseFails \/ RotateCreateFails
              \/ SyncOK \/ SyncFails \/ (AppendFails /\ UNCHANGED files)
              \/ Cancel \/ Close \/ Over \/ UNCHANGED vars
       PROVE  UNCHANGED <<files, segments, drainSegs, pos, draining, ch>>
  BY <1>14 DEF WriteBegin, RotateSyncFails, RotateCloseFails, RotateCreateFails, SyncOK, SyncFails,
         AppendFails, Refuse, Cancel, Close, Over, vars, writer, drainer
<1>15. CASE \/ WriteBegin \/ RotateSyncFails \/ RotateCloseFails \/ RotateCreateFails
            \/ SyncOK \/ SyncFails \/ (AppendFails /\ UNCHANGED files)
            \/ Cancel \/ Close \/ Over \/ UNCHANGED vars
  BY <1>14, <1>15, QuietMaps
<1>16. ~ Restart
  <2>1. starts \in Nat
    BY DEF Structure, WalTypes, TypeOK
  <2> QED
    BY <2>1 DEF Restart
<1> QED
  BY <1>3, <1>4, <1>5, <1>6, <1>7, <1>8, <1>9, <1>10, <1>11, <1>12, <1>13, <1>15, <1>16
     DEF Next, WriteStep, DrainStep

\* To the manager the log is a queue of points: it begins empty, and between two
\* starts of the process every step of it, of the writer, of the drain and of
\* the disk, is a step of PointLog or changes nothing PointLog sees.
THEOREM WalImplementsPointLog == Spec => ImplementsPointLog
<1> DEFINE IInv == Structure /\ Ordered
<1>1. Init => IInv /\ Abstract(TRUE)!LogInit
  BY StructureInit, OrderedInit, InitMaps
<1>2. IInv /\ [Next]_vars => IInv'
  BY StructureNext, OrderedNext
<1>3. IInv /\ IInv' /\ [Next]_vars =>
        [starts' = starts => Abstract(TRUE)!LogNext]_(Abstract(TRUE)!logVars)
  <2> SUFFICES ASSUME IInv, IInv', [Next]_vars, starts' = starts
               PROVE  [Abstract(TRUE)!LogNext]_(Abstract(TRUE)!logVars)
    OBVIOUS
  <2> QED
    BY StepMaps
<1> QED
  BY <1>1, <1>2, <1>3, PTL DEF Spec, ImplementsPointLog

-----------------------------------------------------------------------------
(* Healthy: a log whose records stay as they were written keeps what it stores *)

\* No write leaves half a record behind, no bit rots, and files that are deleted
\* are gone.  Opening, closing, creating and syncing a file may fail.
KeepsRecords == {"append", "remove", "rot"} \cap Faults = {}

\* No point that is on disk has been pruned, and every record is whole, but for
\* one that a kill tore: it is the last of its segment, which is written no more.
Healthy ==
  /\ \A s \in DOMAIN files : \A i \in DOMAIN files[s] :
       /\ files[s][i].point \notin pruned
       /\ \/ files[s][i].state = "whole"
          \/ files[s][i].state = "torn" /\ i = Len(files[s]) /\ s # active
  /\ \A p \in pruned : p <= Written

\* A step that stores nothing and prunes nothing, and goes on writing, if at all,
\* in the same segment or in a new one.
LEMMA HealthyKept ==
  ASSUME Structure, Structure', Healthy, Written <= Written', pruned' = pruned,
         \A s \in DOMAIN files' :
           \/ files'[s] = <<>>
           \/ s \in DOMAIN files /\ files'[s] = files[s] /\ (s = active' => s = active)
  PROVE  Healthy'
<1>1. /\ \A p \in pruned : p \in Nat
      /\ Written \in Int /\ Written' \in Int
  <2>1. \A p \in pruned : p \in 1 .. MaxPoints
    BY DEF Structure, WalTypes, TypeOK
  <2>2. next' \in Nat
    BY WALAssumption DEF Structure, WalTypes, TypeOK
  <2> QED
    BY <2>1, <2>2, PointsOnDisk DEF Written
<1>2. \A p \in pruned' : p <= Written'
  BY <1>1 DEF Healthy
<1>3. ASSUME NEW s \in DOMAIN files', NEW i \in DOMAIN files'[s]
      PROVE  /\ files'[s][i].point \notin pruned'
             /\ \/ files'[s][i].state = "whole"
                \/ files'[s][i].state = "torn" /\ i = Len(files'[s]) /\ s # active'
  <2>1. files'[s] # <<>>
    BY <1>3, ListNone
  <2>2. s \in DOMAIN files /\ files'[s] = files[s] /\ (s = active' => s = active)
    BY <2>1
  <2> QED
    BY <1>3, <2>2 DEF Healthy
<1> QED
  BY <1>2, <1>3 DEF Healthy

\* What is stored is whole and was never pruned.
LEMMA AppendHealthy ==
  ASSUME Structure, Structure', Healthy, AppendWhole
  PROVE  Healthy'
<1>1. /\ Appending /\ usable /\ AppendRecord("whole") /\ phase \in {"prune", "append"}
      /\ phase' = "sync" /\ next' = next /\ pruned' = pruned /\ active' = active
  BY DEF AppendWhole, Appending, history, writer
<1>2. PICK n \in Nat :
        /\ DOMAIN files' = DOMAIN files
        /\ files'[active][n + 1] = Record(next, "whole")
        /\ \A s \in DOMAIN files : \A i \in DOMAIN files'[s] :
             \/ i \in DOMAIN files[s] /\ files'[s][i] = files[s][i]
             \/ s = active /\ i = n + 1
  BY <1>1, AppendedLast
<1>3. \A s \in DOMAIN files : s # active => files'[s] = files[s]
  <2>1. active \in DOMAIN files
    BY <1>1, AppendedLast
  <2> QED
    BY <1>1, <2>1 DEF AppendRecord
<1>4. next \in Nat /\ Written = next - 1 /\ Written' = next
  BY <1>1, PointsOnDisk DEF Written
<1>5. \A p \in pruned : p \in Nat /\ p <= next - 1
  <2>1. \A p \in pruned : p \in 1 .. MaxPoints
    BY DEF Structure, WalTypes, TypeOK
  <2> QED
    BY <1>4, <2>1 DEF Healthy
<1>6. \A p \in pruned' : p <= Written' /\ p # next
  BY <1>1, <1>4, <1>5
<1>7. ASSUME NEW s \in DOMAIN files', NEW i \in DOMAIN files'[s]
      PROVE  /\ files'[s][i].point \notin pruned'
             /\ \/ files'[s][i].state = "whole"
                \/ files'[s][i].state = "torn" /\ i = Len(files'[s]) /\ s # active'
  <2>1. CASE s # active
    BY <1>1, <1>2, <1>3, <1>7, <2>1 DEF Healthy
  <2>2. CASE s = active /\ i \in DOMAIN files[s] /\ files'[s][i] = files[s][i]
    BY <1>1, <1>2, <2>2 DEF Healthy
  <2>3. CASE s = active /\ i = n + 1
    <3>1. files'[s][i].point = next /\ files'[s][i].state = "whole"
      BY <1>2, <2>3 DEF Record
    <3> QED
      BY <1>6, <3>1
  <2> QED
    BY <1>2, <2>1, <2>2, <2>3
<1> QED
  BY <1>6, <1>7 DEF Healthy

\* The points of a pruned segment are nowhere else.
LEMMA PruneHealthy ==
  ASSUME Structure, Structure', Ordered, Healthy, PruneOldest, KeepsRecords
  PROVE  Healthy'
<1>1. PICK o : o = Head(segments)
  OBVIOUS
<1>2. /\ segments # <<>> /\ files' = WithoutFile(o)
      /\ pruned' = pruned \cup StoredPoints(files[o])
      /\ UNCHANGED <<phase, next, active>>
  BY <1>1 DEF PruneOldest, OverLimit, KeepsRecords
<1>3. o \in DOMAIN files /\ DOMAIN files \in SUBSET Nat
  <2>1. o \in Listed /\ Listed \subseteq DOMAIN files
    BY <1>1, <1>2, QueueSets, Placement, ListTail DEF Listed
  <2> QED
    BY <2>1, Placement
<1>4. Written' = Written
  BY <1>2 DEF Written
<1>5. ASSUME NEW s \in DOMAIN files', NEW i \in DOMAIN files'[s]
      PROVE  /\ files'[s][i].point \notin pruned'
             /\ \/ files'[s][i].state = "whole"
                \/ files'[s][i].state = "torn" /\ i = Len(files'[s]) /\ s # active'
  <2>1. s \in DOMAIN files /\ s # o /\ i \in DOMAIN files[s] /\ files'[s] = files[s]
    BY <1>2 DEF WithoutFile
  <2>2. files[s][i].point \notin StoredPoints(files[o])
    <3> SUFFICES ASSUME NEW j \in DOMAIN files[o], files[o][j].point = files[s][i].point
                 PROVE  FALSE
      BY DEF StoredPoints
    <3>1. s < o \/ o < s
      BY <1>3, <2>1
    <3>2. files[s][i].point < files[o][j].point \/ files[o][j].point < files[s][i].point
      BY <1>3, <2>1, <3>1 DEF Ordered, DiskOrdered
    <3>3. files[s][i].point \in Nat /\ files[o][j].point \in Nat
      BY <1>3, <2>1, PointsOnDisk
    <3> QED
      BY <3>2, <3>3
  <2> QED
    BY <1>2, <2>1, <2>2 DEF Healthy
<1>6. \A p \in pruned' : p <= Written'
  <2>1. \A p \in StoredPoints(files[o]) : p <= Written
    BY <1>3 DEF StoredPoints, Ordered, DiskOrdered
  <2> QED
    BY <1>2, <1>4, <2>1 DEF Healthy
<1> QED
  BY <1>5, <1>6 DEF Healthy

\* A kill tears or takes at most the last record of the segment that was written.
LEMMA KilledLast ==
  ASSUME Structure, NEW kept \in AfterKill
  PROVE  \/ kept = files
         \/ /\ DOMAIN kept = DOMAIN files
            /\ \A s \in DOMAIN files : s # active => kept[s] = files[s]
            /\ \A i \in DOMAIN kept[active] :
                 \/ i \in DOMAIN files[active] /\ kept[active][i] = files[active][i]
                 \/ kept[active][i].state = "torn" /\ i = Len(kept[active])
<1> SUFFICES ASSUME kept # files
             PROVE  /\ DOMAIN kept = DOMAIN files
                    /\ \A s \in DOMAIN files : s # active => kept[s] = files[s]
                    /\ \A i \in DOMAIN kept[active] :
                         \/ i \in DOMAIN files[active] /\ kept[active][i] = files[active][i]
                         \/ kept[active][i].state = "torn" /\ i = Len(kept[active])
  OBVIOUS
<1>1. PICK q, f, r : q = files[active] /\ f = Front(q) /\ r = Record(next, "torn")
  OBVIOUS
<1>2. PICK g : g = Append(f, r)
  OBVIOUS
<1>3. PICK a : (a = f \/ a = g) /\ phase = "sync" /\ kept = [files EXCEPT ![active] = a]
  BY <1>1, <1>2 DEF AfterKill
<1>4. /\ active # NoSeg /\ next \in 1 .. MaxPoints /\ q # <<>>
  BY <1>1, <1>3, WALAssumption DEF Structure, WriterPlaced, WalTypes, TypeOK
<1>5. active \in DOMAIN files /\ q \in Seq(Records)
  BY <1>1, <1>4, Placement
<1>6. PICK n \in Nat : n = Len(q) /\ n # 0
  BY <1>4, <1>5, EmptySeq, LenProperties
<1>7. f \in Seq(Records) /\ Len(f) = n - 1 /\ \A i \in 1 .. n - 1 : f[i] = q[i]
  BY <1>1, <1>5, <1>6, FrontIs
<1>8. r \in Records /\ r.state = "torn"
  BY <1>1, <1>4 DEF Record, Records
<1>9. /\ g \in Seq(Records) /\ Len(g) = n /\ g[n] = r
      /\ \A i \in 1 .. n - 1 : g[i] = f[i]
  <2>1. /\ g \in Seq(Records) /\ Len(g) = Len(f) + 1 /\ g[Len(f) + 1] = r
        /\ \A i \in 1 .. Len(f) : g[i] = f[i]
    BY ONLY <1>2, <1>7, <1>8, AppendProperties
  <2>2. n - 1 + 1 = n
    BY <1>6
  <2> QED
    BY <1>7, <2>1, <2>2
<1>10. DOMAIN f = 1 .. n - 1 /\ DOMAIN g = 1 .. n /\ DOMAIN q = 1 .. n
  BY <1>5, <1>6, <1>7, <1>9, LenProperties
<1>11. ASSUME NEW i \in DOMAIN a
       PROVE  \/ i \in DOMAIN q /\ a[i] = q[i]
              \/ a[i].state = "torn" /\ i = Len(a)
  <2>1. CASE i \in 1 .. n - 1
    <3>1. i \in 1 .. n
      BY <1>6, <2>1
    <3> QED
      BY <1>3, <1>7, <1>9, <1>10, <2>1, <3>1
  <2>2. CASE i \notin 1 .. n - 1
    <3>1. a = g /\ i \in 1 .. n
      BY <1>3, <1>10, <2>2
    <3>2. i = n
      BY <1>6, <2>2, <3>1
    <3> QED
      BY <1>8, <1>9, <3>1, <3>2
  <2> QED
    BY <2>1, <2>2
<1>12. /\ DOMAIN kept = DOMAIN files /\ kept[active] = a
       /\ \A s \in DOMAIN files : s # active => kept[s] = files[s]
  BY <1>3, <1>5
<1> QED
  BY <1>1, <1>11, <1>12

\* The segment a kill tore is not written by the next run.
LEMMA RestartHealthy ==
  ASSUME Structure, Structure', Healthy, Written <= Written', Restart
  PROVE  Healthy'
<1>1. PICK kept \in AfterKill : NewWAL(kept)
  BY DEF Restart
<1>2. files' = kept /\ active' = NoSeg /\ pruned' = pruned
  BY <1>1 DEF NewWAL, Restart, history
<1>3. DOMAIN files' = DOMAIN files /\ \A s \in DOMAIN files' : s # active'
  <2>1. DOMAIN files' = DOMAIN files
    BY <1>2, KeptFiles
  <2>2. \A s \in DOMAIN files : s \in Nat
    BY PointsOnDisk
  <2> QED
    BY <1>2, <2>1, <2>2 DEF NoSeg
<1>4. CASE kept = files
  BY <1>2, <1>3, <1>4, HealthyKept
<1>5. CASE kept # files
  <2>1. /\ \A s \in DOMAIN files : s # active => files'[s] = files[s]
        /\ \A i \in DOMAIN files'[active] :
             \/ i \in DOMAIN files[active] /\ files'[active][i] = files[active][i]
             \/ files'[active][i].state = "torn" /\ i = Len(files'[active])
    BY <1>2, <1>5, KilledLast
  <2>2. \A s \in DOMAIN files : \A i \in DOMAIN files'[s] :
          i \in DOMAIN files[s] /\ files'[s][i].point = files[s][i].point
    BY <1>2, KeptFiles
  <2>3. ASSUME NEW s \in DOMAIN files', NEW i \in DOMAIN files'[s]
        PROVE  /\ files'[s][i].point \notin pruned'
               /\ \/ files'[s][i].state = "whole"
                  \/ files'[s][i].state = "torn" /\ i = Len(files'[s]) /\ s # active'
    <3>1. files'[s][i].point \notin pruned'
      BY <1>2, <1>3, <2>2, <2>3 DEF Healthy
    <3>2. CASE s # active
      BY <1>3, <2>1, <2>3, <3>1, <3>2 DEF Healthy
    <3>3. CASE s = active
      BY <1>3, <2>1, <2>3, <3>1, <3>3 DEF Healthy
    <3> QED
      BY <3>2, <3>3
  <2>4. \A p \in pruned' : p <= Written'
    <3>1. \A p \in pruned : p \in 1 .. MaxPoints
      BY DEF Structure, WalTypes, TypeOK
    <3>2. next' \in Nat
      BY WALAssumption DEF Structure, WalTypes, TypeOK
    <3>3. Written \in Int /\ Written' \in Int
      BY <3>2, PointsOnDisk DEF Written
    <3> QED
      BY <1>2, <3>1, <3>3 DEF Healthy
  <2> QED
    BY <2>3, <2>4 DEF Healthy
<1> QED
  BY <1>4, <1>5

\* Before the first step there are no records.
LEMMA HealthyInit == Init => Healthy
BY DEF Init, Healthy

\* The log stays healthy, through any number of starts.
LEMMA HealthyNext ==
  ASSUME KeepsRecords
  PROVE  Structure /\ Structure' /\ Ordered /\ Healthy /\ [Next]_vars => Healthy'
<1> SUFFICES ASSUME Structure, Structure', Ordered, Healthy, [Next]_vars PROVE Healthy'
  OBVIOUS
<1>0. Written <= Written'
  BY WrittenGrows
<1>1. ASSUME UNCHANGED <<files, pruned>>, active' = active \/ active' = NoSeg PROVE Healthy'
  <2>1. \A s \in DOMAIN files' : s \in DOMAIN files /\ files'[s] = files[s] /\ s # NoSeg
    BY <1>1, PointsOnDisk DEF NoSeg
  <2> QED
    BY <1>0, <1>1, <2>1, HealthyKept
<1>2. CASE PruneOldest
  BY <1>2, PruneHealthy
<1>3. CASE AppendWhole
  BY <1>3, AppendHealthy
<1>4. CASE Rotate
  <2>1. /\ files' = [s \in DOMAIN files \cup {nextSeq} |-> IF s = nextSeq THEN <<>> ELSE files[s]]
        /\ pruned' = pruned /\ active' = nextSeq
    BY <1>4 DEF Rotate, history
  <2>2. ASSUME NEW s \in DOMAIN files', files'[s] # <<>>
        PROVE  s \in DOMAIN files /\ files'[s] = files[s] /\ s # active'
    <3>1. s # nextSeq
      BY <2>1, <2>2
    <3> QED
      BY <2>1, <2>2, <3>1
  <2> QED
    BY <1>0, <2>1, <2>2, HealthyKept
<1>5. CASE DrainNextSegment
  <2>1. PICK h : files' = WithoutFile(h)
    BY <1>5 DEF DrainNextSegment, KeepsRecords
  <2>2. pruned' = pruned /\ active' = active
    BY <1>5 DEF DrainNextSegment, history, writer
  <2>3. \A s \in DOMAIN files' : s \in DOMAIN files /\ files'[s] = files[s]
    BY <2>1, FileGone
  <2> QED
    BY <1>0, <2>2, <2>3, HealthyKept
<1>6. ASSUME \/ WriteBegin \/ RotateSyncFails \/ RotateCloseFails \/ RotateCreateFails
             \/ SyncOK \/ SyncFails \/ AppendFails
             \/ Drain \/ DrainPut \/ DrainSkipRotten \/ DrainSkipTorn \/ DrainDone \/ DrainAbort
             \/ Receive \/ Cancel \/ Close \/ Over \/ UNCHANGED vars
      PROVE  UNCHANGED <<files, pruned>> /\ (active' = active \/ active' = NoSeg)
  BY <1>6 DEF WriteBegin, RotateSyncFails, RotateCloseFails, RotateCreateFails, SyncOK, SyncFails,
         AppendFails, Refuse, Drain, DrainPut, DrainSkipRotten, DrainSkipTorn, JumpTo, DrainDone,
         DrainAbort, Receive, Cancel, Close, Over, vars, history, writer, KeepsRecords
<1>7. CASE Restart
  BY <1>0, <1>7, RestartHealthy
<1>8. ~ Rot
  BY DEF Rot, KeepsRecords
<1> QED
  BY <1>1, <1>2, <1>3, <1>4, <1>5, <1>6, <1>7, <1>8 DEF Next, WriteStep, DrainStep

\* A drain jumps over nothing but a torn record at the end of a segment, and a
\* step that prunes nothing new took a segment that stored nothing.
LEMMA HealthyLosesNone ==
  ASSUME Structure, Healthy, pruned' = pruned
  PROVE  ~ Loses
<1>1. ASSUME DrainSkipRotten \/ DrainSkipTorn, JumpsStored PROVE FALSE
  <2>1. PICK st \in {"rotten", "torn"} : AtRecord(st)
    BY <1>1 DEF DrainSkipRotten, DrainSkipTorn
  <2>2. drainSegs # <<>> /\ pos <= Len(Reading) /\ Reading[pos].state = st
    BY <2>1 DEF AtRecord, Draining
  <2>3. PICK h : h = Head(drainSegs)
    OBVIOUS
  <2>4. h \in DOMAIN files /\ files[h] \in Seq(Records) /\ files[h] = Reading
    BY <2>2, <2>3, FirstDrained DEF Reading
  <2>5. DOMAIN files[h] = 1 .. Len(files[h]) /\ Len(files[h]) \in Nat /\ pos \in Nat \ {0}
    BY <2>4, LenProperties DEF Structure, WalTypes, TypeOK
  <2>6. pos \in DOMAIN files[h]
    BY <2>2, <2>4, <2>5
  <2>7. pos = Len(files[h]) /\ files[h][pos].state = "torn"
    BY <2>2, <2>4, <2>6 DEF Healthy
  <2>8. PICK i \in DOMAIN files[h] : pos <= i /\ files[h][i].state # "torn"
    BY <1>1, <2>4 DEF JumpsStored
  <2>9. i = pos
    BY <2>5, <2>7, <2>8
  <2> QED
    BY <2>7, <2>8, <2>9
<1>2. ASSUME PruneOldest PROVE StoredPoints(files[Head(segments)]) = {}
  <2>1. PICK o : o = Head(segments)
    OBVIOUS
  <2>2. segments # <<>> /\ pruned' = pruned \cup StoredPoints(files[o])
    BY <1>2, <2>1 DEF PruneOldest, OverLimit
  <2>3. o \in DOMAIN files
    <3>1. o \in Listed
      BY <2>1, <2>2, QueueSets, ListTail DEF Listed
    <3> QED
      BY <3>1, Placement
  <2>4. \A p \in StoredPoints(files[o]) : p \notin pruned
    BY <2>3 DEF StoredPoints, Healthy
  <2> QED
    BY <2>1, <2>2, <2>4
<1> QED
  BY <1>1, <1>2 DEF Loses

\* Where records stay as they were written, the queue loses nothing but what the
\* size limit deletes: a step that prunes nothing new is one of the lossless
\* PointLog, in every run of the process, whatever record a kill tore before it,
\* and whichever files cannot be opened, synced, closed or created.
THEOREM WalLosesOnlyPruned ==
  ASSUME KeepsRecords
  PROVE  Spec => LosesOnlyPruned
<1> DEFINE IInv == Structure /\ Ordered /\ Healthy
<1>1. Init => IInv
  BY StructureInit, OrderedInit, HealthyInit
<1>2. IInv /\ [Next]_vars => IInv'
  BY StructureNext, OrderedNext, HealthyNext
<1>3. IInv /\ IInv' /\ [Next]_vars =>
        [starts' = starts /\ pruned' = pruned => Abstract(FALSE)!LogNext]_(Abstract(FALSE)!logVars)
  <2> SUFFICES ASSUME IInv, IInv', [Next]_vars, starts' = starts, pruned' = pruned
               PROVE  [Abstract(FALSE)!LogNext]_(Abstract(FALSE)!logVars)
    OBVIOUS
  <2> QED
    BY StepMaps, HealthyLosesNone
<1> QED
  BY <1>1, <1>2, <1>3, PTL DEF Spec, LosesOnlyPruned
=============================================================================
