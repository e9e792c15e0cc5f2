------------------------------ MODULE CloudProofs ------------------------------
(***************************************************************************)
(* What the cloud client keeps true for every number of overlapping Sends,  *)
(* every number of samples, every batch size and every buffer size.         *)
(*                                                                         *)
(* The argument is about owners: a call owns samples only while it is        *)
(* between its Snapshot and its end (OwnersBusy), and a call that the        *)
(* platform is answering has had its samples stored (AnsweringStored).       *)
(* Close starts when no other call owns anything, and from then on only its  *)
(* own Send can put something back (CloserLast).                            *)
(***************************************************************************)
EXTENDS CloudClient, SequenceTheorems, TLAPS

\* A call that is not under way owns no sample.
OwnersBusy ==
  \A c \in Calls : call[c] \in {"idle", "done", "failed"} => pending[c] = <<>>

\* What the platform is about to answer for, it has stored.
AnsweringStored ==
  \A c \in Calls : call[c] = "answering" => ToSet(pending[c]) \subseteq Stored

\* Close sends last, and if its Send does not fail the buffer stays empty.
CloserLast ==
  /\ closing \in {"no", "waiting"} => call[Closer] = "idle"
  /\ closing \in {"sending", "closed"} =>
       /\ AllDone
       /\ call[Closer] # "idle"
       /\ call[Closer] # "failed" => buffer = <<>>
  /\ closing = "closed" => call[Closer] \in {"done", "failed"}

\* Every sample made is somewhere.
Accounted ==
  \A p \in 1 .. made :
    \/ p \in ToSet(buffer)
    \/ \E c \in Calls : p \in ToSet(pending[c])
    \/ p \in Stored \cup rejected \cup overflown

CloudInv ==
  /\ TypeOK
  /\ OwnersBusy
  /\ AnsweringStored
  /\ CloserLast
  /\ SingleOwner
  /\ Accounted

-----------------------------------------------------------------------------
(* The elements of a sequence *)

\* The elements of a sequence are what its places hold.
LEMMA Elements ==
  ASSUME NEW S, NEW s \in Seq(S)
  PROVE  /\ ToSet(s) \subseteq S
         /\ \A x : x \in ToSet(s) <=> \E i \in 1 .. Len(s) : s[i] = x
         /\ IsInjective(s) <=> \A i, j \in 1 .. Len(s) : s[i] = s[j] => i = j
<1>1. DOMAIN s = 1 .. Len(s) /\ Len(s) \in Nat
  BY LenProperties
<1>2. \A i \in 1 .. Len(s) : s[i] \in S
  BY ElementOfSeq
<1> QED
  BY <1>1, <1>2 DEF ToSet, IsInjective

\* The empty sequence has no elements.
LEMMA NoElements == ToSet(<<>>) = {} /\ IsInjective(<<>>)
BY DEF ToSet, IsInjective

\* One sequence behind another holds what both hold, and holds nothing twice if
\* neither does and they have nothing in common.
LEMMA ElementsOfBoth ==
  ASSUME NEW S, NEW s \in Seq(S), NEW t \in Seq(S)
  PROVE  /\ s \o t \in Seq(S)
         /\ ToSet(s \o t) = ToSet(s) \cup ToSet(t)
         /\ IsInjective(s) /\ IsInjective(t) /\ ToSet(s) \cap ToSet(t) = {}
              => IsInjective(s \o t)
<1>0. PICK u : u = s \o t
  OBVIOUS
<1>1. /\ u \in Seq(S) /\ Len(u) = Len(s) + Len(t)
      /\ \A i \in 1 .. Len(s) + Len(t) : u[i] = IF i <= Len(s) THEN s[i] ELSE t[i - Len(s)]
  BY <1>0, ConcatProperties
<1>2. Len(s) \in Nat /\ Len(t) \in Nat
  BY LenProperties
<1>3. ASSUME NEW i \in 1 .. Len(u)
      PROVE  \/ i \in 1 .. Len(s) /\ u[i] = s[i]
             \/ i - Len(s) \in 1 .. Len(t) /\ u[i] = t[i - Len(s)] /\ ~ i <= Len(s)
  BY <1>1, <1>2
<1>4. ToSet(u) \subseteq ToSet(s) \cup ToSet(t)
  <2>1. ASSUME NEW i \in 1 .. Len(u)
        PROVE  u[i] \in ToSet(s) \cup ToSet(t)
    BY <1>3, Elements
  <2> QED
    BY <1>1, <2>1, Elements
<1>5. ToSet(s) \subseteq ToSet(u)
  <2>1. ASSUME NEW i \in 1 .. Len(s)
        PROVE  s[i] \in ToSet(u)
    <3>1. i \in 1 .. Len(u) /\ u[i] = s[i]
      BY <1>1, <1>2
    <3> QED
      BY <1>1, <3>1, Elements
  <2> QED
    BY <2>1, Elements
<1>6. ToSet(t) \subseteq ToSet(u)
  <2>1. ASSUME NEW i \in 1 .. Len(t)
        PROVE  t[i] \in ToSet(u)
    <3>1. PICK j : j = i + Len(s)
      OBVIOUS
    <3>2. j \in 1 .. Len(u) /\ ~ j <= Len(s) /\ j - Len(s) = i
      BY <1>1, <1>2, <3>1
    <3>3. u[j] = t[i]
      BY <1>1, <3>2
    <3> QED
      BY <1>1, <3>2, <3>3, Elements
  <2> QED
    BY <2>1, Elements
<1>7. ASSUME IsInjective(s), IsInjective(t), ToSet(s) \cap ToSet(t) = {},
             NEW i \in 1 .. Len(u), NEW j \in 1 .. Len(u), u[i] = u[j]
      PROVE  i = j
  <2>1. CASE i <= Len(s) /\ j <= Len(s)
    BY <1>3, <1>7, <2>1, Elements
  <2>2. CASE ~ i <= Len(s) /\ ~ j <= Len(s)
    <3>1. i - Len(s) \in 1 .. Len(t) /\ j - Len(s) \in 1 .. Len(t)
          /\ t[i - Len(s)] = t[j - Len(s)]
      BY <1>3, <1>7, <2>2
    <3>2. i - Len(s) = j - Len(s)
      BY <1>7, <3>1, Elements
    <3> QED
      BY <1>2, <3>2
  <2>3. CASE i <= Len(s) /\ ~ j <= Len(s)
    <3>1. i \in 1 .. Len(s) /\ j - Len(s) \in 1 .. Len(t) /\ s[i] = t[j - Len(s)]
      BY <1>3, <1>7, <2>3
    <3>2. s[i] \in ToSet(s) /\ t[j - Len(s)] \in ToSet(t)
      BY <3>1, Elements
    <3> QED
      BY <1>7, <3>1, <3>2
  <2>4. CASE ~ i <= Len(s) /\ j <= Len(s)
    <3>1. j \in 1 .. Len(s) /\ i - Len(s) \in 1 .. Len(t) /\ s[j] = t[i - Len(s)]
      BY <1>3, <1>7, <2>4
    <3>2. s[j] \in ToSet(s) /\ t[i - Len(s)] \in ToSet(t)
      BY <3>1, Elements
    <3> QED
      BY <1>7, <3>1, <3>2
  <2> QED
    BY <2>1, <2>2, <2>3, <2>4
<1>8. IsInjective(s) /\ IsInjective(t) /\ ToSet(s) \cap ToSet(t) = {} => IsInjective(u)
  BY <1>1, <1>7, Elements
<1> QED
  BY <1>0, <1>1, <1>4, <1>5, <1>6, <1>8

\* A sequence cut in two: the parts hold what it held, and what held nothing
\* twice is cut into parts that hold nothing twice and have nothing in common.
LEMMA ElementsOfParts ==
  ASSUME NEW S, NEW s \in Seq(S), NEW d \in 0 .. Len(s)
  PROVE  LET gone == SubSeq(s, 1, d)
             kept == SubSeq(s, d + 1, Len(s))
         IN  /\ gone \in Seq(S) /\ kept \in Seq(S) /\ Len(kept) = Len(s) - d
             /\ ToSet(s) = ToSet(gone) \cup ToSet(kept)
             /\ IsInjective(s) => IsInjective(kept) /\ ToSet(gone) \cap ToSet(kept) = {}
<1>1. Len(s) \in Nat /\ d \in Nat /\ \A i \in 1 .. Len(s) : s[i] \in S
  BY LenProperties, ElementOfSeq
<1>a. PICK gone : gone = SubSeq(s, 1, d)
  OBVIOUS
<1>b. PICK kept : kept = SubSeq(s, d + 1, Len(s))
  OBVIOUS
<1>2. /\ gone \in Seq(S) /\ Len(gone) = d
      /\ \A i \in 1 .. d : gone[i] = s[i]
  <2>1. 1 \in Int /\ d \in Int /\ \A i \in 1 .. d : s[i] \in S
    BY <1>1
  <2>2. /\ SubSeq(s, 1, d) \in Seq(S)
        /\ Len(SubSeq(s, 1, d)) = IF 1 <= d THEN d - 1 + 1 ELSE 0
        /\ \A i \in 1 .. d - 1 + 1 : SubSeq(s, 1, d)[i] = s[1 + i - 1]
    BY <2>1, SubSeqProperties
  <2>3. d - 1 + 1 = d /\ \A i \in 1 .. d : 1 + i - 1 = i
    BY <1>1
  <2>4. \A i \in 1 .. d : gone[i] = s[i]
    BY <1>a, <2>2, <2>3
  <2> QED
    BY <1>1, <1>a, <2>2, <2>4
<1>3. /\ kept \in Seq(S) /\ Len(kept) = Len(s) - d
      /\ \A i \in 1 .. Len(s) - d : kept[i] = s[d + i]
  <2>1. d + 1 \in Int /\ Len(s) \in Int /\ \A i \in d + 1 .. Len(s) : s[i] \in S
    BY <1>1
  <2>2. /\ SubSeq(s, d + 1, Len(s)) \in Seq(S)
        /\ Len(SubSeq(s, d + 1, Len(s))) =
              IF d + 1 <= Len(s) THEN Len(s) - (d + 1) + 1 ELSE 0
        /\ \A i \in 1 .. Len(s) - (d + 1) + 1 : SubSeq(s, d + 1, Len(s))[i] = s[d + 1 + i - 1]
    BY <2>1, SubSeqProperties
  <2>3. Len(s) - (d + 1) + 1 = Len(s) - d /\ \A i \in 1 .. Len(s) - d : d + 1 + i - 1 = d + i
    BY <1>1
  <2>4. \A i \in 1 .. Len(s) - d : kept[i] = s[d + i]
    BY <1>b, <2>2, <2>3
  <2> QED
    BY <1>1, <1>b, <2>2, <2>4
<1>4. ToSet(gone) \subseteq ToSet(s)
  <2>1. \A i \in 1 .. Len(gone) : i \in 1 .. Len(s) /\ gone[i] = s[i]
    BY <1>1, <1>2
  <2> QED
    BY <1>2, <2>1, Elements
<1>5. ToSet(kept) \subseteq ToSet(s)
  <2>1. \A i \in 1 .. Len(kept) : d + i \in 1 .. Len(s) /\ kept[i] = s[d + i]
    BY <1>1, <1>3
  <2> QED
    BY <1>3, <2>1, Elements
<1>6. ASSUME NEW i \in 1 .. Len(s)
      PROVE  s[i] \in ToSet(gone) \cup ToSet(kept)
  <2>1. CASE i <= d
    <3>1. i \in 1 .. Len(gone) /\ gone[i] = s[i]
      BY <1>1, <1>2, <2>1
    <3> QED
      BY <1>2, <3>1, Elements
  <2>2. CASE ~ i <= d
    <3>1. i - d \in 1 .. Len(kept) /\ kept[i - d] = s[i]
      BY <1>1, <1>3, <2>2
    <3> QED
      BY <1>3, <3>1, Elements
  <2> QED
    BY <2>1, <2>2
<1>7. ToSet(s) = ToSet(gone) \cup ToSet(kept)
  BY <1>2, <1>3, <1>4, <1>5, <1>6, Elements
<1>8. ASSUME IsInjective(s)
      PROVE  IsInjective(kept) /\ ToSet(gone) \cap ToSet(kept) = {}
  <2>1. \A i, j \in 1 .. Len(s) : s[i] = s[j] => i = j
    BY <1>8, Elements
  <2>2. ASSUME NEW i \in 1 .. Len(kept), NEW j \in 1 .. Len(kept), kept[i] = kept[j]
        PROVE  i = j
    <3>1. d + i \in 1 .. Len(s) /\ d + j \in 1 .. Len(s) /\ s[d + i] = s[d + j]
      BY <1>1, <1>3, <2>2
    <3>2. d + i = d + j
      BY <2>1, <3>1
    <3> QED
      BY <1>1, <3>2
  <2>3. ASSUME NEW i \in 1 .. Len(gone), NEW j \in 1 .. Len(kept)
        PROVE  gone[i] # kept[j]
    <3>1. i \in 1 .. Len(s) /\ d + j \in 1 .. Len(s) /\ i # d + j
      BY <1>1, <1>2, <1>3
    <3>2. gone[i] = s[i] /\ kept[j] = s[d + j]
      BY <1>1, <1>2, <1>3
    <3> QED
      BY <2>1, <3>1, <3>2
  <2>4. IsInjective(kept)
    BY <1>3, <2>2, Elements
  <2>5. \A x \in ToSet(gone), y \in ToSet(kept) : x # y
    BY <1>2, <1>3, <2>3, Elements
  <2> QED
    BY <2>4, <2>5
<1> QED
  BY <1>a, <1>b, <1>2, <1>3, <1>7, <1>8

-----------------------------------------------------------------------------
(* Send *)

\* A new batch is numbered behind everything that was made before it.
LEMMA SpawnKeeps ==
  ASSUME CloudInv, NEW c \in Senders, Spawn(c)
  PROVE  CloudInv'
<1>1. PICK n \in 1 .. MaxBatch :
        /\ made + n <= MaxSamples /\ made' = made + n
        /\ pending' = [pending EXCEPT ![c] = [i \in 1 .. n |-> made + i]]
  BY DEF Spawn
<1>2. PICK batch : batch = [i \in 1 .. n |-> made + i]
  OBVIOUS
<1>3. /\ made \in Nat /\ n \in Nat \ {0} /\ made' \in 0 .. MaxSamples
      /\ 1 .. made \subseteq 1 .. made'
  BY <1>1, CloudAssumption DEF CloudInv, TypeOK
<1>4. /\ batch \in Seq(1 .. made') /\ Len(batch) = n
      /\ \A i \in 1 .. n : batch[i] = made + i
  BY <1>1, <1>2, <1>3
<1>5. ToSet(batch) = made + 1 .. made' /\ IsInjective(batch)
  <2>1. \A x \in made + 1 .. made' : x - made \in 1 .. n /\ batch[x - made] = x
    BY <1>1, <1>3, <1>4
  <2>2. \A i \in 1 .. n : batch[i] \in made + 1 .. made'
    BY <1>1, <1>3, <1>4
  <2>3. \A i, j \in 1 .. n : batch[i] = batch[j] => i = j
    BY <1>3, <1>4
  <2>4. \A x \in ToSet(batch) : x \in made + 1 .. made'
    BY <1>4, <2>2, Elements
  <2>5. \A x \in made + 1 .. made' : x \in ToSet(batch)
    BY <1>4, <2>1, Elements
  <2>6. IsInjective(batch)
    BY <1>4, <2>3, Elements
  <2> QED
    BY <2>4, <2>5, <2>6
<1>6. c \in Calls /\ c # Closer /\ Closer \in Calls
  BY CloserAssumption DEF Calls
<1>7. /\ pending'[c] = batch
      /\ \A d \in Calls \ {c} : pending'[d] = pending[d]
      /\ call'[c] = "spawned"
      /\ \A d \in Calls \ {c} : call'[d] = call[d]
  BY <1>1, <1>2, <1>6 DEF Spawn, Goto, CloudInv, TypeOK
<1>8. TypeOK'
  <2>1. buffer' \in Seq(1 .. made') /\ Len(buffer') <= MaxBuffer
    BY <1>3, SeqMonotonic DEF Spawn, CloudInv, TypeOK
  <2>2. pending' \in [Calls -> Seq(1 .. made')]
    <3>1. \A d \in Calls : pending[d] \in Seq(1 .. made')
      BY <1>3, SeqMonotonic DEF CloudInv, TypeOK
    <3> QED
      BY <1>1, <1>2, <1>4, <3>1 DEF CloudInv, TypeOK
  <2>3. stored' \in Seq(SUBSET (1 .. made'))
    <3>1. SUBSET (1 .. made) \subseteq SUBSET (1 .. made')
      BY <1>3
    <3> QED
      BY <3>1, SeqMonotonic DEF Spawn, cloudVars, CloudInv, TypeOK
  <2> QED
    BY <1>3, <2>1, <2>2, <2>3 DEF Spawn, Goto, cloudVars, CloudInv, TypeOK
<1>9. OwnersBusy'
  BY <1>7 DEF CloudInv, OwnersBusy
<1>10. AnsweringStored'
  BY <1>7 DEF CloudInv, AnsweringStored, Spawn, cloudVars, Stored
<1>11. CloserLast'
  BY <1>6, <1>7 DEF CloudInv, CloserLast, Spawn
<1>12. SingleOwner'
  <2>1. /\ buffer \in Seq(1 .. made) /\ \A d \in Calls : pending[d] \in Seq(1 .. made)
    BY DEF CloudInv, TypeOK
  <2>2. /\ ToSet(batch) \cap ToSet(buffer) = {}
        /\ \A d \in Calls : ToSet(batch) \cap ToSet(pending[d]) = {}
    <3>1. (made + 1 .. made') \cap (1 .. made) = {}
      BY <1>3
    <3>2. ToSet(batch) \subseteq made + 1 .. made'
      BY <1>5, Elements
    <3>3. ToSet(buffer) \subseteq 1 .. made
      BY <2>1, Elements
    <3>4. \A d \in Calls : ToSet(pending[d]) \subseteq 1 .. made
      BY <2>1, Elements
    <3> QED
      BY ONLY <3>1, <3>2, <3>3, <3>4
  <2> QED
    BY <1>5, <1>7, <2>2 DEF Spawn, CloudInv, SingleOwner
<1>13. Accounted'
  <2>1. \A p \in 1 .. made' : p \in 1 .. made \/ p \in made + 1 .. made'
    BY <1>1, <1>3
  <2>2. buffer' = buffer /\ Stored' = Stored /\ rejected' = rejected /\ overflown' = overflown
    BY DEF Spawn, cloudVars, Stored
  <2>3. ToSet(pending[c]) = {}
    BY <1>6, NoElements DEF CloudInv, OwnersBusy, Spawn
  <2> QED
    BY <1>5, <1>6, <1>7, <2>1, <2>2, <2>3 DEF CloudInv, Accounted
<1> QED
  BY <1>8, <1>9, <1>10, <1>11, <1>12, <1>13 DEF CloudInv

\* The buffer changes owner as a whole.
LEMMA SnapshotKeeps ==
  ASSUME CloudInv, NEW c \in Calls, Snapshot(c)
  PROVE  CloudInv'
<1>1. PICK merged : merged = buffer \o pending[c]
  OBVIOUS
<1>2. buffer \in Seq(1 .. made) /\ pending[c] \in Seq(1 .. made)
  BY DEF CloudInv, TypeOK
<1>3. /\ merged \in Seq(1 .. made)
      /\ ToSet(merged) = ToSet(buffer) \cup ToSet(pending[c])
      /\ IsInjective(merged)
  BY <1>1, <1>2, ElementsOfBoth DEF CloudInv, SingleOwner
<1>4. /\ pending'[c] = merged
      /\ \A d \in Calls \ {c} : pending'[d] = pending[d]
      /\ call'[c] = "posting"
      /\ \A d \in Calls \ {c} : call'[d] = call[d]
      /\ buffer' = <<>> /\ ToSet(buffer') = {} /\ IsInjective(buffer')
  BY <1>1, NoElements DEF Snapshot, Goto, CloudInv, TypeOK
<1>5. UNCHANGED <<made, closing, stored, rejected, overflown>> /\ call[c] = "spawned"
  BY DEF Snapshot, cloudVars
<1>6. TypeOK'
  <2>1. pending' = [pending EXCEPT ![c] = merged]
    BY <1>1 DEF Snapshot
  <2>2. pending' \in [Calls -> Seq(1 .. made)]
    BY <1>3, <2>1 DEF CloudInv, TypeOK
  <2>3. buffer' \in Seq(1 .. made) /\ Len(buffer') <= MaxBuffer
    BY <1>4, EmptySeq, CloudAssumption
  <2> QED
    BY <1>5, <2>2, <2>3 DEF Snapshot, Goto, CloudInv, TypeOK
<1>7. OwnersBusy'
  BY <1>4 DEF CloudInv, OwnersBusy
<1>8. AnsweringStored'
  BY <1>4, <1>5 DEF CloudInv, AnsweringStored, Stored
<1>9. CloserLast'
  <2>1. CASE c = Closer
    BY <1>4, <1>5, <2>1, CloserAssumption DEF CloudInv, CloserLast, AllDone, Calls
  <2>2. CASE c # Closer
    BY <1>4, <1>5, <2>2 DEF CloudInv, CloserLast, AllDone, Calls
  <2> QED
    BY <2>1, <2>2
<1>10. SingleOwner'
  BY <1>3, <1>4 DEF CloudInv, SingleOwner
<1>11. Accounted'
  BY <1>3, <1>4, <1>5 DEF CloudInv, Accounted, Stored
<1> QED
  BY <1>6, <1>7, <1>8, <1>9, <1>10, <1>11 DEF CloudInv

\* The platform learns of a request and nothing else happens.
LEMMA StoresKeeps ==
  ASSUME CloudInv, NEW c \in Calls, PlatformStores(c)
  PROVE  CloudInv'
<1>1. PICK key : key = ToSet(pending[c])
  OBVIOUS
<1>2. key \subseteq 1 .. made
  BY <1>1, Elements DEF CloudInv, TypeOK
<1>3. stored' = IF key \in ToSet(stored) THEN stored ELSE Append(stored, key)
  BY <1>1 DEF PlatformStores
<1>4. /\ stored' \in Seq(SUBSET (1 .. made))
      /\ ToSet(stored') = ToSet(stored) \cup {key}
  <2>0. stored \in Seq(SUBSET (1 .. made))
    BY DEF CloudInv, TypeOK
  <2>1. CASE key \in ToSet(stored)
    BY <1>3, <2>0, <2>1
  <2>2. CASE key \notin ToSet(stored)
    <3>1. /\ stored' \in Seq(SUBSET (1 .. made)) /\ Len(stored') = Len(stored) + 1
          /\ \A i \in 1 .. Len(stored) : stored'[i] = stored[i]
          /\ stored'[Len(stored) + 1] = key
      BY <1>2, <1>3, <2>0, <2>2, AppendProperties
    <3>2. Len(stored) \in Nat
      BY <2>0, LenProperties
    <3>3. \A x \in ToSet(stored) : x \in ToSet(stored')
      <4>1. ASSUME NEW i \in 1 .. Len(stored)
            PROVE  stored[i] \in ToSet(stored')
        <5>1. i \in 1 .. Len(stored') /\ stored'[i] = stored[i]
          BY <3>1, <3>2
        <5> QED
          BY <3>1, <5>1, Elements
      <4> QED
        BY <2>0, <4>1, Elements
    <3>4. key \in ToSet(stored')
      <4>1. Len(stored) + 1 \in 1 .. Len(stored')
        BY <3>1, <3>2
      <4> QED
        BY <3>1, <4>1, Elements
    <3>5. ASSUME NEW i \in 1 .. Len(stored')
          PROVE  stored'[i] \in ToSet(stored) \cup {key}
      <4>1. i \in 1 .. Len(stored) \/ i = Len(stored) + 1
        BY <3>1, <3>2
      <4>2. CASE i \in 1 .. Len(stored)
        BY <2>0, <3>1, <4>2, Elements
      <4>3. CASE i = Len(stored) + 1
        BY <3>1, <4>3
      <4> QED
        BY <4>1, <4>2, <4>3
    <3>6. \A x \in ToSet(stored') : x \in ToSet(stored) \cup {key}
      BY <3>1, <3>5, Elements
    <3> QED
      BY <3>1, <3>3, <3>4, <3>6
  <2> QED
    BY <2>1, <2>2
<1>5. Stored' = Stored \cup key
  BY <1>4 DEF Stored
<1>6. /\ UNCHANGED <<buffer, made, pending, closing, rejected, overflown>>
      /\ call[c] = "posting" /\ call'[c] = "answering"
      /\ \A d \in Calls \ {c} : call'[d] = call[d]
  BY DEF PlatformStores, Goto, CloudInv, TypeOK
<1>7. TypeOK'
  BY <1>4, <1>6 DEF PlatformStores, Goto, CloudInv, TypeOK
<1>8. OwnersBusy'
  BY <1>6 DEF CloudInv, OwnersBusy
<1>9. AnsweringStored'
  BY <1>1, <1>5, <1>6 DEF CloudInv, AnsweringStored
<1>10. CloserLast'
  <2>1. CASE c = Closer
    BY <1>6, <2>1, CloserAssumption DEF CloudInv, CloserLast, AllDone, Calls
  <2>2. CASE c # Closer
    BY <1>6, <2>2 DEF CloudInv, CloserLast, AllDone, Calls
  <2> QED
    BY <2>1, <2>2
<1>11. SingleOwner'
  BY <1>6 DEF CloudInv, SingleOwner
<1>12. Accounted'
  BY <1>5, <1>6 DEF CloudInv, Accounted
<1> QED
  BY <1>7, <1>8, <1>9, <1>10, <1>11, <1>12 DEF CloudInv

\* A call that the platform answers, for good or ill, has nothing left.
LEMMA AnsweredKeeps ==
  ASSUME CloudInv, NEW c \in Calls, Accepted(c) \/ Refused(c)
  PROVE  CloudInv'
<1>1. /\ pending' = [pending EXCEPT ![c] = <<>>]
      /\ pending'[c] = <<>> /\ ToSet(pending'[c]) = {} /\ IsInjective(pending'[c])
      /\ \A d \in Calls \ {c} : pending'[d] = pending[d]
      /\ call[c] \in {"posting", "answering"}
      /\ call'[c] = "done"
      /\ \A d \in Calls \ {c} : call'[d] = call[d]
      /\ UNCHANGED <<buffer, made, closing, stored, overflown>>
  BY NoElements DEF Accepted, Refused, Finish, Goto, cloudVars, CloudInv, TypeOK
<1>2. pending[c] \in Seq(1 .. made) /\ ToSet(pending[c]) \subseteq 1 .. made
  BY Elements DEF CloudInv, TypeOK
<1>3. /\ rejected' \subseteq 1 .. made /\ rejected \subseteq rejected'
      /\ ToSet(pending[c]) \subseteq Stored \cup rejected'
  BY <1>1, <1>2 DEF Accepted, Refused, cloudVars, CloudInv, TypeOK, AnsweringStored
<1>4. TypeOK'
  <2>1. pending' \in [Calls -> Seq(1 .. made)]
    BY <1>1, EmptySeq DEF CloudInv, TypeOK
  <2>2. call' \in [Calls -> {"idle", "spawned", "posting", "answering", "done", "failed"}]
    BY DEF Accepted, Refused, Finish, Goto, CloudInv, TypeOK
  <2> QED
    BY <1>1, <1>3, <2>1, <2>2 DEF CloudInv, TypeOK
<1>5. OwnersBusy'
  BY <1>1 DEF CloudInv, OwnersBusy
<1>6. AnsweringStored'
  BY <1>1 DEF CloudInv, AnsweringStored, Stored
<1>7. CloserLast'
  <2>1. CASE c = Closer
    BY <1>1, <2>1, CloserAssumption DEF CloudInv, CloserLast, AllDone, Calls
  <2>2. CASE c # Closer
    BY <1>1, <2>2 DEF CloudInv, CloserLast, AllDone, Calls
  <2> QED
    BY <2>1, <2>2
<1>8. SingleOwner'
  BY <1>1 DEF CloudInv, SingleOwner
<1>9. Accounted'
  <2>1. Stored' = Stored
    BY <1>1 DEF Stored
  <2>2. ASSUME NEW p \in 1 .. made
        PROVE  \/ p \in ToSet(buffer')
               \/ \E d \in Calls : p \in ToSet(pending'[d])
               \/ p \in Stored' \cup rejected' \cup overflown'
    <3>1. CASE p \in ToSet(pending[c])
      BY <1>3, <2>1, <3>1
    <3>2. CASE p \notin ToSet(pending[c])
      BY <1>1, <1>3, <2>1, <3>2 DEF CloudInv, Accounted
    <3> QED
      BY <3>1, <3>2
  <2> QED
    BY <1>1, <2>2 DEF Accounted
<1> QED
  BY <1>4, <1>5, <1>6, <1>7, <1>8, <1>9 DEF CloudInv

\* A call that fails puts its samples in front of the buffer, and what does not
\* fit is counted as dropped.
LEMMA FailsKeeps ==
  ASSUME CloudInv, NEW c \in Calls, Fails(c)
  PROVE  CloudInv'
<1>1. PICK merged : merged = pending[c] \o buffer
  OBVIOUS
<1>2. PICK drop : drop = Overflow(merged)
  OBVIOUS
<1>3. PICK gone, kept : /\ gone = SubSeq(merged, 1, drop)
                        /\ kept = SubSeq(merged, drop + 1, Len(merged))
  OBVIOUS
<1>4. buffer \in Seq(1 .. made) /\ pending[c] \in Seq(1 .. made)
  BY DEF CloudInv, TypeOK
<1>5. /\ merged \in Seq(1 .. made) /\ Len(merged) \in Nat
      /\ ToSet(merged) = ToSet(pending[c]) \cup ToSet(buffer)
      /\ IsInjective(merged)
  BY <1>1, <1>4, ElementsOfBoth, LenProperties DEF CloudInv, SingleOwner
<1>6. drop \in 0 .. Len(merged) /\ Len(merged) - drop <= MaxBuffer
  BY <1>2, <1>5, CloudAssumption DEF Overflow
<1>7. /\ gone \in Seq(1 .. made) /\ kept \in Seq(1 .. made) /\ Len(kept) <= MaxBuffer
      /\ ToSet(merged) = ToSet(gone) \cup ToSet(kept)
      /\ IsInjective(kept) /\ ToSet(gone) \cap ToSet(kept) = {}
  <2>1. /\ gone \in Seq(1 .. made) /\ kept \in Seq(1 .. made)
        /\ Len(kept) = Len(merged) - drop
        /\ ToSet(merged) = ToSet(gone) \cup ToSet(kept)
        /\ IsInjective(merged) => IsInjective(kept) /\ ToSet(gone) \cap ToSet(kept) = {}
    BY <1>3, <1>5, <1>6, ElementsOfParts
  <2> QED
    BY <1>5, <1>6, <2>1
<1>8. /\ buffer' = kept
      /\ overflown' = overflown \cup ToSet(gone)
  BY <1>1, <1>2, <1>3 DEF Fails, Rebuffer
<1>9. /\ pending' = [pending EXCEPT ![c] = <<>>]
      /\ pending'[c] = <<>> /\ ToSet(pending'[c]) = {} /\ IsInjective(pending'[c])
      /\ \A d \in Calls \ {c} : pending'[d] = pending[d]
      /\ call[c] \in {"posting", "answering"}
      /\ call'[c] = "failed"
      /\ \A d \in Calls \ {c} : call'[d] = call[d]
      /\ UNCHANGED <<made, closing, stored, rejected>>
  BY NoElements DEF Fails, Finish, Goto, CloudInv, TypeOK
<1>10. TypeOK'
  <2>1. pending' \in [Calls -> Seq(1 .. made)]
    BY <1>9, EmptySeq DEF CloudInv, TypeOK
  <2>2. call' \in [Calls -> {"idle", "spawned", "posting", "answering", "done", "failed"}]
    BY DEF Fails, Finish, Goto, CloudInv, TypeOK
  <2>3. ToSet(gone) \subseteq 1 .. made
    BY <1>7, Elements
  <2> QED
    BY <1>7, <1>8, <1>9, <2>1, <2>2, <2>3 DEF CloudInv, TypeOK
<1>11. OwnersBusy'
  BY <1>9 DEF CloudInv, OwnersBusy
<1>12. AnsweringStored'
  BY <1>9 DEF CloudInv, AnsweringStored, Stored
<1>13. CloserLast'
  <2>1. CASE c = Closer
    BY <1>9, <2>1, CloserAssumption DEF CloudInv, CloserLast, AllDone, Calls
  <2>2. CASE c # Closer
    BY <1>9, <2>2 DEF CloudInv, CloserLast, AllDone, Calls
  <2> QED
    BY <2>1, <2>2
<1>14. SingleOwner'
  <2>1. ASSUME NEW d \in Calls \ {c}
        PROVE  ToSet(pending[d]) \cap ToSet(kept) = {}
    BY <1>5, <1>7 DEF CloudInv, SingleOwner
  <2> QED
    BY <1>7, <1>8, <1>9, <2>1 DEF CloudInv, SingleOwner
<1>15. Accounted'
  <2>1. Stored' = Stored
    BY <1>9 DEF Stored
  <2>2. ASSUME NEW p \in 1 .. made
        PROVE  \/ p \in ToSet(buffer')
               \/ \E d \in Calls : p \in ToSet(pending'[d])
               \/ p \in Stored' \cup rejected' \cup overflown'
    <3>1. CASE p \in ToSet(merged)
      BY <1>7, <1>8, <3>1
    <3>2. CASE p \notin ToSet(merged)
      BY <1>5, <1>8, <1>9, <2>1, <3>2 DEF CloudInv, Accounted
    <3> QED
      BY <3>1, <3>2
  <2> QED
    BY <1>9, <2>2 DEF Accounted
<1> QED
  BY <1>10, <1>11, <1>12, <1>13, <1>14, <1>15 DEF CloudInv

\* Any step of a Send keeps the invariant.
LEMMA SendKeeps ==
  ASSUME CloudInv, NEW c \in Calls, SendStep(c)
  PROVE  CloudInv'
BY SnapshotKeeps, StoresKeeps, AnsweredKeeps, FailsKeeps DEF SendStep

-----------------------------------------------------------------------------
(* Close *)

\* Close takes what no other call can add to any more.
LEMMA CloseTakeKeeps ==
  ASSUME CloudInv, CloseTake
  PROVE  CloudInv'
<1>1. /\ Closer \in Calls /\ Closer \notin Senders
      /\ call[Closer] = "idle" /\ pending[Closer] = <<>>
  BY CloserAssumption DEF Calls, CloseTake, CloudInv, CloserLast, OwnersBusy
<1>2. /\ pending' = [pending EXCEPT ![Closer] = buffer]
      /\ pending'[Closer] = buffer
      /\ \A d \in Calls \ {Closer} : pending'[d] = pending[d]
      /\ call' = [call EXCEPT ![Closer] = IF buffer = <<>> THEN "done" ELSE "spawned"]
      /\ call'[Closer] = IF buffer = <<>> THEN "done" ELSE "spawned"
      /\ \A d \in Calls \ {Closer} : call'[d] = call[d]
      /\ closing = "waiting" /\ closing' = "sending" /\ AllDone
      /\ buffer' = <<>> /\ ToSet(buffer') = {} /\ IsInjective(buffer')
      /\ UNCHANGED <<made, stored, rejected, overflown>>
  BY <1>1, NoElements DEF CloseTake, Goto, cloudVars, CloudInv, TypeOK
<1>3. TypeOK'
  <2>1. pending' \in [Calls -> Seq(1 .. made)]
    BY <1>2 DEF CloudInv, TypeOK
  <2>2. call' \in [Calls -> {"idle", "spawned", "posting", "answering", "done", "failed"}]
    BY <1>2 DEF CloudInv, TypeOK
  <2>3. buffer' \in Seq(1 .. made) /\ Len(buffer') <= MaxBuffer
    BY <1>2, EmptySeq, CloudAssumption
  <2> QED
    BY <1>2, <2>1, <2>2, <2>3 DEF CloudInv, TypeOK
<1>4. OwnersBusy'
  BY <1>2 DEF CloudInv, OwnersBusy
<1>5. AnsweringStored'
  BY <1>2 DEF CloudInv, AnsweringStored, Stored
<1>6. CloserLast'
  BY <1>1, <1>2 DEF CloudInv, CloserLast, AllDone, Calls
<1>7. SingleOwner'
  BY <1>2 DEF CloudInv, SingleOwner
<1>8. Accounted'
  <2>1. Stored' = Stored /\ ToSet(pending[Closer]) = {}
    BY <1>1, <1>2, NoElements DEF Stored
  <2> QED
    BY <1>1, <1>2, <2>1 DEF CloudInv, Accounted
<1> QED
  BY <1>3, <1>4, <1>5, <1>6, <1>7, <1>8 DEF CloudInv

\* Beginning and ending Close moves no sample.
LEMMA CloseMovesNothing ==
  ASSUME CloudInv, CloseBegin \/ CloseReturn \/ UNCHANGED vars
  PROVE  CloudInv'
<1>1. /\ UNCHANGED <<buffer, made, call, pending, stored, rejected, overflown>>
      /\ \/ closing = "no" /\ closing' = "waiting"
         \/ closing = "sending" /\ closing' = "closed" /\ call[Closer] \in {"done", "failed"}
         \/ closing' = closing
  BY DEF CloseBegin, CloseReturn, vars, cloudVars
<1>2. TypeOK' /\ OwnersBusy' /\ AnsweringStored' /\ SingleOwner' /\ Accounted'
  BY <1>1 DEF CloudInv, TypeOK, OwnersBusy, AnsweringStored, SingleOwner, Accounted, Stored
<1>3. CloserLast'
  BY <1>1 DEF CloudInv, CloserLast, AllDone
<1> QED
  BY <1>2, <1>3 DEF CloudInv

-----------------------------------------------------------------------------
(* Theorems *)

\* The client starts with nothing.
LEMMA CloudStarts == Init => CloudInv
<1> SUFFICES ASSUME Init PROVE CloudInv
  OBVIOUS
<1>1. /\ made = 0 /\ buffer = <<>> /\ stored = <<>>
      /\ \A c \in Calls : pending[c] = <<>> /\ call[c] = "idle"
  BY DEF Init
<1>2. TypeOK
  <2>1. 0 \in 0 .. MaxSamples /\ 0 <= MaxBuffer
    BY CloudAssumption
  <2>2. <<>> \in Seq(1 .. 0) /\ Len(<<>>) = 0 /\ <<>> \in Seq(SUBSET (1 .. 0))
    BY EmptySeq
  <2> QED
    BY <2>1, <2>2 DEF Init, TypeOK
<1>3. OwnersBusy /\ AnsweringStored /\ SingleOwner
  BY <1>1, NoElements DEF OwnersBusy, AnsweringStored, SingleOwner
<1>4. CloserLast
  BY <1>1 DEF Init, CloserLast, Calls
<1>5. Accounted
  BY <1>1 DEF Accounted
<1> QED
  BY <1>2, <1>3, <1>4, <1>5 DEF CloudInv

\* Every step keeps the invariant.
LEMMA CloudSteps == CloudInv /\ [Next]_vars => CloudInv'
<1> SUFFICES ASSUME CloudInv, [Next]_vars PROVE CloudInv'
  OBVIOUS
<1>1. CASE \E c \in Senders : Spawn(c)
  BY <1>1, SpawnKeeps
<1>2. CASE \E c \in Calls : SendStep(c)
  BY <1>2, SendKeeps
<1>3. CASE CloseTake
  BY <1>3, CloseTakeKeeps
<1>4. CASE CloseBegin \/ CloseReturn \/ UNCHANGED vars
  BY <1>4, CloseMovesNothing
<1> QED
  BY <1>1, <1>2, <1>3, <1>4 DEF Next, Closed

\* The parts of the invariant are the properties.
LEMMA CloudMeaning ==
  CloudInv => TypeOK /\ SingleOwner /\ NoSampleVanishes /\ NothingBehindClose
<1> SUFFICES ASSUME CloudInv
             PROVE  TypeOK /\ SingleOwner /\ NoSampleVanishes /\ NothingBehindClose
  OBVIOUS
<1>1. NoSampleVanishes
  <2>1. Stored \subseteq 1 .. made
    <3>1. stored \in Seq(SUBSET (1 .. made))
      BY DEF CloudInv, TypeOK
    <3>2. ToSet(stored) \subseteq SUBSET (1 .. made)
      BY <3>1, Elements
    <3> QED
      BY <3>2 DEF Stored
  <2>2. Held \cup rejected \cup overflown \subseteq 1 .. made
    BY DEF Held, CloudInv, TypeOK
  <2>3. \A p \in 1 .. made : p \in Held \cup Stored \cup rejected \cup overflown
    BY DEF Held, CloudInv, Accounted
  <2> QED
    BY <2>1, <2>2, <2>3 DEF NoSampleVanishes
<1>2. NothingBehindClose
  <2> SUFFICES ASSUME closing = "closed", call[Closer] = "done"
               PROVE  Held = {} /\ 1 .. made = Stored \cup rejected \cup overflown
    BY DEF NothingBehindClose
  <2>1. buffer = <<>> /\ \A c \in Calls : pending[c] = <<>>
    BY DEF CloudInv, CloserLast, AllDone, OwnersBusy, Calls
  <2>2. Held = {}
    BY <2>1, NoElements DEF Held
  <2> QED
    BY <1>1, <2>2 DEF NoSampleVanishes
<1> QED
  BY <1>1, <1>2 DEF CloudInv

\* The inductive invariant holds in every state.
THEOREM CloudAlways == Spec => []CloudInv
<1>1. Init => CloudInv
  BY CloudStarts
<1>2. CloudInv /\ [Next]_vars => CloudInv'
  BY CloudSteps
<1> QED
  BY <1>1, <1>2, PTL DEF Spec

\* The variables keep their types, and the buffer its limit, however many Sends
\* fail at once.
THEOREM CloudTypes == Spec => []TypeOK
BY CloudAlways, CloudMeaning, PTL

\* No sample is in two places: not in two requests in flight, not in a request
\* and the buffer, not twice in one of them.
THEOREM CloudSingleOwner == Spec => []SingleOwner
BY CloudAlways, CloudMeaning, PTL

\* Every sample ever made is in the client, at the platform, refused, or counted
\* as dropped.
THEOREM CloudNothingVanishes == Spec => []NoSampleVanishes
BY CloudAlways, CloudMeaning, PTL

\* When Close has returned and its Send did not fail, the client is empty.
THEOREM CloudNothingBehind == Spec => []NothingBehindClose
BY CloudAlways, CloudMeaning, PTL

\* After Close nothing moves: no Send that ends late puts a sample back.
THEOREM CloudClosedForGood == Spec => [][closing # "closed"]_vars
<1>1. CloudInv /\ [Next]_vars => [closing # "closed"]_vars
  <2> SUFFICES ASSUME CloudInv, Next, closing = "closed" PROVE UNCHANGED vars
    OBVIOUS
  <2>1. \A c \in Calls : call[c] \in {"idle", "done", "failed"}
    BY DEF CloudInv, CloserLast, AllDone, Calls
  <2>2. \A c \in Calls : ~ SendStep(c)
    BY <2>1 DEF SendStep, Snapshot, PlatformStores, Accepted, Refused, Fails
  <2> QED
    BY <2>2 DEF Next, Spawn, CloseBegin, CloseTake, CloseReturn, Closed
<1> QED
  BY <1>1, CloudAlways, PTL DEF Spec
=============================================================================
