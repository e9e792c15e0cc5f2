---------------------------- MODULE BufferProofs ----------------------------
(***************************************************************************)
(* Theorems about the buffer manager, for every number of points, every    *)
(* capacity, and a disk that fails or not.                                 *)
(***************************************************************************)
EXTENDS BufferManager, Lemmas

\* Where the threads are once the context is cancelled or Start has returned,
\* and before the goroutines are launched.
Ended ==
  /\ epc = "boot" => ipc = "off"
  /\ epc = "stopped" => done
  /\ closed => ipc = "stopped" /\ epc = "stopped"

\* The inductive invariant for everything but the order of the points.
IInv == TypeOK /\ Ended /\ RingFlushed /\ NoLostWakeup

-----------------------------------------------------------------------------
(* Facts about the data *)

\* Numbers of points are points.
LEMMA PointsAre == \A i \in 1 .. MaxPoints : i \in Points
BY DEF Points

\* What taking the first element of a queue leaves.
LEMMA TailOf ==
  ASSUME NEW q \in Seq(Points), q # <<>>
  PROVE  /\ Head(q) \in Points /\ Tail(q) \in Seq(Points)
         /\ Len(Tail(q)) = Len(q) - 1 /\ Len(q) \in Nat
BY HeadTailProperties, LenProperties

\* The empty queue, and a queue of one point.
LEMMA NoPoints == <<>> \in Seq(Points) /\ Len(<<>>) = 0
BY EmptySeq

\* A row of a single point.
LEMMA OnePoint ==
  ASSUME NEW p \in Points
  PROVE  <<p>> \in Seq(Points) /\ Len(<<p>>) = 1 /\ <<p>> # <<>>
OBVIOUS

\* A point received and not yet put anywhere is a point.
LEMMA ArrivedIsPoint == TypeOK /\ ipc \in {"lock", "flush"} => arrived \in Points
BY DEF TypeOK, FlagsOK, LinksOK, Points

\* Room for one more is room for what egress holds.
LEMMA EmitType ==
  ASSUME TypeOK, Len(out) < OutCap
  PROVE  out \o held \in Seq(Points) /\ Len(out \o held) <= OutCap
<1>1. out \in Seq(Points) /\ held \in Seq(Points) /\ Len(held) <= 1
  BY DEF TypeOK, QueuesOK
<1>2. out \o held \in Seq(Points) /\ Len(out \o held) = Len(out) + Len(held)
  BY <1>1, ConcatProperties
<1>3. Len(out) \in Nat /\ Len(held) \in Nat
  BY <1>1, LenProperties
<1> QED
  BY <1>1, <1>2, <1>3, BufferAssumption DEF BufferAssumption

\* A write to the log, whatever it evicts, leaves a log of points that HasData
\* reports.
LEMMA WriteType ==
  ASSUME TypeOK, NEW p \in Points, WalWrite(p)
  PROVE  /\ log' \in Seq(Points) /\ hasData' \in BOOLEAN
         /\ log' # <<>> => hasData'
         /\ UNCHANGED <<feed, feeding, ch>>
<1>1. PICK k \in 0 .. Len(log) : W!LogStore(p, k) \/ W!LogRefuse(k)
  BY DEF WalWrite, W!LogWrite
<1>2. Len(log) \in Nat /\ log \in Seq(Points)
  BY LenProperties DEF TypeOK, QueuesOK
<1>3. W!Without(k) \in Seq(Points)
  BY <1>2, ThinsSuffix, EmptySeq DEF W!Without
<1>4. CASE W!LogStore(p, k)
  <2>1. Append(W!Without(k), p) \in Seq(Points)
    BY <1>3, AppendProperties
  <2> QED
    BY <1>4, <2>1 DEF W!LogStore
<1>5. CASE W!LogRefuse(k)
  BY <1>3, <1>5 DEF W!LogRefuse
<1> QED
  BY <1>1, <1>4, <1>5

\* One turn of a flush moves a point of the ring to the log.
LEMMA FlushType ==
  ASSUME TypeOK, FlushOne
  PROVE  /\ log' \in Seq(Points) /\ hasData' \in BOOLEAN
         /\ log' # <<>> => hasData'
         /\ ring' \in Seq(Points) /\ Len(ring') <= RingSize
         /\ UNCHANGED <<feed, feeding, ch>>
<1>1. /\ Head(ring) \in Points /\ Tail(ring) \in Seq(Points)
      /\ Len(Tail(ring)) = Len(ring) - 1 /\ Len(ring) \in Nat
  BY TailOf DEF TypeOK, QueuesOK, FlushOne
<1>2. ring' = Tail(ring)
  BY DEF FlushOne
<1>3. Len(ring') <= RingSize
  BY <1>1, <1>2, BufferAssumption DEF TypeOK, QueuesOK, BufferAssumption
<1> QED
  BY <1>1, <1>2, <1>3, WriteType DEF FlushOne

-----------------------------------------------------------------------------
(* Type correctness and the control *)

\* The initial states satisfy the invariant.
LEMMA InvInit == Init => IInv
<1>. SUFFICES ASSUME Init PROVE IInv
  OBVIOUS
<1>1. PICK n \in 0 .. MaxLeft : log = [i \in 1 .. n |-> i] /\ arrived = n /\ hasData = (n > 0)
  BY DEF Init
<1>2. n \in 0 .. MaxPoints
  BY <1>1, BufferAssumption DEF BufferAssumption
<1>3. log \in Seq(Points) /\ (log # <<>> => n > 0)
  <2>1. log \in [1 .. n -> Points]
    BY <1>1, <1>2, BufferAssumption DEF Points, BufferAssumption
  <2>2. log \in Seq(Points)
    BY <1>2, <2>1, SeqDef, BufferAssumption DEF BufferAssumption
  <2>3. n = 0 => Len(log) = 0
    BY <1>1, <2>2
  <2> QED
    BY <1>2, <2>2, <2>3, EmptySeq
<1>4. TypeOK
  <2>1. <<>> \in Seq(Points) /\ Len(<<>>) = 0
    BY EmptySeq
  <2>2. arrived \in 0 .. MaxPoints /\ hasData \in BOOLEAN
    <3>1. (n > 0) \in BOOLEAN
      OBVIOUS
    <3>2. arrived \in 0 .. MaxPoints
      BY <1>1, <1>2
    <3>3. hasData = (n > 0)
      BY <1>1
    <3> QED
      BY <3>1, <3>2, <3>3, Zenon
  <2>3. log # <<>> => hasData
    BY <1>1, <1>3
  <2>4. /\ ring \in Seq(Points) /\ Len(ring) <= RingSize
        /\ feed \in Seq(Points) /\ held \in Seq(Points) /\ Len(held) <= 1
        /\ ch \in Seq(Points) /\ Len(ch) <= ChCap
        /\ out \in Seq(Points) /\ Len(out) <= OutCap
        /\ delivered \in Seq(Points)
    BY <2>1, BufferAssumption DEF Init, BufferAssumption
  <2> QED
    BY <1>3, <2>2, <2>3, <2>4 DEF Init, TypeOK, QueuesOK, FlagsOK, LinksOK
<1>5. Ended /\ RingFlushed /\ NoLostWakeup
  BY DEF Init, Ended, RingFlushed, NoLostWakeup
<1> QED
  BY <1>4, <1>5 DEF IInv

\* Ingress keeps the invariant.
LEMMA IngressInv ==
  ASSUME IInv, IngressStep
  PROVE  IInv'
<1>. USE DEF IInv, Ended, RingFlushed, NoLostWakeup, walVars, wakeups, senderVars
<1>1. CASE IngressReceive
  <2>1. QueuesOK'
    BY <1>1 DEF TypeOK, QueuesOK, IngressReceive
  <2>2. FlagsOK'
    BY <1>1, BufferAssumption DEF TypeOK, FlagsOK, IngressReceive
  <2>3. LinksOK'
    BY <1>1 DEF TypeOK, QueuesOK, FlagsOK, LinksOK, IngressReceive
  <2>4. Ended' /\ RingFlushed' /\ NoLostWakeup'
    BY <1>1 DEF TypeOK, FlagsOK, LinksOK, IngressReceive
  <2> QED
    BY <2>1, <2>2, <2>3, <2>4 DEF TypeOK
<1>2. CASE IngressWrite
  <2>1. QueuesOK'
    BY <1>2, ArrivedIsPoint, WriteType DEF TypeOK, QueuesOK, IngressWrite
  <2>2. FlagsOK'
    BY <1>2, ArrivedIsPoint, WriteType DEF TypeOK, FlagsOK, IngressWrite
  <2>3. LinksOK'
    BY <1>2, ArrivedIsPoint, WriteType DEF TypeOK, QueuesOK, FlagsOK, LinksOK, IngressWrite
  <2>4. Ended' /\ RingFlushed' /\ NoLostWakeup'
    BY <1>2, ArrivedIsPoint, WriteType DEF TypeOK, FlagsOK, LinksOK, IngressWrite
  <2> QED
    BY <2>1, <2>2, <2>3, <2>4 DEF TypeOK
<1>3. CASE IngressPush
  <2>1. QueuesOK'
    BY <1>3, ArrivedIsPoint, AppendProperties, LenProperties, BufferAssumption DEF TypeOK, QueuesOK, IngressPush
  <2>2. FlagsOK'
    BY <1>3 DEF TypeOK, FlagsOK, IngressPush
  <2>3. LinksOK'
    BY <1>3 DEF TypeOK, QueuesOK, FlagsOK, LinksOK, IngressPush
  <2>4. Ended' /\ RingFlushed' /\ NoLostWakeup'
    BY <1>3 DEF TypeOK, FlagsOK, LinksOK, IngressPush
  <2> QED
    BY <2>1, <2>2, <2>3, <2>4 DEF TypeOK
<1>4. CASE IngressFull
  <2>1. QueuesOK'
    BY <1>4 DEF TypeOK, QueuesOK, IngressFull
  <2>2. FlagsOK'
    BY <1>4 DEF TypeOK, FlagsOK, IngressFull
  <2>3. LinksOK'
    BY <1>4 DEF TypeOK, QueuesOK, FlagsOK, LinksOK, IngressFull
  <2>4. Ended' /\ RingFlushed' /\ NoLostWakeup'
    BY <1>4 DEF TypeOK, FlagsOK, LinksOK, IngressFull
  <2> QED
    BY <2>1, <2>2, <2>3, <2>4 DEF TypeOK
<1>5. CASE IngressFlush
  <2>1. QueuesOK'
    BY <1>5, FlushType DEF TypeOK, QueuesOK, IngressFlush, FlushOne
  <2>2. FlagsOK'
    BY <1>5, FlushType DEF TypeOK, FlagsOK, IngressFlush, FlushOne
  <2>3. LinksOK'
    BY <1>5, FlushType DEF TypeOK, QueuesOK, FlagsOK, LinksOK, IngressFlush, FlushOne
  <2>4. Ended' /\ RingFlushed' /\ NoLostWakeup'
    BY <1>5, FlushType DEF TypeOK, FlagsOK, LinksOK, IngressFlush, FlushOne
  <2> QED
    BY <2>1, <2>2, <2>3, <2>4 DEF TypeOK
<1>6. CASE IngressFlushed
  <2>1. QueuesOK'
    BY <1>6, ArrivedIsPoint, WriteType DEF TypeOK, QueuesOK, IngressFlushed
  <2>2. FlagsOK'
    BY <1>6, ArrivedIsPoint, WriteType DEF TypeOK, FlagsOK, IngressFlushed
  <2>3. LinksOK'
    BY <1>6, ArrivedIsPoint, WriteType DEF TypeOK, QueuesOK, FlagsOK, LinksOK, IngressFlushed
  <2>4. Ended' /\ RingFlushed' /\ NoLostWakeup'
    BY <1>6, ArrivedIsPoint, WriteType DEF TypeOK, FlagsOK, LinksOK, IngressFlushed
  <2> QED
    BY <2>1, <2>2, <2>3, <2>4 DEF TypeOK
<1>7. CASE IngressNotify
  <2>1. QueuesOK'
    BY <1>7 DEF TypeOK, QueuesOK, IngressNotify
  <2>2. FlagsOK'
    BY <1>7 DEF TypeOK, FlagsOK, IngressNotify
  <2>3. LinksOK'
    BY <1>7 DEF TypeOK, QueuesOK, FlagsOK, LinksOK, IngressNotify
  <2>4. Ended' /\ RingFlushed' /\ NoLostWakeup'
    BY <1>7 DEF TypeOK, FlagsOK, LinksOK, IngressNotify
  <2> QED
    BY <2>1, <2>2, <2>3, <2>4 DEF TypeOK
<1>8. CASE IngressStop
  <2>1. QueuesOK'
    BY <1>8 DEF TypeOK, QueuesOK, IngressStop
  <2>2. FlagsOK'
    BY <1>8 DEF TypeOK, FlagsOK, IngressStop
  <2>3. LinksOK'
    BY <1>8 DEF TypeOK, QueuesOK, FlagsOK, LinksOK, IngressStop
  <2>4. Ended' /\ RingFlushed' /\ NoLostWakeup'
    BY <1>8 DEF TypeOK, FlagsOK, LinksOK, IngressStop
  <2> QED
    BY <2>1, <2>2, <2>3, <2>4 DEF TypeOK
<1> QED
  BY <1>1, <1>2, <1>3, <1>4, <1>5, <1>6, <1>7, <1>8 DEF IngressStep

\* Egress, and Start around it, keep the invariant.
LEMMA EgressInv ==
  ASSUME IInv, EgressStep
  PROVE  IInv'
<1>. USE DEF IInv, Ended, RingFlushed, NoLostWakeup, walVars, wakeups, senderVars
<1>0. FlagsOK
  BY DEF TypeOK
<1>1. CASE Boot
  <2>1. QueuesOK'
    BY <1>1 DEF TypeOK, QueuesOK, Boot, Launch
  <2>2. FlagsOK'
    BY <1>1 DEF TypeOK, FlagsOK, Boot, Launch
  <2>3. LinksOK'
    BY <1>1 DEF TypeOK, QueuesOK, FlagsOK, LinksOK, Boot, Launch
  <2>4. Ended' /\ RingFlushed' /\ NoLostWakeup'
    BY <1>1 DEF TypeOK, FlagsOK, LinksOK, Boot, Launch
  <2> QED
    BY <2>1, <2>2, <2>3, <2>4 DEF TypeOK
<1>2. CASE EgressCheck
  <2>1. QueuesOK'
    BY <1>2 DEF TypeOK, QueuesOK, EgressCheck
  <2>2. FlagsOK'
    BY <1>2 DEF TypeOK, FlagsOK, EgressCheck
  <2>3. LinksOK'
    BY <1>2 DEF TypeOK, QueuesOK, FlagsOK, LinksOK, EgressCheck
  <2>4. Ended' /\ RingFlushed' /\ NoLostWakeup'
    BY <1>2 DEF TypeOK, FlagsOK, LinksOK, EgressCheck
  <2> QED
    BY <2>1, <2>2, <2>3, <2>4 DEF TypeOK
<1>3. CASE EgressAwake
  <2>1. QueuesOK'
    BY <1>3 DEF TypeOK, QueuesOK, EgressAwake
  <2>2. FlagsOK'
    <3>1. connToken' \in BOOLEAN
      BY <1>3 DEF TypeOK, FlagsOK, EgressAwake
    <3>2. dataToken' \in BOOLEAN
      BY <1>3 DEF TypeOK, FlagsOK, EgressAwake
    <3>3. UNCHANGED <<hasData, feeding, closed, connected, done, arrived, ipc, cpc, connMu>> /\ epc' = "check"
      BY <1>3 DEF EgressAwake
    <3> QED
      BY <3>1, <3>2, <3>3 DEF TypeOK, FlagsOK
  <2>3. LinksOK'
    BY <1>3 DEF TypeOK, QueuesOK, FlagsOK, LinksOK, EgressAwake
  <2>4. Ended' /\ RingFlushed' /\ NoLostWakeup'
    BY <1>3 DEF TypeOK, FlagsOK, LinksOK, EgressAwake
  <2> QED
    BY <2>1, <2>2, <2>3, <2>4 DEF TypeOK
<1>4. CASE EgressTakeLog
  <2>1. QueuesOK'
    BY <1>4 DEF TypeOK, QueuesOK, EgressTakeLog
  <2>2. FlagsOK'
    BY <1>4 DEF TypeOK, FlagsOK, EgressTakeLog
  <2>3. LinksOK'
    BY <1>4 DEF TypeOK, QueuesOK, FlagsOK, LinksOK, EgressTakeLog
  <2>4. Ended' /\ RingFlushed' /\ NoLostWakeup'
    BY <1>4 DEF TypeOK, FlagsOK, LinksOK, EgressTakeLog
  <2> QED
    BY <2>1, <2>2, <2>3, <2>4 DEF TypeOK
<1>5. CASE EgressTakeRing
  <2>1. QueuesOK'
    BY <1>5, TailOf, OnePoint, BufferAssumption DEF TypeOK, QueuesOK, EgressTakeRing
  <2>2. FlagsOK'
    BY <1>5, TailOf, OnePoint DEF TypeOK, FlagsOK, EgressTakeRing
  <2>3. LinksOK'
    BY <1>5, TailOf, OnePoint DEF TypeOK, QueuesOK, FlagsOK, LinksOK, EgressTakeRing
  <2>4. Ended' /\ RingFlushed' /\ NoLostWakeup'
    BY <1>5, TailOf, OnePoint DEF TypeOK, FlagsOK, LinksOK, EgressTakeRing
  <2> QED
    BY <2>1, <2>2, <2>3, <2>4 DEF TypeOK
<1>6. CASE EgressTakeNone
  <2>1. QueuesOK'
    BY <1>6 DEF TypeOK, QueuesOK, EgressTakeNone
  <2>2. FlagsOK'
    BY <1>6 DEF TypeOK, FlagsOK, EgressTakeNone
  <2>3. LinksOK'
    BY <1>6 DEF TypeOK, QueuesOK, FlagsOK, LinksOK, EgressTakeNone
  <2>4. Ended' /\ RingFlushed' /\ NoLostWakeup'
    BY <1>6 DEF TypeOK, FlagsOK, LinksOK, EgressTakeNone
  <2> QED
    BY <2>1, <2>2, <2>3, <2>4 DEF TypeOK
<1>7. CASE EgressSend
  <2>1. QueuesOK'
    BY <1>7, EmitType DEF TypeOK, QueuesOK, EgressSend
  <2>2. FlagsOK'
    BY <1>7 DEF TypeOK, FlagsOK, EgressSend
  <2>3. LinksOK'
    BY <1>7 DEF TypeOK, QueuesOK, FlagsOK, LinksOK, EgressSend
  <2>4. Ended' /\ RingFlushed' /\ NoLostWakeup'
    BY <1>7 DEF TypeOK, FlagsOK, LinksOK, EgressSend
  <2> QED
    BY <2>1, <2>2, <2>3, <2>4 DEF TypeOK
<1>8. CASE EgressWoken
  <2>1. QueuesOK'
    BY <1>8 DEF TypeOK, QueuesOK, EgressWoken
  <2>2. FlagsOK'
    <3>1. connToken' \in BOOLEAN
      BY <1>8 DEF TypeOK, FlagsOK, EgressWoken
    <3>2. dataToken' \in BOOLEAN
      BY <1>8 DEF TypeOK, FlagsOK, EgressWoken
    <3>3. UNCHANGED <<hasData, feeding, closed, connected, done, arrived, ipc, cpc, connMu>> /\ epc' = "check"
      BY <1>8 DEF EgressWoken
    <3> QED
      BY <3>1, <3>2, <3>3 DEF TypeOK, FlagsOK
  <2>3. LinksOK'
    BY <1>8 DEF TypeOK, QueuesOK, FlagsOK, LinksOK, EgressWoken
  <2>4. Ended' /\ RingFlushed' /\ NoLostWakeup'
    BY <1>8 DEF TypeOK, FlagsOK, LinksOK, EgressWoken
  <2> QED
    BY <2>1, <2>2, <2>3, <2>4 DEF TypeOK
<1>9. CASE EgressStop
  <2>1. QueuesOK'
    BY <1>9, NoPoints DEF TypeOK, QueuesOK, EgressStop
  <2>2. FlagsOK'
    BY <1>9 DEF TypeOK, FlagsOK, EgressStop
  <2>3. LinksOK'
    BY <1>9 DEF TypeOK, QueuesOK, FlagsOK, LinksOK, EgressStop
  <2>4. Ended' /\ RingFlushed' /\ NoLostWakeup'
    BY <1>9 DEF TypeOK, FlagsOK, LinksOK, EgressStop
  <2> QED
    BY <2>1, <2>2, <2>3, <2>4 DEF TypeOK
<1>10. CASE EgressDrain
  <2>1. QueuesOK'
    BY <1>10 DEF TypeOK, QueuesOK, EgressDrain, W!LogDrain
  <2>2. FlagsOK'
    <3>1. UNCHANGED <<closed, connected, connToken, dataToken, done, arrived, ipc, cpc, connMu>>
      BY <1>10 DEF EgressDrain
    <3>2. epc' = "range" /\ feeding' \in BOOLEAN /\ hasData' \in BOOLEAN
      BY <1>10 DEF EgressDrain, W!LogDrain
    <3> QED
      BY ONLY <1>0, <3>1, <3>2 DEF FlagsOK
  <2>3. LinksOK'
    BY <1>10 DEF TypeOK, QueuesOK, FlagsOK, LinksOK, EgressDrain, W!LogDrain
  <2>4. Ended' /\ RingFlushed' /\ NoLostWakeup'
    BY <1>10 DEF TypeOK, FlagsOK, LinksOK, EgressDrain, W!LogDrain
  <2> QED
    BY <2>1, <2>2, <2>3, <2>4 DEF TypeOK
<1>11. CASE EgressReceive
  <2>1. QueuesOK'
    BY <1>11, TailOf, OnePoint, BufferAssumption DEF TypeOK, QueuesOK, EgressReceive, W!ChReceive
  <2>2. FlagsOK'
    BY <1>11, TailOf, OnePoint DEF TypeOK, FlagsOK, EgressReceive, W!ChReceive
  <2>3. LinksOK'
    BY <1>11, TailOf, OnePoint DEF TypeOK, QueuesOK, FlagsOK, LinksOK, EgressReceive, W!ChReceive
  <2>4. Ended' /\ RingFlushed' /\ NoLostWakeup'
    BY <1>11, TailOf, OnePoint DEF TypeOK, FlagsOK, LinksOK, EgressReceive, W!ChReceive
  <2> QED
    BY <2>1, <2>2, <2>3, <2>4 DEF TypeOK
<1>12. CASE EgressEmit
  <2>1. QueuesOK'
    BY <1>12, EmitType DEF TypeOK, QueuesOK, EgressEmit
  <2>2. FlagsOK'
    BY <1>12 DEF TypeOK, FlagsOK, EgressEmit
  <2>3. LinksOK'
    BY <1>12 DEF TypeOK, QueuesOK, FlagsOK, LinksOK, EgressEmit
  <2>4. Ended' /\ RingFlushed' /\ NoLostWakeup'
    BY <1>12 DEF TypeOK, FlagsOK, LinksOK, EgressEmit
  <2> QED
    BY <2>1, <2>2, <2>3, <2>4 DEF TypeOK
<1>13. CASE EgressDrained
  <2>1. QueuesOK'
    BY <1>13 DEF TypeOK, QueuesOK, EgressDrained, AfterDrain, Launch
  <2>2. FlagsOK'
    BY <1>13 DEF TypeOK, FlagsOK, EgressDrained, AfterDrain, Launch
  <2>3. LinksOK'
    BY <1>13 DEF TypeOK, QueuesOK, FlagsOK, LinksOK, EgressDrained, AfterDrain, Launch
  <2>4. Ended' /\ RingFlushed' /\ NoLostWakeup'
    BY <1>13 DEF TypeOK, FlagsOK, LinksOK, EgressDrained, AfterDrain, Launch
  <2> QED
    BY <2>1, <2>2, <2>3, <2>4 DEF TypeOK
<1>14. CASE EgressDrainStop
  <2>1. QueuesOK'
    BY <1>14, NoPoints, BufferAssumption DEF TypeOK, QueuesOK, EgressDrainStop, AfterDrain, Launch
  <2>2. FlagsOK'
    <3>1. /\ UNCHANGED <<hasData, closed, connected, connToken, dataToken, done, arrived, cpc, connMu>>
          /\ feeding' \in BOOLEAN
      BY <1>14 DEF EgressDrainStop
    <3>2. epc' \in {"check", "stopped"} /\ ipc' \in {ipc, "select"}
      BY <1>14 DEF EgressDrainStop, AfterDrain, Launch
    <3> QED
      BY ONLY <1>0, <3>1, <3>2 DEF FlagsOK
  <2>3. LinksOK'
    BY <1>14 DEF TypeOK, QueuesOK, FlagsOK, LinksOK, EgressDrainStop, AfterDrain, Launch
  <2>4. Ended' /\ RingFlushed' /\ NoLostWakeup'
    BY <1>14 DEF TypeOK, FlagsOK, LinksOK, EgressDrainStop, AfterDrain, Launch
  <2> QED
    BY <2>1, <2>2, <2>3, <2>4 DEF TypeOK
<1>15. CASE StartReturn
  <2>1. QueuesOK'
    BY <1>15 DEF TypeOK, QueuesOK, StartReturn
  <2>2. FlagsOK'
    BY <1>15 DEF TypeOK, FlagsOK, StartReturn
  <2>3. LinksOK'
    BY <1>15 DEF TypeOK, QueuesOK, FlagsOK, LinksOK, StartReturn
  <2>4. Ended' /\ RingFlushed' /\ NoLostWakeup'
    BY <1>15 DEF TypeOK, FlagsOK, LinksOK, StartReturn
  <2> QED
    BY <2>1, <2>2, <2>3, <2>4 DEF TypeOK
<1> QED
  BY <1>1, <1>2, <1>3, <1>4, <1>5, <1>6, <1>7, <1>8, <1>9, <1>10, <1>11, <1>12, <1>13, <1>14, <1>15 DEF EgressStep

\* What the sender does without waiting keeps the invariant.
LEMMA SenderInv ==
  ASSUME IInv, SenderStep
  PROVE  IInv'
<1>. USE DEF IInv, Ended, RingFlushed, NoLostWakeup, walVars, wakeups, senderVars
<1>0. FlagsOK
  BY DEF TypeOK
<1>1. CASE SenderSignal
  <2>1. QueuesOK'
    BY <1>1 DEF TypeOK, QueuesOK, SenderSignal
  <2>2. FlagsOK'
    <3>1. UNCHANGED <<hasData, feeding, closed, connected, dataToken, done, arrived, ipc, epc, connMu>>
      BY <1>1 DEF SenderSignal
    <3>2. connToken' = TRUE /\ cpc' = "up"
      BY <1>1 DEF SenderSignal
    <3> QED
      BY ONLY <1>0, <3>1, <3>2 DEF FlagsOK
  <2>3. LinksOK'
    BY <1>1 DEF TypeOK, QueuesOK, FlagsOK, LinksOK, SenderSignal
  <2>4. Ended' /\ RingFlushed' /\ NoLostWakeup'
    BY <1>1 DEF TypeOK, FlagsOK, LinksOK, SenderSignal
  <2> QED
    BY <2>1, <2>2, <2>3, <2>4 DEF TypeOK
<1>2. CASE SenderReceive
  <2>1. QueuesOK'
    BY <1>2, TailOf, AppendProperties, BufferAssumption DEF TypeOK, QueuesOK, SenderReceive
  <2>2. FlagsOK'
    BY <1>2, TailOf, AppendProperties, BufferAssumption DEF TypeOK, FlagsOK, SenderReceive
  <2>3. LinksOK'
    BY <1>2, TailOf, AppendProperties, BufferAssumption DEF TypeOK, QueuesOK, FlagsOK, LinksOK, SenderReceive
  <2>4. Ended' /\ RingFlushed' /\ NoLostWakeup'
    BY <1>2, TailOf, AppendProperties, BufferAssumption DEF TypeOK, FlagsOK, LinksOK, SenderReceive
  <2> QED
    BY <2>1, <2>2, <2>3, <2>4 DEF TypeOK
<1>3. CASE SenderReturn
  <2>1. QueuesOK'
    BY <1>3 DEF TypeOK, QueuesOK, SenderReturn
  <2>2. FlagsOK'
    BY <1>3 DEF TypeOK, FlagsOK, SenderReturn
  <2>3. LinksOK'
    BY <1>3 DEF TypeOK, QueuesOK, FlagsOK, LinksOK, SenderReturn
  <2>4. Ended' /\ RingFlushed' /\ NoLostWakeup'
    BY <1>3 DEF TypeOK, FlagsOK, LinksOK, SenderReturn
  <2> QED
    BY <2>1, <2>2, <2>3, <2>4 DEF TypeOK
<1>4. CASE SenderDisconnect
  <2>1. QueuesOK'
    BY <1>4 DEF TypeOK, QueuesOK, SenderDisconnect
  <2>2. FlagsOK'
    <3>1. /\ UNCHANGED <<hasData, feeding, closed, connToken, dataToken, done, arrived, ipc, epc>>
          /\ connMu' = "sender" /\ connected' \in BOOLEAN
      BY <1>4 DEF SenderDisconnect
    <3>2. cpc' \in {"flushLost", "flushRetry"}
      BY <1>4 DEF SenderDisconnect
    <3> QED
      BY ONLY <1>0, <3>1, <3>2 DEF FlagsOK
  <2>3. LinksOK'
    BY <1>4 DEF TypeOK, QueuesOK, FlagsOK, LinksOK, SenderDisconnect
  <2>4. Ended' /\ RingFlushed' /\ NoLostWakeup'
    BY <1>4 DEF TypeOK, FlagsOK, LinksOK, SenderDisconnect
  <2> QED
    BY <2>1, <2>2, <2>3, <2>4 DEF TypeOK
<1>5. CASE SenderFlush
  <2>1. QueuesOK'
    BY <1>5, FlushType DEF TypeOK, QueuesOK, SenderFlush, FlushOne
  <2>2. FlagsOK'
    BY <1>5, FlushType DEF TypeOK, FlagsOK, SenderFlush, FlushOne
  <2>3. LinksOK'
    BY <1>5, FlushType DEF TypeOK, QueuesOK, FlagsOK, LinksOK, SenderFlush, FlushOne
  <2>4. Ended' /\ RingFlushed' /\ NoLostWakeup'
    BY <1>5, FlushType DEF TypeOK, FlagsOK, LinksOK, SenderFlush, FlushOne
  <2> QED
    BY <2>1, <2>2, <2>3, <2>4 DEF TypeOK
<1>6. CASE SenderFlushed
  <2>1. QueuesOK'
    BY <1>6 DEF TypeOK, QueuesOK, SenderFlushed
  <2>2. FlagsOK'
    BY <1>6 DEF TypeOK, FlagsOK, SenderFlushed
  <2>3. LinksOK'
    BY <1>6 DEF TypeOK, QueuesOK, FlagsOK, LinksOK, SenderFlushed
  <2>4. Ended' /\ RingFlushed' /\ NoLostWakeup'
    BY <1>6 DEF TypeOK, FlagsOK, LinksOK, SenderFlushed
  <2> QED
    BY <2>1, <2>2, <2>3, <2>4 DEF TypeOK
<1> QED
  BY <1>1, <1>2, <1>3, <1>4, <1>5, <1>6 DEF SenderStep

\* What the network, the cancellation and the end of the process do.
EnvStep ==
  \/ SenderConnect \/ SenderConnectFails \/ SenderFall \/ SenderExit
  \/ Cancel \/ Terminated

\* The network and the cancellation keep the invariant.
LEMMA EnvInv ==
  ASSUME IInv, EnvStep
  PROVE  IInv'
<1>. USE DEF IInv, Ended, RingFlushed, NoLostWakeup, walVars, wakeups, senderVars
<1>1. CASE SenderConnect
  <2>1. QueuesOK'
    BY <1>1 DEF TypeOK, QueuesOK, SenderConnect
  <2>2. FlagsOK'
    BY <1>1 DEF TypeOK, FlagsOK, SenderConnect
  <2>3. LinksOK'
    BY <1>1 DEF TypeOK, QueuesOK, FlagsOK, LinksOK, SenderConnect
  <2>4. Ended' /\ RingFlushed' /\ NoLostWakeup'
    BY <1>1 DEF TypeOK, FlagsOK, LinksOK, SenderConnect
  <2> QED
    BY <2>1, <2>2, <2>3, <2>4 DEF TypeOK
<1>2. CASE SenderConnectFails
  <2>1. QueuesOK'
    BY <1>2 DEF TypeOK, QueuesOK, SenderConnectFails
  <2>2. FlagsOK'
    BY <1>2 DEF TypeOK, FlagsOK, SenderConnectFails
  <2>3. LinksOK'
    BY <1>2 DEF TypeOK, QueuesOK, FlagsOK, LinksOK, SenderConnectFails
  <2>4. Ended' /\ RingFlushed' /\ NoLostWakeup'
    BY <1>2 DEF TypeOK, FlagsOK, LinksOK, SenderConnectFails
  <2> QED
    BY <2>1, <2>2, <2>3, <2>4 DEF TypeOK
<1>3. CASE SenderFall
  <2>1. QueuesOK'
    BY <1>3 DEF TypeOK, QueuesOK, SenderFall
  <2>2. FlagsOK'
    BY <1>3 DEF TypeOK, FlagsOK, SenderFall
  <2>3. LinksOK'
    BY <1>3 DEF TypeOK, QueuesOK, FlagsOK, LinksOK, SenderFall
  <2>4. Ended' /\ RingFlushed' /\ NoLostWakeup'
    BY <1>3 DEF TypeOK, FlagsOK, LinksOK, SenderFall
  <2> QED
    BY <2>1, <2>2, <2>3, <2>4 DEF TypeOK
<1>4. CASE SenderExit
  <2>1. QueuesOK'
    BY <1>4 DEF TypeOK, QueuesOK, SenderExit
  <2>2. FlagsOK'
    BY <1>4 DEF TypeOK, FlagsOK, SenderExit
  <2>3. LinksOK'
    BY <1>4 DEF TypeOK, QueuesOK, FlagsOK, LinksOK, SenderExit
  <2>4. Ended' /\ RingFlushed' /\ NoLostWakeup'
    BY <1>4 DEF TypeOK, FlagsOK, LinksOK, SenderExit
  <2> QED
    BY <2>1, <2>2, <2>3, <2>4 DEF TypeOK
<1>5. CASE Cancel
  <2>1. QueuesOK'
    BY <1>5 DEF TypeOK, QueuesOK, Cancel
  <2>2. FlagsOK'
    BY <1>5 DEF TypeOK, FlagsOK, Cancel
  <2>3. LinksOK'
    BY <1>5 DEF TypeOK, QueuesOK, FlagsOK, LinksOK, Cancel
  <2>4. Ended' /\ RingFlushed' /\ NoLostWakeup'
    BY <1>5 DEF TypeOK, FlagsOK, LinksOK, Cancel
  <2> QED
    BY <2>1, <2>2, <2>3, <2>4 DEF TypeOK
<1>6. CASE Terminated
  <2>1. QueuesOK'
    BY <1>6 DEF TypeOK, QueuesOK, Terminated, vars
  <2>2. FlagsOK'
    BY <1>6 DEF TypeOK, FlagsOK, Terminated, vars
  <2>3. LinksOK'
    BY <1>6 DEF TypeOK, QueuesOK, FlagsOK, LinksOK, Terminated, vars
  <2>4. Ended' /\ RingFlushed' /\ NoLostWakeup'
    BY <1>6 DEF TypeOK, FlagsOK, LinksOK, Terminated, vars
  <2> QED
    BY <2>1, <2>2, <2>3, <2>4 DEF TypeOK
<1> QED
  BY <1>1, <1>2, <1>3, <1>4, <1>5, <1>6 DEF EnvStep

\* The drain goroutine keeps the invariant: it works on feed and ch alone.
LEMMA FeedInv ==
  ASSUME IInv, FeedStep
  PROVE  IInv'
<1>1. /\ UNCHANGED <<ring, log, hasData, out, closed, connected, connMu, connToken,
                     dataToken, done, arrived, ipc, epc, held, cpc, delivered>>
      /\ feeding
  BY DEF FeedStep, W!FeedPut, W!FeedSkip, W!FeedDone, W!FeedAbort, wakeups, senderVars
<1>2. /\ feed' \in Seq(Points) /\ ch' \in Seq(Points) /\ Len(ch') <= ChCap
      /\ feed' # <<>> => feeding' /\ feed # <<>>
      /\ feeding' \in BOOLEAN
  <2>0. /\ feed \in Seq(Points) /\ ch \in Seq(Points) /\ Len(ch) <= ChCap
        /\ Len(ch) \in Nat /\ Len(feed) \in Nat
        /\ feeding \in BOOLEAN /\ feed # <<>> => feeding
    BY LenProperties DEF IInv, TypeOK, QueuesOK, FlagsOK, LinksOK
  <2>1. CASE W!FeedPut
    BY <2>0, <2>1, TailOf, AppendProperties, BufferAssumption DEF W!FeedPut, BufferAssumption
  <2>2. CASE W!FeedSkip
    <3>1. PICK k \in 1 .. Len(feed) : feed' = SubSeq(feed, k + 1, Len(feed))
      BY <2>2 DEF W!FeedSkip
    <3>2. feed' \in Seq(Points) /\ feed # <<>>
      BY <2>0, <3>1, ThinsSuffix, NoPoints
    <3> QED
      BY <2>0, <2>2, <3>2 DEF W!FeedSkip
  <2>3. CASE W!FeedDone
    BY <2>0, <2>3 DEF W!FeedDone
  <2>4. CASE W!FeedAbort
    BY <2>0, <2>4, NoPoints DEF W!FeedAbort
  <2> QED
    BY <2>1, <2>2, <2>3, <2>4 DEF FeedStep
<1>3. QueuesOK'
  BY <1>1, <1>2 DEF IInv, TypeOK, QueuesOK
<1>4. FlagsOK'
  BY <1>1, <1>2 DEF IInv, TypeOK, FlagsOK
<1>5. LinksOK'
  BY <1>1, <1>2 DEF IInv, TypeOK, LinksOK
<1>6. Ended' /\ RingFlushed' /\ NoLostWakeup'
  BY <1>1 DEF IInv, Ended, RingFlushed, NoLostWakeup
<1> QED
  BY <1>3, <1>4, <1>5, <1>6 DEF IInv, TypeOK

\* The invariant is inductive.
LEMMA InvStep == IInv /\ [Next]_vars => IInv'
<1>. SUFFICES ASSUME IInv, [Next]_vars PROVE IInv'
  OBVIOUS
<1>1. CASE UNCHANGED vars
  BY <1>1 DEF IInv, TypeOK, QueuesOK, FlagsOK, LinksOK, Ended, RingFlushed, NoLostWakeup,
              vars, walVars, wakeups, senderVars
<1> QED
  BY <1>1, IngressInv, EgressInv, SenderInv, FeedInv, EnvInv DEF Next, EnvStep

\* What every reachable state satisfies.
LEMMA InvHolds == Spec => []IInv
BY InvInit, InvStep, PTL DEF Spec

-----------------------------------------------------------------------------
(* The theorems on the control *)

\* The types of the manager's state, and the facts that tie its program
\* counters together, hold in every reachable state.
THEOREM BufferTypeCorrect == Spec => []TypeOK
<1>1. IInv => TypeOK
  BY DEF IInv
<1> QED
  BY <1>1, InvHolds, PTL

\* While the sender is disconnected and no flush runs, the ring is empty
\* (buffer.go:20-23): whatever is buffered then is in the log, where a crash
\* does not reach it.
THEOREM BufferRingFlushed == Spec => []RingFlushed
<1>1. IInv => RingFlushed
  BY DEF IInv
<1> QED
  BY <1>1, InvHolds, PTL

\* No wake-up is lost (buffer.go:87-92, 189-193): egress never sleeps beside
\* data or a connection without a token that will wake it.
THEOREM BufferNoLostWakeup == Spec => []NoLostWakeup
<1>1. IInv => NoLostWakeup
  BY DEF IInv
<1> QED
  BY <1>1, InvHolds, PTL

\* Nothing is sent on the output channel after Start has closed it
\* (buffer.go:133-134): the goroutines that send are gone by then.
THEOREM BufferNoSendOnClosed == Spec => NoSendOnClosed
<1>1. IInv /\ [Next]_vars => [closed => Len(out') <= Len(out)]_vars
  <2>. SUFFICES ASSUME IInv, Next, closed PROVE Len(out') <= Len(out)
    BY DEF vars
  <2>1. epc = "stopped" /\ Len(out) \in Nat
    BY LenProperties DEF IInv, Ended, TypeOK, QueuesOK
  <2>2. CASE SenderReceive
    BY <2>1, <2>2, TailOf DEF SenderReceive, IInv, TypeOK, QueuesOK
  <2>3. CASE ~SenderReceive
    <3>1. out' = out
      BY <2>1, <2>3 DEF Next, IngressStep, EgressStep, FeedStep, SenderStep,
         IngressReceive, IngressWrite, IngressPush, IngressFull, IngressFlush,
         IngressFlushed, IngressNotify, IngressStop, Boot, EgressCheck, EgressAwake,
         EgressTakeLog, EgressTakeRing, EgressTakeNone, EgressSend, EgressWoken,
         EgressStop, EgressDrain, EgressReceive, EgressEmit, EgressDrained,
         EgressDrainStop, StartReturn, SenderSignal, SenderReturn,
         SenderDisconnect, SenderFlush, SenderFlushed, SenderConnect,
         SenderConnectFails, SenderFall, SenderExit, Cancel, Terminated, vars
    <3> QED
      BY <2>1, <3>1
  <2> QED
    BY <2>2, <2>3
<1> QED
  BY <1>1, InvHolds, PTL DEF Spec, NoSendOnClosed

-----------------------------------------------------------------------------
(* The order of the points.  Pipeline is the row of all the places a point  *)
(* can be in between the input and the sender.  A step either leaves the    *)
(* row as it is, or puts the next number behind it, or takes elements out   *)
(* of it (StepKinds), and takes them out only if the disk may fail or the   *)
(* context is cancelled.                                                    *)

-----------------------------------------------------------------------------
(* Increasing sequences *)

\* What is left of an increasing sequence of numbers up to n is one too.
LEMMA ThinsIncreasing ==
  ASSUME NEW n \in Nat, NEW t \in Seq(1 .. n), NEW S, NEW u \in Seq(S),
         Increasing(t), Thins(u, t)
  PROVE  u \in Seq(1 .. n) /\ Increasing(u)
<1>1. PICK f : Embeds(f, u, t)
  BY DEF Thins
<1>2. Len(u) \in Nat /\ DOMAIN u = 1 .. Len(u) /\ DOMAIN t = 1 .. Len(t) /\ Len(t) \in Nat
  BY LenProperties
<1>3. \A i \in 1 .. Len(u) : f[i] \in 1 .. Len(t) /\ u[i] = t[f[i]]
  BY <1>1 DEF Embeds
<1>4. \A i \in 1 .. Len(u) : u[i] \in 1 .. n
  BY <1>3, ElementOfSeq
<1>5. u \in Seq(1 .. n)
  <2>1. u = [i \in 1 .. Len(u) |-> u[i]]
    BY LenProperties
  <2>2. u \in [1 .. Len(u) -> 1 .. n]
    BY <1>4, <2>1
  <2> QED
    BY <1>2, <2>2, SeqDef
<1>6. ASSUME NEW i \in DOMAIN u, NEW j \in DOMAIN u, i < j
      PROVE  u[i] < u[j]
  BY <1>1, <1>2, <1>3, <1>6 DEF Embeds, Increasing
<1> QED
  BY <1>5, <1>6 DEF Increasing

\* The next number goes behind an increasing sequence.
LEMMA IncreasingNext ==
  ASSUME NEW n \in Nat, NEW t \in Seq(1 .. n), Increasing(t)
  PROVE  t \o <<n + 1>> \in Seq(1 .. n + 1) /\ Increasing(t \o <<n + 1>>)
<1>0. PICK T : T = 1 .. n + 1
  OBVIOUS
<1>1. PICK e \in Seq(T) : e = <<n + 1>> /\ Len(e) = 1 /\ e[1] = n + 1
  <2>1. n + 1 \in T
    BY <1>0
  <2>2. <<n + 1>> \in Seq(T) /\ Len(<<n + 1>>) = 1 /\ <<n + 1>>[1] = n + 1
    BY <2>1
  <2> QED
    BY <2>2
<1>2. t \in Seq(T)
  <2>1. 1 .. n \subseteq T
    BY <1>0
  <2> QED
    BY <2>1, SeqMonotonic
<1>3. /\ t \o e \in Seq(T) /\ Len(t \o e) = Len(t) + 1
      /\ \A i \in 1 .. Len(t) + 1 : (t \o e)[i] = IF i <= Len(t) THEN t[i] ELSE e[i - Len(t)]
  BY <1>1, <1>2, ConcatProperties
<1>4. Len(t) \in Nat /\ DOMAIN t = 1 .. Len(t) /\ DOMAIN (t \o e) = 1 .. Len(t) + 1
  BY <1>3, LenProperties
<1>5. \A i \in 1 .. Len(t) : t[i] \in 1 .. n
  BY ElementOfSeq
<1>6. ASSUME NEW i \in 1 .. Len(t) + 1, NEW j \in 1 .. Len(t) + 1, i < j
      PROVE  (t \o e)[i] < (t \o e)[j]
  <2>1. i \in 1 .. Len(t) /\ (t \o e)[i] = t[i]
    BY <1>3, <1>4, <1>6
  <2>2. CASE j <= Len(t)
    <3>1. (t \o e)[j] = t[j] /\ j \in 1 .. Len(t)
      BY <1>3, <1>4, <2>2
    <3> QED
      BY <1>4, <1>6, <2>1, <3>1 DEF Increasing
  <2>3. CASE j = Len(t) + 1
    <3>1. (t \o e)[j] = n + 1
      BY <1>1, <1>3, <1>4, <2>3
    <3> QED
      BY <1>5, <2>1, <3>1
  <2> QED
    BY <1>4, <2>2, <2>3
<1> QED
  BY <1>0, <1>1, <1>3, <1>4, <1>6 DEF Increasing

\* The numbers up to n, and the next one behind them, are the numbers up to
\* n + 1.
LEMMA NumbersNext ==
  ASSUME NEW n \in Nat
  PROVE  [i \in 1 .. n |-> i] \o <<n + 1>> = [i \in 1 .. n + 1 |-> i]
<1>. DEFINE s == [i \in 1 .. n |-> i]
            t == [i \in 1 .. n + 1 |-> i]
<1>1. s \in Seq(Nat) /\ t \in Seq(Nat) /\ Len(s) = n /\ Len(t) = n + 1
  OBVIOUS
<1>2. PICK e \in Seq(Nat) : e = <<n + 1>> /\ Len(e) = 1 /\ e[1] = n + 1
  <2>1. <<n + 1>> \in Seq(Nat) /\ Len(<<n + 1>>) = 1 /\ <<n + 1>>[1] = n + 1
    OBVIOUS
  <2> QED
    BY <2>1
<1>3. /\ s \o e \in Seq(Nat) /\ Len(s \o e) = n + 1
      /\ \A i \in 1 .. n + 1 : (s \o e)[i] = IF i <= n THEN s[i] ELSE e[i - n]
  BY <1>1, <1>2, ConcatProperties
<1>4. \A i \in 1 .. n + 1 : (s \o e)[i] = t[i]
  BY <1>2, <1>3
<1>. HIDE DEF s, t
<1>5. s \o e = t
  BY <1>1, <1>3, <1>4, SeqEqual
<1> QED
  BY <1>2, <1>5 DEF s, t

-----------------------------------------------------------------------------
(* Rows of queues *)

\* An empty queue in a row does not show.
LEMMA ThenNothing ==
  ASSUME NEW S, NEW s \in Seq(S)
  PROVE  Then(<<>>, s) = s /\ Then(s, <<>>) = s
BY ConcatEmptySeq DEF Then

\* A write of the points q to a log that is l before it loses its first
\* points and m after; y follows.
LEMMA WriteFits ==
  ASSUME NEW S, NEW l \in Seq(S), NEW m \in Seq(S), NEW q \in Seq(S), NEW y \in Seq(S),
         NEW a, a = Then(m, q), NEW x, x = Then(q, y),
         Thins(Then(m, x), Then(l, x))
  PROVE  /\ Then(a, y) = Then(m, x)
         /\ Thins(Then(a, y), Then(l, x))
         /\ Thins(Then(m, y), Then(l, x))
<1>1. Then(a, y) = Then(m, x)
  BY ThenThen
<1>2. x \in Seq(S)
  BY ThenIn
<1>3. Thins(y, x)
  BY ThinsFront
<1>4. Thins(Then(m, y), Then(m, x))
  BY <1>2, <1>3, ThinsBehind
<1>5. Then(m, y) \in Seq(S) /\ Then(m, x) \in Seq(S) /\ Then(l, x) \in Seq(S)
  BY <1>2, ThenIn
<1>6. Thins(Then(m, y), Then(l, x))
  BY <1>4, <1>5, ThinsTwice
<1> QED
  BY <1>1, <1>6

\* A write to a log l that is followed by the point p to be written and by y:
\* the log may lose its first k points, and the point be refused.
LEMMA WriteMoves ==
  ASSUME NEW S, NEW l \in Seq(S), NEW p \in S, NEW y \in Seq(S), NEW k \in 0 .. Len(l)
  PROVE  LET m == SubSeq(l, k + 1, Len(l))
             x == Then(<<p>>, y)
         IN  /\ m \in Seq(S)
             /\ Thins(Then(Append(m, p), y), Then(l, x))
             /\ Thins(Then(m, y), Then(l, x))
             /\ k = 0 => Then(Append(m, p), y) = Then(l, x)
<1>. DEFINE m == SubSeq(l, k + 1, Len(l))
            q == <<p>>
            x == Then(q, y)
<1>1. q \in Seq(S)
  OBVIOUS
<1>2. x \in Seq(S)
  <2>. HIDE DEF q
  <2> QED
    BY <1>1, ThenIn
<1>3. m \in Seq(S) /\ Thins(Then(m, x), Then(l, x))
  <2>. HIDE DEF x
  <2> QED
    BY <1>2, ThinsSuffix
<1>4. k = 0 => m = l
  BY SubSeqFull
<1>5. Append(m, p) = Then(m, q)
  BY <1>3, AppendIsConcat DEF Then
<1>6. /\ Then(Append(m, p), y) = Then(m, x)
      /\ Thins(Then(Append(m, p), y), Then(l, x))
      /\ Thins(Then(m, y), Then(l, x))
  <2>1. x = Then(q, y)
    OBVIOUS
  <2>. HIDE DEF m, q, x
  <2> QED
    BY <1>1, <1>3, <1>5, <2>1, WriteFits
<1> QED
  <2>. HIDE DEF m
  <2> QED
    BY <1>3, <1>4, <1>6 DEF m

-----------------------------------------------------------------------------
(* The row of the manager's queues *)

\* The definitions of the row, and of the row after a step, in terms of Then.
LEMMA Rows ==
  /\ FromRing = Then(ring, Pending) /\ FromRing' = Then(ring', Pending')
  /\ FromLog = Then(log, FromRing) /\ FromLog' = Then(log', FromRing')
  /\ FromFeed = Then(feed, FromLog) /\ FromFeed' = Then(feed', FromLog')
  /\ FromCh = Then(ch, FromFeed) /\ FromCh' = Then(ch', FromFeed')
  /\ FromHeld = Then(held, FromCh) /\ FromHeld' = Then(held', FromCh')
  /\ FromOut = Then(out, FromHeld) /\ FromOut' = Then(out', FromHeld')
  /\ Pipeline = Then(delivered, FromOut) /\ Pipeline' = Then(delivered', FromOut')
BY DEF FromRing, FromLog, FromFeed, FromCh, FromHeld, FromOut, Pipeline, Then

\* The queues, and the row seen from each of them, are sequences of points.
RowsOK ==
  /\ ring \in Seq(Points) /\ log \in Seq(Points) /\ feed \in Seq(Points)
  /\ ch \in Seq(Points) /\ held \in Seq(Points) /\ out \in Seq(Points)
  /\ delivered \in Seq(Points)
  /\ Pending \in Seq(Points) /\ FromRing \in Seq(Points) /\ FromLog \in Seq(Points)
  /\ FromFeed \in Seq(Points) /\ FromCh \in Seq(Points) /\ FromHeld \in Seq(Points)
  /\ FromOut \in Seq(Points) /\ Pipeline \in Seq(Points)

\* Every part of the pipeline, read from any place down to the ring, is a row of points.
LEMMA RowsType == TypeOK => RowsOK
<1>. SUFFICES ASSUME TypeOK PROVE RowsOK
  OBVIOUS
<1>1. /\ ring \in Seq(Points) /\ log \in Seq(Points) /\ feed \in Seq(Points)
      /\ ch \in Seq(Points) /\ held \in Seq(Points) /\ out \in Seq(Points)
      /\ delivered \in Seq(Points)
  BY DEF TypeOK, QueuesOK
<1>2. Pending \in Seq(Points)
  BY ArrivedIsPoint, OnePoint, NoPoints DEF Pending
<1>3. FromRing \in Seq(Points)
  BY <1>1, <1>2, ThenIn, Rows
<1>4. FromLog \in Seq(Points)
  BY <1>1, <1>3, ThenIn, Rows
<1>5. FromFeed \in Seq(Points)
  BY <1>1, <1>4, ThenIn, Rows
<1>6. FromCh \in Seq(Points)
  BY <1>1, <1>5, ThenIn, Rows
<1>7. FromHeld \in Seq(Points)
  BY <1>1, <1>6, ThenIn, Rows
<1>8. FromOut \in Seq(Points)
  BY <1>1, <1>7, ThenIn, Rows
<1>9. Pipeline \in Seq(Points)
  BY <1>1, <1>8, ThenIn, Rows
<1> QED
  BY <1>1, <1>2, <1>3, <1>4, <1>5, <1>6, <1>7, <1>8, <1>9 DEF RowsOK

\* The same after a step.
LEMMA RowsTypeNext == TypeOK' => RowsOK'
BY RowsType, PTL

\* What happens to the row behind the output channel happens to the whole row.
LEMMA UpFromOut ==
  ASSUME RowsOK, RowsOK', delivered' = delivered, Thins(FromOut', FromOut)
  PROVE  /\ Thins(Pipeline', Pipeline)
         /\ FromOut' = FromOut => Pipeline' = Pipeline
<1>1. delivered \in Seq(Points) /\ FromOut \in Seq(Points) /\ FromOut' \in Seq(Points)
  BY DEF RowsOK
<1>2. Thins(Then(delivered, FromOut'), Then(delivered, FromOut))
  BY <1>1, ThinsBehind
<1> QED
  BY <1>2, Rows

\* The same from the drain's hand ...
LEMMA UpFromHeld ==
  ASSUME RowsOK, RowsOK', delivered' = delivered, out' = out, Thins(FromHeld', FromHeld)
  PROVE  /\ Thins(Pipeline', Pipeline)
         /\ FromHeld' = FromHeld => Pipeline' = Pipeline
<1>1. out \in Seq(Points) /\ FromHeld \in Seq(Points) /\ FromHeld' \in Seq(Points)
  BY DEF RowsOK
<1>2. Thins(Then(out, FromHeld'), Then(out, FromHeld))
  BY <1>1, ThinsBehind
<1>3. Thins(FromOut', FromOut) /\ (FromHeld' = FromHeld => FromOut' = FromOut)
  BY <1>2, Rows
<1> QED
  BY <1>3, UpFromOut

\* ... from the recovery channel ...
LEMMA UpFromCh ==
  ASSUME RowsOK, RowsOK', delivered' = delivered, out' = out, held' = held,
         Thins(FromCh', FromCh)
  PROVE  /\ Thins(Pipeline', Pipeline)
         /\ FromCh' = FromCh => Pipeline' = Pipeline
<1>1. held \in Seq(Points) /\ FromCh \in Seq(Points) /\ FromCh' \in Seq(Points)
  BY DEF RowsOK
<1>2. Thins(Then(held, FromCh'), Then(held, FromCh))
  BY <1>1, ThinsBehind
<1>3. Thins(FromHeld', FromHeld) /\ (FromCh' = FromCh => FromHeld' = FromHeld)
  BY <1>2, Rows
<1> QED
  BY <1>3, UpFromHeld

\* ... from the points the drain has still to read ...
LEMMA UpFromFeed ==
  ASSUME RowsOK, RowsOK', delivered' = delivered, out' = out, held' = held, ch' = ch,
         Thins(FromFeed', FromFeed)
  PROVE  /\ Thins(Pipeline', Pipeline)
         /\ FromFeed' = FromFeed => Pipeline' = Pipeline
<1>1. ch \in Seq(Points) /\ FromFeed \in Seq(Points) /\ FromFeed' \in Seq(Points)
  BY DEF RowsOK
<1>2. Thins(Then(ch, FromFeed'), Then(ch, FromFeed))
  BY <1>1, ThinsBehind
<1>3. Thins(FromCh', FromCh) /\ (FromFeed' = FromFeed => FromCh' = FromCh)
  BY <1>2, Rows
<1> QED
  BY <1>3, UpFromCh

\* ... and from the log.
LEMMA UpFromLog ==
  ASSUME RowsOK, RowsOK', delivered' = delivered, out' = out, held' = held, ch' = ch,
         feed' = feed, Thins(FromLog', FromLog)
  PROVE  /\ Thins(Pipeline', Pipeline)
         /\ FromLog' = FromLog => Pipeline' = Pipeline
<1>1. feed \in Seq(Points) /\ FromLog \in Seq(Points) /\ FromLog' \in Seq(Points)
  BY DEF RowsOK
<1>2. Thins(Then(feed, FromLog'), Then(feed, FromLog))
  BY <1>1, ThinsBehind
<1>3. Thins(FromFeed', FromFeed) /\ (FromLog' = FromLog => FromFeed' = FromFeed)
  BY <1>2, Rows
<1> QED
  BY <1>3, UpFromFeed

-----------------------------------------------------------------------------
(* What a step does to the row *)

Same == arrived' = arrived /\ Pipeline' = Pipeline

Came ==
  /\ arrived' = arrived + 1
  /\ Pipeline' = Pipeline \o <<arrived + 1>>

Lost ==
  /\ arrived' = arrived
  /\ Thins(Pipeline', Pipeline)
  /\ Lossy \/ done

Kinds == Same \/ Came \/ Lost

\* A write of p to the log, when p comes just behind the log and FromRing' just
\* behind p.
LEMMA WriteKind ==
  ASSUME IInv, RowsOK, RowsOK', NEW p \in Points, WalWrite(p),
         FromRing = Then(<<p>>, FromRing'), arrived' = arrived,
         delivered' = delivered, out' = out, held' = held
  PROVE  Kinds
<1>1. PICK k \in 0 .. Len(log) :
        W!LogStore(p, k) \/ ((Lossy \/ closed) /\ W!LogRefuse(k))
  BY DEF WalWrite, W!LogWrite
<1>2. /\ log \in Seq(Points) /\ FromRing' \in Seq(Points) /\ Len(log) \in Nat
  BY LenProperties DEF RowsOK
<1>. DEFINE m == SubSeq(log, k + 1, Len(log))
            y == FromRing'
<1>3. /\ Thins(Then(Append(m, p), y), Then(log, Then(<<p>>, y)))
      /\ Thins(Then(m, y), Then(log, Then(<<p>>, y)))
      /\ k = 0 => Then(Append(m, p), y) = Then(log, Then(<<p>>, y))
  <2>. HIDE DEF y
  <2> QED
    BY <1>2, WriteMoves DEF y
<1>4. /\ FromLog = Then(log, Then(<<p>>, y))
      /\ FromLog' = Then(log', y)
  BY Rows
<1>5. CASE W!LogStore(p, k)
  <2>1. /\ log' = Append(m, p) /\ feed' = feed /\ ch' = ch
        /\ k > 0 => Lossy
    BY <1>5 DEF W!LogStore, W!Without
  <2>. HIDE DEF m, y
  <2>2. /\ Thins(FromLog', FromLog)
        /\ k = 0 => FromLog' = FromLog
    BY <1>3, <1>4, <2>1
  <2>3. /\ Thins(Pipeline', Pipeline)
        /\ k = 0 => Pipeline' = Pipeline
    BY <2>1, <2>2, UpFromLog
  <2> QED
    BY <1>1, <1>2, <2>1, <2>3 DEF Kinds, Same, Lost
<1>6. CASE (Lossy \/ closed) /\ W!LogRefuse(k)
  <2>1. /\ log' = m /\ feed' = feed /\ ch' = ch
    BY <1>6 DEF W!LogRefuse, W!Without
  <2>2. Lossy \/ done
    BY <1>6 DEF IInv, Ended
  <2>. HIDE DEF m, y
  <2>3. Thins(FromLog', FromLog)
    BY <1>3, <1>4, <2>1
  <2>4. Thins(Pipeline', Pipeline)
    BY <2>1, <2>3, UpFromLog
  <2> QED
    BY <2>2, <2>4 DEF Kinds, Lost
<1> QED
  BY <1>1, <1>5, <1>6

\* A step that moves no point.
LEMMA QuietKind ==
  ASSUME RowsOK,
         UNCHANGED <<arrived, ring, log, feed, ch, held, out, delivered>>,
         Pending' = Pending
  PROVE  Kinds
<1>1. FromRing' = FromRing
  BY Rows
<1>2. FromLog' = FromLog
  BY <1>1, Rows
<1>3. FromFeed' = FromFeed
  BY <1>2, Rows
<1>4. FromCh' = FromCh
  BY <1>3, Rows
<1>5. FromHeld' = FromHeld
  BY <1>4, Rows
<1>6. FromOut' = FromOut
  BY <1>5, Rows
<1>7. Pipeline' = Pipeline
  BY <1>6, Rows
<1> QED
  BY <1>7 DEF Kinds, Same

\* Points put behind the ring are put behind the whole row.
LEMMA RowLonger ==
  ASSUME RowsOK, NEW e \in Seq(Points), FromRing' = Then(FromRing, e),
         UNCHANGED <<log, feed, ch, held, out, delivered>>
  PROVE  Pipeline' = Then(Pipeline, e)
<1>0. /\ log \in Seq(Points) /\ feed \in Seq(Points) /\ ch \in Seq(Points)
      /\ held \in Seq(Points) /\ out \in Seq(Points) /\ delivered \in Seq(Points)
      /\ FromRing \in Seq(Points) /\ FromLog \in Seq(Points) /\ FromFeed \in Seq(Points)
      /\ FromCh \in Seq(Points) /\ FromHeld \in Seq(Points) /\ FromOut \in Seq(Points)
      /\ e \in Seq(Points)
  BY DEF RowsOK
<1>1. FromLog' = Then(FromLog, e)
  <2>1. Then(Then(log, FromRing), e) = Then(log, Then(FromRing, e))
    BY ONLY <1>0, ThenThen
  <2> QED
    BY <2>1, Rows
<1>2. FromFeed' = Then(FromFeed, e)
  <2>1. Then(Then(feed, FromLog), e) = Then(feed, Then(FromLog, e))
    BY ONLY <1>0, ThenThen
  <2> QED
    BY <1>1, <2>1, Rows
<1>3. FromCh' = Then(FromCh, e)
  <2>1. Then(Then(ch, FromFeed), e) = Then(ch, Then(FromFeed, e))
    BY ONLY <1>0, ThenThen
  <2> QED
    BY <1>2, <2>1, Rows
<1>4. FromHeld' = Then(FromHeld, e)
  <2>1. Then(Then(held, FromCh), e) = Then(held, Then(FromCh, e))
    BY ONLY <1>0, ThenThen
  <2> QED
    BY <1>3, <2>1, Rows
<1>5. FromOut' = Then(FromOut, e)
  <2>1. Then(Then(out, FromHeld), e) = Then(out, Then(FromHeld, e))
    BY ONLY <1>0, ThenThen
  <2> QED
    BY <1>4, <2>1, Rows
<1>6. Pipeline' = Then(Pipeline, e)
  <2>1. Then(Then(delivered, FromOut), e) = Then(delivered, Then(FromOut, e))
    BY ONLY <1>0, ThenThen
  <2> QED
    BY <1>5, <2>1, Rows
<1> QED
  BY <1>6

\* A point that arrives is last in the row.
LEMMA ReceiveKind ==
  ASSUME TypeOK, RowsOK, IngressReceive
  PROVE  Kinds
<1>1. /\ UNCHANGED <<ring, log, feed, ch, held, out, delivered>>
      /\ arrived' = arrived + 1 /\ Pending = <<>> /\ Pending' = <<arrived + 1>>
      /\ arrived + 1 \in Points
  <2>1. arrived + 1 \in Points
    BY BufferAssumption DEF IngressReceive, TypeOK, FlagsOK, Points, BufferAssumption
  <2> QED
    BY <2>1 DEF IngressReceive, Pending, walVars, senderVars
<1>2. PICK e \in Seq(Points) : e = <<arrived + 1>>
  BY <1>1, OnePoint
<1>3. FromRing' = Then(FromRing, e)
  <2>1. Then(ring, <<>>) = ring
    BY ThenNothing DEF RowsOK
  <2> QED
    BY <1>1, <1>2, <2>1, Rows
<1>4. Pipeline' = Then(Pipeline, e)
  BY <1>1, <1>3, RowLonger
<1> QED
  BY <1>1, <1>2, <1>4 DEF Kinds, Came, Then

\* A turn of a flush moves the first point of the ring to the log.
LEMMA FlushKind ==
  ASSUME IInv, RowsOK, RowsOK', FlushOne, Pending' = Pending,
         UNCHANGED <<arrived, held, out, delivered>>
  PROVE  Kinds
<1>1. ring # <<>> /\ WalWrite(Head(ring)) /\ ring' = Tail(ring)
  BY DEF FlushOne
<1>2. Head(ring) \in Points
  BY <1>1, HeadInFront DEF RowsOK
<1>3. FromRing = Then(<<Head(ring)>>, FromRing')
  <2>1. ring \in Seq(Points) /\ Pending \in Seq(Points)
    BY DEF RowsOK
  <2>2. Then(ring, Pending) = Then(<<Head(ring)>>, Then(Tail(ring), Pending))
    BY <1>1, <2>1, HeadOut
  <2> QED
    BY <1>1, <2>2, Rows
<1> QED
  BY <1>1, <1>2, <1>3, WriteKind

\* The other steps of ingress move the point it holds to the ring, or points to
\* the log.
LEMMA IngressKind ==
  ASSUME IInv, RowsOK, RowsOK', IngressStep
  PROVE  Kinds
<1>0. TypeOK /\ RingFlushed /\ Ended
  BY DEF IInv
<1>1. CASE IngressReceive
  BY <1>0, <1>1, ReceiveKind
<1>2. ASSUME WalWrite(arrived), ring = <<>>, ring' = ring, ipc \in {"lock", "flush"},
             ipc' = "notify", arrived' = arrived, delivered' = delivered,
             out' = out, held' = held
      PROVE  Kinds
  <2>1. /\ Pending = <<arrived>> /\ Pending' = <<>>
        /\ arrived \in Points
    BY <1>0, <1>2, ArrivedIsPoint DEF Pending
  <2>2. FromRing' = <<>> /\ FromRing = <<arrived>>
    <3>1. Then(<<>>, <<>>) = <<>> /\ Then(<<>>, <<arrived>>) = <<arrived>>
      BY <2>1, ThenNothing, NoPoints, OnePoint
    <3> QED
      BY <1>2, <2>1, <3>1, Rows
  <2>3. FromRing = Then(<<arrived>>, FromRing')
    BY <2>1, <2>2, ThenNothing, OnePoint
  <2> QED
    BY <1>2, <2>1, <2>3, WriteKind
<1>3. CASE IngressWrite
  BY <1>0, <1>2, <1>3 DEF IngressWrite, RingFlushed, senderVars
<1>4. CASE IngressFlushed
  BY <1>2, <1>4 DEF IngressFlushed, senderVars
<1>5. CASE IngressPush
  <2>1. /\ ring' = Append(ring, arrived) /\ Pending = <<arrived>> /\ Pending' = <<>>
        /\ UNCHANGED <<arrived, log, feed, ch, held, out, delivered>>
    BY <1>5 DEF IngressPush, Pending, walVars, senderVars
  <2>2. arrived \in Points
    BY <1>0, <1>5, ArrivedIsPoint DEF IngressPush
  <2>3. ring' = Then(ring, <<arrived>>)
    BY <2>1, <2>2, AppendIsConcat DEF RowsOK, Then
  <2>4. ring' \in Seq(Points)
    BY DEF RowsOK
  <2>5. Then(ring', <<>>) = ring'
    BY <2>4, ThenNothing
  <2>6. FromRing' = FromRing
    BY <2>1, <2>3, <2>5, Rows
  <2>7. FromLog' = FromLog
    BY <2>1, <2>6, Rows
  <2>8. Pipeline' = Pipeline
    BY <2>1, <2>7, ThinsSame, UpFromLog DEF RowsOK
  <2> QED
    BY <2>1, <2>8 DEF Kinds, Same
<1>6. CASE IngressFlush
  <2>1. FlushOne /\ Pending' = Pending /\ UNCHANGED <<arrived, held, out, delivered>>
    BY <1>6 DEF IngressFlush, Pending, senderVars
  <2> QED
    BY <2>1, FlushKind
<1>7. CASE IngressFull \/ IngressNotify \/ IngressStop
  <2>1. UNCHANGED <<arrived, ring, log, feed, ch, held, out, delivered>>
    BY <1>7 DEF IngressFull, IngressNotify, IngressStop, walVars, senderVars
  <2>2. Pending' = Pending
    BY <1>7 DEF IngressFull, IngressNotify, IngressStop, Pending
  <2> QED
    BY <2>1, <2>2, QuietKind
<1> QED
  BY <1>1, <1>3, <1>4, <1>5, <1>6, <1>7 DEF IngressStep

\* Egress takes the first point of the ring, with nothing in front of it.
LEMMA TakeRingKind ==
  ASSUME IInv, RowsOK, RowsOK', EgressTakeRing
  PROVE  Kinds
<1>1. /\ log = <<>> /\ feed = <<>> /\ ch = <<>> /\ held = <<>>
      /\ UNCHANGED <<arrived, log, feed, ch, out, delivered>> /\ Pending' = Pending
      /\ ring # <<>> /\ held' = <<Head(ring)>> /\ ring' = Tail(ring)
  BY DEF IInv, TypeOK, LinksOK, EgressTakeRing, walVars, senderVars, Pending
<1>2. FromRing \in Seq(Points) /\ FromRing' \in Seq(Points)
  BY DEF RowsOK
<1>3. FromHeld = FromRing
  BY <1>1, <1>2, ThenNothing, Rows
<1>4. FromHeld' = Then(<<Head(ring)>>, FromRing')
  BY <1>1, <1>2, ThenNothing, Rows
<1>5. FromRing = Then(<<Head(ring)>>, FromRing')
  <2>1. ring \in Seq(Points) /\ Pending \in Seq(Points)
    BY DEF RowsOK
  <2>2. Then(ring, Pending) = Then(<<Head(ring)>>, Then(Tail(ring), Pending))
    BY <1>1, <2>1, HeadOut
  <2> QED
    BY <1>1, <2>2, Rows
<1>6. FromHeld' = FromHeld
  BY <1>3, <1>4, <1>5
<1>7. Pipeline' = Pipeline
  BY <1>1, <1>6, ThinsSame, UpFromHeld DEF RowsOK
<1> QED
  BY <1>1, <1>7 DEF Kinds, Same

\* The point egress holds goes to the output channel.
LEMMA EmitKind ==
  ASSUME RowsOK, RowsOK', out' = out \o held, held' = <<>>, Pending' = Pending,
         UNCHANGED <<arrived, ring, log, feed, ch, delivered>>
  PROVE  Kinds
<1>1. FromCh' = FromCh
  <2>1. FromRing' = FromRing
    BY Rows
  <2>2. FromLog' = FromLog
    BY <2>1, Rows
  <2>3. FromFeed' = FromFeed
    BY <2>2, Rows
  <2> QED
    BY <2>3, Rows
<1>2. FromHeld' = FromCh
  BY <1>1, ThenNothing, Rows DEF RowsOK
<1>3. out' = Then(out, held)
  BY DEF Then
<1>4. Then(Then(out, held), FromCh) = Then(out, Then(held, FromCh))
  <2>1. out \in Seq(Points) /\ held \in Seq(Points) /\ FromCh \in Seq(Points)
    BY DEF RowsOK
  <2> QED
    BY ONLY <2>1, ThenThen
<1>5. FromOut' = FromOut
  BY <1>2, <1>3, <1>4, Rows
<1>6. Pipeline' = Pipeline
  BY <1>5, ThinsSame, UpFromOut DEF RowsOK
<1> QED
  BY <1>6 DEF Kinds, Same

\* Cancelled, egress drops the point it holds.
LEMMA DropHeldKind ==
  ASSUME RowsOK, RowsOK', done, held' = <<>>, FromCh' = FromCh,
         UNCHANGED <<arrived, out, delivered>>
  PROVE  Kinds
<1>1. FromHeld' = FromCh
  BY ThenNothing, Rows DEF RowsOK
<1>2. Thins(FromCh, Then(held, FromCh))
  BY ThinsFront DEF RowsOK
<1>3. Thins(FromHeld', FromHeld)
  BY <1>1, <1>2, Rows
<1>4. Thins(Pipeline', Pipeline)
  BY <1>3, UpFromHeld
<1> QED
  BY <1>4 DEF Kinds, Lost

\* Cancelled in a drain, egress drops the point it holds and the whole drain.
LEMMA DropDrainKind ==
  ASSUME RowsOK, RowsOK', done, held' = <<>>, ch' = <<>>, feed' = <<>>,
         FromLog' = FromLog, UNCHANGED <<arrived, out, delivered>>
  PROVE  Kinds
<1>1. FromLog' \in Seq(Points) /\ FromFeed' \in Seq(Points) /\ FromCh' \in Seq(Points)
  BY DEF RowsOK
<1>2. FromHeld' = FromLog
  BY <1>1, ThenNothing, Rows
<1>3. Thins(FromLog, FromFeed)
  <2>1. Thins(FromLog, Then(feed, FromLog))
    BY ThinsFront DEF RowsOK
  <2> QED
    BY <2>1, Rows
<1>4. Thins(FromFeed, FromCh)
  <2>1. Thins(FromFeed, Then(ch, FromFeed))
    BY ThinsFront DEF RowsOK
  <2> QED
    BY <2>1, Rows
<1>5. Thins(FromCh, FromHeld)
  <2>1. Thins(FromCh, Then(held, FromCh))
    BY ThinsFront DEF RowsOK
  <2> QED
    BY <2>1, Rows
<1>6. Thins(FromLog, FromCh)
  BY <1>3, <1>4, ThinsTwice DEF RowsOK
<1>7. Thins(FromLog, FromHeld)
  BY <1>5, <1>6, ThinsTwice DEF RowsOK
<1>8. Thins(Pipeline', Pipeline)
  BY <1>2, <1>7, UpFromHeld
<1> QED
  BY <1>8 DEF Kinds, Lost

\* A drain takes the log.
LEMMA DrainKind ==
  ASSUME RowsOK, RowsOK', feed = <<>>, feed' = log, log' = <<>>, Pending' = Pending,
         UNCHANGED <<arrived, ring, ch, held, out, delivered>>
  PROVE  Kinds
<1>1. FromRing' = FromRing
  BY Rows
<1>2. FromLog' = FromRing
  BY <1>1, ThenNothing, Rows DEF RowsOK
<1>3. FromFeed' = FromLog
  BY <1>2, Rows
<1>4. FromFeed = FromLog
  BY ThenNothing, Rows DEF RowsOK
<1>5. Pipeline' = Pipeline
  BY <1>3, <1>4, ThinsSame, UpFromFeed DEF RowsOK
<1> QED
  BY <1>5 DEF Kinds, Same

\* Egress receives from the drain channel.
LEMMA ChReceiveKind ==
  ASSUME RowsOK, RowsOK', held = <<>>, ch # <<>>, held' = <<Head(ch)>>, ch' = Tail(ch),
         FromFeed' = FromFeed, UNCHANGED <<arrived, out, delivered>>
  PROVE  Kinds
<1>1. FromCh = Then(<<Head(ch)>>, FromCh')
  <2>1. ch \in Seq(Points) /\ FromFeed \in Seq(Points)
    BY DEF RowsOK
  <2>2. Then(ch, FromFeed) = Then(<<Head(ch)>>, Then(Tail(ch), FromFeed))
    BY <2>1, HeadOut
  <2> QED
    BY <2>2, Rows
<1>2. FromHeld = FromCh
  BY ThenNothing, Rows DEF RowsOK
<1>3. FromHeld' = FromHeld
  BY <1>1, <1>2, Rows
<1>4. Pipeline' = Pipeline
  BY <1>3, ThinsSame, UpFromHeld DEF RowsOK
<1> QED
  BY <1>4 DEF Kinds, Same

\* The steps of egress, and of Start around it.
LEMMA EgressKind ==
  ASSUME IInv, RowsOK, RowsOK', EgressStep
  PROVE  Kinds
<1>0. TypeOK /\ Ended
  BY DEF IInv
<1>. USE DEF walVars, wakeups, senderVars
<1>1. CASE EgressTakeRing
  BY <1>1, TakeRingKind
<1>2. CASE EgressSend \/ EgressEmit
  <2>1. /\ out' = out \o held /\ held' = <<>>
        /\ UNCHANGED <<arrived, ring, log, feed, ch, delivered>> /\ Pending' = Pending
    BY <1>2 DEF EgressSend, EgressEmit, Pending
  <2> QED
    BY <2>1, EmitKind
<1>3. CASE EgressStop
  <2>1. /\ done /\ held' = <<>> /\ Pending' = Pending
        /\ UNCHANGED <<arrived, ring, log, feed, ch, out, delivered>>
    BY <1>3 DEF EgressStop, Pending
  <2>2. FromLog' = FromLog
    BY <2>1 DEF FromLog, FromRing
  <2>3. FromCh' = FromCh
    BY <2>1, <2>2 DEF FromCh, FromFeed
  <2> QED
    BY <2>1, <2>3, DropHeldKind
<1>4. CASE EgressDrainStop
  <2>1. /\ done /\ held' = <<>> /\ ch' = <<>> /\ feed' = <<>>
        /\ UNCHANGED <<arrived, ring, log, out, delivered>>
    BY <1>4 DEF EgressDrainStop
  <2>2. Pending' = Pending
    BY <1>4 DEF EgressDrainStop, AfterDrain, Launch, Pending
  <2>3. FromLog' = FromLog
    BY <2>1, <2>2 DEF FromLog, FromRing
  <2> QED
    BY <2>1, <2>3, DropDrainKind
<1>5. CASE EgressDrain
  <2>1. feed = <<>>
    BY <1>0, <1>5 DEF EgressDrain, W!LogDrain, TypeOK, LinksOK
  <2>2. /\ feed' = log /\ log' = <<>> /\ Pending' = Pending
        /\ UNCHANGED <<arrived, ring, ch, held, out, delivered>>
    BY <1>5 DEF EgressDrain, W!LogDrain, Pending
  <2> QED
    BY <2>1, <2>2, DrainKind
<1>6. CASE EgressReceive
  <2>1. held = <<>>
    BY <1>0, <1>6 DEF EgressReceive, TypeOK, LinksOK
  <2>2. /\ ch # <<>> /\ held' = <<Head(ch)>> /\ ch' = Tail(ch) /\ Pending' = Pending
        /\ UNCHANGED <<arrived, ring, log, feed, out, delivered>>
    BY <1>6 DEF EgressReceive, W!ChReceive, Pending
  <2>3. FromFeed' = FromFeed
    BY <2>2 DEF FromFeed, FromLog, FromRing
  <2> QED
    BY <2>1, <2>2, <2>3, ChReceiveKind
<1>7. CASE \/ Boot \/ EgressCheck \/ EgressAwake \/ EgressTakeLog \/ EgressTakeNone
           \/ EgressWoken \/ EgressDrained \/ StartReturn
  <2>1. UNCHANGED <<arrived, ring, log, feed, ch, held, out, delivered>>
    BY <1>7 DEF Boot, EgressCheck, EgressAwake, EgressTakeLog, EgressTakeNone,
                EgressWoken, EgressDrained, StartReturn
  <2>2. Pending' = Pending
    BY <1>0, <1>7 DEF Boot, EgressCheck, EgressAwake, EgressTakeLog, EgressTakeNone,
                EgressWoken, EgressDrained, StartReturn, AfterDrain, Launch, Ended, Pending
  <2> QED
    BY <2>1, <2>2, QuietKind
<1> QED
  BY <1>1, <1>2, <1>3, <1>4, <1>5, <1>6, <1>7 DEF EgressStep

\* The steps of the drain goroutine.
LEMMA FeedKind ==
  ASSUME IInv, RowsOK, RowsOK', FeedStep
  PROVE  Kinds
<1>1. /\ UNCHANGED <<arrived, ring, log, held, out, delivered>>
      /\ Pending' = Pending
  BY DEF FeedStep, W!FeedPut, W!FeedSkip, W!FeedDone, W!FeedAbort, senderVars, Pending
<1>2. FromLog' = FromLog
  BY <1>1 DEF FromLog, FromRing
<1>3. feed \in Seq(Points) /\ ch \in Seq(Points) /\ FromLog \in Seq(Points)
  BY DEF RowsOK
<1>4. CASE W!FeedPut
  <2>1. feed # <<>> /\ ch' = Append(ch, Head(feed)) /\ feed' = Tail(feed)
    BY <1>4 DEF W!FeedPut
  <2>2. Then(Append(ch, Head(feed)), Then(Tail(feed), FromLog)) = Then(ch, Then(feed, FromLog))
    BY <1>3, <2>1, MoveHead
  <2>3. FromCh' = FromCh
    BY <1>2, <2>1, <2>2, Rows
  <2>4. Pipeline' = Pipeline
    BY <1>1, <2>3, ThinsSame, UpFromCh DEF RowsOK
  <2> QED
    BY <1>1, <2>4 DEF Kinds, Same
<1>5. CASE W!FeedSkip
  <2>1. PICK k \in 1 .. Len(feed) : feed' = SubSeq(feed, k + 1, Len(feed))
    BY <1>5 DEF W!FeedSkip
  <2>2. k \in 0 .. Len(feed)
    BY <1>3, <2>1, LenProperties
  <2>3. Thins(Then(SubSeq(feed, k + 1, Len(feed)), FromLog), Then(feed, FromLog))
    BY <1>3, <2>2, ThinsSuffix
  <2>4. Thins(FromFeed', FromFeed)
    BY <1>2, <2>1, <2>3, Rows
  <2>5. ch' = ch /\ Lossy
    BY <1>5 DEF W!FeedSkip
  <2>6. Thins(Pipeline', Pipeline)
    BY <1>1, <2>4, <2>5, UpFromFeed
  <2> QED
    BY <1>1, <2>5, <2>6 DEF Kinds, Lost
<1>6. CASE W!FeedDone
  <2>1. UNCHANGED <<arrived, ring, log, feed, ch, held, out, delivered>>
    BY <1>1, <1>6 DEF W!FeedDone
  <2> QED
    BY <1>1, <2>1, QuietKind
<1>7. CASE (done \/ Lossy) /\ W!FeedAbort
  <2>1. feed' = <<>> /\ ch' = ch
    BY <1>7 DEF W!FeedAbort
  <2>2. FromFeed' = FromLog
    BY <1>2, <1>3, <2>1, ThenNothing, Rows
  <2>3. Thins(FromLog, Then(feed, FromLog))
    BY <1>3, ThinsFront
  <2>4. Thins(FromFeed', FromFeed)
    BY <2>2, <2>3, Rows
  <2>5. Thins(Pipeline', Pipeline)
    BY <1>1, <2>1, <2>4, UpFromFeed
  <2> QED
    BY <1>1, <1>7, <2>5 DEF Kinds, Lost
<1> QED
  BY <1>4, <1>5, <1>6, <1>7 DEF FeedStep

\* The steps of the sender's connection loop.
LEMMA SenderKind ==
  ASSUME IInv, RowsOK, RowsOK', SenderStep \/ EnvStep
  PROVE  Kinds
<1>1. CASE SenderReceive
  <2>1. /\ out # <<>> /\ delivered' = Append(delivered, Head(out)) /\ out' = Tail(out)
        /\ Pending' = Pending /\ UNCHANGED <<arrived, ring, log, feed, ch, held>>
    BY <1>1 DEF SenderReceive, walVars, Pending
  <2>2. FromLog' = FromLog
    BY <2>1 DEF FromLog, FromRing
  <2>3. FromHeld' = FromHeld
    BY <2>1, <2>2 DEF FromHeld, FromCh, FromFeed
  <2>4. out \in Seq(Points) /\ delivered \in Seq(Points) /\ FromHeld \in Seq(Points)
    BY DEF RowsOK
  <2>5. Then(Append(delivered, Head(out)), Then(Tail(out), FromHeld))
          = Then(delivered, Then(out, FromHeld))
    BY <2>1, <2>4, MoveHead
  <2>6. Pipeline' = Pipeline
    BY <2>1, <2>3, <2>5, Rows
  <2> QED
    BY <2>1, <2>6 DEF Kinds, Same
<1>2. CASE SenderFlush
  <2>1. FlushOne /\ Pending' = Pending /\ UNCHANGED <<arrived, held, out, delivered>>
    BY <1>2 DEF SenderFlush, senderVars, Pending
  <2> QED
    BY <2>1, FlushKind
<1>3. CASE \/ SenderSignal \/ SenderReturn \/ SenderDisconnect \/ SenderFlushed
           \/ EnvStep
  <2>1. /\ UNCHANGED <<arrived, ring, log, feed, ch, held, out, delivered>>
        /\ UNCHANGED ipc
    BY <1>3 DEF SenderSignal, SenderReturn, SenderDisconnect, SenderFlushed, EnvStep,
                SenderConnect, SenderConnectFails, SenderFall, SenderExit, Cancel,
                Terminated, vars, walVars, senderVars
  <2>2. Pending' = Pending
    BY <2>1 DEF Pending
  <2> QED
    BY <2>1, <2>2, QuietKind
<1> QED
  BY <1>1, <1>2, <1>3 DEF SenderStep

\* Every step leaves the row of the points as it is, or puts the next number
\* behind it, or takes points out of it.
LEMMA StepKinds ==
  ASSUME IInv, IInv', [Next]_vars
  PROVE  Kinds
<1>1. RowsOK /\ RowsOK'
  <2>1. RowsOK
    BY RowsType DEF IInv
  <2>2. RowsOK'
    BY RowsTypeNext DEF IInv
  <2> QED
    BY <2>1, <2>2
<1>2. CASE UNCHANGED vars
  <2>1. /\ UNCHANGED <<arrived, ring, log, feed, ch, held, out, delivered>>
        /\ Pending' = Pending
    BY <1>2 DEF vars, walVars, senderVars, Pending
  <2> QED
    BY <1>1, <2>1, QuietKind
<1>3. CASE IngressStep
  BY <1>1, <1>3, IngressKind
<1>4. CASE EgressStep
  BY <1>1, <1>4, EgressKind
<1>5. CASE FeedStep
  BY <1>1, <1>5, FeedKind
<1>6. CASE SenderStep \/ EnvStep
  BY <1>1, <1>6, SenderKind
<1> QED
  BY <1>2, <1>3, <1>4, <1>5, <1>6 DEF Next, EnvStep

-----------------------------------------------------------------------------
(* The theorems on the order *)

\* The row holds numbers of points that have arrived, in increasing order, and
\* all of them unless the disk may fail or the context is cancelled.
OrderInv ==
  /\ arrived \in Nat
  /\ Pipeline \in Seq(1 .. arrived)
  /\ InOrder
  /\ NothingLost

\* The initial states: the points an earlier run left in the log.
LEMMA OrderInit == Init => OrderInv
<1>. SUFFICES ASSUME Init PROVE OrderInv
  OBVIOUS
<1>1. PICK n \in 0 .. MaxLeft : log = [i \in 1 .. n |-> i] /\ arrived = n
  BY DEF Init
<1>2. n \in Nat
  BY <1>1, BufferAssumption DEF BufferAssumption
<1>3. TypeOK /\ RowsOK
  BY InvInit, RowsType DEF IInv
<1>4. /\ ring = <<>> /\ feed = <<>> /\ ch = <<>> /\ held = <<>> /\ out = <<>>
      /\ delivered = <<>> /\ Pending = <<>>
  BY DEF Init, Pending
<1>5. FromRing = <<>>
  BY <1>4, NoPoints, ThenNothing, Rows
<1>6. FromLog = log
  BY <1>3, <1>5, ThenNothing, Rows DEF RowsOK
<1>7. FromFeed = log /\ FromCh = log
  BY <1>3, <1>4, <1>6, ThenNothing, Rows DEF RowsOK
<1>8. FromHeld = log /\ FromOut = log
  BY <1>3, <1>4, <1>7, ThenNothing, Rows DEF RowsOK
<1>9. Pipeline = [i \in 1 .. n |-> i]
  BY <1>1, <1>3, <1>4, <1>8, ThenNothing, Rows DEF RowsOK
<1>10. Pipeline \in Seq(1 .. n) /\ Increasing(Pipeline)
  <2>1. [i \in 1 .. n |-> i] \in [1 .. n -> 1 .. n]
    OBVIOUS
  <2>2. Pipeline \in Seq(1 .. n)
    BY <1>2, <1>9, <2>1, SeqDef
  <2> QED
    BY <1>9, <2>2 DEF Increasing
<1> QED
  BY <1>1, <1>2, <1>9, <1>10 DEF OrderInv, InOrder, NothingLost

\* Every kind of step keeps the order, and the next number fits behind it.
LEMMA OrderStep == IInv /\ IInv' /\ OrderInv /\ [Next]_vars => OrderInv'
<1>. SUFFICES ASSUME IInv, IInv', OrderInv, [Next]_vars PROVE OrderInv'
  OBVIOUS
<1>1. /\ arrived \in Nat /\ Pipeline \in Seq(1 .. arrived) /\ Increasing(Pipeline)
      /\ ~Lossy /\ ~done => Pipeline = [i \in 1 .. arrived |-> i]
  BY DEF OrderInv, InOrder, NothingLost
<1>2. done => done'
  BY DEF Next, IngressStep, EgressStep, FeedStep, SenderStep,
     IngressReceive, IngressWrite, IngressPush, IngressFull, IngressFlush,
     IngressFlushed, IngressNotify, IngressStop, Boot, EgressCheck, EgressAwake,
     EgressTakeLog, EgressTakeRing, EgressTakeNone, EgressSend, EgressWoken,
     EgressStop, EgressDrain, EgressReceive, EgressEmit, EgressDrained,
     EgressDrainStop, StartReturn, SenderSignal, SenderReceive, SenderReturn,
     SenderDisconnect, SenderFlush, SenderFlushed, SenderConnect,
     SenderConnectFails, SenderFall, SenderExit, Cancel, Terminated, vars
<1>3. CASE Same
  BY <1>1, <1>2, <1>3 DEF Same, OrderInv, InOrder, NothingLost, Increasing
<1>4. CASE Came
  <2>1. arrived' = arrived + 1 /\ Pipeline' = Pipeline \o <<arrived + 1>>
    BY <1>4 DEF Came
  <2>2. Pipeline' \in Seq(1 .. arrived') /\ Increasing(Pipeline')
    BY <1>1, <2>1, IncreasingNext
  <2>3. ~Lossy /\ ~done' => Pipeline' = [i \in 1 .. arrived' |-> i]
    BY <1>1, <1>2, <2>1, NumbersNext
  <2>4. InOrder'
    BY <2>2 DEF InOrder, Increasing
  <2>5. NothingLost'
    BY <2>3 DEF NothingLost
  <2>6. arrived' \in Nat
    BY <1>1, <2>1
  <2> QED
    BY <2>2, <2>4, <2>5, <2>6 DEF OrderInv
<1>5. CASE Lost
  <2>1. Pipeline' \in Seq(Points)
    BY RowsTypeNext DEF IInv, RowsOK
  <2>2. Pipeline' \in Seq(1 .. arrived) /\ Increasing(Pipeline')
    BY <1>1, <1>5, <2>1, ThinsIncreasing DEF Lost
  <2> QED
    BY <1>1, <1>2, <1>5, <2>2 DEF Lost, OrderInv, InOrder, NothingLost, Increasing
<1> QED
  BY <1>3, <1>4, <1>5, StepKinds DEF Kinds

\* The order invariant holds in every reachable state.
LEMMA OrderHolds == Spec => []OrderInv
<1>1. Spec => [](IInv /\ OrderInv)
  <2>1. Init => IInv /\ OrderInv
    BY InvInit, OrderInit
  <2>2. (IInv /\ OrderInv) /\ [Next]_vars => (IInv /\ OrderInv)'
    BY InvStep, OrderStep
  <2> QED
    BY <2>1, <2>2, PTL DEF Spec
<1> QED
  BY <1>1, PTL

\* Points reach the sender first in, first out, and never twice, through every
\* interleaving of disconnects, ring overflows, drains and disk failures
\* (buffer.go:20-23, 215-217).
THEOREM BufferInOrder == Spec => []InOrder
<1>1. OrderInv => InOrder
  BY DEF OrderInv
<1> QED
  BY <1>1, OrderHolds, PTL

\* On a disk that does not fail and within the size limit, no point is lost
\* before the context is cancelled (buffer.go:4-5).
THEOREM BufferNothingLost == Spec => []NothingLost
<1>1. OrderInv => NothingLost
  BY DEF OrderInv
<1> QED
  BY <1>1, OrderHolds, PTL
=============================================================================
