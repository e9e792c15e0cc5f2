-------------------------------- MODULE WAL --------------------------------
(***************************************************************************)
(* internal/buffer/wal.go and segment.go: the segmented write-ahead log.   *)
(* Write and Drain hold w.mu, but a crash or a kill can fall between the    *)
(* steps of a Write, so a Write is split at its system calls; nothing else  *)
(* takes w.mu meanwhile (phase # "idle").  The drain goroutine holds no     *)
(* lock and interleaves with everything.                                    *)
(*                                                                         *)
(* A record is RecSize units long and a torn one (a partial append) 1 unit. *)
(* Points are numbered in the order they are written.                      *)
(***************************************************************************)
EXTENDS Integers, Sequences, SequencesExt, FiniteSets

CONSTANTS MaxPoints,   \* bound: how many points are written in a behaviour
          MaxStarts,   \* bound: how many times the process starts
          RecSize,     \* size of an encoded record
          SegMax,      \* defaultSegMaxSize
          MaxTotal,    \* w.maxTotal
          ChCap,       \* capacity of the drain channel
          Faults       \* which system calls may fail

FaultKinds == {"create", "close", "append", "sync", "stat", "remove", "open", "rot"}

ASSUME WALAssumption ==
  /\ MaxPoints \in Nat /\ MaxStarts \in Nat \ {0}
  /\ RecSize \in Nat \ {0, 1} /\ SegMax \in Nat \ {0} /\ MaxTotal \in Nat
  /\ ChCap \in Nat \ {0}
  /\ Faults \subseteq FaultKinds

VARIABLES files,       \* the .seg files on disk: sequence number -> records
          segments,    \* w.segments, as sequence numbers, oldest first
          active,      \* w.active: a sequence number, or NoSeg
          usable,      \* is the file handle of w.active open?
          totalSz,     \* w.totalSz
          nextSeq,     \* w.nextSeq
          phase,       \* where the Write in progress is; "idle" when w.mu is free
          drainSegs,   \* segments the drain goroutine has not finished
          pos,         \* next record of the first of them
          draining,    \* is the drain goroutine running?
          ch,          \* contents of its channel
          run,         \* "run", "cancel" once the context is done, "closed" after Close
          next,        \* number of the last point written
          starts,      \* how many times the process has started
          acked,       \* history: points whose Write returned nil
          pruned,      \* history: points deleted by the size limit
          skipped,     \* history: points of the records a drain has jumped over
          emitted,     \* history: what each start of the process put on drain channels
          unstated     \* history: units of totalSz that pruned segments left behind

writer  == <<segments, active, usable, totalSz, nextSeq>>
drainer == <<drainSegs, pos, draining, ch>>
history == <<acked, pruned, skipped, emitted, unstated>>
vars    == <<files, segments, active, usable, totalSz, nextSeq, phase, drainSegs,
             pos, draining, ch, run, next, starts, acked, pruned, skipped, emitted,
             unstated>>

NoSeg == -1

\* A record holds a point and is whole, torn by a partial append, or rotten
\* (its checksum no longer matches).
Record(p, state) == [point |-> p, state |-> state]
SizeOf(r) == IF r.state = "torn" THEN 1 ELSE RecSize

\* The units the segments S of the log fs are long, each under its record's
\* place, and how many they are.
UnitsOf(fs, s, i) == {<<s, i>>} \X (1 .. SizeOf(fs[s][i]))
UnitsIn(fs, S) == UNION {UNION {UnitsOf(fs, s, i) : i \in DOMAIN fs[s]} : s \in S}
SizeIn(fs, S) == Cardinality(UnitsIn(fs, S))
FileSize(s) == SizeIn(files, {s})
SizeOfAll(segs) == SizeIn(files, ToSet(segs))

\* The points a record sequence, or the segments in S, hold completely.
StoredPoints(recs) == {recs[i].point : i \in {j \in DOMAIN recs : recs[j].state # "torn"}}
StoredIn(S) == UNION {StoredPoints(files[s]) : s \in S}

Increasing(q) == \A i, j \in DOMAIN q : i < j => q[i] < q[j]

\* A set of numbers as a list, the least first.
ByNumber(S) == CHOOSE q \in [1 .. Cardinality(S) -> S] : Increasing(q)

WithoutFile(s) == [t \in DOMAIN files \ {s} |-> files[t]]

-----------------------------------------------------------------------------
(* NewWAL, wal.go:42-90: the segments left by earlier runs are listed in the *)
(* order of their numbers and the next number is beyond all of them.  That a  *)
(* file listed by ReadDir has an Info (wal.go:64) is assumed: a segment       *)
(* without one would be left out of the list and of the next number.          *)

Sorted(kept) == ByNumber(DOMAIN kept)

NewWAL(kept) ==
  /\ files' = kept
  /\ segments' = Sorted(kept)
  /\ totalSz' = SizeIn(kept, DOMAIN kept) /\ unstated' = 0
  /\ nextSeq' = Max(DOMAIN kept \cup {NoSeg}) + 1
  /\ active' = NoSeg /\ usable' = FALSE
  /\ phase' = "idle"
  /\ drainSegs' = <<>> /\ pos' = 1 /\ draining' = FALSE /\ ch' = <<>>
  /\ run' = "run"

Init ==
  /\ files = <<>> /\ segments = <<>>
  /\ active = NoSeg /\ usable = FALSE
  /\ totalSz = 0 /\ nextSeq = 0
  /\ phase = "idle"
  /\ drainSegs = <<>> /\ pos = 1 /\ draining = FALSE /\ ch = <<>>
  /\ run = "run"
  /\ next = 0 /\ starts = 1
  /\ acked = {} /\ pruned = {} /\ skipped = {} /\ unstated = 0
  /\ emitted = [s \in 1 .. MaxStarts |-> <<>>]

-----------------------------------------------------------------------------
(* Write, wal.go:95-141.  The point being written is number next. *)

WriteBegin ==
  /\ phase = "idle" /\ next < MaxPoints
  /\ next' = next + 1
  /\ phase' = "prune"
  /\ UNCHANGED <<files, writer, drainer, run, starts, history>>

\* The write returns an error.
Refuse ==
  /\ phase' = "idle"
  /\ UNCHANGED <<drainer, run, next, starts, history>>

\* Mutants: the active segment may be pruned too; the limit is noticed after
\* the write that passes it.
OverLimitAnySegment == totalSz + RecSize > MaxTotal /\ segments # <<>>
OverLimitLate == totalSz > MaxTotal /\ segments # <<>> /\ Head(segments) # active

OverLimit ==
  /\ totalSz + RecSize > MaxTotal
  /\ segments # <<>> /\ Head(segments) # active

\* The size limit deletes the oldest segment, wal.go:105-121.  A file whose size
\* cannot be read leaves the total as it is, and one that cannot be removed is
\* forgotten all the same.
PruneOldest ==
  /\ phase = "prune" /\ OverLimit
  /\ LET oldest == Head(segments) IN
       /\ segments' = Tail(segments)
       /\ pruned' = pruned \cup StoredPoints(files[oldest])
       /\ \/ totalSz' = totalSz - FileSize(oldest) /\ UNCHANGED unstated
          \/ /\ "stat" \in Faults
             /\ unstated' = unstated + FileSize(oldest) /\ UNCHANGED totalSz
       /\ \/ files' = WithoutFile(oldest)
          \/ "remove" \in Faults /\ UNCHANGED files
  /\ UNCHANGED <<active, usable, nextSeq, phase, drainer, run, next, starts,
                 acked, skipped, emitted>>

NeedsRotation == active # NoSeg => FileSize(active) >= SegMax
Rotating == phase = "prune" /\ ~OverLimit /\ NeedsRotation

\* rotateSegmentLocked, wal.go:262-284.  A handle that is already closed can
\* be neither synced nor closed again.
Rotate ==
  /\ Rotating
  /\ active = NoSeg \/ usable
  /\ files' = [s \in DOMAIN files \cup {nextSeq} |-> IF s = nextSeq THEN <<>> ELSE files[s]]
  /\ segments' = Append(segments, nextSeq)
  /\ active' = nextSeq /\ usable' = TRUE
  /\ nextSeq' = nextSeq + 1
  /\ phase' = "append"
  /\ UNCHANGED <<totalSz, drainer, run, next, starts, history>>

RotateSyncFails ==
  /\ Rotating
  /\ active # NoSeg
  /\ ~usable \/ "sync" \in Faults
  /\ Refuse
  /\ UNCHANGED <<files, writer>>

RotateCloseFails ==
  /\ Rotating
  /\ active # NoSeg /\ usable /\ "close" \in Faults
  /\ usable' = FALSE
  /\ Refuse
  /\ UNCHANGED <<files, segments, active, totalSz, nextSeq>>

\* The number is used up, and the old segment, closed, stays w.active.
RotateCreateFails ==
  /\ Rotating
  /\ active = NoSeg \/ usable
  /\ "create" \in Faults
  /\ usable' = FALSE
  /\ nextSeq' = nextSeq + 1
  /\ Refuse
  /\ UNCHANGED <<files, segments, active, totalSz>>

Appending ==
  \/ phase = "append"
  \/ phase = "prune" /\ ~OverLimit /\ ~NeedsRotation

AppendRecord(state) == files' = [files EXCEPT ![active] = Append(@, Record(next, state))]

AppendWhole ==
  /\ Appending /\ usable
  /\ AppendRecord("whole")
  /\ phase' = "sync"
  /\ UNCHANGED <<writer, drainer, run, next, starts, history>>

AppendFails ==
  /\ Appending
  /\ \/ ~usable /\ UNCHANGED files
     \/ /\ usable /\ "append" \in Faults
        /\ UNCHANGED files \/ AppendRecord("torn")
  /\ Refuse
  /\ UNCHANGED writer

SyncFails ==
  /\ phase = "sync" /\ "sync" \in Faults
  /\ Refuse
  /\ UNCHANGED <<files, writer>>

SyncOK ==
  /\ phase = "sync"
  /\ totalSz' = totalSz + RecSize
  /\ phase' = "idle"
  /\ acked' = acked \cup {next}
  /\ UNCHANGED <<files, segments, active, usable, nextSeq, drainer, run, next,
                 starts, pruned, skipped, emitted, unstated>>

-----------------------------------------------------------------------------
(* Drain, wal.go:147-183, and its goroutine, wal.go:169-221. *)

HasData == segments # <<>> \/ (active # NoSeg /\ FileSize(active) > 0)

\* The segments a drain takes; mutants: the newest first; not the active one.
TakenReversed == Reverse(segments)
TakenButLast == IF segments = <<>> THEN <<>> ELSE Front(segments)
Taken == segments

\* The manager drains only what HasData announced, one drain at a time.
Drain ==
  /\ phase = "idle" /\ HasData /\ run # "closed"
  /\ ~draining /\ ch = <<>>
  /\ drainSegs' = Taken /\ pos' = 1 /\ draining' = TRUE
  /\ segments' = <<>> /\ totalSz' = 0 /\ unstated' = 0
  /\ active' = NoSeg /\ usable' = FALSE
  /\ UNCHANGED <<files, nextSeq, phase, ch, run, next, starts, acked, pruned,
                 skipped, emitted>>

Draining == draining /\ drainSegs # <<>>
Reading == files[Head(drainSegs)]
AtRecord(state) == Draining /\ pos <= Len(Reading) /\ Reading[pos].state = state

DrainPut ==
  /\ AtRecord("whole") /\ Len(ch) < ChCap
  /\ ch' = Append(ch, Reading[pos].point)
  /\ emitted' = [emitted EXCEPT ![starts] = Append(@, Reading[pos].point)]
  /\ pos' = pos + 1
  /\ UNCHANGED <<files, writer, phase, drainSegs, draining, run, next, starts,
                 acked, pruned, skipped, unstated>>

JumpTo(to) ==
  /\ pos' = to
  /\ skipped' = skipped \cup {Reading[i].point : i \in {j \in DOMAIN Reading : pos <= j /\ j < to}}
  /\ UNCHANGED <<files, writer, phase, drainSegs, draining, ch, run, next, starts,
                 acked, pruned, emitted, unstated>>

\* A checksum that does not match loses its record; a rotten length loses the
\* place in the segment too, or gives the segment up (wal.go:203-212).
DrainSkipRotten ==
  /\ AtRecord("rotten")
  /\ \E to \in (pos + 1) .. (Len(Reading) + 1) : JumpTo(to)

\* A torn record is as long as its header says, so reading it swallows the
\* bytes of the record behind it; from there the reader is out of step until
\* it happens on a record boundary again, or gives the segment up.
DrainSkipTorn ==
  /\ AtRecord("torn")
  /\ \E to \in (pos + 2) .. (Len(Reading) + 2) : JumpTo(to)

\* The end of a segment: the file is deleted (or cannot be), the next begins.
DrainNextSegment ==
  /\ Draining /\ pos > Len(Reading)
  /\ \/ files' = WithoutFile(Head(drainSegs))
     \/ "remove" \in Faults /\ UNCHANGED files
  /\ drainSegs' = Tail(drainSegs) /\ pos' = 1
  /\ UNCHANGED <<writer, phase, draining, ch, run, next, starts, history>>

\* Mutant: the goroutine leaves its channel open.
DrainDoneOpen ==
  /\ draining /\ drainSegs = <<>>
  /\ UNCHANGED vars

DrainDone ==
  /\ draining /\ drainSegs = <<>>
  /\ draining' = FALSE
  /\ UNCHANGED <<files, writer, phase, drainSegs, pos, ch, run, next, starts, history>>

\* Mutant: an aborted drain deletes the segment it was reading.
DrainAbortRemoves ==
  /\ Draining
  /\ \/ run # "run" /\ AtRecord("whole")
     \/ "open" \in Faults /\ pos = 1
  /\ files' = WithoutFile(Head(drainSegs))
  /\ draining' = FALSE /\ drainSegs' = <<>> /\ pos' = 1
  /\ UNCHANGED <<writer, phase, ch, run, next, starts, history>>

\* An open error or a cancelled context ends the drain: the segment being read
\* and the ones behind it stay on disk, owned by nobody until the next start.
DrainAbort ==
  /\ Draining
  /\ \/ run # "run" /\ AtRecord("whole")
     \/ "open" \in Faults /\ pos = 1
  /\ draining' = FALSE /\ drainSegs' = <<>> /\ pos' = 1
  /\ UNCHANGED <<files, writer, phase, ch, run, next, starts, history>>

Receive ==
  /\ ch # <<>>
  /\ ch' = Tail(ch)
  /\ UNCHANGED <<files, writer, phase, drainSegs, pos, draining, run, next, starts, history>>

-----------------------------------------------------------------------------
(* The end of a run, and the next one. *)

Cancel ==
  /\ run = "run"
  /\ run' = "cancel"
  /\ UNCHANGED <<files, writer, phase, drainer, next, starts, history>>

\* Close, wal.go:231-242: w.active stays set, its handle is closed unless it
\* cannot be synced.
Close ==
  /\ run = "cancel" /\ phase = "idle"
  /\ run' = "closed"
  /\ \/ usable' = FALSE
     \/ "sync" \in Faults /\ UNCHANGED usable
  /\ UNCHANGED <<files, segments, active, totalSz, nextSeq, phase, drainer, next, starts, history>>

\* A bit of a record on disk rots.
Rot ==
  /\ "rot" \in Faults
  /\ \E s \in DOMAIN files : \E i \in DOMAIN files[s] :
       /\ files[s][i].state = "whole"
       /\ files' = [files EXCEPT ![s][i].state = "rotten"]
  /\ UNCHANGED <<writer, phase, drainer, run, next, starts, history>>

\* What a kill between append and sync may leave of the last record.
AfterKill ==
  {files} \cup
  IF phase # "sync" THEN {}
  ELSE LET recs == files[active] IN
       { [files EXCEPT ![active] = Front(recs)],
         [files EXCEPT ![active] = Append(Front(recs), Record(next, "torn"))] }

\* The process dies, or has stopped, and starts again.
Restart ==
  /\ starts < MaxStarts
  /\ starts' = starts + 1
  /\ \E kept \in AfterKill : NewWAL(kept)
  /\ UNCHANGED <<next, acked, pruned, skipped, emitted>>

WriteStep ==
  \/ PruneOldest
  \/ Rotate \/ RotateSyncFails \/ RotateCloseFails \/ RotateCreateFails
  \/ AppendWhole \/ AppendFails
  \/ SyncOK \/ SyncFails

DrainStep ==
  \/ DrainPut \/ DrainSkipRotten \/ DrainSkipTorn
  \/ DrainNextSegment \/ DrainDone \/ DrainAbort

\* A run that was closed with nothing left to do is over.
Over ==
  /\ run = "closed" /\ starts = MaxStarts /\ phase = "idle" /\ next = MaxPoints
  /\ UNCHANGED vars

Next ==
  \/ WriteBegin \/ WriteStep \/ Drain \/ DrainStep \/ Receive
  \/ Cancel \/ Close \/ Rot \/ Restart \/ Over

Spec == Init /\ [][Next]_vars

\* The drain goroutine is scheduled.  Nothing is asked of the manager: it may stop
\* receiving for as long as the sender is down, or for good (buffer.go:258-265).
FairSpec == Spec /\ WF_vars(DrainStep)

-----------------------------------------------------------------------------
(* Properties *)

Records == [point : 1 .. MaxPoints, state : {"whole", "torn", "rotten"}]

\* Type correctness of the log's state.
TypeOK ==
  /\ DOMAIN files \subseteq 0 .. nextSeq - 1
  /\ \A s \in DOMAIN files : files[s] \in Seq(Records)
  /\ ToSet(segments) \subseteq DOMAIN files
  /\ ToSet(drainSegs) \subseteq DOMAIN files
  /\ active \in DOMAIN files \cup {NoSeg}
  /\ usable \in BOOLEAN /\ draining \in BOOLEAN
  /\ totalSz \in Int /\ unstated \in Nat /\ nextSeq \in Nat /\ pos \in Nat \ {0}
  /\ phase \in {"idle", "prune", "append", "sync"}
  /\ run \in {"run", "cancel", "closed"}
  /\ Len(ch) <= ChCap
  /\ next \in 0 .. MaxPoints /\ starts \in 1 .. MaxStarts
  /\ acked \cup pruned \cup skipped \subseteq 1 .. MaxPoints

\* The active segment is the newest one listed and its file exists: the size
\* limit never deletes the file being written (wal.go:107-109), and a drain
\* never shares a segment with the writer (wal.go:151-166).
ActiveIsNewest ==
  /\ active # NoSeg => segments # <<>> /\ Last(segments) = active
  /\ Increasing(drainSegs \o segments)

\* A point whose Write returned nil is in a file on disk, or was handed to the
\* manager, or was given up to the size limit or to a record the drain could not
\* read, at every moment and after any number of kills, restarts, cancelled
\* drains and failed system calls.
Durable ==
  \A p \in acked :
    \/ \E s \in DOMAIN files : Record(p, "whole") \in ToSet(files[s])
    \/ \E s \in DOMAIN files : Record(p, "rotten") \in ToSet(files[s])
    \/ \E n \in 1 .. MaxStarts : p \in ToSet(emitted[n])
    \/ p \in pruned \cup skipped

\* Each run of the process hands points over in the order they were written and
\* none twice, whatever was left on disk by the runs before it (wal.go:81-86, 169).
DrainOrdered == \A n \in 1 .. MaxStarts : Increasing(emitted[n])

\* On a healthy disk the running total is the size of the listed segments
\* whenever no write is in progress, whatever was rotated, pruned or drained
\* (wal.go:111, 137, 165).
SizeAccounted == phase = "idle" => totalSz = SizeOfAll(segments)

\* On a healthy disk the listed segments outgrow the limit by no more than the
\* segment that must not be pruned and one record (wal.go:105-128).
SizeBounded == SizeOfAll(segments) <= Max({MaxTotal, SegMax - 1 + 2 * RecSize})

\* Whatever fails, the total overstates what is listed by no more than the segments
\* that were pruned since the last drain or start while their size could not be
\* read: no other failure makes the limit prune early (wal.go:111-114, 130-137).
SizeNotOverstated == phase = "idle" => totalSz <= SizeOfAll(segments) + unstated

\* On a healthy disk the writer's own account of its segments is right: which
\* it writes, how much they hold, and that the limit bounds them.
SegmentsSound == ActiveIsNewest /\ SizeAccounted /\ SizeBounded

\* After any failures, kills and restarts what was acknowledged is on disk, was
\* handed over, once and in order, or was given up, and the total drifts upwards by
\* unreadable sizes only.
Recoverable == Durable /\ DrainOrdered /\ SizeNotOverstated

\* A drain that never ends is one that nobody receives from: its channel stays full
\* and the context is not done.  If the manager goes on receiving, or the process
\* is told to stop, the drain goroutine ends (wal.go:169-228).
DrainEnds == <>[]draining => <>[](run = "run" /\ Len(ch) = ChCap)

\* The points of the listed segments, and those the running drain has yet to
\* read, in the order they were written, and the abstract log.
LogPoints == ByNumber(StoredIn(ToSet(segments)))
UnreadStored ==
  IF drainSegs = <<>> THEN {}
  ELSE {Reading[i].point : i \in {j \in DOMAIN Reading : pos <= j /\ Reading[j].state # "torn"}}
       \cup StoredIn(ToSet(Tail(drainSegs)))
UnreadPoints == ByNumber(UnreadStored)
Abstract(lossy) == INSTANCE PointLog
  WITH LogPoint <- 1 .. MaxPoints, Lossy <- lossy,
       log <- LogPoints, hasData <- HasData,
       feed <- UnreadPoints, feeding <- draining

\* To the manager the log is a queue of points: between two starts of the process
\* every step is a step of PointLog or changes nothing PointLog sees.
ImplementsPointLog ==
  /\ Abstract(TRUE)!LogInit
  /\ [][starts' = starts => Abstract(TRUE)!LogNext]_(Abstract(TRUE)!logVars)

\* On a healthy disk the queue loses nothing but what the size limit deletes:
\* a step that prunes nothing is one of the lossless PointLog.
LosesOnlyPruned ==
  [][starts' = starts /\ pruned' = pruned => Abstract(FALSE)!LogNext]_(Abstract(FALSE)!logVars)
=============================================================================
