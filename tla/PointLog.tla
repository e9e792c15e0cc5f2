----------------------------- MODULE PointLog -----------------------------
(***************************************************************************)
(* What the write-ahead log promises the buffer manager, free of files,    *)
(* sizes and records: a first-in first-out log.  A write may push the      *)
(* oldest points out (the size limit) and may itself be refused (a disk    *)
(* error); a drain takes everything logged so far and feeds it, in order,  *)
(* through a bounded channel, from which it may lose points only when      *)
(* Lossy.  WAL.tla implements this specification; BufferManager.tla is     *)
(* written over it.                                                        *)
(***************************************************************************)
EXTENDS Naturals, Sequences

CONSTANTS LogPoint,     \* the points that can be logged
          ChCap,        \* capacity of the drain channel (256, wal.go:148)
          Lossy         \* may the disk fail or the size limit be hit?

VARIABLES log,          \* points stored and not taken by a drain, oldest first
          hasData,      \* what HasData() answers
          feed,         \* points the running drain has yet to put on its channel
          feeding,      \* is the drain goroutine running (channel not closed)?
          ch            \* contents of the drain channel

logVars == <<log, hasData, feed, feeding, ch>>

LogInit ==
  /\ log = <<>> /\ feed = <<>> /\ ch = <<>>
  /\ hasData = FALSE /\ feeding = FALSE

\* The points of log from the (k+1)-st on.
Without(k) == SubSeq(log, k + 1, Len(log))

\* One call of WAL.Write, wal.go:95-141: the size limit may evict the k oldest
\* points, then p is stored, or refused with an error.
LogStore(p, k) ==
  /\ k > 0 => Lossy
  /\ log' = Append(Without(k), p)
  /\ hasData' = TRUE
  /\ UNCHANGED <<feed, feeding, ch>>

LogRefuse(k) ==
  /\ k > 0 => Lossy
  /\ log' = Without(k)
  /\ hasData' \in BOOLEAN
  /\ log' # <<>> => hasData'
  /\ UNCHANGED <<feed, feeding, ch>>

\* The same, refused only if mayRefuse.
LogWrite(p, mayRefuse) ==
  \E k \in 0 .. Len(log) : LogStore(p, k) \/ (mayRefuse /\ LogRefuse(k))

\* WAL.Drain takes the whole log; a new channel comes with it.
LogDrain ==
  /\ ~feeding /\ ch = <<>>
  /\ feed' = log
  /\ feeding' = TRUE
  /\ log' = <<>> /\ hasData' = FALSE
  /\ UNCHANGED ch

\* The drain goroutine, wal.go:169-180.
FeedPut ==
  /\ feeding /\ feed # <<>> /\ Len(ch) < ChCap
  /\ ch' = Append(ch, Head(feed))
  /\ feed' = Tail(feed)
  /\ UNCHANGED <<log, hasData, feeding>>

\* Unreadable records are skipped.
FeedSkip ==
  /\ Lossy /\ feeding
  /\ \E k \in 1 .. Len(feed) : feed' = SubSeq(feed, k + 1, Len(feed))
  /\ UNCHANGED <<log, hasData, feeding, ch>>

FeedDone ==
  /\ feeding /\ feed = <<>>
  /\ feeding' = FALSE
  /\ UNCHANGED <<log, hasData, feed, ch>>

\* An open error, or the caller's context, ends the drain early: what it had
\* left stays on disk, out of the log until the next start of the process.
FeedAbort ==
  /\ feeding
  /\ feeding' = FALSE /\ feed' = <<>>
  /\ UNCHANGED <<log, hasData, ch>>

\* The user of the log receives from the drain channel.
ChReceive ==
  /\ ch # <<>>
  /\ ch' = Tail(ch)
  /\ UNCHANGED <<log, hasData, feed, feeding>>

LogNext ==
  \/ \E p \in LogPoint : LogWrite(p, TRUE)
  \/ LogDrain \/ FeedPut \/ FeedSkip \/ FeedDone \/ FeedAbort
  \/ ChReceive

LogSpec == LogInit /\ [][LogNext]_logVars
=============================================================================
