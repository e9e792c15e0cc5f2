---------------------------- MODULE CloudClient ----------------------------
(***************************************************************************)
(* internal/cloud/client.go: the HTTPS client of the cloud ingest API.      *)
(* The output bridge runs one Send per batch, each in a goroutine of its    *)
(* own (main.go:571-590), so Sends overlap: each takes the samples left      *)
(* over by earlier failures, posts them with its own without holding the     *)
(* lock, and puts them back when the post fails.                            *)
(*                                                                         *)
(* Samples are numbered in the order the bridge makes them.  The platform    *)
(* stores a request once per idempotency key, and the key is the set of      *)
(* samples in the request (client.go:250-262).                              *)
(***************************************************************************)
EXTENDS Naturals, Sequences, SequencesExt, FiniteSets

CONSTANTS Senders,     \* bound: the Send goroutines of a behaviour
          MaxSamples,  \* bound: how many samples are made in a behaviour
          MaxBatch,    \* bound: how many samples one Send is given
          MaxBuffer    \* c.MaxBuffer

ASSUME CloudAssumption ==
  /\ IsFiniteSet(Senders)
  /\ MaxSamples \in Nat /\ MaxBatch \in Nat \ {0} /\ MaxBuffer \in Nat \ {0}

\* Close sends what is left as one more call of Send.
Closer == "Close"
ASSUME CloserAssumption == Closer \notin Senders

Calls == Senders \cup {Closer}

VARIABLES buffer,    \* c.buffer
          made,      \* number of the last sample made
          call,      \* where each call of Send is
          pending,   \* the samples each call owns
          closing,   \* where Close is
          stored,    \* the requests the platform has taken, as sets of samples
          rejected,  \* history: samples the platform refused for good
          overflown  \* history: samples trimBuffer dropped

cloudVars == <<stored, rejected, overflown>>
vars == <<buffer, made, call, pending, closing, stored, rejected, overflown>>

Init ==
  /\ buffer = <<>> /\ made = 0
  /\ call = [c \in Calls |-> "idle"]
  /\ pending = [c \in Calls |-> <<>>]
  /\ closing = "no"
  /\ stored = <<>> /\ rejected = {} /\ overflown = {}

Goto(c, place) == call' = [call EXCEPT ![c] = place]

-----------------------------------------------------------------------------
(* Send, client.go:128-224. *)

\* The bridge makes a batch, counts the Send and spawns it (main.go:571-590).
Spawn(c) ==
  /\ c \in Senders /\ call[c] = "idle" /\ closing = "no"
  /\ \E n \in 1 .. MaxBatch :
       /\ made + n <= MaxSamples
       /\ made' = made + n
       /\ pending' = [pending EXCEPT ![c] = [i \in 1 .. n |-> made + i]]
  /\ Goto(c, "spawned")
  /\ UNCHANGED <<buffer, closing, cloudVars>>

\* Mutant: the buffer is copied and not emptied.
SnapshotCopy(c) ==
  /\ call[c] = "spawned"
  /\ pending' = [pending EXCEPT ![c] = buffer \o @]
  /\ Goto(c, "posting")
  /\ UNCHANGED <<buffer, made, closing, cloudVars>>

\* Under the lock, the buffer goes in front of the call's own samples.
Snapshot(c) ==
  /\ call[c] = "spawned"
  /\ pending' = [pending EXCEPT ![c] = buffer \o @]
  /\ buffer' = <<>>
  /\ Goto(c, "posting")
  /\ UNCHANGED <<made, closing, cloudVars>>

\* The request reaches the platform, which has not answered yet.
PlatformStores(c) ==
  /\ call[c] = "posting"
  /\ LET key == ToSet(pending[c]) IN
       stored' = IF key \in ToSet(stored) THEN stored ELSE Append(stored, key)
  /\ Goto(c, "answering")
  /\ UNCHANGED <<buffer, made, pending, closing, rejected, overflown>>

Finish(c, how) ==
  /\ pending' = [pending EXCEPT ![c] = <<>>]
  /\ Goto(c, how)

\* 202: the batch is the platform's, the samples in it that the answer counts as
\* rejected included; the client only logs how many they are.
Accepted(c) ==
  /\ call[c] = "answering"
  /\ Finish(c, "done")
  /\ UNCHANGED <<buffer, made, closing, cloudVars>>

\* Any other status that is not transient: the samples are dropped.
Refused(c) ==
  /\ call[c] = "posting"
  /\ rejected' = rejected \cup ToSet(pending[c])
  /\ Finish(c, "done")
  /\ UNCHANGED <<buffer, made, closing, stored, overflown>>

\* trimBuffer, client.go:226-245, keeps the end of the merged samples.
Overflow(merged) == IF Len(merged) > MaxBuffer THEN Len(merged) - MaxBuffer ELSE 0

\* Mutants: the samples of other failed calls are overwritten; only this call's
\* samples are trimmed.
RebufferOver(c) ==
  LET drop == Overflow(pending[c]) IN
    /\ buffer' = SubSeq(pending[c], drop + 1, Len(pending[c]))
    /\ overflown' = overflown \cup ToSet(SubSeq(pending[c], 1, drop))
RebufferUntrimmed(c) ==
  LET drop == Overflow(pending[c]) IN
    /\ buffer' = SubSeq(pending[c], drop + 1, Len(pending[c])) \o buffer
    /\ overflown' = overflown \cup ToSet(SubSeq(pending[c], 1, drop))

Rebuffer(c) ==
  LET merged == pending[c] \o buffer
      drop   == Overflow(merged)
  IN /\ buffer' = SubSeq(merged, drop + 1, Len(merged))
     /\ overflown' = overflown \cup ToSet(SubSeq(merged, 1, drop))

\* No answer, a timeout, or a transient status: the samples go back to the
\* front of the buffer, whether or not the platform has stored them.
Fails(c) ==
  /\ call[c] \in {"posting", "answering"}
  /\ Rebuffer(c)
  /\ Finish(c, "failed")
  /\ UNCHANGED <<made, closing, stored, rejected>>

-----------------------------------------------------------------------------
(* Close, client.go:281-303. *)

\* The bridge has returned: there will be no more Sends (main.go:470-474).
CloseBegin ==
  /\ closing = "no"
  /\ closing' = "waiting"
  /\ UNCHANGED <<buffer, made, call, pending, cloudVars>>

AllDone == \A c \in Senders : call[c] \in {"idle", "done", "failed"}

\* Mutant: Close does not wait.
CloseTakeEarly ==
  /\ closing = "waiting"
  /\ closing' = "sending"
  /\ pending' = [pending EXCEPT ![Closer] = buffer]
  /\ buffer' = <<>>
  /\ Goto(Closer, IF buffer = <<>> THEN "done" ELSE "spawned")
  /\ UNCHANGED <<made, cloudVars>>

\* Every Send counted has ended; what is left is sent, once.
CloseTake ==
  /\ closing = "waiting" /\ AllDone
  /\ closing' = "sending"
  /\ pending' = [pending EXCEPT ![Closer] = buffer]
  /\ buffer' = <<>>
  /\ Goto(Closer, IF buffer = <<>> THEN "done" ELSE "spawned")
  /\ UNCHANGED <<made, cloudVars>>

CloseReturn ==
  /\ closing = "sending" /\ call[Closer] \in {"done", "failed"}
  /\ closing' = "closed"
  /\ UNCHANGED <<buffer, made, call, pending, cloudVars>>

Closed == closing = "closed" /\ UNCHANGED vars

SendStep(c) ==
  \/ Snapshot(c) \/ PlatformStores(c) \/ Accepted(c) \/ Refused(c) \/ Fails(c)

Next ==
  \/ \E c \in Senders : Spawn(c)
  \/ \E c \in Calls : SendStep(c)
  \/ CloseBegin \/ CloseTake \/ CloseReturn
  \/ Closed

Spec == Init /\ [][Next]_vars

\* Every goroutine runs, and a request ends: the http.Client and the context
\* both carry a timeout (client.go:113-115, 300, main.go:584).
FairSpec ==
  /\ Spec
  /\ \A c \in Calls : WF_vars(SendStep(c))
  /\ WF_vars(CloseTake) /\ WF_vars(CloseReturn)

-----------------------------------------------------------------------------
(* Properties *)

Held == {p \in 1 .. made : p \in ToSet(buffer) \/ \E c \in Calls : p \in ToSet(pending[c])}
Stored == UNION ToSet(stored)

\* Type correctness; the buffer stays within its limit when several Sends fail
\* at once.
TypeOK ==
  /\ made \in 0 .. MaxSamples
  /\ buffer \in Seq(1 .. made) /\ Len(buffer) <= MaxBuffer
  /\ pending \in [Calls -> Seq(1 .. made)]
  /\ call \in [Calls -> {"idle", "spawned", "posting", "answering", "done", "failed"}]
  /\ closing \in {"no", "waiting", "sending", "closed"}
  /\ stored \in Seq(SUBSET (1 .. made))
  /\ rejected \subseteq 1 .. made /\ overflown \subseteq 1 .. made

\* A sample belongs to one call or to the buffer, never to two of them and
\* never twice to one, whatever the order in which Sends overlap and fail
\* (client.go:134-139): no two requests in flight carry the same sample.
SingleOwner ==
  /\ IsInjective(buffer)
  /\ \A c \in Calls :
       /\ IsInjective(pending[c])
       /\ ToSet(pending[c]) \cap ToSet(buffer) = {}
       /\ \A d \in Calls \ {c} : ToSet(pending[c]) \cap ToSet(pending[d]) = {}

\* A sample is given up only when the platform refuses its batch or the buffer
\* is full; until then it is kept or the platform has its batch, and with it the
\* say over the sample (client.go:168-220).
NoSampleVanishes == 1 .. made = Held \cup Stored \cup rejected \cup overflown

\* Nothing comes back to the buffer behind Close: if its own Send did not fail,
\* no sample is left in the client when it returns (client.go:286-302).
NothingBehindClose ==
  closing = "closed" /\ call[Closer] = "done"
    => Held = {} /\ 1 .. made = Stored \cup rejected \cup overflown

\* Close returns, whatever became of the Sends it waits for, and from then on
\* nothing is behind it: no Send that ends late puts a sample back.
CloseComplete ==
  closing = "waiting" ~> [](closing = "closed" /\ NothingBehindClose)

\* "oldest samples are dropped when full" (client.go:127): a sample that is
\* dropped is older than every sample that is kept.
OldestDropped ==
  [][\A p \in overflown' \ overflown : \A q \in ToSet(buffer') : p < q]_vars

\* "re-buffered retries send the same key, enabling server-side deduplication"
\* (client.go:145-146): no sample is stored twice.
NoDuplicates ==
  \A i, j \in DOMAIN stored : i # j => stored[i] \cap stored[j] = {}
=============================================================================
