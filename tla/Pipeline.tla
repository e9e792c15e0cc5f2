-------------------------------- MODULE Pipeline --------------------------------
(***************************************************************************)
(* The agent's life from start to exit: Registry.StartAll, the             *)
(* normalizer's fan-in, the tee and the output bridge of cmd/agent/main.go *)
(* and the order in which main shuts them down.                            *)
(*                                                                         *)
(* Every goroutine is one process and every channel operation one step: a  *)
(* send to a full channel waits unless the code drops or watches the       *)
(* context, and a receive from a closed, empty channel ends its loop.  The *)
(* buffer manager and the sender are taken as what Buffer and Sender show  *)
(* of them: they read, possibly never, and return once cancelled.          *)
(*                                                                         *)
(* A reading is a number, negative if Validate would refuse it.            *)
(***************************************************************************)
EXTENDS Integers, Sequences, FiniteSets

CONSTANTS
    Adapter,       \* the adapters enabled in the configuration
    Unregistered,  \* those the registry has no constructor for
    MaxReadings,   \* bound on the readings made
    ChanCap        \* capacity of every channel

Pipes == {"merged", "output", "buf", "bridge", "cloud"}
Goroutines == {"main", "norm", "tee", "buffer", "bridge", "uploader"}

\* No adapter has the name of a pipe or of another goroutine.
ASSUME PipelineAssumption ==
    /\ Unregistered \subseteq Adapter
    /\ Adapter \intersect (Pipes \union Goroutines) = {}
    /\ MaxReadings \in Nat /\ ChanCap \in Nat \ {0}

Modes == {"local", "cloudOnly", "grpc", "dashboard", "teeCloud"}

VARIABLES
    mode,      \* what the configuration asks for: see Tee, Bridged, Cloudy
    cancelled, \* the signal context
    chan,      \* the content of every adapter's channel and every pipe
    closed,    \* the channels that are closed
    hand,      \* what a goroutine has received and not passed on
    at,        \* where each goroutine stands, a fan-in under its adapter
    started,   \* main's list of running adapters, as a set
    sends,     \* cloud sends in flight
    made,      \* readings made so far
    accepted,  \* history: valid readings the fan-in put in merged
    buffered,  \* history: readings the buffer manager received
    shown,     \* history: readings the bridge flushed
    uploaded   \* history: readings handed to cloud sends

pipelineVars == <<mode, cancelled, chan, closed, hand, at, started, sends,
                  made, accepted, buffered, shown, uploaded>>
histVars == <<accepted, buffered, shown, uploaded>>

Tee     == mode \in {"dashboard", "teeCloud"}
Direct  == mode \in {"local", "cloudOnly"}      \* no buffer manager
Bridged == Tee \/ Direct
Cloudy  == mode \in {"cloudOnly", "teeCloud"}

PipelineInit ==
    /\ mode \in Modes
    /\ cancelled = FALSE
    /\ chan = [c \in Adapter \union Pipes |-> <<>>]
    /\ closed = {}
    /\ hand = [g \in Adapter \union Goroutines |-> <<>>]
    /\ at = [g \in Adapter \union Goroutines |->
                IF g = "main" THEN "starting" ELSE "absent"]
    /\ started = {}
    /\ sends = 0 /\ made = 0
    /\ accepted = <<>> /\ buffered = <<>> /\ shown = <<>> /\ uploaded = <<>>

Room(c) == Len(chan[c]) < ChanCap
Ended(c) == c \in closed /\ chan[c] = <<>>
Move(g, place) == at' = [at EXCEPT ![g] = place]

\* The valid readings of s: those at its valid places, from first to last.
Places(s) == {i \in DOMAIN s : s[i] > 0}
Place(places, n) ==
    CHOOSE i \in places : Cardinality({j \in places : j <= i}) = n
Valid(s) == [n \in 1 .. Cardinality(Places(s)) |-> s[Place(Places(s), n)]]

-----------------------------------------------------------------------------
(* Registry.StartAll and the adapters.  A name without a constructor is    *)
(* skipped; a constructor that fails stops what was started and ends the   *)
(* agent.                                                                  *)

Running(a) == a \in started \ closed
Remaining == Adapter \ (started \union Unregistered)

StartAdapter(a) ==
    /\ at["main"] = "starting" /\ a \in Remaining
    /\ started' = started \union {a}
    /\ Move(a, "open")
    /\ UNCHANGED <<mode, cancelled, chan, closed, hand, sends, made, histVars>>

StartAdapterFails ==
    /\ at["main"] = "starting" /\ Remaining # {}
    /\ Move("main", "failed")
    /\ UNCHANGED <<mode, cancelled, chan, closed, hand, started, sends, made,
                   histVars>>

\* Adapters poll on their own tick (PollLoop); a reading that does not fit
\* is dropped, which leaves no trace here.
Emit(a) ==
    /\ Running(a) /\ made < MaxReadings /\ Room(a)
    /\ made' = made + 1
    /\ \E r \in {made + 1, -(made + 1)} :
          chan' = [chan EXCEPT ![a] = Append(@, r)]
    /\ UNCHANGED <<mode, cancelled, closed, hand, at, started, sends, histVars>>

AdapterCloses(a) ==
    /\ Running(a) /\ cancelled
    /\ closed' = closed \union {a}
    /\ UNCHANGED <<mode, cancelled, chan, hand, at, started, sends, made,
                   histVars>>

-----------------------------------------------------------------------------
(* Normalizer.Start: one fan-in goroutine per input, open until it returns. *)

Fanned(a) == a \in started /\ at["norm"] # "absent"

FanInReceive(a) ==
    /\ Fanned(a) /\ at[a] = "open" /\ hand[a] = <<>> /\ chan[a] # <<>>
    /\ hand' = [hand EXCEPT ![a] = <<Head(chan[a])>>]
    /\ chan' = [chan EXCEPT ![a] = Tail(@)]
    /\ UNCHANGED <<mode, cancelled, closed, at, started, sends, made, histVars>>

FanInSend(a) ==
    /\ hand[a] # <<>> /\ Room("merged")
    /\ chan' = [chan EXCEPT !["merged"] = @ \o hand[a]]
    /\ hand' = [hand EXCEPT ![a] = <<>>]
    /\ accepted' = accepted \o Valid(hand[a])
    /\ UNCHANGED <<mode, cancelled, closed, at, started, sends, made, buffered,
                   shown, uploaded>>

\* The fan-in goroutine returns: its input has ended, or the context did
\* while it held a reading, which is lost.  The adapter polls on or has
\* closed its channel; nobody reads it any more.
FanInReturn(a) ==
    /\ Fanned(a) /\ at[a] = "open"
    /\ IF hand[a] = <<>> THEN Ended(a) ELSE cancelled
    /\ Move(a, "returned")
    /\ hand' = [hand EXCEPT ![a] = <<>>]
    /\ UNCHANGED <<mode, cancelled, chan, closed, started, sends, made, histVars>>

\* process: an invalid reading is counted and dropped; a valid one waits for
\* room in the output, without a look at the context.
NormProcess ==
    /\ at["norm"] = "running" /\ chan["merged"] # <<>>
    /\ LET valid == Valid(<<Head(chan["merged"])>>)
       IN /\ (valid # <<>> => Room("output"))
          /\ chan' = [chan EXCEPT !["merged"] = Tail(@),
                                  !["output"] = @ \o valid]
    /\ UNCHANGED <<mode, cancelled, closed, hand, at, started, sends, made,
                   histVars>>

\* merged is closed once every fan-in has returned, and the output when
\* merged is empty.
NormReturn ==
    /\ at["norm"] = "running" /\ chan["merged"] = <<>>
    /\ \A a \in started : at[a] = "returned"
    /\ closed' = closed \union {"output"}
    /\ Move("norm", "returned")
    /\ UNCHANGED <<mode, cancelled, chan, hand, started, sends, made, histVars>>

-----------------------------------------------------------------------------
(* The tee: the buffer first and then the cloud, both waiting; the         *)
(* dashboard between them, dropping.                                       *)

TeeReceive ==
    /\ at["tee"] = "receiving" /\ chan["output"] # <<>>
    /\ hand' = [hand EXCEPT !["tee"] = <<Head(chan["output"])>>]
    /\ chan' = [chan EXCEPT !["output"] = Tail(@)]
    /\ Move("tee", "buf")
    /\ UNCHANGED <<mode, cancelled, closed, started, sends, made, histVars>>

TeeToBuffer ==
    /\ at["tee"] = "buf" /\ Room("buf")
    /\ chan' = [chan EXCEPT !["buf"] = @ \o hand["tee"]]
    /\ Move("tee", "bridge")
    /\ UNCHANGED <<mode, cancelled, closed, hand, started, sends, made, histVars>>

TeeToBridge ==
    /\ at["tee"] = "bridge"
    /\ chan' = IF Room("bridge")
               THEN [chan EXCEPT !["bridge"] = @ \o hand["tee"]] ELSE chan
    /\ Move("tee", IF Cloudy THEN "cloud" ELSE "receiving")
    /\ hand' = IF Cloudy THEN hand ELSE [hand EXCEPT !["tee"] = <<>>]
    /\ UNCHANGED <<mode, cancelled, closed, started, sends, made, histVars>>

\* Mutant: the cloud's send drops as the dashboard's does.
TeeToCloudLossy ==
    /\ at["tee"] = "cloud"
    /\ chan' = IF Room("cloud")
               THEN [chan EXCEPT !["cloud"] = @ \o hand["tee"]] ELSE chan
    /\ hand' = [hand EXCEPT !["tee"] = <<>>]
    /\ Move("tee", "receiving")
    /\ UNCHANGED <<mode, cancelled, closed, started, sends, made, histVars>>

TeeToCloud ==
    /\ at["tee"] = "cloud" /\ Room("cloud")
    /\ chan' = [chan EXCEPT !["cloud"] = @ \o hand["tee"]]
    /\ hand' = [hand EXCEPT !["tee"] = <<>>]
    /\ Move("tee", "receiving")
    /\ UNCHANGED <<mode, cancelled, closed, started, sends, made, histVars>>

\* The tee returns when its input ends, or on cancellation at one of its
\* two waiting sends; either way its deferred calls close its channels.
\* Mutant: the waiting sends do not watch the context.
TeeMayReturnAtEnd == at["tee"] = "receiving" /\ Ended("output")

TeeMayReturn == \/ at["tee"] = "receiving" /\ Ended("output")
                \/ at["tee"] \in {"buf", "cloud"} /\ cancelled

TeeReturn ==
    /\ TeeMayReturn
    /\ closed' = closed \union {"buf", "bridge"}
                        \union (IF Cloudy THEN {"cloud"} ELSE {})
    /\ Move("tee", "returned")
    /\ UNCHANGED <<mode, cancelled, chan, hand, started, sends, made, histVars>>

-----------------------------------------------------------------------------
(* The buffer manager's end of the pipe: it receives when it can, and      *)
(* returns with the sender once cancelled (Buffer, Sender).                *)

BufferIn == IF Tee THEN "buf" ELSE "output"

BufferReceive ==
    /\ at["buffer"] = "running" /\ chan[BufferIn] # <<>>
    /\ buffered' = Append(buffered, Head(chan[BufferIn]))
    /\ chan' = [chan EXCEPT ![BufferIn] = Tail(@)]
    /\ UNCHANGED <<mode, cancelled, closed, hand, at, started, sends, made,
                   accepted, shown, uploaded>>

BufferReturn ==
    /\ at["buffer"] = "running" /\ cancelled
    /\ Move("buffer", "returned")
    /\ UNCHANGED <<mode, cancelled, chan, closed, hand, started, sends, made,
                   histVars>>

-----------------------------------------------------------------------------
(* runOutputBridge, its batch in hand, and its uploader: the goroutine for *)
(* the lossless cloud channel.                                             *)

BridgeIn == IF Tee THEN "bridge" ELSE "output"

\* sendCloud with everything in batch.
Upload(batch) ==
    /\ sends' = sends + (IF batch = <<>> THEN 0 ELSE 1)
    /\ uploaded' = uploaded \o batch

\* Where the bridge stands during a flush, and what it does behind it.
Flushing == {"flushBatch", "flushCancelled", "flushClosed"}
AfterFlush(place) ==
    CASE place = "flushBatch" -> "looping"
      [] place = "flushCancelled" -> "draining"
      [] place = "flushClosed" -> "waiting"

\* flushBatch returns at once when the batch is empty.
ToFlush(place) ==
    Move("bridge", IF hand["bridge"] = <<>> THEN AfterFlush(place) ELSE place)

\* The first reading of all is flushed at once.
BridgeReceive ==
    /\ at["bridge"] = "looping" /\ chan[BridgeIn] # <<>>
    /\ hand' = [hand EXCEPT !["bridge"] = Append(@, Head(chan[BridgeIn]))]
    /\ chan' = [chan EXCEPT ![BridgeIn] = Tail(@)]
    /\ Move("bridge", IF shown = <<>> THEN "flushBatch" ELSE "looping")
    /\ UNCHANGED <<mode, cancelled, closed, started, sends, made, histVars>>

BridgeTick ==
    /\ at["bridge"] = "looping" /\ hand["bridge"] # <<>>
    /\ ToFlush("flushBatch")
    /\ UNCHANGED <<mode, cancelled, chan, closed, hand, started, sends, made,
                   histVars>>

BridgeCancelled ==
    /\ at["bridge"] = "looping" /\ cancelled
    /\ ToFlush("flushCancelled")
    /\ UNCHANGED <<mode, cancelled, chan, closed, hand, started, sends, made,
                   histVars>>

BridgeDrain ==
    /\ at["bridge"] = "draining" /\ chan[BridgeIn] # <<>>
    /\ hand' = [hand EXCEPT !["bridge"] = Append(@, Head(chan[BridgeIn]))]
    /\ chan' = [chan EXCEPT ![BridgeIn] = Tail(@)]
    /\ UNCHANGED <<mode, cancelled, closed, at, started, sends, made, histVars>>

BridgeClosed ==
    /\ at["bridge"] \in {"looping", "draining"} /\ Ended(BridgeIn)
    /\ ToFlush("flushClosed")
    /\ UNCHANGED <<mode, cancelled, chan, closed, hand, started, sends, made,
                   histVars>>

\* A flush writes to the dashboard's clients one after the other and without a
\* deadline (wsHub.broadcast): it ends once each has taken it or is gone, which
\* may be never.
FlushBridge ==
    /\ at["bridge"] \in Flushing
    /\ shown' = shown \o hand["bridge"]
    /\ hand' = [hand EXCEPT !["bridge"] = <<>>]
    /\ IF mode = "cloudOnly" THEN Upload(hand["bridge"])
       ELSE UNCHANGED <<sends, uploaded>>
    /\ Move("bridge", AfterFlush(at["bridge"]))
    /\ UNCHANGED <<mode, cancelled, chan, closed, started, made, accepted,
                   buffered>>

\* sendWg counts the sends in flight and the uploader.
BridgeReturn ==
    /\ at["bridge"] = "waiting" /\ sends = 0 /\ at["uploader"] # "looping"
    /\ Move("bridge", "returned")
    /\ UNCHANGED <<mode, cancelled, chan, closed, hand, started, sends, made,
                   histVars>>

\* A send ends in time: its own context expires after thirty seconds.
SendEnds ==
    /\ sends > 0
    /\ sends' = sends - 1
    /\ UNCHANGED <<mode, cancelled, chan, closed, hand, at, started, made,
                   histVars>>

UploaderReceive ==
    /\ at["uploader"] = "looping" /\ chan["cloud"] # <<>>
    /\ hand' = [hand EXCEPT !["uploader"] = Append(@, Head(chan["cloud"]))]
    /\ chan' = [chan EXCEPT !["cloud"] = Tail(@)]
    /\ UNCHANGED <<mode, cancelled, closed, at, started, sends, made, histVars>>

UploaderTick ==
    /\ at["uploader"] = "looping" /\ hand["uploader"] # <<>>
    /\ Upload(hand["uploader"])
    /\ hand' = [hand EXCEPT !["uploader"] = <<>>]
    /\ UNCHANGED <<mode, cancelled, chan, closed, at, started, made, accepted,
                   buffered, shown>>

UploaderReturn ==
    /\ at["uploader"] = "looping" /\ Ended("cloud")
    /\ Upload(hand["uploader"])
    /\ hand' = [hand EXCEPT !["uploader"] = <<>>]
    /\ Move("uploader", "returned")
    /\ UNCHANGED <<mode, cancelled, chan, closed, started, made, accepted,
                   buffered, shown>>

-----------------------------------------------------------------------------
(* main: the goroutines each mode starts, then the signal and the waits of *)
(* the shutdown in their order.                                            *)

Launched(g) ==
    CASE g = "main" -> "ready"
      [] g = "norm" -> "running"
      [] g = "tee" /\ Tee -> "receiving"
      [] g = "buffer" /\ ~Direct -> "running"
      [] g = "bridge" /\ Bridged -> "looping"
      [] g = "uploader" /\ mode = "teeCloud" -> "looping"
      [] OTHER -> at[g]

Launch ==
    /\ at["main"] = "starting" /\ Remaining = {}
    /\ at' = [g \in DOMAIN at |-> Launched(g)]
    /\ UNCHANGED <<mode, cancelled, chan, closed, hand, started, sends, made,
                   histVars>>

\* buffer.NewManager fails: run returns 1 and the process ends.
LaunchFails ==
    /\ at["main"] = "starting" /\ Remaining = {} /\ ~Direct
    /\ Move("main", "failed")
    /\ UNCHANGED <<mode, cancelled, chan, closed, hand, started, sends, made,
                   histVars>>

Signal ==
    /\ ~cancelled
    /\ cancelled' = TRUE
    /\ UNCHANGED <<mode, chan, closed, hand, at, started, sends, made, histVars>>

\* Every adapter's Stop returns, at the latest with the shutdown context.
StopAdapters ==
    /\ at["main"] = "ready" /\ cancelled
    /\ Move("main", "bridge")
    /\ UNCHANGED <<mode, cancelled, chan, closed, hand, started, sends, made,
                   histVars>>

AwaitBridge ==
    /\ at["main"] = "bridge" /\ at["bridge"] \in {"absent", "returned"}
    /\ Move("main", "servers")
    /\ UNCHANGED <<mode, cancelled, chan, closed, hand, started, sends, made,
                   histVars>>

\* The cloud client and the API server close within their limits, but for the
\* close frames of the dashboard's clients, which are written as a broadcast is
\* (wsHub.closeAll); no server is there unless there is a bridge.
CloseServers ==
    /\ at["main"] = "servers"
    /\ Move("main", "buffer")
    /\ UNCHANGED <<mode, cancelled, chan, closed, hand, started, sends, made,
                   histVars>>

\* The outputs close within their limits.
AwaitBuffer ==
    /\ at["main"] = "buffer" /\ at["buffer"] \in {"absent", "returned"}
    /\ Move("main", "returned")
    /\ UNCHANGED <<mode, cancelled, chan, closed, hand, started, sends, made,
                   histVars>>

-----------------------------------------------------------------------------

FanIn(a)  == FanInReceive(a) \/ FanInSend(a) \/ FanInReturn(a)
Norm      == NormProcess \/ NormReturn
TeeStep   == TeeReceive \/ TeeToBuffer \/ TeeToBridge \/ TeeToCloud \/ TeeReturn
Bridge    == \/ BridgeReceive \/ BridgeTick \/ BridgeCancelled
             \/ BridgeDrain \/ BridgeClosed \/ BridgeReturn
Uploader  == UploaderReceive \/ UploaderTick \/ UploaderReturn
Main      == \/ \E a \in Adapter : StartAdapter(a)
             \/ Launch \/ StopAdapters \/ AwaitBridge \/ AwaitBuffer

\* What a browser that no longer reads may hold up for ever.
BehindClient == at["bridge"] \in Flushing \/ (Bridged /\ at["main"] = "servers")

PipelineNext ==
    \/ \E a \in Adapter : Emit(a) \/ AdapterCloses(a) \/ FanIn(a)
    \/ Norm \/ TeeStep \/ Bridge \/ FlushBridge \/ Uploader \/ SendEnds
    \/ BufferReceive \/ BufferReturn
    \/ Main \/ CloseServers \/ StartAdapterFails \/ LaunchFails \/ Signal

-----------------------------------------------------------------------------
(* Properties.                                                             *)

\* What the fan-in has accepted and the normalizer not yet handed on.
Upstream == chan["output"] \o Valid(chan["merged"])
ToBuffer == buffered \o chan["buf"]
InTee(stands) == IF at["tee"] \in stands THEN hand["tee"] ELSE <<>>
Seen == shown \o hand["bridge"] \o chan["bridge"]

\* u is t with some readings left out.
Within(u, t) ==
    \E f \in [1 .. Len(u) -> 1 .. Len(t)] :
       /\ \A i, j \in 1 .. Len(u) : i < j => f[i] < f[j]
       /\ \A i \in 1 .. Len(u) : u[i] = t[f[i]]

\* The buffer, and the bridge when it is the only reader, receive every
\* valid reading in the order it was accepted; the cloud receives what the
\* buffer received, at most one reading behind; and the dashboard, which
\* alone may miss readings, sees them in the buffer's order.  This holds
\* until cancellation ends the tee; without a tee it holds to the end, and
\* the agent does not exit before the last reading is shown.
OnlyDashboardMisses ==
    /\ (Direct =>
          /\ shown \o hand["bridge"] \o Upstream = accepted
          /\ (at["main"] = "returned" => shown = accepted)
          /\ (mode = "cloudOnly" => uploaded = shown))
    /\ (~Direct /\ at["tee"] # "returned" =>
          ToBuffer \o InTee({"buf"}) \o Upstream = accepted)
    /\ (mode = "teeCloud" /\ at["tee"] # "returned" =>
          uploaded \o hand["uploader"] \o chan["cloud"]
             \o InTee({"bridge", "cloud"}) = ToBuffer)
    /\ (Tee => Within(Seen, ToBuffer))

\* The agent has exited.
AgentStopped == at["main"] \in {"returned", "failed"}
=============================================================================
