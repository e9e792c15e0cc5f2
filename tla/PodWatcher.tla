------------------------------- MODULE PodWatcher -------------------------------
(***************************************************************************)
(* The Kubernetes adapter: a map of the pods that request GPUs, kept by    *)
(* the informer's callbacks and replaced as a whole by a periodic resync   *)
(* from the informer's store.                                              *)
(*                                                                         *)
(* The informer is client-go's: it updates its store and then calls the    *)
(* handlers one at a time, in order.  A pod is known by its key and by the *)
(* GPUs it requests; its node, labels and phase travel with it and are     *)
(* left out.                                                               *)
(***************************************************************************)
EXTENDS Integers, Sequences, SequencesExt

CONSTANTS
    Pod,          \* namespace/name
    GpuCounts,    \* what a pod may request, 0 for a pod without GPUs
    MaxPodEvents  \* bound: changes in the cluster

ASSUME PodWatcherAssumption ==
    /\ GpuCounts \subseteq Nat /\ GpuCounts # {} /\ MaxPodEvents \in Nat

Gone == -1 \* no such pod

VARIABLES
    store,      \* the informer's store: [Pod -> GPUs requested or Gone]
    notices,    \* events its handlers have not been given
    pods,       \* w.pods: [Pod -> GPUs requested or Gone]
    totalGPUs,  \* w.state, rebuilt with each change of the map
    listed,     \* what the resync under way has read
    resync,     \* the resync: "idle" or "listed"
    watcher,    \* Start: "new", "syncing", "watching" or "returned"
    podCtx,     \* its context is cancelled
    podStop,    \* Stop: "idle", "waiting", "returned", or "late" when the
                \* shutdown deadline passed first
    podEvents   \* bound counter

podVars == <<store, notices, pods, totalGPUs, listed, resync, watcher, podCtx,
             podStop, podEvents>>

NoPods == [p \in Pod |-> Gone]

\* PodToGPUPod refuses a pod that requests no GPU.
GpuPods(s) == [p \in Pod |-> IF s[p] > 0 THEN s[p] ELSE Gone]

\* BuildWorkloadState.
Total(m) ==
    FoldFunction(+, 0, [p \in Pod |-> IF m[p] = Gone THEN 0 ELSE m[p]])

PodInit ==
    /\ store \in [Pod -> GpuCounts \union {Gone}] /\ notices = <<>>
    /\ pods = NoPods /\ totalGPUs = 0 /\ listed = NoPods /\ resync = "idle"
    /\ watcher = "new" /\ podCtx = FALSE /\ podStop = "idle" /\ podEvents = 0

Rebuild(m) == pods' = m /\ totalGPUs' = Total(m)

\* The informer starts: every pod it finds is given to onAdd.
PodStart ==
    /\ watcher = "new"
    /\ watcher' = "syncing"
    /\ notices' = SetToSeq({[pod |-> p, gpus |-> store[p]] :
                              p \in {q \in Pod : store[q] # Gone}})
    /\ UNCHANGED <<store, pods, totalGPUs, listed, resync, podCtx, podStop,
                   podEvents>>

\* The cluster adds, changes or deletes a pod; the informer's store has it
\* before the handlers do.
ClusterChanges(p) ==
    /\ watcher \in {"syncing", "watching"} /\ podEvents < MaxPodEvents
    /\ podEvents' = podEvents + 1
    /\ \E g \in (GpuCounts \union {Gone}) \ {store[p]} :
         /\ store' = [store EXCEPT ![p] = g]
         /\ notices' = Append(notices, [pod |-> p, gpus |-> g])
    /\ UNCHANGED <<pods, totalGPUs, listed, resync, watcher, podCtx, podStop>>

\* onAdd and onUpdate keep a pod that requests GPUs and remove one that does
\* not (upsertPod); onDelete removes it, from a tombstone too (removePod).
Handled ==
    /\ notices # <<>> /\ watcher # "returned"
    /\ Rebuild([pods EXCEPT ![Head(notices).pod] =
                  IF Head(notices).gpus > 0 THEN Head(notices).gpus ELSE Gone])
    /\ notices' = Tail(notices)
    /\ UNCHANGED <<store, listed, resync, watcher, podCtx, podStop, podEvents>>

\* fullResyncFromCache reads the store before it takes the lock: from Start
\* once the informer has synced, and then at each tick.
ResyncList ==
    /\ watcher \in {"syncing", "watching"} /\ resync = "idle"
    /\ resync' = "listed" /\ listed' = GpuPods(store)
    /\ UNCHANGED <<store, notices, pods, totalGPUs, watcher, podCtx, podStop,
                   podEvents>>

\* Mutant: the resync adds what it has listed and forgets nothing.
ResyncMerge ==
    /\ resync = "listed"
    /\ Rebuild([p \in Pod |-> IF listed[p] = Gone THEN pods[p] ELSE listed[p]])
    /\ resync' = "idle" /\ listed' = NoPods
    /\ watcher' = IF watcher = "syncing" THEN "watching" ELSE watcher
    /\ UNCHANGED <<store, notices, podCtx, podStop, podEvents>>

\* The map becomes what was listed, whatever the handlers did since.
ResyncReplace ==
    /\ resync = "listed"
    /\ Rebuild(listed)
    /\ resync' = "idle" /\ listed' = NoPods
    /\ watcher' = IF watcher = "syncing" THEN "watching" ELSE watcher
    /\ UNCHANGED <<store, notices, podCtx, podStop, podEvents>>

\* Start returns when its context ends, while it waits for the first sync or
\* afterwards; the readings are closed and Stop is told.
PodReturn ==
    /\ podCtx /\ watcher \in {"syncing", "watching"}
    /\ watcher = "syncing" => resync = "idle"
    /\ watcher' = "returned"
    /\ UNCHANGED <<store, notices, pods, totalGPUs, listed, resync, podCtx,
                   podStop, podEvents>>

\* The agent's context, from which Start derives its own.
PodCancelled ==
    /\ ~podCtx /\ podCtx' = TRUE
    /\ UNCHANGED <<store, notices, pods, totalGPUs, listed, resync, watcher,
                   podStop, podEvents>>

\* Stop returns at once when Start has not begun, else cancels and waits.
PodStops ==
    /\ podStop = "idle"
    /\ podStop' = IF watcher = "new" THEN "returned" ELSE "waiting"
    /\ podCtx' = (podCtx \/ watcher # "new")
    /\ UNCHANGED <<store, notices, pods, totalGPUs, listed, resync, watcher,
                   podEvents>>

PodStopReturns ==
    /\ podStop = "waiting"
    /\ podStop' \in (IF watcher = "returned" THEN {"returned"} ELSE {}) \union {"late"}
    /\ UNCHANGED <<store, notices, pods, totalGPUs, listed, resync, watcher,
                   podCtx, podEvents>>

PodNext ==
    \/ PodStart \/ Handled \/ ResyncList \/ ResyncReplace \/ PodReturn
    \/ \E p \in Pod : ClusterChanges(p)
    \/ PodCancelled \/ PodStops \/ PodStopReturns

--------------------------------------------------------------------------------
(* Properties *)

\* The map holds the GPU pods of the store and no others, and the GPUs
\* counted are theirs.
PodsCurrent ==
    \/ podCtx \/ watcher = "new"
    \/ pods = GpuPods(store) /\ totalGPUs = Total(GpuPods(store))
================================================================================
