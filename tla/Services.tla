-------------------------------- MODULE Services --------------------------------
(***************************************************************************)
(* The agent's services, one at a time: a behaviour is one of the pipeline *)
(* from adapters to outputs, of the configuration's reload, of an adapter  *)
(* with one poll loop, of the temperature sensors or of the Kubernetes     *)
(* adapter.  The services share no state in these modules: what one does   *)
(* to another (a reload calls subscribers, main cancels and stops) is an   *)
(* action of the module of the other.                                      *)
(***************************************************************************)
EXTENDS Pipeline, ConfigReload, PollLoop, Sensors, PodWatcher

VARIABLE subject \* the service this behaviour is about

Subjects == {"pipeline", "reload", "loop", "sensors", "pods"}

servicesVars == <<subject, pipelineVars, reloadVars, loopVars, sensorsVars,
                  podVars>>

\* A service that is not the subject stays in one of its initial states.
ServicesInit ==
    /\ subject \in Subjects
    /\ PipelineInit
    /\ subject # "pipeline" => mode = CHOOSE m \in Modes : TRUE
    /\ ReloadInit
    /\ LoopInit
    /\ subject # "loop" => /\ kind = CHOOSE k \in Kinds : TRUE
                           /\ interval = CHOOSE i \in Intervals : TRUE
                           /\ ~disabled
    /\ SensorsInit
    /\ subject # "sensors" => pace = CHOOSE p \in Paces : TRUE
    /\ PodInit
    /\ subject # "pods" => store = NoPods

ServicesNext ==
    \/ /\ subject = "pipeline" /\ PipelineNext
       /\ UNCHANGED <<subject, reloadVars, loopVars, sensorsVars, podVars>>
    \/ /\ subject = "reload" /\ ReloadNext
       /\ UNCHANGED <<subject, pipelineVars, loopVars, sensorsVars, podVars>>
    \/ /\ subject = "loop" /\ LoopNext
       /\ UNCHANGED <<subject, pipelineVars, reloadVars, sensorsVars, podVars>>
    \/ /\ subject = "sensors" /\ SensorsNext
       /\ UNCHANGED <<subject, pipelineVars, reloadVars, loopVars, podVars>>
    \/ /\ subject = "pods" /\ PodNext
       /\ UNCHANGED <<subject, pipelineVars, reloadVars, loopVars, sensorsVars>>
--------------------------------------------------------------------------------
(* Fairness, asked of the subject only                                     *)

\* Goroutines run; a send, an adapter's poll and a closing client end within
\* their time limits.  Nothing is asked of BufferReceive: the buffer may be
\* blocked behind a sender without a connection.  Nor of a flush, nor of the
\* servers' end where there are browsers: they may be blocked behind one that
\* does not read.
PipelineOn(A) == subject = "pipeline" /\ A
PipelineFair ==
    /\ \A a \in Adapter : /\ WF_pipelineVars(PipelineOn(AdapterCloses(a)))
                          /\ WF_pipelineVars(PipelineOn(FanIn(a)))
    /\ WF_pipelineVars(PipelineOn(Norm)) /\ WF_pipelineVars(PipelineOn(TeeStep))
    /\ WF_pipelineVars(PipelineOn(Bridge))
    /\ WF_pipelineVars(PipelineOn(Uploader))
    /\ WF_pipelineVars(PipelineOn(SendEnds))
    /\ WF_pipelineVars(PipelineOn(BufferReturn))
    /\ WF_pipelineVars(PipelineOn(Main))
    /\ WF_pipelineVars(PipelineOn(~Bridged /\ CloseServers))

\* The watch starts, notifications arrive, timers fire and goroutines run.
ReloadOn(A) == subject = "reload" /\ A
ReloadFair ==
    /\ WF_reloadVars(ReloadOn(WatchStart)) /\ WF_reloadVars(ReloadOn(WatchEvent))
    /\ WF_reloadVars(ReloadOn(\E r \in Reload : TimerFires(r)))
    /\ \A r \in Reload : WF_reloadVars(ReloadOn(ReloadStep(r)))

\* The goroutine runs and a poll ends, by error or time-out; a select that
\* finds the context done each time it is reached takes that branch once,
\* since it chooses at random among the branches that are ready.
LoopOn(A) == subject = "loop" /\ A
LoopFair ==
    /\ WF_loopVars(LoopOn(LoopStart)) /\ WF_loopVars(LoopOn(LoopSubscribe))
    /\ WF_loopVars(LoopOn(PollCollects \/ PollFails))
    /\ WF_loopVars(LoopOn(PollSend)) /\ SF_loopVars(LoopOn(LoopReturn))

\* The informer keeps calling its handlers, and the ticker keeps ticking.
PodsOn(A) == subject = "pods" /\ A
PodFair ==
    /\ WF_podVars(PodsOn(Handled)) /\ WF_podVars(PodsOn(ResyncList))
    /\ WF_podVars(PodsOn(ResyncReplace))

Spec ==
    /\ ServicesInit /\ [][ServicesNext]_servicesVars
    /\ PipelineFair /\ ReloadFair /\ LoopFair /\ PodFair
--------------------------------------------------------------------------------
(* Properties that several services share *)

\* Everything that is told to end ends.  The agent after its signal, whichever
\* goroutine the signal finds blocked (start-up, a fan-in, the normalizer on a
\* pipe nobody reads any more, the tee behind a stuck buffer, the bridge behind
\* the normalizer), unless it stays for ever behind a browser that does not read,
\* in the bridge's flush or in the servers' end, where nothing in the code sets a
\* deadline; without a bridge it always exits.  And a poll loop after Stop or
\* cancellation, closing its readings, whoever still reads them.
Shutdown == <>[](/\ cancelled => AgentStopped \/ BehindClient
                 /\ ctx \/ done => over)

\* What is held catches up once the changes cease: the configuration with the
\* last edit of its file, and the map of pods with the cluster, where a resync
\* that had listed a pod before its deletion was handled brings it back until
\* the next one (Watcher.Start, fullResyncFromCache).
CatchesUp == <>[](EditLoaded /\ PodsCurrent)

\* A reload's interval reaches every ticker: that of each poll loop and that
\* of every sensor of the temperature adapter.
IntervalsFollowed == TickerFollows /\ SensorsFollow
================================================================================
