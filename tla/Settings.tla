-------------------------------- MODULE Settings --------------------------------
(***************************************************************************)
(* Which agent a configuration starts: how Load layers the YAML file, the  *)
(* environment, the stored login and what the machine shows over the       *)
(* defaults, what Validate refuses, which mode and outputs main then       *)
(* builds, and what the health endpoint says of that agent.                *)
(*                                                                         *)
(* A switch is "on", "off" or "unset" in a layer.  One adapter stands for  *)
(* those that can be detected; texts, ports and sizes are left out but for *)
(* the poll interval, which stands for the values that must parse and be   *)
(* in range.                                                               *)
(***************************************************************************)
EXTENDS Integers

CONSTANT Machines \* the layers to check: a set of records as setup

\* All that could be written; Machines is a part of it.
Switch == {"on", "off", "unset"}
Setups ==
    [yaml : [key : BOOLEAN, target : {"unset", "named", "empty"},
             prometheus : Switch, stdout : Switch, hub : Switch,
             adapter : Switch, interval : {"unset", "good", "bad"}],
     env  : [key : BOOLEAN, prometheus : Switch, stdout : Switch, hub : Switch,
             adapter : Switch, interval : {"unset", "good", "bad", "junk"}],
     login : BOOLEAN, detected : BOOLEAN, local : BOOLEAN, quiet : BOOLEAN]

ASSUME SettingsAssumption == Machines \subseteq Setups /\ Machines # {}

VARIABLE setup

SettingsInit == setup \in Machines
--------------------------------------------------------------------------------
(* Load *)

\* ApplyEnvOverrides: a variable that is set wins; any word but 1, true, yes
\* and on switches off.
Layered(yaml, env, default) ==
    IF env # "unset" THEN env = "on"
    ELSE IF yaml # "unset" THEN yaml = "on" ELSE default

\* An interval that does not parse is ignored, one out of range is kept.
IntervalOk ==
    IF setup.env.interval \in {"good", "bad"} THEN setup.env.interval = "good"
                                              ELSE setup.yaml.interval # "bad"

ConfiguredKey == setup.yaml.key \/ setup.env.key

\* applyCredentialsFallback: the stored login counts when no key is given.
FromLogin == setup.login /\ ~ConfiguredKey
HasKey == ConfiguredKey \/ FromLogin

\* Mutant: the stored login leaves the default target.
TargetKept == setup.yaml.target # "empty"

\* With the login's key the gRPC target is cleared, named or not; the default
\* target is localhost.
HasTarget == setup.yaml.target # "empty" /\ ~FromLogin

Prometheus == Layered(setup.yaml.prometheus, setup.env.prometheus, TRUE)
Stdout == Layered(setup.yaml.stdout, setup.env.stdout, FALSE)
Hub == Layered(setup.yaml.hub, setup.env.hub, FALSE)

\* ApplyAutoDetection decides only for an adapter nobody has set; ToAdapterMap
\* keeps the enabled ones.
AdapterOn == Layered(setup.yaml.adapter, setup.env.adapter, setup.detected)

\* Validate.
Accepted ==
    /\ IntervalOk /\ AdapterOn
    /\ Stdout \/ Prometheus \/ HasKey
    /\ ~Prometheus /\ ~Stdout => HasTarget \/ HasKey
--------------------------------------------------------------------------------
(* main *)

LocalMode ==
    \/ setup.local \/ Hub
    \/ ~HasKey /\ (Prometheus \/ Stdout)

Streams == HasKey /\ ~setup.local

Mode == IF LocalMode THEN "local" ELSE IF HasTarget THEN "sender" ELSE "cloud"

\* Where the readings go, the dashboard apart.
Sinks ==
    (IF Streams THEN {"cloud"} ELSE {})
    \union
    (CASE Mode = "sender" -> {"sender"}
       [] Mode = "cloud"  -> {}
       [] Mode = "local"  ->
            {o \in {"prometheus", "stdout", "hub"} :
               \/ o = "prometheus" /\ Prometheus
               \/ o = "stdout" /\ Stdout /\ ~setup.quiet
               \/ o = "hub" /\ Hub})
--------------------------------------------------------------------------------
(* The health endpoint of the agent so started *)

\* What it sees: an adapter runs, one has failed in the last five minutes,
\* the sender is connected, the ring and the log are nearly full, the log is
\* being drained.
Conditions == [running : BOOLEAN, failed : BOOLEAN, connected : BOOLEAN,
               ringFull : BOOLEAN, walFull : BOOLEAN, draining : BOOLEAN]

\* isReady: only local mode needs no sender, and only the sender mode has one.
Ready(c) ==
    /\ c.running
    /\ ~LocalMode => Mode = "sender" /\ c.connected

\* determineStatus.
Status(c) ==
    LET sender  == Mode = "sender"
        adrift  == sender /\ ~c.connected
        pressed == sender /\ (c.ringFull \/ c.draining)
    IN  CASE ~c.running -> "unhealthy"
          [] c.running /\ LocalMode ->
               IF c.failed THEN "degraded" ELSE "healthy"
          [] OTHER ->
               IF adrift /\ (c.ringFull \/ c.walFull) THEN "unhealthy"
               ELSE IF adrift \/ c.failed \/ pressed THEN "degraded"
               ELSE "healthy"
--------------------------------------------------------------------------------
(* Properties *)

\* Without --local and --quiet a configuration that is accepted sends the
\* readings somewhere.
ReadingsGoSomewhere == ~setup.local /\ ~setup.quiet => Sinks # {}

\* The gRPC sender is started by a configured key only: a login stored on the
\* machine streams over HTTPS unless --local forbids it.
LoginStreams ==
    /\ Mode = "sender" => ConfiguredKey
    /\ FromLogin => Mode # "sender" /\ (~setup.local => "cloud" \in Sinks)

\* The two health pages agree, except that an agent that only streams over
\* HTTPS is never ready.
PagesAgree ==
    \A c \in Conditions :
      /\ Ready(c) => Status(c) # "unhealthy"
      /\ Status(c) = "healthy" /\ Mode # "cloud" => Ready(c)
      /\ ~c.running => ~Ready(c)

\* Whatever the layers say, an accepted configuration starts an agent whose
\* readings go somewhere, a stored login means HTTPS streaming and not the
\* gRPC sender to the default target, and /ready and /health tell the same
\* story of it (Load, Validate, main's choice of mode, isReady and
\* determineStatus).
SettingsRespected ==
    Accepted => ReadingsGoSomewhere /\ LoginStreams /\ PagesAgree
================================================================================
