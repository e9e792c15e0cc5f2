-------------------------------- MODULE Readings --------------------------------
(***************************************************************************)
(* What becomes of readings, one part at a time: a behaviour is one of the *)
(* PDU adapter that fetches them, of the output bridge with the dashboard, *)
(* of the fleet hub, of one device in the health engine or in the score    *)
(* engine; or it is a batch shown to every reader, or a configuration that *)
(* decides where readings go.  The parts share no state in these modules:  *)
(* the dashboard hands on the batches whose content the others take as     *)
(* their input.                                                            *)
(***************************************************************************)
EXTENDS Dashboard, Fleet, HealthWindow, Scoring, Views, Pdu, Settings

VARIABLE subject \* the part this behaviour is about

Subjects ==
    {"dashboard", "fleet", "health", "scoring", "pdu", "views", "settings"}

readingsVars == <<subject, dashboardVars, fleetVars, healthVars, scoringVars, pduVars, viewed, setup>>

OneBatch == <<[device |-> CHOOSE d \in ViewedDevice : TRUE, at |-> 1,
               keys |-> Range(TempKeys)]>>

\* A part that is not the subject stays in one of its initial states.
ReadingsInit ==
    /\ subject \in Subjects
    /\ DashboardInit
    /\ FleetInit
    /\ subject # "fleet" => LET net == CHOOSE n \in Networks : TRUE IN
          /\ sem = net.scrapes
          /\ agent = [a \in Address |->
                       [up |-> TRUE, name |-> net.name[a], flushes |-> net.flushes[a]]]
    /\ HealthInit
    /\ ScoringInit
    /\ subject # "scoring" => gpu = CHOOSE g \in GPUSpecs : TRUE
    /\ PduInit
    /\ subject # "pdu" => /\ snmpCfg = CHOOSE t \in TargetLists : TRUE
                          /\ pduPace = CHOOSE p \in PduPaces : TRUE
    /\ IF subject = "views" THEN ViewsInit ELSE viewed = OneBatch
    /\ IF subject = "settings" THEN SettingsInit
       ELSE setup = CHOOSE s \in Machines : s.env.interval = "bad"

ReadingsNext ==
    \/ /\ subject = "dashboard" /\ DashboardNext
       /\ UNCHANGED <<subject, fleetVars, healthVars, scoringVars, pduVars, viewed, setup>>
    \/ /\ subject = "fleet" /\ FleetNext
       /\ UNCHANGED <<subject, dashboardVars, healthVars, scoringVars, pduVars, viewed, setup>>
    \/ /\ subject = "health" /\ HealthNext
       /\ UNCHANGED <<subject, dashboardVars, fleetVars, scoringVars, pduVars, viewed, setup>>
    \/ /\ subject = "scoring" /\ ScoringNext
       /\ UNCHANGED <<subject, dashboardVars, fleetVars, healthVars, pduVars, viewed, setup>>
    \/ /\ subject = "pdu" /\ PduNext
       /\ UNCHANGED <<subject, dashboardVars, fleetVars, healthVars, scoringVars, viewed, setup>>
--------------------------------------------------------------------------------
(* Fairness, asked of the fleet only: a browse and a scrape end within      *)
(* their time-outs, goroutines run, and the semaphore is handed over in    *)
(* turn, so that the scraper's loop is reached again and again.            *)

FleetOn(A) == subject = "fleet" /\ A
FleetFair ==
    /\ WF_fleetVars(FleetOn(BrowseEnd)) /\ WF_fleetVars(FleetOn(ScrapeAll))
    /\ WF_fleetVars(FleetOn(ScrapeAllDone))
    /\ \A a \in Address : WF_fleetVars(FleetOn(ScrapeGoroutine(a)))

Spec == ReadingsInit /\ [][ReadingsNext]_readingsVars /\ FleetFair
--------------------------------------------------------------------------------
(* The settings that are checked: a way to switch each output, every mix   *)
(* of keys, targets, adapter switches and flags.                           *)
Layers ==
    [yaml : [key : BOOLEAN, target : {"unset", "named", "empty"},
             prometheus : {"unset", "off"}, stdout : {"unset", "on"},
             hub : {"unset", "on"}, adapter : {"unset", "on"},
             interval : {"unset"}],
     env  : [key : BOOLEAN, prometheus : {"unset", "on"}, stdout : {"unset"},
             hub : {"unset"}, adapter : {"unset", "off"},
             interval : {"unset", "bad", "junk"}],
     login : BOOLEAN, detected : BOOLEAN, local : BOOLEAN, quiet : BOOLEAN]
--------------------------------------------------------------------------------
(* The networks that are checked: every agent has a name of its own and    *)
(* the scrapes run one by one; or all share a name and run at once.  The   *)
(* static ones flush twice, so that an old version may follow a new one.   *)
StaticTwice == [a \in Address |-> IF a \in Static THEN 2 ELSE 1]
OneByOne == [name |-> CHOOSE f \in [Address -> DeviceName] : IsInjective(f),
             flushes |-> StaticTwice, scrapes |-> 1]
AllAtOnce == [name |-> [a \in Address |-> CHOOSE n \in DeviceName : TRUE],
              flushes |-> StaticTwice, scrapes |-> Cardinality(Address)]
OwnAndShared == {OneByOne, AllAtOnce}
--------------------------------------------------------------------------------
(* Properties, each looked at in the behaviours it is about                *)

\* The recovery panel tells of the latest finished spike, and never of a
\* longer active one than there was.
SpikeReported ==
    subject = "health" => RecoveryIsLatest /\ SpikeNotOverstated

\* A hotter reading is scored safer only by what a steadier one takes off, and
\* the rings hold the device's latest temperatures: see NoStepDown.
OnlySteadierIsSafer == subject = "scoring" => NoStepDown

\* Whoever shows a device shows the reading its risk was computed from: see
\* ReadersAgree.
ViewsShowScoredReading == subject = "views" => ReadersAgree
================================================================================
