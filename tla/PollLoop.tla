-------------------------------- MODULE PollLoop --------------------------------
(***************************************************************************)
(* The adapters with one poll loop: fake, dcgm, rocm, slurm,               *)
(* nvidia_consumer, linux_thermal and apple_silicon.  Each polls at once   *)
(* and then on a ticker, follows the configured interval, and closes its   *)
(* readings when it is cancelled.  They differ in how a new interval gets  *)
(* to the ticker, in what Stop does, and in whether they unsubscribe; the  *)
(* behaviour checked is that of one adapter of any kind.                   *)
(*                                                                         *)
(* What a poll collects is a reading or an error.  Every send is dropped   *)
(* when the channel is full.                                               *)
(***************************************************************************)
EXTENDS Integers

CONSTANTS
    Kinds,        \* the adapters checked
    Intervals,    \* the intervals a configuration may set
    ReadingsCap   \* channelBuffer

Relayed     == {"linux_thermal", "apple_silicon"} \* through a channel of one
Disabling   == {"rocm", "nvidia_consumer"}        \* no tool, no polling
Signalled   == {"rocm", "nvidia_consumer"}        \* Stop closes done
Cancelling  == {"slurm", "linux_thermal"}         \* Stop cancels Start's context
Leaving     == {"rocm", "nvidia_consumer", "linux_thermal"} \* unsubscribe
LeavesAtEnd == {"nvidia_consumer", "linux_thermal"}         \* and on return

ASSUME PollLoopAssumption ==
    /\ Kinds \subseteq {"fake", "dcgm"} \union Relayed \union Signalled
                                       \union Cancelling
    /\ Intervals \subseteq Nat \ {0} /\ ReadingsCap \in Nat \ {0}

VARIABLES
    kind,       \* which adapter this is
    disabled,   \* its tool is missing
    loop,       \* "new", "started", "polling", "sending", "waiting" or
                \* "returned"
    configured, \* the interval in the holder
    interval,   \* the adapter's pollInterval
    ticker,     \* the interval its ticker runs at; 0 is none
    resetCh,    \* resetIntervalCh: a queued interval, or 0
    relaying,   \* the interval a callback is about to queue, or 0
    following,  \* the adapter is subscribed
    ctx,        \* the agent's context is cancelled
    done,       \* Stop has ended the loop: done closed, or Start's own context
    stopped,    \* Stop has been called
    readings,   \* unread readings
    over,       \* the readings channel is closed
    missed,     \* history: a store came before the subscription
    lost        \* history: the last relayed interval was dropped

loopVars == <<kind, disabled, loop, configured, interval, ticker, resetCh,
              relaying, following, ctx, done, stopped, readings, over, missed,
              lost>>
paceVars == <<configured, interval, ticker, resetCh, relaying, missed, lost>>
stopVars == <<ctx, done, stopped>>

LoopInit ==
    /\ kind \in Kinds
    /\ disabled \in (IF kind \in Disabling THEN BOOLEAN ELSE {FALSE})
    /\ loop = "new"
    /\ configured \in Intervals /\ interval = configured
    /\ ticker = 0 /\ resetCh = 0 /\ relaying = 0
    /\ following = FALSE
    /\ ctx = FALSE /\ done = FALSE /\ stopped = FALSE
    /\ readings = 0 /\ over = FALSE
    /\ missed = FALSE /\ lost = FALSE

-----------------------------------------------------------------------------
(* Start.                                                                  *)

LoopStart ==
    /\ loop = "new"
    /\ loop' = "started"
    /\ ticker' = IF disabled THEN 0 ELSE interval
    /\ UNCHANGED <<kind, disabled, configured, interval, resetCh, relaying,
                   following, stopVars, readings, over, missed, lost>>

LoopSubscribe ==
    /\ loop = "started" /\ ~disabled
    /\ following' = TRUE
    /\ loop' = "polling"
    /\ missed' = (interval # configured)
    /\ UNCHANGED <<kind, disabled, configured, interval, ticker, resetCh,
                   relaying, stopVars, readings, over, lost>>

LoopTick ==
    /\ loop = "waiting"
    /\ loop' = "polling"
    /\ UNCHANGED <<kind, disabled, paceVars, following, stopVars, readings, over>>

PollCollects ==
    /\ loop = "polling"
    /\ loop' = "sending"
    /\ UNCHANGED <<kind, disabled, paceVars, following, stopVars, readings, over>>

PollSend ==
    /\ loop = "sending"
    /\ loop' = "waiting"
    /\ readings' = IF readings < ReadingsCap THEN readings + 1 ELSE readings
    /\ UNCHANGED <<kind, disabled, paceVars, following, stopVars, over>>

PollFails ==
    /\ loop = "polling"
    /\ loop' = "waiting"
    /\ UNCHANGED <<kind, disabled, paceVars, following, stopVars, readings, over>>

TakeReset ==
    /\ loop = "waiting" /\ resetCh # 0
    /\ ticker' = resetCh
    /\ resetCh' = 0
    /\ UNCHANGED <<kind, disabled, loop, configured, interval, relaying,
                   following, stopVars, readings, over, missed, lost>>

\* The context or Stop ends the wait.  A disabled adapter waits for nothing
\* else.
LoopReturn ==
    /\ IF disabled THEN loop = "started" ELSE loop = "waiting"
    /\ ctx \/ done
    /\ loop' = "returned"
    /\ ticker' = 0
    /\ over' = TRUE
    /\ following' = (following /\ kind \notin LeavesAtEnd)
    /\ UNCHANGED <<kind, disabled, configured, interval, resetCh, relaying,
                   stopVars, readings, missed, lost>>

-----------------------------------------------------------------------------
(* The holder's callback: updatePollInterval under the adapter's lock, or  *)
(* the field first and then the channel.                                   *)

Update(i) ==
    /\ interval' = i
    /\ IF kind \in Relayed
       THEN /\ relaying' = i
            /\ UNCHANGED ticker
       ELSE /\ ticker' = IF loop = "returned" /\ kind = "nvidia_consumer"
                         THEN 0 ELSE i
            /\ UNCHANGED relaying

Configure(i) ==
    /\ i # configured /\ relaying = 0
    /\ configured' = i
    /\ IF following THEN Update(i) ELSE UNCHANGED <<interval, ticker, relaying>>
    /\ UNCHANGED <<kind, disabled, loop, resetCh, following, stopVars, readings,
                   over, missed, lost>>

Relay ==
    /\ relaying # 0
    /\ resetCh' = IF resetCh = 0 THEN relaying ELSE resetCh
    /\ lost' = (resetCh # 0)
    /\ relaying' = 0
    /\ UNCHANGED <<kind, disabled, loop, configured, interval, ticker, following,
                   stopVars, readings, over, missed>>

-----------------------------------------------------------------------------
(* Stop, the signal and the fan-in that reads.                             *)

\* A Cancelling adapter that has not started has nothing to cancel.
LoopStop ==
    /\ ~stopped
    /\ stopped' = TRUE
    /\ done' = (kind \in Signalled \/ (kind \in Cancelling /\ loop # "new"))
    /\ following' = (following /\ kind \notin Leaving)
    /\ UNCHANGED <<kind, disabled, loop, paceVars, ctx, readings, over>>

LoopCancel ==
    /\ ~ctx
    /\ ctx' = TRUE
    /\ UNCHANGED <<kind, disabled, loop, paceVars, following, done, stopped,
                   readings, over>>

ReadOne ==
    /\ readings > 0
    /\ readings' = readings - 1
    /\ UNCHANGED <<kind, disabled, loop, paceVars, following, stopVars, over>>

-----------------------------------------------------------------------------

LoopStep == \/ LoopStart \/ LoopSubscribe \/ PollCollects \/ PollFails
            \/ PollSend \/ LoopReturn

LoopNext ==
    \/ LoopStep \/ LoopTick \/ TakeReset \/ Relay
    \/ \E i \in Intervals : Configure(i)
    \/ LoopStop \/ LoopCancel \/ ReadOne

-----------------------------------------------------------------------------
(* Properties.                                                             *)

\* Between polls the ticker runs at the configured interval, unless the
\* adapter subscribed too late to hear of it, has unsubscribed, or its relay
\* was full when the last change came: that change is then lost for good.
TickerFollows ==
    loop = "waiting" /\ following /\ relaying = 0 /\ resetCh = 0
      /\ ~missed /\ ~lost
    => ticker = configured

=============================================================================
