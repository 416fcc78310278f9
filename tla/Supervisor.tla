------------------------------ MODULE Supervisor ------------------------------
(* The supervision loop of crates/supervisor/src/runner.rs: one task owns the *)
(* game process and runs each handler of its select! to the end, while the    *)
(* game itself, the readiness probes of every launch so far, the occupancy    *)
(* polls and the control clients run beside it and reach it over bounded      *)
(* channels.  A handler gives way at its awaits; those are the values of pc.  *)
EXTENDS SupervisorState, AutoUpdate

CONSTANTS
  StartPaused,        \* start_paused: hold the game down until /start
  ReadyByLog,         \* ready_log_pattern is set: a log line, not a TCP probe
  AutoUpdateActive,   \* auto-update enabled and an occupancy source configured
  QueueDepth,         \* CONTROL_CHANNEL_DEPTH
  MaxDisturbances     \* bound on requests, exits and polls in one behaviour

ASSUME RunnerAssumption ==
  /\ StartPaused \in BOOLEAN
  /\ ReadyByLog \in BOOLEAN
  /\ AutoUpdateActive \in BOOLEAN
  /\ QueueDepth \in Nat \ {0}
  /\ MaxDisturbances \in Nat
  /\ UptimeCap >= UpdateInterval
  /\ UptimeCap >= MaxUptime

Command == {"stop", "start", "restart"}

VARIABLES
  \* the runner task
  st,          \* SupervisorState
  child,       \* the loop's Option<Child> is Some
  pc,          \* "loop", or the await the running handler is suspended at
  op,          \* which handler that is
  \* the operating system
  game,        \* the game process: "none", "booting", "accepting", "exited"
  \* readiness: the tasks behind ready_rx, and its one slot
  probing,     \* TCP probes still polling the port, of this and past launches
  signals,     \* readiness seen by a probe or a log pump, not yet sent
  ready,       \* ready_rx holds a message
  \* what the runner tells Agones
  beating,     \* the Heartbeat switch
  label,       \* the process-state label last published
  agonesReady, \* the SDK has accepted a /ready
  \* control_rx, in order
  queue,
  \* update-on-empty
  polls,       \* occupancy queries in flight
  reading,     \* occupancy_rx's one slot, "empty" when it holds none
  streak,      \* AutoUpdater.empty_since, as an age
  \* bound on the environment
  disturbances,
  \* history: time since a launch last gave the slot a game
  built

runner == <<st, child, pc, op>>
readiness == <<probing, signals, ready>>
agones == <<beating, label, agonesReady>>
occupancy == <<polls, reading, streak>>
vars == <<runner, game, readiness, agones, queue, occupancy, disturbances, built>>

Awaits == {"loop", "stopping", "launching", "backoff", "gone"}
Operation == {"boot", "stop", "start", "restart", "crash-relaunch",
              "auto-update", "drain"}

TypeOK ==
  /\ st \in StateType
  /\ child \in BOOLEAN
  /\ pc \in Awaits
  /\ op \in Operation
  /\ game \in {"none", "booting", "accepting", "exited"}
  /\ probing \in Nat /\ signals \in Nat /\ ready \in BOOLEAN
  /\ beating \in BOOLEAN
  /\ label \in {"unset", "running", "stopped"}
  /\ agonesReady \in BOOLEAN
  /\ queue \in Seq(Command)
  /\ polls \in Nat /\ reading \in Reading \cup {"empty"}
  /\ streak \in StreakType
  /\ disturbances \in Nat
  /\ built \in 0 .. UptimeCap

GameUp == game \in {"booting", "accepting"}

\* The state supervise() starts from: held down for a restore, or launching.
BootState == IF StartPaused THEN OnStopped(OnStopRequested(New)) ELSE New
BootPoint == IF StartPaused THEN "loop" ELSE "launching"
BootLabel == IF StartPaused THEN "stopped" ELSE "unset"

Init ==
  /\ st = BootState /\ pc = BootPoint /\ label = BootLabel
  /\ op = "boot" /\ child = FALSE /\ game = "none"
  /\ probing = 0 /\ signals = 0 /\ ready = FALSE
  /\ beating = TRUE /\ agonesReady = FALSE
  /\ queue = <<>>
  /\ polls = 0 /\ reading = "empty" /\ streak = NoStreak
  /\ disturbances = MaxDisturbances
  /\ built = 0

------------------------------------------------------------------------------
(* Launching: spawn_child, whose preparation awaits, and what relaunch (or,   *)
(* at boot, supervise) does with its three outcomes.                          *)

\* updater.note_relaunched(), after an auto-update's relaunch however it went.
NoteRelaunched == streak' = IF op = "auto-update" THEN NoStreak ELSE streak

\* start_readiness: the TCP probe is spawned with every launch and no earlier
\* one is cancelled; the log watch rides on the new child's own pumps.
StartReadiness ==
  /\ probing' = IF ReadyByLog THEN probing ELSE probing + 1
  /\ UNCHANGED <<signals, ready>>

LaunchSucceeds ==
  /\ pc = "launching"
  /\ child' = TRUE
  /\ game' = "booting"
  /\ StartReadiness
  /\ st' = OnStarted(st)
  /\ label' = IF op = "boot" THEN label ELSE "running"
  /\ NoteRelaunched
  /\ built' = 0
  /\ pc' = "loop"
  /\ UNCHANGED <<op, beating, agonesReady, queue, polls, reading, disturbances>>

\* LaunchError::Prepare: note_launch_failure, and the label.
LaunchRefused ==
  /\ pc = "launching"
  /\ child' = FALSE
  /\ st' = OnLaunchFailed(st)
  /\ label' = "stopped"
  /\ NoteRelaunched
  /\ pc' = "loop"
  /\ UNCHANGED <<op, game, readiness, beating, agonesReady, queue, polls,
                 reading, disturbances, built>>

\* LaunchError::Spawn: fatal at boot; later the child slot is emptied and
\* nothing else is recorded.
LaunchFails ==
  /\ pc = "launching"
  /\ child' = FALSE
  /\ pc' = IF op = "boot" THEN "gone" ELSE "loop"
  /\ NoteRelaunched
  /\ UNCHANGED <<op, st, game, readiness, agones, queue, polls, reading,
                 disturbances, built>>

Launch == LaunchSucceeds \/ LaunchRefused \/ LaunchFails

------------------------------------------------------------------------------
(* The arms of the select! loop.                                              *)

Received(command) == pc = "loop" /\ queue # <<>> /\ Head(queue) = command

\* do_stop with no child: answered, and nothing changes.
StopWithoutChild ==
  /\ Received("stop") /\ ~child
  /\ queue' = Tail(queue)
  /\ UNCHANGED <<runner, game, readiness, agones, occupancy, disturbances, built>>

\* Fault: the child is stopped in place and its slot never emptied.
StopBeginsKeepingChild ==
  /\ Received("stop") /\ child
  /\ queue' = Tail(queue)
  /\ st' = OnStopRequested(st)
  /\ pc' = "stopping" /\ op' = "stop"
  /\ UNCHANGED <<child, game, readiness, agones, occupancy, disturbances, built>>

\* do_stop up to the await of graceful_stop.
StopBegins ==
  /\ Received("stop") /\ child
  /\ queue' = Tail(queue)
  /\ st' = OnStopRequested(st)
  /\ child' = FALSE
  /\ pc' = "stopping" /\ op' = "stop"
  /\ UNCHANGED <<game, readiness, agones, occupancy, disturbances, built>>

StartWithChild ==
  /\ Received("start") /\ child
  /\ queue' = Tail(queue)
  /\ UNCHANGED <<runner, game, readiness, agones, occupancy, disturbances, built>>

StartBegins ==
  /\ Received("start") /\ ~child
  /\ queue' = Tail(queue)
  /\ st' = OnStartRequested(st)
  /\ pc' = "launching" /\ op' = "start"
  /\ UNCHANGED <<child, game, readiness, agones, occupancy, disturbances, built>>

\* Fault: the old child is forgotten, not stopped.
BounceWithoutStop(cause) ==
  /\ st' = OnRestartRequested(st)
  /\ child' = FALSE
  /\ pc' = "launching"
  /\ op' = cause

\* on_restart_requested, then child.take() and graceful_stop when there is one.
Bounce(cause) ==
  /\ st' = OnRestartRequested(st)
  /\ child' = FALSE
  /\ pc' = IF child THEN "stopping" ELSE "launching"
  /\ op' = cause

RestartBegins ==
  /\ Received("restart")
  /\ queue' = Tail(queue)
  /\ Bounce("restart")
  /\ UNCHANGED <<game, readiness, agones, occupancy, disturbances, built>>

HandleRequest ==
  StopWithoutChild \/ StopBegins \/ StartWithChild \/ StartBegins \/ RestartBegins

\* handle_unexpected_exit.  Saving the dead launch's output comes first and may
\* take two seconds, during which nothing the handler reads can change.
HandleUnexpectedExit ==
  /\ pc = "loop" /\ child /\ game = "exited"
  /\ child' = FALSE
  /\ game' = "none"
  /\ st' = OnChildExit(st)
  /\ pc' = IF ExitDisposition(st) = "Relaunch" THEN "backoff" ELSE "loop"
  /\ op' = IF ExitDisposition(st) = "Relaunch" THEN "crash-relaunch" ELSE op
  /\ beating' = (beating /\ ExitDisposition(st) # "Escalate")
  /\ label' = IF ExitDisposition(st) = "Relaunch" THEN label ELSE "stopped"
  /\ UNCHANGED <<readiness, agonesReady, queue, occupancy, disturbances, built>>

\* Fault: the heartbeat is resumed with the first boot's /ready only.
SettleReadyFirstOnly ==
  /\ pc = "loop" /\ ready
  /\ ready' = FALSE
  /\ st' = OnReady(st)
  /\ beating' = (beating \/ ~st.readied)
  /\ label' = "running"
  /\ UNCHANGED <<child, pc, op, game, probing, signals, agonesReady, queue,
                 occupancy, disturbances, built>>

\* settle_ready: the call to the SDK may fail and is made at most once.
SettleReady ==
  /\ pc = "loop" /\ ready
  /\ ready' = FALSE
  /\ st' = IF beating THEN OnReady(st) ELSE ClearCrashHistory(OnReady(st))
  /\ beating' = TRUE
  /\ agonesReady' \in IF st.readied THEN {agonesReady} ELSE BOOLEAN
  /\ label' = "running"
  /\ UNCHANGED <<child, pc, op, game, probing, signals, queue, occupancy,
                 disturbances, built>>

\* The occupancy tick: spawn_occupancy_poll, only while the phase is Running.
SpawnOccupancyPoll ==
  /\ AutoUpdateActive /\ pc = "loop" /\ st.phase = "Running"
  /\ disturbances > 0 /\ disturbances' = disturbances - 1
  /\ polls' = polls + 1
  /\ UNCHANGED <<runner, game, readiness, agones, queue, reading, streak, built>>

\* maybe_auto_update, when observe() says to leave the build alone ...
ObserveOnly ==
  /\ pc = "loop" /\ reading # "empty"
  /\ ~RelaunchDue(streak, reading, st.uptime)
  /\ reading' = "empty"
  /\ streak' = StreakAfter(streak, reading)
  /\ UNCHANGED <<runner, game, readiness, agones, queue, polls, disturbances, built>>

\* ... and when it is due.
AutoUpdateBegins ==
  /\ pc = "loop" /\ reading # "empty"
  /\ RelaunchDue(streak, reading, st.uptime)
  /\ reading' = "empty"
  /\ streak' = StreakAfter(streak, reading)
  /\ Bounce("auto-update")
  /\ UNCHANGED <<game, readiness, agones, queue, polls, disturbances, built>>

MaybeAutoUpdate == ObserveOnly \/ AutoUpdateBegins

\* SIGTERM or SIGINT: leave the loop, then stop the child.
Drain ==
  /\ pc = "loop"
  /\ pc' = IF child THEN "stopping" ELSE "gone"
  /\ op' = "drain"
  /\ child' = FALSE
  /\ UNCHANGED <<st, game, readiness, agones, queue, occupancy, disturbances, built>>

------------------------------------------------------------------------------
(* The awaits inside a handler.                                               *)

\* graceful_stop returns with the child reaped: it obeyed SIGTERM, was killed
\* after the grace period, or had already exited on its own.
StopCompletes ==
  /\ pc = "stopping"
  /\ game' = "none"
  /\ pc' = CASE op = "stop" -> "loop" [] op = "drain" -> "gone" [] OTHER -> "launching"
  /\ st' = IF op = "stop" THEN OnStopped(st) ELSE st
  /\ label' = IF op = "stop" THEN "stopped" ELSE label
  /\ UNCHANGED <<child, op, readiness, beating, agonesReady, queue, occupancy,
                 disturbances, built>>

BackoffEnds ==
  /\ pc = "backoff"
  /\ pc' = "launching"
  /\ UNCHANGED <<st, child, op, game, readiness, agones, queue, occupancy,
                 disturbances, built>>

------------------------------------------------------------------------------
(* What runs beside the loop.                                                 *)

\* The game opens its port, or prints its marker, which its pump then holds.
GameAccepts ==
  /\ game = "booting"
  /\ game' = "accepting"
  /\ signals' = IF ReadyByLog THEN signals + 1 ELSE signals
  /\ UNCHANGED <<runner, probing, ready, agones, queue, occupancy, disturbances, built>>

GameExits ==
  /\ GameUp /\ child
  /\ disturbances > 0 /\ disturbances' = disturbances - 1
  /\ game' = "exited"
  /\ UNCHANGED <<runner, readiness, agones, queue, occupancy, built>>

\* wait_accepting: a probe connects to whatever process holds the port now.
ProbeConnects ==
  /\ probing > 0 /\ game = "accepting"
  /\ probing' = probing - 1 /\ signals' = signals + 1
  /\ UNCHANGED <<runner, game, ready, agones, queue, occupancy, disturbances, built>>

\* ... or reaches readiness_timeout with the port still closed.
ProbeGivesUp ==
  /\ probing > 0 /\ game # "accepting"
  /\ probing' = probing - 1
  /\ UNCHANGED <<runner, game, signals, ready, agones, queue, occupancy,
                 disturbances, built>>

\* A probe's send waits for the channel's one slot; a pump's try_send drops the
\* message when the slot is taken.
SignalReady ==
  /\ signals > 0
  /\ ReadyByLog \/ ~ready
  /\ signals' = signals - 1
  /\ ready' = TRUE
  /\ UNCHANGED <<runner, game, probing, agones, queue, occupancy, disturbances, built>>

\* A client's POST reaches control_rx, waiting while it is full.
Submit(command) ==
  /\ pc # "gone"
  /\ Len(queue) < QueueDepth
  /\ disturbances > 0 /\ disturbances' = disturbances - 1
  /\ queue' = Append(queue, command)
  /\ UNCHANGED <<runner, game, readiness, agones, occupancy, built>>

\* player_count() returns, at any later time, and its task sends the result.
PollAnswers ==
  /\ polls > 0 /\ reading = "empty"
  /\ polls' = polls - 1
  /\ reading' \in Reading
  /\ UNCHANGED <<runner, game, readiness, agones, queue, streak, disturbances, built>>

\* Agones misses the pings of a suspended heartbeat and recreates the pod.
PodRecreated ==
  /\ ~beating
  /\ st' = BootState /\ pc' = BootPoint /\ label' = BootLabel
  /\ op' = "boot" /\ child' = FALSE /\ game' = "none"
  /\ probing' = 0 /\ signals' = 0 /\ ready' = FALSE
  /\ beating' = TRUE /\ agonesReady' = FALSE
  /\ queue' = <<>>
  /\ polls' = 0 /\ reading' = "empty" /\ streak' = NoStreak
  /\ built' = 0
  /\ UNCHANGED disturbances

Tick ==
  /\ st' = Aged(st)
  /\ streak' = IF streak = NoStreak THEN streak ELSE Older(streak, EmptyGrace)
  /\ built' = Older(built, UptimeCap)
  /\ UNCHANGED <<child, pc, op, game, readiness, agones, queue, polls, reading,
                 disturbances>>

------------------------------------------------------------------------------
Next ==
  \/ Launch \/ StopCompletes \/ BackoffEnds
  \/ HandleRequest \/ HandleUnexpectedExit \/ SettleReady
  \/ SpawnOccupancyPoll \/ MaybeAutoUpdate \/ Drain
  \/ GameAccepts \/ GameExits
  \/ ProbeConnects \/ ProbeGivesUp \/ SignalReady
  \/ \E command \in Command : Submit(command)
  \/ PollAnswers \/ PodRecreated \/ Tick

Spec == Init /\ [][Next]_vars

(* Fairness.  Awaits end: launch preparation has timeouts and a stop ends in  *)
(* SIGKILL.  select! polls its branches in random order, so a branch that     *)
(* keeps being ready is taken.  A probe that polls an open port connects, and *)
(* tokio's channels serve waiting senders in order.                           *)
Fairness ==
  /\ WF_vars(Launch) /\ WF_vars(StopCompletes) /\ WF_vars(BackoffEnds)
  /\ SF_vars(HandleRequest) /\ SF_vars(HandleUnexpectedExit)
  /\ SF_vars(SettleReady) /\ SF_vars(MaybeAutoUpdate)
  /\ WF_vars(ProbeConnects) /\ SF_vars(SignalReady)

FairSpec == Spec /\ Fairness

------------------------------------------------------------------------------
(* Safety.                                                                    *)

\* Between handlers, a game process the loop holds is wanted and is presented
\* as coming up or up, in /status and in the label alike: the bot, which rolls
\* a configuration back on "crashed", never does so to a game that runs.
HeldGameReadsAsUp ==
  pc = "loop" /\ child =>
    /\ st.desired = "Running" /\ st.phase \in {"Starting", "Running"} /\ st.pid
    /\ label # "stopped"

\* A running game is always held by the loop, which will see it exit, or by
\* the handler that is stopping it; and none runs while another is launched.
NoUnwatchedGame == GameUp => child \/ pc = "stopping"

\* A stop is complete: between handlers a server the operator stopped has no
\* process, reports Stopped and no uptime, whatever readiness message or
\* occupancy reading was still in a channel when it was stopped.
StoppedIsStopped ==
  pc = "loop" /\ st.desired = "Stopped" =>
    /\ ~child /\ game = "none"
    /\ st.phase = "Stopped" /\ ~st.pid /\ st.uptime = 0

\* While the heartbeat beats the crash budget is not used up: there is no way
\* to reach the threshold and not be condemned, nor to be pardoned and keep
\* the old crashes.
BudgetNotSpent == beating => Len(st.crashes) < CrashThreshold

\* Only the operator ends a stop.  Desired goes from Stopped to Running by a
\* start or a restart request and by nothing else that can still arrive: not
\* an auto-update deciding on a reading taken before the stop, not a late
\* readiness message.  (A recreated pod boots afresh.)
EndOfStop ==
  st.desired = "Stopped" /\ st'.desired = "Running" =>
    \/ /\ queue # <<>> /\ Head(queue) \in {"start", "restart"}
       /\ queue' = Tail(queue)
    \/ ~beating
OnlyOperatorEndsAStop == [][EndOfStop]_vars

\* The heartbeat stops only on an exit that fills the window: as many crashes
\* as the threshold, none older than the window.
CondemnedByCrashLoop ==
  [][ beating /\ ~beating' =>
        /\ Len(st'.crashes) >= CrashThreshold
        /\ \A i \in DOMAIN st'.crashes : st'.crashes[i] <= CrashWindow
        /\ ~child'
    ]_vars

\* An update bounces only a build that is old: whichever launch the reading was
\* taken under, and however it came to be folded in late, behind another bounce,
\* a restart, a crash or a launch that failed, the game that is replaced was
\* launched long enough ago, counted from that launch and not from the uptime
\* the loop believes in.
BounceOfOldBuild ==
  pc = "loop" /\ pc' # "loop" /\ op' = "auto-update" =>
    built >= UpdateInterval \/ built >= MaxUptime
BouncesOldBuilds == [][BounceOfOldBuild]_vars

\* The slot the supervisor promises.
Slot == INSTANCE GameSlot WITH
  up <- GameUp, wanted <- (st.desired = "Running"), condemned <- ~beating

SlotSpec == Slot!Spec

------------------------------------------------------------------------------
(* Liveness.                                                                  *)

\* A condemned pod whose game comes back up is pardoned, unless the game goes
\* down again or Agones was faster.
RecoveryIsNoticed ==
  ~beating /\ game = "accepting" /\ probing + signals > 0
    ~> (beating \/ game # "accepting")

------------------------------------------------------------------------------
(* Said of the code, and not so.                                              *)

\* state.rs, on_started: "`Running` always means up right now".  A readiness
\* message of the previous launch, still in the channel, is taken for this
\* one's.  (An exit the loop has not seen yet is not held against it.)
RunningMeansUp == st.phase = "Running" => game \in {"accepting", "exited"}

\* runner.rs, handle_unexpected_exit: every failure mode leaves the phase
\* where the next observer should find it, "a spawn failure as the crash the
\* exit was".  It leaves Starting, with nothing that will ever start.
SpawnFailureReadsAsCrash == pc = "loop" /\ ~child => st.phase # "Starting"
==============================================================================
