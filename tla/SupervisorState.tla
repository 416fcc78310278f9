--------------------------- MODULE SupervisorState ---------------------------
(* The supervisor's view of the game process: SupervisorState of              *)
(* crates/supervisor/src/state.rs.  As in the source, every transition is a   *)
(* pure function of the state; the runner (module Supervisor) drives it.      *)
(*                                                                            *)
(* Time.  The source keeps Instants and only ever compares differences, so    *)
(* the model keeps ages: `uptime` is the age of started_at and `crashes` the  *)
(* ages of crash_times, oldest first.  An age stops growing one past the      *)
(* largest threshold it is compared with, where no comparison tells it from a *)
(* greater one; that makes time unbounded and the state finite.               *)
EXTENDS Integers, Sequences, FiniteSets

CONSTANTS
  CrashWindow,      \* crash_window: the age up to which an exit still counts
  CrashThreshold,   \* crash_threshold: exits in the window that escalate
  RestartCap,       \* where the reported restart counter saturates (u32::MAX)
  UptimeCap         \* bound on the age of a launch (see above)

ASSUME CrashAssumption ==
  /\ CrashWindow \in Nat
  /\ CrashThreshold \in Nat \ {0}
  /\ RestartCap \in Nat
  /\ UptimeCap \in Nat

DesiredState == {"Running", "Stopped"}
ProcessPhase == {"Starting", "Running", "Stopping", "Stopped", "Crashed"}
CrashAge == 0 .. (CrashWindow + 1)

\* pid and started_at are Some together and None together: `pid` says which,
\* and `uptime` is 0 while they are None, as status() reports it.
StateType ==
  [ desired  : DesiredState,
    phase    : ProcessPhase,
    pid      : BOOLEAN,
    uptime   : 0 .. UptimeCap,
    readied  : BOOLEAN,
    restarts : 0 .. RestartCap,
    crashes  : Seq(CrashAge) ]

New ==
  [ desired |-> "Running", phase |-> "Starting", pid |-> FALSE, uptime |-> 0,
    readied |-> FALSE, restarts |-> 0, crashes |-> <<>> ]

\* Fault: a launch keeps the started_at it finds.
OnStartedOnce(s) == [s EXCEPT !.pid = TRUE, !.phase = "Starting"]

OnStarted(s) == [s EXCEPT !.pid = TRUE, !.uptime = 0, !.phase = "Starting"]

\* Fault: a late message revives a stopped server.
OnReadyAlways(s) == [s EXCEPT !.readied = TRUE, !.phase = "Running"]

OnReady(s) ==
  [s EXCEPT !.readied = TRUE,
            !.phase = IF s.desired = "Running" THEN "Running" ELSE @]

OnStopRequested(s) == [s EXCEPT !.desired = "Stopped", !.phase = "Stopping"]

\* Fault: the request moves the phase and leaves the wish.
OnStartRequestedPhaseOnly(s) == [s EXCEPT !.phase = "Starting"]

OnStartRequested(s) == [s EXCEPT !.desired = "Running", !.phase = "Starting"]

OnRestartRequested(s) == [s EXCEPT !.desired = "Running", !.phase = "Stopping"]

\* Fault: started_at outlives the process.
OnStoppedKeepsUptime(s) == [s EXCEPT !.phase = "Stopped"]

OnStopped(s) == [s EXCEPT !.phase = "Stopped", !.pid = FALSE, !.uptime = 0]

\* crash_times.retain(..): the exits are in order of time, oldest first, so what
\* is retained is what follows the ones that have left the window.
Expired(s) == {i \in DOMAIN s.crashes : s.crashes[i] > CrashWindow}
Retained(s) == SubSeq(s.crashes, Cardinality(Expired(s)) + 1, Len(s.crashes))

\* crash_times after this exit is counted.
Counted(s) == Append(Retained(s), 0)

\* Fault: one exit too many before escalating.
ExitDispositionLate(s) ==
  CASE s.desired = "Stopped" -> "Clean"
    [] s.desired # "Stopped" /\ Len(Counted(s)) > CrashThreshold -> "Escalate"
    [] OTHER -> "Relaunch"

ExitDisposition(s) ==
  CASE s.desired = "Stopped" -> "Clean"
    [] s.desired # "Stopped" /\ Len(Counted(s)) >= CrashThreshold -> "Escalate"
    [] OTHER -> "Relaunch"

\* Fault: the restart counter wraps past its width.
OnChildExitUnsaturated(s) ==
  IF ExitDisposition(s) = "Clean"
  THEN OnStopped(s)
  ELSE [s EXCEPT !.pid = FALSE, !.uptime = 0, !.restarts = @ + 1,
                 !.crashes = Counted(s), !.phase = "Starting"]

OnChildExit(s) ==
  IF ExitDisposition(s) = "Clean"
  THEN OnStopped(s)
  ELSE [s EXCEPT !.pid = FALSE, !.uptime = 0,
                 !.restarts = IF @ < RestartCap THEN @ + 1 ELSE @,
                 !.crashes = Counted(s),
                 !.phase = IF ExitDisposition(s) = "Escalate"
                           THEN "Crashed" ELSE "Starting"]

OnLaunchFailed(s) == [s EXCEPT !.phase = "Crashed", !.pid = FALSE, !.uptime = 0]

ClearCrashHistory(s) == [s EXCEPT !.crashes = <<>>]

------------------------------------------------------------------------------
\* One unit of time passes.
Older(age, cap) == IF age < cap THEN age + 1 ELSE age

Aged(s) ==
  [s EXCEPT !.uptime = IF s.pid THEN Older(@, UptimeCap) ELSE @,
            !.crashes = [i \in DOMAIN s.crashes |->
                           Older(s.crashes[i], CrashWindow + 1)]]
==============================================================================
