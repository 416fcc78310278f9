--------------------------- MODULE SupervisorProofs ---------------------------
(* Theorems about the supervisor's modules, for every value of their          *)
(* constants: first Supervisor, its loop; then ModReconcile, which prepares   *)
(* the mods before a launch.  The two machines share no variable.             *)
EXTENDS Supervisor, ModReconcile, SequenceTheorems, FiniteSetTheorems, WellFoundedInduction, TLAPS

------------------------------------------------------------------------------
(* The transitions of SupervisorState.                                        *)

\* What is retained of crash_times is a sequence of ages, no longer than it.
LEMMA RetainedIsSequence ==
  ASSUME NEW s \in StateType
  PROVE  Retained(s) \in Seq(CrashAge)
<1> DEFINE n == Len(s.crashes)
<1>1. s.crashes \in Seq(CrashAge) /\ n \in Nat /\ DOMAIN s.crashes = 1..n
  BY DEF StateType
<1>2. IsFiniteSet(1..n) /\ Cardinality(1..n) = n
  <2> HIDE DEF n
  <2>0. 1 \in Int /\ n \in Int
    BY <1>1
  <2>1. IsFiniteSet(1..n) /\ Cardinality(1..n) = IF 1 > n THEN 0 ELSE n - 1 + 1
    BY <2>0, FS_Interval, Zenon
  <2>2. QED BY <2>1, <1>1
<1>3. Expired(s) \subseteq 1..n
  BY <1>1 DEF Expired
<1>4. Cardinality(Expired(s)) \in Nat /\ Cardinality(Expired(s)) <= n
  BY <1>2, <1>3, FS_Subset, FS_CardinalityType
<1> DEFINE k == Cardinality(Expired(s)) + 1
<1>5. k \in 1 .. n+1
  BY <1>1, <1>4
<1>6. \A i \in k .. n : s.crashes[i] \in CrashAge
  BY <1>1, <1>5, ElementOfSeq
<1>7. SubSeq(s.crashes, k, n) \in Seq(CrashAge)
  <2> HIDE DEF k, n
  <2>1. QED BY <1>1, <1>5, <1>6
<1> QED BY <1>7 DEF Retained

\* The exits counted after one more: ages, and at least one of them.
LEMMA CountedIsSequence ==
  ASSUME NEW s \in StateType
  PROVE  Counted(s) \in Seq(CrashAge) /\ Len(Counted(s)) \in Nat
<1>1. 0 \in CrashAge
  BY CrashAssumption DEF CrashAge
<1>2. QED BY <1>1, RetainedIsSequence DEF Counted

\* Every transition of the state machine yields a state.
LEMMA TransitionsAreTyped ==
  ASSUME NEW s \in StateType
  PROVE  /\ OnStarted(s) \in StateType
         /\ OnReady(s) \in StateType
         /\ OnStopRequested(s) \in StateType
         /\ OnStartRequested(s) \in StateType
         /\ OnRestartRequested(s) \in StateType
         /\ OnStopped(s) \in StateType
         /\ OnChildExit(s) \in StateType
         /\ OnLaunchFailed(s) \in StateType
         /\ ClearCrashHistory(s) \in StateType
         /\ Aged(s) \in StateType
<1> USE DEF StateType, DesiredState, ProcessPhase
<1>0. 0 \in 0 .. UptimeCap
  BY CrashAssumption
<1>1. OnStarted(s) \in StateType /\ OnLaunchFailed(s) \in StateType
  BY <1>0 DEF OnStarted, OnLaunchFailed
<1>2. OnReady(s) \in StateType
  <2>1. CASE s.desired = "Running"
    BY <2>1 DEF OnReady
  <2>2. CASE s.desired # "Running"
    BY <2>2 DEF OnReady
  <2> QED BY <2>1, <2>2
<1>4. OnStopRequested(s) \in StateType /\ OnStartRequested(s) \in StateType
  BY DEF OnStopRequested, OnStartRequested
<1>5. OnRestartRequested(s) \in StateType
  BY DEF OnRestartRequested
<1>6. OnStopped(s) \in StateType
  BY <1>0 DEF OnStopped
<1>7. ClearCrashHistory(s) \in StateType
  BY EmptySeq DEF ClearCrashHistory
<1>8. OnChildExit(s) \in StateType
  <2>1. (IF s.restarts < RestartCap THEN s.restarts + 1 ELSE s.restarts) \in 0 .. RestartCap
    BY CrashAssumption
  <2>2. (IF ExitDisposition(s) = "Escalate" THEN "Crashed" ELSE "Starting") \in ProcessPhase
    OBVIOUS
  <2>3. Counted(s) \in Seq(CrashAge)
    BY CountedIsSequence
  <2>4. CASE ExitDisposition(s) = "Clean"
    BY <1>6, <2>4 DEF OnChildExit
  <2>5. CASE ExitDisposition(s) # "Clean"
    BY <1>0, <2>1, <2>2, <2>3, <2>5 DEF OnChildExit
  <2> QED BY <2>4, <2>5
<1>3. Aged(s) \in StateType
  <2>1. \A a \in 0 .. UptimeCap : Older(a, UptimeCap) \in 0 .. UptimeCap
    BY CrashAssumption DEF Older
  <2>2. \A a \in CrashAge : Older(a, CrashWindow + 1) \in CrashAge
    BY CrashAssumption DEF Older, CrashAge
  <2>3. [i \in DOMAIN s.crashes |-> Older(s.crashes[i], CrashWindow + 1)] \in Seq(CrashAge)
    BY <2>2
  <2> QED BY <2>1, <2>3 DEF Aged
<1> QED BY <1>1, <1>2, <1>3, <1>4, <1>5, <1>6, <1>7, <1>8

\* The state a pod boots with.
LEMMA BootStateIsTyped == BootState \in StateType /\ New \in StateType
<1>1. New \in StateType
  BY EmptySeq, CrashAssumption DEF New, StateType, DesiredState, ProcessPhase
<1> QED BY <1>1, TransitionsAreTyped DEF BootState

------------------------------------------------------------------------------
(* Type correctness.                                                          *)

\* The streak stays an age within the grace period, or none.
LEMMA StreakIsTyped ==
  ASSUME NEW k \in StreakType, NEW r \in Reading
  PROVE  /\ StreakAfter(k, r) \in StreakType
         /\ NoStreak \in StreakType
         /\ (IF k = NoStreak THEN k ELSE Older(k, EmptyGrace)) \in StreakType
BY AutoUpdateAssumption DEF StreakAfter, StreakType, NoStreak, Reading, Older

\* Every variable of the supervisor keeps its type, whatever the game, its
\* clients and Agones do.
THEOREM TypeCorrect == Spec => []TypeOK
<1>1. Init => TypeOK
  <2>1. <<>> \in Seq(Command) /\ NoStreak \in StreakType
    BY EmptySeq, AutoUpdateAssumption DEF StreakType, NoStreak
  <2>2. BootPoint \in Awaits /\ BootLabel \in {"unset", "running", "stopped"}
    BY DEF BootPoint, BootLabel, Awaits
  <2>3. "boot" \in Operation /\ "empty" \in Reading \cup {"empty"}
    BY DEF Operation
  <2>4. MaxDisturbances \in Nat /\ 0 \in Nat /\ 0 \in 0 .. UptimeCap
    BY RunnerAssumption, CrashAssumption
  <2> QED
    BY <2>1, <2>2, <2>3, <2>4, BootStateIsTyped DEF Init, TypeOK
<1>2. TypeOK /\ [Next]_vars => TypeOK'
  <2> SUFFICES ASSUME TypeOK, [Next]_vars PROVE TypeOK'
    OBVIOUS
  <2> USE DEF TypeOK, Awaits, Operation, readiness, agones, occupancy, runner
  <2>q. queue # <<>> => Tail(queue) \in Seq(Command)
    BY HeadTailProperties
  <2>u. 0 \in 0 .. UptimeCap /\ Older(built, UptimeCap) \in 0 .. UptimeCap
    BY CrashAssumption DEF Older
  <2>k. /\ NoStreak \in StreakType
        /\ \A r \in Reading : StreakAfter(streak, r) \in StreakType
    BY StreakIsTyped, AutoUpdateAssumption DEF StreakType, NoStreak
  <2>1. CASE Launch
    <3>1. NoteRelaunched => streak' \in StreakType
      BY <2>k DEF NoteRelaunched
    <3>2. OnStarted(st) \in StateType /\ OnLaunchFailed(st) \in StateType
      BY TransitionsAreTyped
    <3>3. CASE LaunchSucceeds
      BY <2>u, <3>1, <3>2, <3>3 DEF LaunchSucceeds, StartReadiness
    <3>4. CASE LaunchRefused
      BY <3>1, <3>2, <3>4 DEF LaunchRefused
    <3>5. CASE LaunchFails
      BY <3>1, <3>5 DEF LaunchFails
    <3> QED BY <2>1, <3>3, <3>4, <3>5 DEF Launch
  <2>2. CASE StopCompletes
    <3>1. OnStopped(st) \in StateType
      BY TransitionsAreTyped
    <3> QED BY <2>2, <3>1 DEF StopCompletes
  <2>3. CASE BackoffEnds
    BY <2>3 DEF BackoffEnds
  <2>4. CASE HandleRequest
    <3>1. /\ OnStopRequested(st) \in StateType
          /\ OnStartRequested(st) \in StateType
          /\ OnRestartRequested(st) \in StateType
      BY TransitionsAreTyped
    <3>2. CASE StopWithoutChild
      BY <3>2, <2>q DEF StopWithoutChild, Received
    <3>3. CASE StopBegins
      BY <3>1, <3>3, <2>q DEF StopBegins, Received
    <3>4. CASE StartWithChild
      BY <3>4, <2>q DEF StartWithChild, Received
    <3>5. CASE StartBegins
      BY <3>1, <3>5, <2>q DEF StartBegins, Received
    <3>6. CASE RestartBegins
      BY <3>1, <3>6, <2>q DEF RestartBegins, Received, Bounce
    <3> QED BY <2>4, <3>2, <3>3, <3>4, <3>5, <3>6 DEF HandleRequest
  <2>5. CASE HandleUnexpectedExit
    <3>1. OnChildExit(st) \in StateType
      BY TransitionsAreTyped
    <3> QED BY <2>5, <3>1 DEF HandleUnexpectedExit
  <2>6. CASE SettleReady
    <3>1. OnReady(st) \in StateType /\ ClearCrashHistory(OnReady(st)) \in StateType
      BY TransitionsAreTyped
    <3> QED BY <2>6, <3>1 DEF SettleReady
  <2>7. CASE SpawnOccupancyPoll
    BY <2>7 DEF SpawnOccupancyPoll
  <2>8. CASE MaybeAutoUpdate
    <3>1. OnRestartRequested(st) \in StateType
      BY TransitionsAreTyped
    <3>2. CASE ObserveOnly
      BY <3>2, <2>k DEF ObserveOnly
    <3>3. CASE AutoUpdateBegins
      BY <3>1, <3>3, <2>k DEF AutoUpdateBegins, Bounce
    <3> QED BY <2>8, <3>2, <3>3 DEF MaybeAutoUpdate
  <2>9. CASE Drain
    BY <2>9 DEF Drain
  <2>10. CASE GameAccepts
    BY <2>10 DEF GameAccepts
  <2>11. CASE GameExits
    BY <2>11 DEF GameExits
  <2>12. CASE ProbeConnects \/ ProbeGivesUp \/ SignalReady
    <3>1. CASE ProbeConnects
      BY <3>1 DEF ProbeConnects
    <3>2. CASE ProbeGivesUp
      BY <3>2 DEF ProbeGivesUp
    <3>3. CASE SignalReady
      BY <3>3 DEF SignalReady
    <3> QED BY <2>12, <3>1, <3>2, <3>3
  <2>13. CASE \E command \in Command : Submit(command)
    BY <2>13 DEF Submit
  <2>14. CASE PollAnswers
    BY <2>14 DEF PollAnswers
  <2>15. CASE PodRecreated
    <3>1. <<>> \in Seq(Command)
      BY EmptySeq
    <3> QED
      BY <2>15, <2>k, <2>u, <3>1, BootStateIsTyped DEF PodRecreated, BootPoint, BootLabel
  <2>16. CASE Tick
    <3>1. Aged(st) \in StateType
      BY TransitionsAreTyped
    <3>2. (IF streak = NoStreak THEN streak ELSE Older(streak, EmptyGrace)) \in StreakType
      BY AutoUpdateAssumption DEF StreakType, NoStreak, Older
    <3> QED BY <2>16, <2>u, <3>1, <3>2 DEF Tick
  <2>17. CASE UNCHANGED vars
    BY <2>17 DEF vars
  <2> QED
    BY <2>1, <2>2, <2>3, <2>4, <2>5, <2>6, <2>7, <2>8, <2>9, <2>10, <2>11, <2>12,
       <2>13, <2>14, <2>15, <2>16, <2>17 DEF Next
<1>3. QED BY <1>1, <1>2, PTL DEF Spec

------------------------------------------------------------------------------
(* The inductive invariant.  Each safety property speaks of the loop between  *)
(* handlers; what makes it inductive is what the handlers rely on while they  *)
(* wait: whom they launch for, and that the slot they left is empty.          *)

\* What holds of a child in the loop's slot.
HeldGame ==
  child =>
    /\ pc = "loop" /\ game # "none"
    /\ st.desired = "Running" /\ st.phase \in {"Starting", "Running"} /\ st.pid
    /\ label # "stopped"

\* With the slot empty only the handler stopping it can still have a game.
EmptySlot == ~child /\ pc # "stopping" => game = "none"

\* A handler on its way to a launch has the operator's wish for it.
LaunchesAreWanted ==
  /\ pc \in {"launching", "backoff"} => st.desired = "Running"
  /\ pc = "stopping" /\ op \notin {"stop", "drain"} => st.desired = "Running"
  /\ pc = "launching" /\ op = "boot" => label # "stopped"
  /\ pc \in {"stopping", "backoff"} => op # "boot"

\* A stop has gone all the way, and a process that is not there has no uptime.
Parked ==
  /\ pc = "loop" /\ st.desired = "Stopped" => st.phase = "Stopped" /\ ~st.pid
  /\ ~st.pid => st.uptime = 0

IInv == HeldGame /\ EmptySlot /\ LaunchesAreWanted /\ Parked /\ BudgetNotSpent

LEMMA IInvInit == Init => IInv
<1> SUFFICES ASSUME Init PROVE IInv
  OBVIOUS
<1>1. Len(New.crashes) = 0 /\ Len(BootState.crashes) = 0
  BY EmptySeq DEF New, BootState, OnStopped, OnStopRequested
<1>2. BudgetNotSpent
  BY <1>1, CrashAssumption DEF Init, BudgetNotSpent
<1>3. HeldGame /\ EmptySlot
  BY DEF Init, HeldGame, EmptySlot
<1>4. LaunchesAreWanted /\ Parked
  BY DEF Init, LaunchesAreWanted, Parked, BootState, BootPoint, BootLabel,
     OnStopped, OnStopRequested, New
<1> QED BY <1>2, <1>3, <1>4 DEF IInv

LEMMA IInvStep == TypeOK /\ IInv /\ [Next]_vars => IInv'
<1> SUFFICES ASSUME TypeOK, IInv, [Next]_vars PROVE IInv'
  OBVIOUS
<1>t. st \in StateType
  BY DEF TypeOK
<1> USE <1>t DEF IInv, HeldGame, EmptySlot, LaunchesAreWanted, Parked, BudgetNotSpent,
    readiness, agones, occupancy, runner, StateType
<1>1. CASE LaunchSucceeds
  <2>1. /\ st'.desired = "Running" /\ st'.phase = "Starting" /\ st'.pid
        /\ st'.crashes = st.crashes
    BY <1>1 DEF LaunchSucceeds, OnStarted
  <2>2. child' /\ pc' = "loop" /\ game' = "booting" /\ label' # "stopped" /\ beating' = beating
    BY <1>1 DEF LaunchSucceeds
  <2> QED BY <2>1, <2>2
<1>2. CASE LaunchRefused
  <2>1. /\ st'.desired = "Running" /\ st'.uptime = 0 /\ st'.crashes = st.crashes
    BY <1>2 DEF LaunchRefused, OnLaunchFailed
  <2> QED BY <1>2, <2>1 DEF LaunchRefused
<1>3. CASE LaunchFails
  BY <1>3 DEF LaunchFails
<1>4. CASE StopCompletes
  BY <1>4 DEF StopCompletes, OnStopped
<1>5. CASE BackoffEnds
  BY <1>5 DEF BackoffEnds
<1>6. CASE StopWithoutChild \/ StartWithChild
  BY <1>6 DEF StopWithoutChild, StartWithChild
<1>7. CASE StopBegins
  BY <1>7 DEF StopBegins, Received, OnStopRequested
<1>8. CASE StartBegins
  BY <1>8 DEF StartBegins, Received, OnStartRequested
<1>9. CASE RestartBegins
  BY <1>9 DEF RestartBegins, Received, Bounce, OnRestartRequested
<1>10. CASE HandleUnexpectedExit
  <2>1. st.desired = "Running" /\ ExitDisposition(st) # "Clean"
    BY <1>10 DEF HandleUnexpectedExit, ExitDisposition
  <2>2. /\ st'.desired = "Running" /\ ~st'.pid /\ st'.uptime = 0
        /\ st'.crashes = Counted(st)
    BY <1>10, <2>1 DEF HandleUnexpectedExit, OnChildExit
  <2>3. ExitDisposition(st) # "Escalate" => Len(Counted(st)) < CrashThreshold
    BY <2>1, CountedIsSequence, CrashAssumption DEF ExitDisposition
  <2>4. BudgetNotSpent'
    BY <1>10, <2>2, <2>3 DEF HandleUnexpectedExit
  <2>5. HeldGame' /\ EmptySlot' /\ LaunchesAreWanted' /\ Parked'
    BY <1>10, <2>2 DEF HandleUnexpectedExit
  <2> QED BY <2>4, <2>5
<1>11. CASE SettleReady
  <2>1. ~beating => Len(st'.crashes) = 0
    BY <1>11, EmptySeq DEF SettleReady, ClearCrashHistory, OnReady
  <2>2. beating => st'.crashes = st.crashes
    BY <1>11 DEF SettleReady, OnReady
  <2>3. BudgetNotSpent'
    BY <2>1, <2>2, CrashAssumption
  <2>4. /\ st'.desired = st.desired /\ st'.pid = st.pid /\ st'.uptime = st.uptime
        /\ st'.phase = IF st.desired = "Running" THEN "Running" ELSE st.phase
    BY <1>11 DEF SettleReady, ClearCrashHistory, OnReady
  <2>5. HeldGame' /\ EmptySlot' /\ LaunchesAreWanted' /\ Parked'
    BY <1>11, <2>4 DEF SettleReady
  <2> QED BY <2>3, <2>5
<1>12. CASE SpawnOccupancyPoll \/ ObserveOnly
  BY <1>12 DEF SpawnOccupancyPoll, ObserveOnly
<1>13. CASE AutoUpdateBegins
  BY <1>13 DEF AutoUpdateBegins, Bounce, OnRestartRequested
<1>14. CASE Drain
  BY <1>14 DEF Drain
<1>15. CASE GameAccepts \/ GameExits
  BY <1>15 DEF GameAccepts, GameExits, GameUp
<1>16. CASE ProbeConnects \/ ProbeGivesUp \/ SignalReady \/ PollAnswers
  BY <1>16 DEF ProbeConnects, ProbeGivesUp, SignalReady, PollAnswers
<1>17. CASE \E command \in Command : Submit(command)
  BY <1>17 DEF Submit
<1>18. CASE PodRecreated
  <2>1. Len(st'.crashes) = 0
    BY <1>18, EmptySeq DEF PodRecreated, New, BootState, OnStopped, OnStopRequested
  <2>2. BudgetNotSpent'
    BY <2>1, CrashAssumption
  <2>3. HeldGame' /\ EmptySlot'
    BY <1>18 DEF PodRecreated
  <2>4. LaunchesAreWanted' /\ Parked'
    BY <1>18 DEF PodRecreated, BootState, BootPoint, BootLabel, OnStopped,
       OnStopRequested, New
  <2> QED BY <2>2, <2>3, <2>4
<1>19. CASE Tick
  <2>1. /\ st'.desired = st.desired /\ st'.phase = st.phase /\ st'.pid = st.pid
        /\ ~st.pid => st'.uptime = st.uptime
    BY <1>19 DEF Tick, Aged
  <2>2. Len(st'.crashes) = Len(st.crashes)
    <3>1. st'.crashes = [i \in 1 .. Len(st.crashes) |-> Older(st.crashes[i], CrashWindow + 1)]
      BY <1>19 DEF Tick, Aged
    <3>2. Len(st.crashes) \in Nat
      BY LenProperties
    <3>3. DOMAIN st'.crashes = 1 .. Len(st.crashes)
      BY <3>1
    <3>4. st' \in StateType
      BY <1>19, TransitionsAreTyped DEF Tick
    <3>5. st'.crashes \in Seq(CrashAge)
      BY <3>4
    <3> QED BY <3>2, <3>3, <3>5, LenProperties
  <2>3. BudgetNotSpent'
    BY <1>19, <2>2 DEF Tick
  <2>4. HeldGame' /\ EmptySlot' /\ LaunchesAreWanted' /\ Parked'
    BY <1>19, <2>1 DEF Tick
  <2> QED BY <2>3, <2>4
<1>20. CASE UNCHANGED vars
  BY <1>20 DEF vars
<1> QED
  BY <1>1, <1>2, <1>3, <1>4, <1>5, <1>6, <1>7, <1>8, <1>9, <1>10, <1>11, <1>12,
     <1>13, <1>14, <1>15, <1>16, <1>17, <1>18, <1>19, <1>20
  DEF Next, Launch, HandleRequest, MaybeAutoUpdate

\* What the loop and its handlers always maintain.
THEOREM LoopInvariant == Spec => []IInv
<1>1. QED BY IInvInit, IInvStep, TypeCorrect, PTL DEF Spec

------------------------------------------------------------------------------
(* What follows from it.                                                      *)

\* A game the loop holds is never presented as stopped or crashed.
THEOREM HeldGameReadsAsUpAlways == Spec => []HeldGameReadsAsUp
<1>1. IInv => HeldGameReadsAsUp
  BY DEF IInv, HeldGame, HeldGameReadsAsUp
<1> QED BY <1>1, LoopInvariant, PTL

\* No game runs that the loop, or the handler stopping it, does not hold.
THEOREM NoUnwatchedGameEver == Spec => []NoUnwatchedGame
<1>1. IInv => NoUnwatchedGame
  BY DEF IInv, EmptySlot, NoUnwatchedGame, GameUp
<1> QED BY <1>1, LoopInvariant, PTL

\* A stopped server has no process, no pid and no uptime between handlers.
THEOREM StoppedIsStoppedAlways == Spec => []StoppedIsStopped
<1>1. IInv => StoppedIsStopped
  BY DEF IInv, HeldGame, EmptySlot, Parked, StoppedIsStopped
<1> QED BY <1>1, LoopInvariant, PTL

\* While the heartbeat beats, the crash budget is not used up.
THEOREM BudgetNotSpentAlways == Spec => []BudgetNotSpent
<1>1. IInv => BudgetNotSpent
  BY DEF IInv
<1> QED BY <1>1, LoopInvariant, PTL

\* An auto-update is due only for a build with some age, so never for a
\* stopped server, whose uptime is zero.
LEMMA DueHasAge ==
  ASSUME TypeOK, RelaunchDue(streak, reading, st.uptime)
  PROVE  /\ st.uptime >= UpdateInterval \/ st.uptime >= MaxUptime
         /\ st.uptime # 0
<1>1. st.uptime \in Nat
  BY CrashAssumption DEF TypeOK, StateType
<1> QED
  BY <1>1, AutoUpdateAssumption DEF RelaunchDue, IdleDue, BackstopDue

\* Every step that turns a stop into a wish to run is the operator's.
THEOREM OnlyOperatorEndsAStopAlways == Spec => OnlyOperatorEndsAStop
<1>1. TypeOK /\ IInv /\ [Next]_vars => EndOfStop \/ UNCHANGED vars
  <2> SUFFICES ASSUME TypeOK, IInv, [Next]_vars, ~UNCHANGED vars,
                      st.desired = "Stopped", st'.desired = "Running", beating
               PROVE  /\ queue # <<>> /\ Head(queue) \in {"start", "restart"}
                      /\ queue' = Tail(queue)
    BY DEF EndOfStop, TypeOK
  <2>t. st \in StateType
    BY DEF TypeOK
  <2> USE <2>t DEF StateType, runner
  <2>1. CASE Launch
    BY <2>1 DEF Launch, LaunchSucceeds, LaunchRefused, LaunchFails, IInv,
       LaunchesAreWanted
  <2>2. CASE StopCompletes \/ BackoffEnds \/ StopWithoutChild \/ StartWithChild
    BY <2>2 DEF StopCompletes, BackoffEnds, StopWithoutChild, StartWithChild,
       OnStopped
  <2>3. CASE StopBegins
    BY <2>3 DEF StopBegins, OnStopRequested
  <2>4. CASE StartBegins
    BY <2>4 DEF StartBegins, Received
  <2>5. CASE RestartBegins
    BY <2>5 DEF RestartBegins, Received
  <2>6. CASE HandleUnexpectedExit
    BY <2>6 DEF HandleUnexpectedExit, IInv, HeldGame
  <2>7. CASE SettleReady
    BY <2>7 DEF SettleReady, OnReady, ClearCrashHistory
  <2>8. CASE AutoUpdateBegins
    <3>1. pc = "loop" /\ st.uptime # 0
      BY <2>8, DueHasAge DEF AutoUpdateBegins
    <3> QED BY <3>1 DEF IInv, Parked
  <2>9. CASE SpawnOccupancyPoll \/ ObserveOnly \/ Drain \/ GameAccepts \/ GameExits
    BY <2>9 DEF SpawnOccupancyPoll, ObserveOnly, Drain, GameAccepts, GameExits
  <2>10. CASE ProbeConnects \/ ProbeGivesUp \/ SignalReady \/ PollAnswers
    BY <2>10 DEF ProbeConnects, ProbeGivesUp, SignalReady, PollAnswers
  <2>11. CASE \E command \in Command : Submit(command)
    BY <2>11 DEF Submit
  <2>12. CASE PodRecreated
    BY <2>12 DEF PodRecreated
  <2>13. CASE Tick
    BY <2>13 DEF Tick, Aged
  <2> QED
    BY <2>1, <2>2, <2>3, <2>4, <2>5, <2>6, <2>7, <2>8, <2>9, <2>10, <2>11, <2>12,
       <2>13 DEF Next, HandleRequest, MaybeAutoUpdate
<1> QED BY <1>1, TypeCorrect, LoopInvariant, PTL DEF Spec, OnlyOperatorEndsAStop

\* The uptime the loop reports is never more than the age of its last launch:
\* every way to a new game starts it over, and no way keeps it for another.
AgeIsHonest == st.uptime <= built

LEMMA TransitionsKeepAge ==
  ASSUME st \in StateType
  PROVE  /\ OnStarted(st).uptime = 0 /\ OnStopped(st).uptime = 0
         /\ OnLaunchFailed(st).uptime = 0 /\ OnChildExit(st).uptime = 0
         /\ OnReady(st).uptime = st.uptime
         /\ ClearCrashHistory(OnReady(st)).uptime = st.uptime
         /\ OnStopRequested(st).uptime = st.uptime
         /\ OnStartRequested(st).uptime = st.uptime
         /\ OnRestartRequested(st).uptime = st.uptime
         /\ Aged(st).uptime \in {st.uptime, Older(st.uptime, UptimeCap)}
  BY DEF StateType, OnStarted, OnStopped, OnLaunchFailed, OnChildExit, OnReady,
     ClearCrashHistory, OnStopRequested, OnStartRequested, OnRestartRequested, Aged

LEMMA AgeStep == TypeOK /\ AgeIsHonest /\ [Next]_vars => AgeIsHonest'
<1> SUFFICES ASSUME TypeOK, AgeIsHonest, [Next]_vars PROVE AgeIsHonest'
  OBVIOUS
<1>t. st \in StateType /\ built \in 0 .. UptimeCap /\ st.uptime \in 0 .. UptimeCap
  BY DEF TypeOK, StateType
<1>n. UptimeCap \in Nat
  BY CrashAssumption
<1>k. BootState.uptime = 0
  BY DEF BootState, OnStopped, OnStopRequested, New
<1>1. CASE \/ UNCHANGED <<st, built>>
           \/ built' = built /\ st'.uptime \in {0, st.uptime}
           \/ st'.uptime = 0 /\ built' = 0
  BY <1>1, <1>t, <1>n DEF AgeIsHonest
<1>2. CASE Launch
  BY <1>1, <1>2, <1>t, TransitionsKeepAge DEF Launch, LaunchSucceeds, LaunchRefused, LaunchFails
<1>3. CASE StopCompletes \/ BackoffEnds \/ HandleUnexpectedExit \/ SettleReady
  BY <1>1, <1>3, <1>t, TransitionsKeepAge DEF StopCompletes, BackoffEnds, HandleUnexpectedExit,
     SettleReady
<1>4. CASE HandleRequest
  BY <1>1, <1>4, <1>t, TransitionsKeepAge DEF HandleRequest, StopWithoutChild, StopBegins,
     StartWithChild, StartBegins, RestartBegins, Bounce, runner
<1>5. CASE MaybeAutoUpdate \/ SpawnOccupancyPoll \/ Drain
  BY <1>1, <1>5, <1>t, TransitionsKeepAge DEF MaybeAutoUpdate, ObserveOnly, AutoUpdateBegins,
     Bounce, SpawnOccupancyPoll, Drain, runner
<1>6. CASE GameAccepts \/ GameExits \/ ProbeConnects \/ ProbeGivesUp \/ SignalReady \/ PollAnswers
  BY <1>1, <1>6 DEF GameAccepts, GameExits, ProbeConnects, ProbeGivesUp, SignalReady,
     PollAnswers, runner
<1>7. CASE \E command \in Command : Submit(command)
  BY <1>1, <1>7 DEF Submit, runner
<1>8. CASE PodRecreated
  BY <1>1, <1>8, <1>k DEF PodRecreated
<1>9. CASE Tick
  <2>1. built' = Older(built, UptimeCap)
        /\ st'.uptime \in {st.uptime, Older(st.uptime, UptimeCap)}
    BY <1>9, <1>t, TransitionsKeepAge DEF Tick
  <2> QED
    BY <2>1, <1>t, <1>n DEF AgeIsHonest, Older
<1>10. CASE UNCHANGED vars
  BY <1>1, <1>10 DEF vars, runner
<1> QED
  BY <1>2, <1>3, <1>4, <1>5, <1>6, <1>7, <1>8, <1>9, <1>10 DEF Next

\* What an update bounces was launched long enough ago, whatever reading it acts on.
THEOREM BouncesOldBuildsAlways == Spec => BouncesOldBuilds
<1>0. Init => AgeIsHonest
  <2>1. BootState.uptime = 0
    BY DEF BootState, OnStopped, OnStopRequested, New
  <2> QED
    BY <2>1 DEF Init, AgeIsHonest
<1>1. TypeOK /\ AgeIsHonest /\ [Next]_vars => BounceOfOldBuild \/ UNCHANGED vars
  <2> SUFFICES ASSUME TypeOK, AgeIsHonest, [Next]_vars, ~UNCHANGED vars,
                      pc = "loop", pc' # "loop", op' = "auto-update"
               PROVE  built >= UpdateInterval \/ built >= MaxUptime
    BY DEF BounceOfOldBuild
  <2>1. CASE AutoUpdateBegins
    <3>1. st.uptime \in Nat /\ built \in Nat /\ st.uptime <= built
      BY CrashAssumption DEF TypeOK, StateType, AgeIsHonest
    <3>2. st.uptime >= UpdateInterval \/ st.uptime >= MaxUptime
      BY <2>1, DueHasAge DEF AutoUpdateBegins
    <3> QED
      BY <3>1, <3>2, AutoUpdateAssumption
  <2>2. CASE HandleRequest
    BY <2>2 DEF HandleRequest, StopWithoutChild, StopBegins, StartWithChild,
       StartBegins, RestartBegins, Bounce, runner
  <2>3. CASE HandleUnexpectedExit
    BY <2>3 DEF HandleUnexpectedExit
  <2>4. CASE Launch \/ StopCompletes \/ BackoffEnds
    BY <2>4 DEF Launch, LaunchSucceeds, LaunchRefused, LaunchFails, StopCompletes,
       BackoffEnds
  <2>5. CASE SettleReady \/ SpawnOccupancyPoll \/ ObserveOnly \/ Drain
    BY <2>5 DEF SettleReady, SpawnOccupancyPoll, ObserveOnly, Drain, runner
  <2>6. CASE GameAccepts \/ GameExits \/ ProbeConnects \/ ProbeGivesUp
    BY <2>6 DEF GameAccepts, GameExits, ProbeConnects, ProbeGivesUp, runner
  <2>7. CASE SignalReady \/ PollAnswers \/ (\E command \in Command : Submit(command))
    BY <2>7 DEF SignalReady, PollAnswers, Submit, runner
  <2>8. CASE PodRecreated \/ Tick
    BY <2>8 DEF PodRecreated, Tick
  <2> QED
    BY <2>1, <2>2, <2>3, <2>4, <2>5, <2>6, <2>7, <2>8 DEF Next, MaybeAutoUpdate
<1> QED BY <1>0, <1>1, AgeStep, TypeCorrect, PTL DEF Spec, BouncesOldBuilds

------------------------------------------------------------------------------
(* The crash window.  The ages are kept oldest first, so dropping from the    *)
(* front as many as have left the window drops just those.                    *)

OldestFirst(list) == \A i, j \in DOMAIN list : i < j => list[j] <= list[i]

\* A set of positions has a least one.
LEMMA LeastExists ==
  ASSUME NEW P \in SUBSET Nat, P # {}
  PROVE  \E k \in P : \A j \in P : k <= j
<1>1. PICK k \in P : \A j \in P : <<j, k>> \notin OpToRel(<, Nat)
  BY NatLessThanWellFounded, WFMin
<1>2. ASSUME NEW j \in P PROVE k <= j
  <2>1. ~(j < k)
    BY <1>1 DEF OpToRel
  <2> QED BY <2>1
<1> QED BY <1>2

\* crash_times.retain(..) keeps the exits within the window, and those only.
LEMMA RetainedAreRecent ==
  ASSUME NEW s \in StateType, OldestFirst(s.crashes)
  PROVE  \E k \in 1 .. (Len(s.crashes) + 1) :
           /\ Retained(s) = SubSeq(s.crashes, k, Len(s.crashes))
           /\ \A i \in DOMAIN s.crashes : s.crashes[i] <= CrashWindow <=> i >= k
<1> DEFINE c == s.crashes
           n == Len(c)
           recent == {i \in 1..n : c[i] <= CrashWindow}
<1>1. /\ c \in Seq(CrashAge) /\ n \in Nat /\ DOMAIN c = 1..n
      /\ \A i \in 1..n : c[i] \in Nat
  BY CrashAssumption, ElementOfSeq DEF StateType, CrashAge
<1>2. CrashWindow \in Nat
  BY CrashAssumption
<1>3. OldestFirst(c) /\ Expired(s) = {i \in 1..n : c[i] > CrashWindow}
      /\ Retained(s) = SubSeq(c, Cardinality(Expired(s)) + 1, n)
  BY <1>1 DEF Expired, Retained
<1> HIDE DEF c, n
<1>4. \E k \in 1..(n + 1) : \A i \in 1..n : c[i] <= CrashWindow <=> i >= k
  <2>1. CASE recent = {}
    <3>1. n + 1 \in 1..(n + 1) /\ \A i \in 1..n : ~(c[i] <= CrashWindow) /\ ~(i >= n + 1)
      BY <1>1, <2>1
    <3> QED BY <3>1
  <2>2. CASE recent # {}
    <3>1. recent \in SUBSET Nat
      BY <1>1
    <3>2. PICK k \in recent : \A j \in recent : k <= j
      BY <2>2, <3>1, LeastExists
    <3>3. k \in 1..n /\ c[k] <= CrashWindow
      BY <3>2
    <3>4. ASSUME NEW i \in 1..n PROVE c[i] <= CrashWindow <=> i >= k
      <4>1. c[i] <= CrashWindow => i >= k
        BY <3>2, <3>3
      <4>2. i > k => c[i] <= c[k]
        BY <1>1, <1>3, <3>3 DEF OldestFirst
      <4>3. c[i] \in Nat /\ c[k] \in Nat
        BY <1>1, <3>3
      <4> QED BY <1>2, <3>3, <4>1, <4>2, <4>3
    <3>5. k \in 1..(n + 1)
      BY <1>1, <3>3
    <3> QED BY <3>4, <3>5
  <2> QED BY <2>1, <2>2
<1>5. PICK k \in 1..(n + 1) : \A i \in 1..n : c[i] <= CrashWindow <=> i >= k
  BY <1>4
<1>6. Expired(s) = 1..(k - 1)
  BY <1>1, <1>2, <1>3, <1>5
<1>7. Cardinality(Expired(s)) = k - 1
  <2>1. 1 \in Int /\ k - 1 \in Int /\ k \in Nat /\ k >= 1
    BY <1>1
  <2>2. Cardinality(1..(k - 1)) = IF 1 > k - 1 THEN 0 ELSE (k - 1) - 1 + 1
    BY <2>1, FS_Interval, Zenon
  <2> QED BY <1>6, <2>1, <2>2
<1>8. Retained(s) = SubSeq(c, k, n)
  <2>1. Cardinality(Expired(s)) + 1 = k
    BY <1>1, <1>7
  <2> QED BY <1>3, <2>1, Zenon
<1> QED BY <1>1, <1>5, <1>8 DEF c, n

\* What an exit is counted with: exits within the window, oldest first.
LEMMA CountedAreRecent ==
  ASSUME NEW s \in StateType, OldestFirst(s.crashes)
  PROVE  /\ OldestFirst(Counted(s))
         /\ \A i \in DOMAIN Counted(s) : Counted(s)[i] <= CrashWindow
<1> DEFINE c == s.crashes
           n == Len(c)
           r == Retained(s)
           d == Counted(s)
<1>1. PICK k \in 1..(n + 1) :
        /\ r = SubSeq(c, k, n)
        /\ \A i \in DOMAIN c : c[i] <= CrashWindow <=> i >= k
  BY RetainedAreRecent
<1>2. /\ c \in Seq(CrashAge) /\ n \in Nat /\ DOMAIN c = 1..n
      /\ \A i \in 1..n : c[i] \in Nat
  BY CrashAssumption, ElementOfSeq DEF StateType, CrashAge
<1>3. /\ Len(r) = n - k + 1 /\ Len(r) \in Nat
      /\ \A i \in 1..Len(r) : i + k - 1 \in 1..n /\ r[i] = c[i + k - 1]
  <2>1. \A i \in k..n : c[i] \in CrashAge
    BY <1>2, ElementOfSeq
  <2>2. k \in Int /\ n \in Int
    BY <1>2
  <2> HIDE DEF c, n
  <2>3. /\ Len(SubSeq(c, k, n)) = IF k <= n THEN n - k + 1 ELSE 0
        /\ \A i \in 1..(n - k + 1) : SubSeq(c, k, n)[i] = c[k + i - 1]
    BY <2>1, <2>2, SubSeqProperties
  <2>4. Len(r) = n - k + 1 /\ Len(r) \in Nat
    BY <1>1, <1>2, <2>3
  <2>5. ASSUME NEW i \in 1..Len(r) PROVE i + k - 1 \in 1..n /\ r[i] = c[i + k - 1]
    <3>1. i \in 1..(n - k + 1) /\ k + i - 1 = i + k - 1 /\ i + k - 1 \in 1..n
      BY <1>2, <2>2, <2>4
    <3> QED BY <1>1, <2>3, <3>1
  <2> QED BY <2>4, <2>5
<1>4. /\ d = Append(r, 0) /\ r \in Seq(CrashAge) /\ 0 \in CrashAge
  BY RetainedIsSequence, CrashAssumption DEF Counted, CrashAge
<1>5. OldestFirst(c)
  OBVIOUS
<1> HIDE DEF c, n, r, d
<1>6. /\ DOMAIN d = 1..(Len(r) + 1) /\ d[Len(r) + 1] = 0
      /\ \A i \in 1..Len(r) : d[i] = r[i]
  BY <1>3, <1>4, AppendProperties
<1>7. ASSUME NEW i \in 1..Len(r)
      PROVE  d[i] = c[i + k - 1] /\ i + k - 1 \in 1..n /\ d[i] \in Nat /\ d[i] <= CrashWindow
  <2>1. d[i] = c[i + k - 1] /\ i + k - 1 \in 1..n
    BY <1>3, <1>6
  <2>2. i + k - 1 >= k /\ i \in Nat
    BY <1>2, <1>3
  <2> QED BY <1>1, <1>2, <2>1, <2>2
<1>8. ASSUME NEW i \in DOMAIN d, NEW j \in DOMAIN d, i < j
      PROVE  d[j] <= d[i]
  <2>1. i \in 1..Len(r) /\ (j \in 1..Len(r) \/ j = Len(r) + 1)
    BY <1>3, <1>6, <1>8
  <2>2. CASE j \in 1..Len(r)
    <3>1. i + k - 1 < j + k - 1 /\ i + k - 1 \in DOMAIN c /\ j + k - 1 \in DOMAIN c
      BY <1>2, <1>7, <1>8, <2>1, <2>2
    <3>2. c[j + k - 1] <= c[i + k - 1]
      BY <1>5, <3>1 DEF OldestFirst
    <3> QED BY <1>7, <2>1, <2>2, <3>2
  <2>3. CASE j = Len(r) + 1
    BY <1>6, <1>7, <2>1, <2>3
  <2> QED BY <2>1, <2>2, <2>3
<1>9. ASSUME NEW i \in DOMAIN d PROVE d[i] <= CrashWindow
  <2>1. i \in 1..Len(r) \/ i = Len(r) + 1
    BY <1>3, <1>6
  <2> QED BY <1>6, <1>7, <2>1, CrashAssumption
<1> QED BY <1>8, <1>9 DEF OldestFirst, d

\* Time passes for all alike, so the order stays.
LEMMA AgedInOrder ==
  ASSUME NEW s \in StateType, OldestFirst(s.crashes)
  PROVE  OldestFirst(Aged(s).crashes)
<1> DEFINE c == s.crashes
           a == Aged(s).crashes
<1>1. a = [i \in DOMAIN c |-> Older(c[i], CrashWindow + 1)]
  BY DEF Aged, StateType
<1>2. DOMAIN c = 1..Len(c) /\ CrashWindow \in Nat /\ \A i \in DOMAIN c : c[i] \in Nat
  BY CrashAssumption, ElementOfSeq DEF StateType, CrashAge
<1>3. OldestFirst(c)
  OBVIOUS
<1> HIDE DEF c, a
<1> SUFFICES ASSUME NEW i \in DOMAIN c, NEW j \in DOMAIN c, i < j
             PROVE  a[j] <= a[i]
  BY <1>1 DEF OldestFirst, a
<1>4. c[j] <= c[i] /\ c[i] \in Nat /\ c[j] \in Nat
  BY <1>2, <1>3 DEF OldestFirst
<1>5. a[i] = Older(c[i], CrashWindow + 1) /\ a[j] = Older(c[j], CrashWindow + 1)
  BY <1>1
<1> QED BY <1>2, <1>4, <1>5 DEF Older

CrashesInOrder == OldestFirst(st.crashes)

\* Every step keeps the exits in order.
LEMMA OrderStep == TypeOK /\ CrashesInOrder /\ [Next]_vars => CrashesInOrder'
<1> SUFFICES ASSUME TypeOK, CrashesInOrder, [Next]_vars PROVE CrashesInOrder'
  OBVIOUS
<1>t. st \in StateType
  BY DEF TypeOK
<1> USE DEF readiness, agones, occupancy, runner
<1>1. OldestFirst(<<>>)
  BY DEF OldestFirst
<1>2. CASE st'.crashes = st.crashes \/ st'.crashes = <<>>
  BY <1>1, <1>2 DEF CrashesInOrder
<1>3. CASE HandleUnexpectedExit
  <2>1. st'.crashes = Counted(st) \/ st'.crashes = st.crashes
    BY <1>3, <1>t DEF HandleUnexpectedExit, OnChildExit, OnStopped, StateType
  <2> QED BY <1>2, <1>t, <2>1, CountedAreRecent DEF CrashesInOrder
<1>4. CASE Tick
  <2>1. st' = Aged(st)
    BY <1>4 DEF Tick
  <2> QED BY <1>t, <2>1, AgedInOrder DEF CrashesInOrder
<1>5. CASE Launch \/ StopCompletes \/ BackoffEnds
  <2>1. st'.crashes = st.crashes
    BY <1>5, <1>t DEF Launch, LaunchSucceeds, LaunchRefused, LaunchFails, StopCompletes,
       BackoffEnds, OnStarted, OnLaunchFailed, OnStopped, StateType
  <2> QED BY <1>2, <2>1
<1>6. CASE HandleRequest \/ MaybeAutoUpdate
  <2>1. st'.crashes = st.crashes
    BY <1>6, <1>t DEF HandleRequest, StopWithoutChild, StopBegins, StartWithChild, StartBegins,
       RestartBegins, MaybeAutoUpdate, ObserveOnly, AutoUpdateBegins, Bounce, OnStopRequested,
       OnStartRequested, OnRestartRequested, StateType
  <2> QED BY <1>2, <2>1
<1>7. CASE SettleReady
  <2>1. st'.crashes = st.crashes \/ st'.crashes = <<>>
    BY <1>7, <1>t DEF SettleReady, ClearCrashHistory, OnReady, StateType
  <2> QED BY <1>2, <2>1
<1>8. CASE SpawnOccupancyPoll \/ Drain \/ GameAccepts \/ GameExits \/ ProbeConnects
           \/ ProbeGivesUp \/ SignalReady \/ PollAnswers
           \/ (\E command \in Command : Submit(command)) \/ UNCHANGED vars
  <2>1. st'.crashes = st.crashes
    BY <1>8 DEF SpawnOccupancyPoll, Drain, GameAccepts, GameExits, ProbeConnects,
       ProbeGivesUp, SignalReady, PollAnswers, Submit, vars
  <2> QED BY <1>2, <2>1
<1>9. CASE PodRecreated
  <2>1. st'.crashes = <<>>
    BY <1>9 DEF PodRecreated, BootState, New, OnStopped, OnStopRequested
  <2> QED BY <1>2, <2>1
<1> QED BY <1>3, <1>4, <1>5, <1>6, <1>7, <1>8, <1>9 DEF Next

\* crash_times stays in order of time, which is what makes pruning it from the
\* front the same as the source's filter.
THEOREM CrashesInOrderAlways == Spec => []CrashesInOrder
<1>1. Init => CrashesInOrder
  <2> SUFFICES ASSUME Init PROVE CrashesInOrder
    OBVIOUS
  <2>1. st.crashes = <<>>
    BY DEF Init, BootState, New, OnStopped, OnStopRequested
  <2> QED BY <2>1 DEF CrashesInOrder, OldestFirst
<1> QED BY <1>1, OrderStep, TypeCorrect, PTL DEF Spec

\* A pod is given up to Agones only by an exit that fills the crash window: as
\* many exits as the threshold, all of them within the window.
THEOREM CondemnedByCrashLoopAlways == Spec => CondemnedByCrashLoop
<1> DEFINE Condemned ==
      beating /\ ~beating' =>
        /\ Len(st'.crashes) >= CrashThreshold
        /\ \A i \in DOMAIN st'.crashes : st'.crashes[i] <= CrashWindow
        /\ ~child'
<1>1. TypeOK /\ CrashesInOrder /\ [Next]_vars => Condemned
  <2> SUFFICES ASSUME TypeOK, CrashesInOrder, [Next]_vars, beating, ~beating'
               PROVE  /\ Len(st'.crashes) >= CrashThreshold
                      /\ \A i \in DOMAIN st'.crashes : st'.crashes[i] <= CrashWindow
                      /\ ~child'
    OBVIOUS
  <2>1. HandleUnexpectedExit
    <3> USE DEF readiness, agones, occupancy, runner
    <3>1. ~UNCHANGED vars
      BY DEF vars
    <3>2. ~(Launch \/ StopCompletes \/ BackoffEnds)
      BY DEF Launch, LaunchSucceeds, LaunchRefused, LaunchFails, StopCompletes, BackoffEnds
    <3>3. ~(HandleRequest \/ MaybeAutoUpdate)
      BY DEF HandleRequest, StopWithoutChild, StopBegins, StartWithChild, StartBegins,
         RestartBegins, MaybeAutoUpdate, ObserveOnly, AutoUpdateBegins, Bounce
    <3>4. ~(SettleReady \/ SpawnOccupancyPoll \/ Drain \/ PodRecreated \/ Tick)
      BY DEF SettleReady, SpawnOccupancyPoll, Drain, PodRecreated, Tick
    <3>5. ~(GameAccepts \/ GameExits \/ ProbeConnects \/ ProbeGivesUp \/ SignalReady
            \/ PollAnswers \/ \E command \in Command : Submit(command))
      BY DEF GameAccepts, GameExits, ProbeConnects, ProbeGivesUp, SignalReady, PollAnswers, Submit
    <3> QED BY <3>1, <3>2, <3>3, <3>4, <3>5 DEF Next
  <2>2. ExitDisposition(st) = "Escalate" /\ ~child' /\ st' = OnChildExit(st) /\ st \in StateType
    BY <2>1 DEF HandleUnexpectedExit, TypeOK
  <2>3. Len(Counted(st)) >= CrashThreshold /\ st'.crashes = Counted(st)
    BY <2>2 DEF ExitDisposition, OnChildExit, StateType
  <2> QED BY <2>2, <2>3, CountedAreRecent DEF CrashesInOrder
<1> QED BY <1>1, CrashesInOrderAlways, TypeCorrect, PTL DEF Spec, CondemnedByCrashLoop

------------------------------------------------------------------------------
(* Refinement.                                                                *)

\* Every step of the supervisor is a step of the slot, or leaves it alone.
LEMMA SlotStep == TypeOK /\ IInv /\ [Next]_vars => [Slot!Next]_(Slot!slot)
<1> SUFFICES ASSUME TypeOK, IInv, [Next]_vars PROVE [Slot!Next]_(Slot!slot)
  OBVIOUS
<1>t. st \in StateType /\ beating \in BOOLEAN
  BY DEF TypeOK
<1> DEFINE Wanted == st.desired = "Running"
<1>same. ASSUME GameUp' = GameUp, Wanted' = Wanted, beating' = beating
         PROVE  [Slot!Next]_(Slot!slot)
  BY <1>same DEF Slot!slot
<1> USE <1>t DEF StateType, runner, agones
<1>1. CASE LaunchSucceeds
  <2>1. game = "none" /\ st.desired = "Running"
    BY <1>1 DEF LaunchSucceeds, IInv, HeldGame, EmptySlot, LaunchesAreWanted
  <2>2. game' = "booting" /\ st'.desired = "Running" /\ beating' = beating
    BY <1>1, <2>1 DEF LaunchSucceeds, OnStarted
  <2>3. Slot!Start
    BY <2>1, <2>2 DEF Slot!Start, GameUp
  <2> QED BY <2>3 DEF Slot!Next
<1>2. CASE LaunchRefused \/ LaunchFails
  BY <1>2, <1>same DEF LaunchRefused, LaunchFails, OnLaunchFailed, GameUp
<1>3. CASE StopCompletes
  <2>1. Wanted' = Wanted /\ beating' = beating /\ game' = "none"
    BY <1>3 DEF StopCompletes, OnStopped
  <2>2. CASE GameUp
    <3>1. Slot!End
      BY <2>1, <2>2 DEF Slot!End, GameUp
    <3> QED BY <3>1 DEF Slot!Next
  <2>3. CASE ~GameUp
    BY <2>1, <2>3, <1>same DEF GameUp
  <2> QED BY <2>2, <2>3
<1>4. CASE StopBegins
  <2>1. /\ st.desired = "Running" /\ st'.desired = "Stopped"
        /\ game' = game /\ beating' = beating
    BY <1>4 DEF StopBegins, OnStopRequested, IInv, HeldGame
  <2>2. Slot!Stop
    BY <2>1 DEF Slot!Stop, GameUp
  <2> QED BY <2>2 DEF Slot!Next
<1>5. CASE StartBegins \/ RestartBegins \/ AutoUpdateBegins
  <2>1. pc = "loop" /\ st'.desired = "Running" /\ game' = game /\ beating' = beating
    BY <1>5 DEF StartBegins, RestartBegins, AutoUpdateBegins, Received, Bounce,
       OnStartRequested, OnRestartRequested
  <2>2. CASE Wanted
    BY <2>1, <2>2, <1>same DEF GameUp
  <2>3. CASE ~Wanted
    <3>1. game = "none"
      BY <2>1, <2>3 DEF IInv, HeldGame, EmptySlot
    <3>2. Slot!Ask
      BY <2>1, <2>3, <3>1 DEF Slot!Ask, GameUp
    <3> QED BY <3>2 DEF Slot!Next
  <2> QED BY <2>2, <2>3
<1>6. CASE HandleUnexpectedExit
  <2>1. /\ st.desired = "Running" /\ game = "exited" /\ game' = "none"
        /\ ExitDisposition(st) # "Clean"
    BY <1>6 DEF HandleUnexpectedExit, IInv, HeldGame, ExitDisposition
  <2>2. st'.desired = "Running"
    BY <1>6, <2>1 DEF HandleUnexpectedExit, OnChildExit
  <2>3. CASE beating' = beating
    BY <2>1, <2>2, <2>3, <1>same DEF GameUp
  <2>4. CASE beating' # beating
    <3>1. beating /\ ~beating' /\ beating' \in BOOLEAN
      BY <1>6, <2>4 DEF HandleUnexpectedExit
    <3>2. Slot!Condemn
      BY <2>1, <2>2, <3>1 DEF Slot!Condemn, GameUp
    <3> QED BY <3>2 DEF Slot!Next
  <2> QED BY <2>3, <2>4
<1>7. CASE SettleReady
  <2>1. Wanted' = Wanted /\ GameUp' = GameUp /\ beating' = TRUE
    BY <1>7 DEF SettleReady, OnReady, ClearCrashHistory, GameUp
  <2>2. CASE beating
    BY <2>1, <2>2, <1>same
  <2>3. CASE ~beating
    <3>1. Slot!Pardon
      BY <2>1, <2>3 DEF Slot!Pardon
    <3> QED BY <3>1 DEF Slot!Next
  <2> QED BY <2>2, <2>3
<1>8. CASE GameExits
  <2>1. Slot!End
    BY <1>8 DEF GameExits, Slot!End, GameUp
  <2> QED BY <2>1 DEF Slot!Next
<1>9. CASE PodRecreated
  <2>1. Slot!Replace
    BY <1>9 DEF PodRecreated, Slot!Replace, GameUp
  <2> QED BY <2>1 DEF Slot!Next
<1>10. CASE Tick
  BY <1>10, <1>same DEF Tick, Aged, GameUp
<1>11. CASE GameAccepts
  BY <1>11, <1>same DEF GameAccepts, GameUp
<1>12. CASE BackoffEnds \/ StopWithoutChild \/ StartWithChild \/ Drain
  BY <1>12, <1>same DEF BackoffEnds, StopWithoutChild, StartWithChild, Drain, GameUp
<1>13. CASE SpawnOccupancyPoll \/ ObserveOnly \/ PollAnswers
  BY <1>13, <1>same DEF SpawnOccupancyPoll, ObserveOnly, PollAnswers, GameUp
<1>14. CASE ProbeConnects \/ ProbeGivesUp \/ SignalReady
  BY <1>14, <1>same DEF ProbeConnects, ProbeGivesUp, SignalReady, GameUp
<1>15. CASE \E command \in Command : Submit(command)
  BY <1>15, <1>same DEF Submit, GameUp
<1>16. CASE UNCHANGED vars
  BY <1>16, <1>same DEF vars, GameUp
<1> QED
  BY <1>1, <1>2, <1>3, <1>4, <1>5, <1>6, <1>7, <1>8, <1>9, <1>10, <1>11, <1>12,
     <1>13, <1>14, <1>15, <1>16 DEF Next, Launch, HandleRequest, MaybeAutoUpdate

\* The supervisor implements the slot: one process at a time, started only
\* when wanted, and a pod condemned only while its slot is empty.
THEOREM ImplementsSlot == Spec => SlotSpec
<1>1. Init => Slot!Init
  BY DEF Init, Slot!Init, GameUp
<1>2. TypeOK /\ IInv /\ [Next]_vars => [Slot!Next]_(Slot!slot)
  BY SlotStep
<1> QED BY <1>1, <1>2, TypeCorrect, LoopInvariant, PTL DEF Spec, SlotSpec, Slot!Spec

------------------------------------------------------------------------------
(* Module ModReconcile: the mods of an instance, resolved before a launch,    *)
(* and the sweep behind it.                                                   *)

Line == [pkg : Packages, pin : Versions \union {0}, side : {"install", "client"}]
Want == [pkg : Packages, version : Versions, depth : Nat]

(* What the constants' conditions come to.                                 *)
LEMMA SettingFacts ==
  /\ IsFiniteSet(Packages) /\ Provided \subseteq Packages
  /\ IsFiniteSet(Versions) /\ Versions \subseteq Nat \ {0}
  /\ Deps \in [Packages \X Versions -> Seq(Packages \X Versions)]
  /\ Lists \subseteq Seq(Line)
  /\ Releases = Packages \X Versions
BY ModsAssumption DEF Releases, Line

(* A queue holds a dependency.                                             *)
Queued(q, d) == \E k \in 1..Len(q) : q[k].pkg = d[1] /\ q[k].version = d[2]

(* What is enqueued comes last, and all of it is there.                    *)
LEMMA EnqueuedProperties ==
  ASSUME NEW q \in Seq(Want), NEW p \in Packages, NEW v \in Versions,
         NEW depth \in Nat
  PROVE  /\ Enqueued(q, p, v, depth) \in Seq(Want)
         /\ \A d : Queued(q, d) => Queued(Enqueued(q, p, v, depth), d)
         /\ \A d \in ToSet(Deps[<<p, v>>]) :
              Queued(Enqueued(q, p, v, depth), d)
<1> DEFINE ds == Deps[<<p, v>>]
           new == [i \in DOMAIN ds |-> [pkg |-> ds[i][1], version |-> ds[i][2],
                                        depth |-> depth + 1]]
<1>1. ds \in Seq(Releases) /\ DOMAIN ds = 1..Len(ds) /\ Len(ds) \in Nat
  BY SettingFacts
<1>2. Enqueued(q, p, v, depth) = q \o new
  BY DEF Enqueued
<1> HIDE DEF ds
<1>3. \A i \in 1..Len(ds) : ds[i] \in Packages \X Versions
  BY <1>1 DEF Releases
<1>4. \A i \in 1..Len(ds) : new[i] \in Want /\ new[i].pkg = ds[i][1] /\ new[i].version = ds[i][2]
  BY <1>1, <1>3 DEF Want
<1>5. new \in Seq(Want) /\ Len(new) = Len(ds)
  BY <1>1, <1>4
<1> HIDE DEF new
<1>6. /\ q \o new \in Seq(Want) /\ Len(q \o new) = Len(q) + Len(new)
      /\ \A i \in 1..Len(q) : (q \o new)[i] = q[i]
      /\ \A i \in 1..Len(new) : (q \o new)[i + Len(q)] = new[i] /\ i + Len(q) \in 1..Len(q \o new)
  <2>1. /\ q \o new \in Seq(Want) /\ Len(q \o new) = Len(q) + Len(new)
        /\ \A i \in 1..(Len(q) + Len(new)) :
             (q \o new)[i] = IF i <= Len(q) THEN q[i] ELSE new[i - Len(q)]
    BY <1>5, ConcatProperties
  <2>2. Len(q) \in Nat /\ Len(new) \in Nat
    BY <1>5
  <2>3. \A i \in 1..Len(q) : i \in 1..(Len(q) + Len(new)) /\ i <= Len(q)
    BY <2>2
  <2>4. \A i \in 1..Len(new) : /\ i + Len(q) \in 1..(Len(q) + Len(new))
                               /\ ~(i + Len(q) <= Len(q)) /\ i + Len(q) - Len(q) = i
    BY <2>2
  <2> QED
    BY <2>1, <2>3, <2>4
<1>7. ASSUME NEW d, Queued(q, d)
      PROVE  Queued(q \o new, d)
  <2>1. PICK k \in 1..Len(q) : q[k].pkg = d[1] /\ q[k].version = d[2]
    BY <1>7 DEF Queued
  <2>2. k \in 1..Len(q \o new) /\ (q \o new)[k] = q[k]
    BY <1>5, <1>6
  <2> QED
    BY <2>1, <2>2 DEF Queued
<1>8. ASSUME NEW d \in ToSet(ds)
      PROVE  Queued(q \o new, d)
  <2>1. PICK i \in 1..Len(ds) : d = ds[i]
    BY <1>1 DEF ToSet
  <2>2. /\ i + Len(q) \in 1..Len(q \o new) /\ (q \o new)[i + Len(q)] = new[i]
        /\ new[i].pkg = d[1] /\ new[i].version = d[2]
    BY <1>4, <1>5, <1>6, <2>1
  <2> QED
    BY <2>2 DEF Queued
<1> QED
  BY <1>2, <1>6, <1>7, <1>8 DEF ds

(* Taking the last off leaves the others.                                  *)
LEMMA FrontProperties ==
  ASSUME NEW q \in Seq(Want), q # <<>>
  PROVE  /\ Last(q) \in Want
         /\ Front(q) \in Seq(Want)
         /\ \A d : Queued(q, d) => \/ Queued(Front(q), d)
                                   \/ Last(q).pkg = d[1] /\ Last(q).version = d[2]
<1>1. Len(q) \in Nat \ {0} /\ \A i \in 1..Len(q) : q[i] \in Want
  BY EmptySeq
<1>2. Last(q) = q[Len(q)] /\ Front(q) = SubSeq(q, 1, Len(q) - 1)
  BY DEF Last, Front
<1>3. /\ SubSeq(q, 1, Len(q) - 1) \in Seq(Want)
      /\ Len(SubSeq(q, 1, Len(q) - 1)) = Len(q) - 1
      /\ \A i \in 1..(Len(q) - 1) : SubSeq(q, 1, Len(q) - 1)[i] = q[i]
  <2> DEFINE n == Len(q) - 1
             front == SubSeq(q, 1, n)
  <2>1. n \in Nat /\ \A i \in 1..n : q[i] \in Want
    BY <1>1
  <2> HIDE DEF n
  <2>2. /\ front \in Seq(Want)
        /\ Len(front) = IF 1 <= n THEN n - 1 + 1 ELSE 0
        /\ \A i \in 1..(n - 1 + 1) : front[i] = q[1 + i - 1]
    BY <2>1, SubSeqProperties
  <2> HIDE DEF front
  <2>3. Len(front) = n /\ \A i \in 1..n : front[i] = q[i]
    BY <2>1, <2>2
  <2> QED
    BY <2>2, <2>3 DEF n, front
<1>4. ASSUME NEW d, Queued(q, d)
      PROVE  \/ Queued(Front(q), d)
             \/ Last(q).pkg = d[1] /\ Last(q).version = d[2]
  <2>1. PICK k \in 1..Len(q) : q[k].pkg = d[1] /\ q[k].version = d[2]
    BY <1>4 DEF Queued
  <2>2. CASE k = Len(q)
    BY <1>2, <2>1, <2>2
  <2>3. CASE k \in 1..(Len(q) - 1)
    BY <1>2, <1>3, <2>1, <2>3 DEF Queued
  <2> QED
    BY <1>1, <2>2, <2>3
<1> QED
  BY <1>1, <1>2, <1>3, <1>4

(* A finite set of numbers has a greatest.                                 *)
LEMMA GreatestExists ==
  ASSUME NEW S \in SUBSET Nat, IsFiniteSet(S), S # {}
  PROVE  Greatest(S) \in S /\ \A w \in S : w <= Greatest(S)
<1> DEFINE bad == {U \in SUBSET S : U # {} /\ ~ \E v \in U : \A w \in U : w <= v}
<1>1. bad = {}
  <2> SUFFICES ASSUME bad # {}
               PROVE  FALSE
    OBVIOUS
  <2>1. bad \subseteq FiniteSubsetsOf(S)
    BY FS_Subset DEF FiniteSubsetsOf
  <2>2. PICK U \in bad : \A V \in bad : ~(<<V, U>> \in StrictSubsetOrdering(S))
    BY <2>1, FS_StrictSubsetOrderingWellFounded, WFMin
  <2>3. PICK x \in U : TRUE
    OBVIOUS
  <2>4. U \ {x} \notin bad
    BY <2>2, <2>3 DEF StrictSubsetOrdering
  <2>5. CASE U \ {x} = {}
    BY <2>3, <2>5
  <2>6. CASE U \ {x} # {}
    <3>1. PICK v \in U \ {x} : \A w \in U \ {x} : w <= v
      BY <2>4, <2>6
    <3> QED
      BY <3>1, <2>3
  <2> QED
    BY <2>5, <2>6
<1>2. \E v \in S : \A w \in S : w <= v
  BY <1>1
<1> QED
  BY <1>2 DEF Greatest

-----------------------------------------------------------------------------
(* The invariant.                                                          *)

(* Every package has one line at most.                                     *)
Usable(l) == \A i, j \in Installs(l) : l[i].pkg = l[j].pkg => i = j

ModsTyped ==
  /\ phase \in {"down", "preparing", "refused", "running", "ready"}
  /\ at \in {"idle", "resolving", "fetching", "staging", "recording"}
  /\ wanted \in Seq(Line) /\ todo \subseteq Installs(wanted)
  /\ pending \in Seq(Want)
  /\ decided \in [Packages -> Versions \union {0}]
  /\ turned \in BOOLEAN
  /\ cache \in [Releases -> {"none", "good", "torn", "rotten"}]

ProgressOK ==
  /\ at # "idle" <=> phase = "preparing"
  /\ at # "resolving" => todo = {} /\ pending = <<>>
  /\ Usable(wanted)

(* A line that was looked up is decided, at its pin if it has one; one     *)
(* still to be looked up is not.                                           *)
LinesOK ==
  \A i \in Installs(wanted) : wanted[i].pkg \notin Provided =>
    IF i \in todo THEN decided[wanted[i].pkg] = 0
    ELSE decided[wanted[i].pkg] # 0 /\ wanted[i].pin \in {0, decided[wanted[i].pkg]}

(* A dependency is had, from the image, as high as asked or held by a pin. *)
Met(d) ==
  \/ d[1] \in Provided
  \/ decided[d[1]] # 0 /\ (decided[d[1]] >= d[2] \/ Pinned(d[1]))

(* What a package decided on needs is had, or queued.                      *)
NeedsOK ==
  \A r \in Chosen : \A d \in ToSet(Deps[r]) : Met(d) \/ Queued(pending, d)

SparesImage == \A p \in Provided : decided[p] = 0

ResolvingOK == at # "idle" => LinesOK /\ NeedsOK /\ SparesImage

StagedOK ==
  /\ at = "recording" => staged = Chosen
  /\ phase \in {"running", "ready"} => staged = live /\ live \subseteq Releases

ModsInv == ModsTyped /\ ProgressOK /\ ResolvingOK /\ StagedOK /\ RunningIsResolved

(* The version found for a line is one there is, the pin if it has one.    *)
LEMMA FoundProperties ==
  ASSUME NEW p \in Packages, NEW pin \in Versions \union {0}
  PROVE  /\ Found(p, pin) \in Versions \union {0}
         /\ pin # 0 /\ Found(p, pin) # 0 => Found(p, pin) = pin
<1>1. CASE pin # 0
  BY <1>1 DEF Found
<1>2. CASE pin = 0
  <2> DEFINE known == IF reachable THEN Offered(p) ELSE Cached(p)
  <2>1. known \subseteq Versions
    BY DEF Offered, Cached
  <2>2. known \in SUBSET Nat /\ IsFiniteSet(known)
    BY <2>1, FS_Subset, SettingFacts
  <2>3. Found(p, pin) \in {0, Greatest(known)} /\ (known = {} => Found(p, pin) = 0)
    BY <1>2 DEF Found, Latest
  <2> HIDE DEF known
  <2>4. known # {} => Greatest(known) \in Versions
    BY <2>1, <2>2, GreatestExists
  <2> QED
    BY <1>2, <2>3, <2>4
<1> QED
  BY <1>1, <1>2

(* A launch that is refused leaves nothing to be resolved.                 *)
LEMMA RefusedKeeps ==
  ASSUME ModsInv, NEW left, Refused(left),
         cache' \in [Releases -> {"none", "good", "torn", "rotten"}]
  PROVE  ModsInv'
<1>1. /\ phase' = "refused" /\ at' = "idle" /\ wanted' = <<>> /\ todo' = {}
      /\ pending' = <<>> /\ decided' = [p \in Packages |-> 0] /\ turned' = FALSE
  BY DEF Refused, Undecided
<1>2. ModsTyped'
  <2>1. /\ <<>> \in Seq(Line) /\ <<>> \in Seq(Want)
        /\ [p \in Packages |-> 0] \in [Packages -> Versions \union {0}]
    OBVIOUS
  <2> QED
    BY <1>1, <2>1 DEF ModsTyped
<1>3. ProgressOK'
  BY <1>1 DEF ProgressOK, Usable, Installs
<1> QED
  BY <1>1, <1>2, <1>3 DEF ModsInv, ResolvingOK, StagedOK, RunningIsResolved

(* A launch starts with every line to look up and nothing decided.         *)
LEMMA LaunchKeeps ==
  ASSUME ModsInv, NEW list \in Lists \union {<<>>}, Begin(list)
  PROVE  ModsInv'
<1>1. CASE Unusable(list)
  <2>1. Refused(<<>>) /\ cache' = cache
    BY <1>1 DEF Begin, diskVars
  <2> QED
    BY <2>1, RefusedKeeps DEF ModsInv, ModsTyped
<1>2. CASE ~Unusable(list)
  <2>1. /\ phase' = "preparing" /\ at' = "resolving" /\ wanted' = list
        /\ todo' = Installs(list) /\ pending' = <<>>
        /\ decided' = [p \in Packages |-> 0] /\ turned' = FALSE /\ cache' = cache
    BY <1>2 DEF Begin, diskVars, Undecided
  <2>2. list \in Seq(Line)
    <3>1. CASE list \in Lists
      BY <3>1, SettingFacts
    <3>2. CASE list = <<>>
      BY <3>2
    <3> QED
      BY <3>1, <3>2
  <2>3. ModsTyped'
    <3>1. /\ <<>> \in Seq(Want)
          /\ [p \in Packages |-> 0] \in [Packages -> Versions \union {0}]
      OBVIOUS
    <3> QED
      BY <2>1, <2>2, <3>1 DEF ModsInv, ModsTyped, Installs
  <2>4. Usable(list)
    <3> SUFFICES ASSUME NEW i \in Installs(list), NEW j \in Installs(list),
                        list[i].pkg = list[j].pkg, i # j
                 PROVE  FALSE
      BY DEF Usable
    <3>1. /\ i \in DOMAIN list /\ j \in DOMAIN list /\ i \in Int /\ j \in Int
          /\ list[i].side = "install" /\ list[j].side = "install"
      BY <2>2 DEF Installs
    <3>2. i < j \/ j < i
      BY <3>1
    <3> QED
      BY <1>2, <3>1, <3>2 DEF Unusable
  <2>5. ProgressOK'
    BY <2>1, <2>4 DEF ProgressOK, Usable
  <2>6. LinesOK'
    <3>1. \A i \in Installs(list) : list[i].pkg \in Packages
      <4>1. \A i \in DOMAIN list : list[i] \in Line
        BY <2>2
      <4> QED
        BY <4>1 DEF Installs, Line
    <3> QED
      BY <2>1, <3>1 DEF LinesOK
  <2>7. NeedsOK' /\ SparesImage'
    <3>1. Chosen' = {}
      BY <2>1 DEF Chosen
    <3> QED
      BY <2>1, <3>1, SettingFacts DEF NeedsOK, SparesImage
  <2> QED
    BY <2>1, <2>3, <2>5, <2>6, <2>7 DEF ModsInv, ResolvingOK, StagedOK, RunningIsResolved
<1> QED
  BY <1>1, <1>2

(* Steps that leave the work of the reconcile alone.                       *)
LEMMA ElsewhereKeepsMods ==
  ASSUME ModsInv, UNCHANGED <<at, wanted, todo, pending, decided, turned, staged, live, resolved>>,
         cache' \in [Releases -> {"none", "good", "torn", "rotten"}],
         phase' = phase \/ (phase = "running" /\ phase' = "ready")
  PROVE  ModsInv'
<1>1. ModsTyped'
  BY DEF ModsInv, ModsTyped
<1>2. ProgressOK'
  BY DEF ModsInv, ProgressOK, Usable
<1>3. ResolvingOK'
  BY DEF ModsInv, ResolvingOK, LinesOK, NeedsOK, SparesImage, Met, Queued, Chosen,
     Pinned
<1>4. StagedOK'
  BY DEF ModsInv, StagedOK, ProgressOK, Chosen
<1>5. RunningIsResolved'
  BY DEF ModsInv, RunningIsResolved, Pinned
<1> QED
  BY <1>1, <1>2, <1>3, <1>4, <1>5 DEF ModsInv

(* Deciding on a version keeps every need had or queued.                   *)
LEMMA DecidingKeepsNeeds ==
  ASSUME NEW p \in Packages \ Provided, NEW v \in Versions, NEW depth \in Nat,
         NEW base \in Seq(Want),
         decided \in [Packages -> Versions \union {0}], decided[p] < v,
         \A r \in Chosen : \A d \in ToSet(Deps[r]) :
           Met(d) \/ Queued(base, d) \/ (d[1] = p /\ d[2] = v),
         decided' = [decided EXCEPT ![p] = v], wanted' = wanted,
         pending' = Enqueued(base, p, v, depth)
  PROVE  NeedsOK'
<1>0. Versions \subseteq Nat \ {0} /\ Deps \in [Packages \X Versions -> Seq(Packages \X Versions)]
  BY SettingFacts
<1>1. /\ decided' \in [Packages -> Versions \union {0}] /\ decided'[p] = v /\ v # 0 /\ v \in Nat
      /\ \A q \in Packages : decided[q] \in Nat /\ decided'[q] \in Nat
      /\ \A q \in Packages \ {p} : decided'[q] = decided[q]
  <2>1. decided' \in [Packages -> Versions \union {0}] /\ decided'[p] = v
    OBVIOUS
  <2>2. \A n \in Versions \union {0} : n \in Nat
    BY <1>0
  <2>3. \A q \in Packages \ {p} : decided'[q] = decided[q]
    OBVIOUS
  <2> QED
    BY <1>0, <2>1, <2>2, <2>3
<1> SUFFICES ASSUME NEW r \in Chosen', NEW d \in ToSet(Deps[r])
             PROVE  Met(d)' \/ Queued(pending', d)
  BY DEF NeedsOK
<1>2. PICK q \in Packages : decided'[q] # 0 /\ r = <<q, decided'[q]>>
  BY DEF Chosen
<1>3. d \in Packages \X Versions
  <2>1. r \in Packages \X Versions
    BY <1>1, <1>2
  <2>2. Deps[r] \in Seq(Packages \X Versions)
    BY <1>0, <2>1
  <2> QED
    BY <2>2 DEF ToSet
<1>4. CASE q = p
  BY <1>1, <1>2, <1>4, EnqueuedProperties
<1>5. CASE q # p
  <2>1. r \in Chosen
    BY <1>1, <1>2, <1>5 DEF Chosen
  <2>2. Met(d) \/ Queued(base, d) \/ (d[1] = p /\ d[2] = v)
    BY <2>1
  <2>3. Queued(base, d) => Queued(pending', d)
    BY EnqueuedProperties
  <2>4. d[1] = p /\ d[2] = v => Met(d)'
    BY <1>1 DEF Met
  <2>5. ASSUME Met(d)
        PROVE  Met(d)'
    <3>1. CASE d[1] \in Provided
      BY <3>1 DEF Met
    <3>2. CASE d[1] \notin Provided
      <4>1. decided[d[1]] # 0 /\ (decided[d[1]] >= d[2] \/ Pinned(d[1]))
        BY <2>5, <3>2 DEF Met
      <4>3. d[1] \in Packages /\ d[2] \in Nat
        BY <1>0, <1>3
      <4>2. decided'[d[1]] # 0 /\ decided'[d[1]] >= decided[d[1]]
        <5>1. CASE d[1] = p
          BY <1>1, <5>1
        <5>2. CASE d[1] # p
          BY <1>1, <4>1, <4>3, <5>2
        <5> QED
          BY <5>1, <5>2
      <4>4. decided[d[1]] >= d[2] => decided'[d[1]] >= d[2]
        BY <1>1, <4>2, <4>3
      <4>5. Pinned(d[1]) => Pinned(d[1])'
        BY DEF Pinned
      <4> QED
        BY <4>1, <4>2, <4>4, <4>5 DEF Met
    <3> QED
      BY <3>1, <3>2
  <2> QED
    BY <2>2, <2>3, <2>4, <2>5
<1> QED
  BY <1>4, <1>5

(* Looking a line up: its package was not decided on before, for no other  *)
(* line has it, and so nothing that was met stops being.                   *)
LEMMA LookUpKeeps ==
  ASSUME ModsInv, LookUp
  PROVE  ModsInv'
<1>1. PICK i \in todo :
        \/ /\ wanted[i].pkg \in Provided
           /\ todo' = todo \ {i}
           /\ UNCHANGED <<phase, stranded, wanted, at, pending, decided, turned>>
        \/ Unknown
        \/ /\ wanted[i].pkg \notin Provided /\ Found(wanted[i].pkg, wanted[i].pin) # 0
           /\ todo' = todo \ {i}
           /\ decided' = [decided EXCEPT ![wanted[i].pkg] = Found(wanted[i].pkg, wanted[i].pin)]
           /\ pending' = Enqueued(pending, wanted[i].pkg, Found(wanted[i].pkg, wanted[i].pin), 0)
           /\ UNCHANGED <<phase, stranded, wanted, at, turned>>
  BY DEF LookUp
<1>2. at = "resolving" /\ UNCHANGED <<cache, staged, live, resolved>> /\ phase = "preparing"
  BY DEF LookUp, diskVars, ModsInv, ProgressOK
<1> DEFINE p == wanted[i].pkg
           v == Found(wanted[i].pkg, wanted[i].pin)
<1>3. /\ \A j \in Installs(wanted) : /\ wanted[j].pkg \in Packages
                                          /\ wanted[j].pin \in Versions \union {0}
      /\ i \in Installs(wanted)
  <2>1. \A j \in DOMAIN wanted : wanted[j] \in Line
    BY DEF ModsInv, ModsTyped
  <2> QED
    BY <2>1 DEF ModsInv, ModsTyped, Installs, Line
<1>4. LinesOK /\ NeedsOK /\ SparesImage /\ ModsTyped /\ Usable(wanted)
  BY <1>2 DEF ModsInv, ResolvingOK, ProgressOK
<1>5. CASE Unknown
  BY <1>2, <1>5, RefusedKeeps DEF Unknown, ModsInv, ModsTyped
<1>6. CASE /\ p \in Provided /\ todo' = todo \ {i}
           /\ UNCHANGED <<phase, stranded, wanted, at, pending, decided, turned>>
  <2>1. ModsTyped' /\ ProgressOK'
    BY <1>2, <1>6 DEF ModsInv, ModsTyped, ProgressOK, Usable
  <2>2. LinesOK'
    BY <1>4, <1>6 DEF LinesOK
  <2>3. NeedsOK' /\ SparesImage'
    BY <1>4, <1>6 DEF NeedsOK, SparesImage, Met, Chosen, Pinned
  <2> QED
    BY <1>2, <1>6, <2>1, <2>2, <2>3 DEF ModsInv, ResolvingOK, StagedOK, RunningIsResolved
<1>7. CASE /\ p \notin Provided /\ v # 0 /\ todo' = todo \ {i}
           /\ decided' = [decided EXCEPT ![p] = v]
           /\ pending' = Enqueued(pending, p, v, 0)
           /\ UNCHANGED <<phase, stranded, wanted, at, turned>>
  <2>1. /\ v \in Versions /\ wanted[i].pin \in {0, v}
        /\ p \in Packages \ Provided
    BY <1>3, <1>7, FoundProperties
  <2>2. decided[p] = 0 /\ decided \in [Packages -> Versions \union {0}] /\ pending \in Seq(Want)
    BY <1>3, <1>4, <1>7 DEF LinesOK, ModsTyped
  <2>3. /\ decided' \in [Packages -> Versions \union {0}] /\ decided'[p] = v
        /\ \A q \in Packages \ {p} : decided'[q] = decided[q]
    BY <1>7, <2>1, <2>2
  <2>4. pending' \in Seq(Want)
    <3>1. pending' = Enqueued(pending, p, v, 0) /\ 0 \in Nat
      BY <1>7
    <3> HIDE DEF p, v
    <3> QED
      BY <2>1, <2>2, <3>1, EnqueuedProperties
  <2>5. ModsTyped' /\ ProgressOK'
    BY <1>2, <1>7, <2>3, <2>4 DEF ModsInv, ModsTyped, ProgressOK, Usable
  <2>6. LinesOK'
    <3> SUFFICES ASSUME NEW j \in Installs(wanted), wanted[j].pkg \notin Provided
                 PROVE  IF j \in todo' THEN decided'[wanted[j].pkg] = 0
                        ELSE /\ decided'[wanted[j].pkg] # 0
                             /\ wanted[j].pin \in {0, decided'[wanted[j].pkg]}
      BY <1>7 DEF LinesOK
    <3>1. CASE j = i
      BY <1>7, <2>1, <2>3, <3>1
    <3>2. CASE j # i
      <4>1. wanted[j].pkg \in Packages \ {p}
        BY <1>3, <1>4, <3>2 DEF Usable
      <4>2. decided'[wanted[j].pkg] = decided[wanted[j].pkg] /\ (j \in todo' <=> j \in todo)
        BY <1>7, <2>3, <3>2, <4>1
      <4> QED
        BY <1>4, <4>2 DEF LinesOK
    <3> QED
      BY <3>1, <3>2
  <2>7. NeedsOK'
    <3>1. decided[p] < v
      <4>1. v \in Nat \ {0}
        BY <2>1, SettingFacts
      <4> QED
        BY <2>2, <4>1
    <3>2. \A r \in Chosen : \A d \in ToSet(Deps[r]) : Met(d) \/ Queued(pending, d)
      BY <1>4 DEF NeedsOK
    <3> DEFINE depth == 0
    <3>3. /\ decided' = [decided EXCEPT ![p] = v] /\ wanted' = wanted
          /\ pending' = Enqueued(pending, p, v, depth) /\ depth \in Nat
          /\ p \in Packages \ Provided /\ v \in Versions /\ pending \in Seq(Want)
          /\ decided \in [Packages -> Versions \union {0}] /\ decided[p] < v
      BY <1>7, <2>1, <2>2, <3>1
    <3>4. \A r \in Chosen : \A d \in ToSet(Deps[r]) :
            Met(d) \/ Queued(pending, d) \/ (d[1] = p /\ d[2] = v)
      BY <3>2
    <3> HIDE DEF p, v, depth
    <3> QED
      BY <3>3, <3>4, DecidingKeepsNeeds
  <2>8. SparesImage'
    BY <1>4, <1>7, <2>3 DEF SparesImage
  <2> QED
    BY <1>2, <1>7, <2>5, <2>6, <2>7, <2>8 DEF ModsInv, ResolvingOK, StagedOK, RunningIsResolved
<1> QED
  BY <1>1, <1>5, <1>6, <1>7

(* Following a dependency: what a pin holds is settled, so a version is    *)
(* only ever raised, and only where no pin is.                             *)
LEMMA FollowKeeps ==
  ASSUME ModsInv, Follow
  PROVE  ModsInv'
<1> DEFINE w == Last(pending)
           p == w.pkg
<1>1. \/ Refused(<<>>)
      \/ /\ Settled(w) /\ pending' = Front(pending)
         /\ UNCHANGED <<phase, stranded, wanted, at, todo, decided, turned>>
      \/ Unknown
      \/ /\ ~Settled(w)
         /\ decided' = [decided EXCEPT ![p] = w.version]
         /\ pending' = Enqueued(Front(pending), p, w.version, w.depth)
         /\ UNCHANGED <<phase, stranded, wanted, at, todo>>
         /\ turned' = (turned \/ decided[p] # 0)
  BY DEF Follow
<1>2. /\ at = "resolving" /\ todo = {} /\ pending # <<>> /\ UNCHANGED <<cache, staged, live, resolved>>
      /\ phase = "preparing"
  BY DEF Follow, diskVars, ModsInv, ProgressOK
<1>3. LinesOK /\ NeedsOK /\ SparesImage /\ ModsTyped /\ Usable(wanted)
  BY <1>2 DEF ModsInv, ResolvingOK, ProgressOK
<1>4. /\ w \in Want /\ Front(pending) \in Seq(Want)
      /\ \A d : Queued(pending, d) => \/ Queued(Front(pending), d)
                                      \/ p = d[1] /\ w.version = d[2]
  BY <1>2, <1>3, FrontProperties DEF ModsTyped
<1>5. /\ p \in Packages /\ w.version \in Versions /\ w.depth \in Nat
      /\ decided \in [Packages -> Versions \union {0}] /\ decided[p] \in Nat
      /\ w.version \in Nat \ {0}
  <2>1. Versions \subseteq Nat \ {0}
    BY SettingFacts
  <2>2. p \in Packages /\ w.version \in Versions /\ w.depth \in Nat
    BY <1>4 DEF Want
  <2>3. decided \in [Packages -> Versions \union {0}]
    BY <1>3 DEF ModsTyped
  <2>4. \A n \in Versions \union {0} : n \in Nat
    BY <2>1
  <2> QED
    BY <2>1, <2>2, <2>3, <2>4
<1> HIDE DEF w
<1>6. CASE Refused(<<>>)
  BY <1>2, <1>3, <1>6, RefusedKeeps DEF ModsTyped
<1>7. CASE Unknown
  BY <1>2, <1>3, <1>7, RefusedKeeps DEF Unknown, ModsTyped
<1>8. CASE /\ Settled(w) /\ pending' = Front(pending)
           /\ UNCHANGED <<phase, stranded, wanted, at, todo, decided, turned>>
  <2>1. ModsTyped' /\ ProgressOK'
    BY <1>2, <1>4, <1>8 DEF ModsInv, ModsTyped, ProgressOK, Usable
  <2>2. LinesOK' /\ SparesImage'
    BY <1>3, <1>8 DEF LinesOK, SparesImage
  <2>3. ASSUME NEW d, p = d[1], w.version = d[2]
        PROVE  Met(d)
    BY <1>5, <1>8, <2>3 DEF Settled, Met
  <2>4. NeedsOK'
    <3> SUFFICES ASSUME NEW r \in Chosen, NEW d \in ToSet(Deps[r])
                 PROVE  Met(d) \/ Queued(Front(pending), d)
      BY <1>8 DEF NeedsOK, Met, Chosen, Pinned
    <3> QED
      BY <1>3, <1>4, <2>3 DEF NeedsOK
  <2> QED
    BY <1>2, <1>8, <2>1, <2>2, <2>4 DEF ModsInv, ResolvingOK, StagedOK, RunningIsResolved
<1>9. CASE /\ ~Settled(w)
           /\ decided' = [decided EXCEPT ![p] = w.version]
           /\ pending' = Enqueued(Front(pending), p, w.version, w.depth)
           /\ UNCHANGED <<phase, stranded, wanted, at, todo>>
           /\ turned' = (turned \/ decided[p] # 0)
  <2>1. p \notin Provided /\ decided[p] < w.version /\ (decided[p] # 0 => ~Pinned(p))
    BY <1>5, <1>9 DEF Settled
  <2>2. /\ decided' \in [Packages -> Versions \union {0}] /\ decided'[p] = w.version
        /\ \A q \in Packages \ {p} : decided'[q] = decided[q]
    BY <1>5, <1>9
  <2>3. pending' \in Seq(Want)
    BY <1>4, <1>5, <1>9, EnqueuedProperties
  <2>4. turned' \in BOOLEAN
    BY <1>9
  <2>5. ModsTyped' /\ ProgressOK'
    BY <1>2, <1>9, <2>2, <2>3, <2>4 DEF ModsInv, ModsTyped, ProgressOK, Usable
  <2>6. LinesOK'
    <3> SUFFICES ASSUME NEW j \in Installs(wanted), wanted[j].pkg \notin Provided
                 PROVE  decided'[wanted[j].pkg] # 0 /\ wanted[j].pin \in {0, decided'[wanted[j].pkg]}
      BY <1>2, <1>9 DEF LinesOK
    <3>1. decided[wanted[j].pkg] # 0 /\ wanted[j].pin \in {0, decided[wanted[j].pkg]}
      BY <1>2, <1>3 DEF LinesOK
    <3>2. CASE wanted[j].pkg = p
      <4>1. wanted[j].pin = 0
        BY <2>1, <3>1, <3>2 DEF Pinned
      <4> QED
        BY <1>5, <2>2, <3>2, <4>1
    <3>3. CASE wanted[j].pkg # p
      <4>1. wanted[j].pkg \in Packages
        <5>1. \A k \in DOMAIN wanted : wanted[k] \in Line
          BY <1>3 DEF ModsTyped
        <5> QED
          BY <5>1 DEF Installs, Line
      <4> QED
        BY <2>2, <3>1, <3>3, <4>1
    <3> QED
      BY <3>2, <3>3
  <2>7. NeedsOK'
    <3>1. \A r \in Chosen : \A d \in ToSet(Deps[r]) :
            Met(d) \/ Queued(Front(pending), d) \/ (d[1] = p /\ d[2] = w.version)
      BY <1>3, <1>4 DEF NeedsOK
    <3>2. /\ p \in Packages \ Provided /\ wanted' = wanted /\ w.version \in Versions
          /\ w.depth \in Nat /\ Front(pending) \in Seq(Want)
          /\ decided \in [Packages -> Versions \union {0}] /\ decided[p] < w.version
          /\ decided' = [decided EXCEPT ![p] = w.version]
          /\ pending' = Enqueued(Front(pending), p, w.version, w.depth)
      BY <1>4, <1>5, <1>9, <2>1
    <3> DEFINE v == w.version
               base == Front(pending)
               depth == w.depth
    <3>3. /\ p \in Packages \ Provided /\ wanted' = wanted /\ v \in Versions
          /\ depth \in Nat /\ base \in Seq(Want)
          /\ decided \in [Packages -> Versions \union {0}] /\ decided[p] < v
          /\ decided' = [decided EXCEPT ![p] = v]
          /\ pending' = Enqueued(base, p, v, depth)
          /\ \A r \in Chosen : \A d \in ToSet(Deps[r]) :
               Met(d) \/ Queued(base, d) \/ (d[1] = p /\ d[2] = v)
      BY <3>1, <3>2
    <3> HIDE DEF p, v, base, depth
    <3> QED
      BY <3>3, DecidingKeepsNeeds
  <2>8. SparesImage'
    BY <1>3, <2>1, <2>2, SettingFacts DEF SparesImage
  <2> QED
    BY <1>2, <1>9, <2>5, <2>6, <2>7, <2>8 DEF ModsInv, ResolvingOK, StagedOK, RunningIsResolved
<1> QED
  BY <1>1, <1>6, <1>7, <1>8, <1>9

(* The invariant holds at first.                                           *)
LEMMA ModsStart ==
  ASSUME ModsInit
  PROVE  ModsInv
<1> USE SettingFacts
<1>1. /\ phase = "down" /\ at = "idle" /\ wanted = <<>> /\ todo = {} /\ pending = <<>>
      /\ decided = [p \in Packages |-> 0] /\ turned = FALSE
      /\ cache = [r \in Releases |-> "none"]
  BY DEF ModsInit, Undecided
<1>2. ModsTyped
  <2>1. /\ <<>> \in Seq(Line) /\ <<>> \in Seq(Want)
        /\ [p \in Packages |-> 0] \in [Packages -> Versions \union {0}]
    OBVIOUS
  <2> QED
    BY <1>1, <2>1 DEF ModsTyped
<1>3. ProgressOK
  BY <1>1 DEF ProgressOK, Usable, Installs
<1> QED
  BY <1>1, <1>2, <1>3 DEF ModsInv, ResolvingOK, StagedOK, RunningIsResolved

(* The steps between the resolution and the spawn.                         *)
LEMMA PreparingKeeps ==
  ASSUME ModsInv,
         ResolvedAll \/ (\E r \in Releases : Download(r)) \/ Unstage \/ Stage
  PROVE  ModsInv'
<1>1. CASE Unknown /\ UNCHANGED cache
  BY <1>1, RefusedKeeps DEF Unknown, ModsInv, ModsTyped
<1>2. CASE Refused(<<>>) /\ UNCHANGED cache
  BY <1>2, RefusedKeeps DEF ModsInv, ModsTyped
<1>3. CASE \E r \in Releases :
             /\ cache' = [cache EXCEPT ![r] = "good"]
             /\ UNCHANGED <<phase, wanted, at, todo, pending, decided, turned, staged, resolved, live>>
  <2>1. cache' \in [Releases -> {"none", "good", "torn", "rotten"}]
    BY <1>3 DEF ModsInv, ModsTyped
  <2> QED
    BY <1>3, <2>1, ElsewhereKeepsMods
<1>4. CASE /\ \/ at = "resolving" /\ at' = "fetching" /\ todo = {} /\ pending = <<>>
              \/ at = "fetching" /\ at' = "staging"
              \/ at = "staging" /\ at' = "recording" /\ staged' = Chosen
           /\ UNCHANGED <<phase, wanted, todo, pending, decided, turned, resolved, live, cache>>
  <2>1. ModsTyped' /\ ProgressOK'
    BY <1>4 DEF ModsInv, ModsTyped, ProgressOK, Usable
  <2>2. phase = "preparing" /\ phase' = "preparing"
    BY <1>4 DEF ModsInv, ProgressOK
  <2>3. ResolvingOK'
    BY <1>4 DEF ModsInv, ResolvingOK, LinesOK, NeedsOK, SparesImage, Met, Queued, Chosen,
       Pinned
  <2>4. StagedOK' /\ RunningIsResolved'
    BY <1>4, <2>2 DEF StagedOK, Chosen, RunningIsResolved
  <2> QED
    BY <2>1, <2>3, <2>4 DEF ModsInv
<1> QED
  BY <1>1, <1>2, <1>3, <1>4
  DEF ResolvedAll, Download, Unstage, Stage, diskVars

(* As many names as releases chosen: a package has one version.            *)
LEMMA ChosenNames ==
  Cardinality(Names(Chosen)) = Cardinality(Chosen)
<1> DEFINE D == {p \in Packages : decided[p] # 0}
           f == [p \in D |-> <<p, decided[p]>>]
<1>1. Chosen = {<<p, decided[p]>> : p \in D}
  BY DEF Chosen
<1>2. Names(Chosen) = D
  <2> HIDE DEF D
  <2>1. \A p \in D : p \in Names(Chosen)
    <3>1. \A p \in D : <<p, decided[p]>> \in Chosen /\ <<p, decided[p]>>[1] = p
      BY <1>1
    <3> QED
      BY <3>1 DEF Names
  <2>2. \A r \in Chosen : r[1] \in D
    BY <1>1
  <2> QED
    BY <2>1, <2>2 DEF Names
<1>3. IsFiniteSet(D)
  BY SettingFacts, FS_Subset
<1>4. f \in Bijection(D, Chosen)
  <2> HIDE DEF D
  <2>1. f \in [D -> Chosen]
    BY <1>1
  <2>2. \A p, q \in D : f[p] = f[q] => p = q
    OBVIOUS
  <2>3. \A r \in Chosen : \E p \in D : f[p] = r
    BY <1>1
  <2>4. f \in Injection(D, Chosen) /\ f \in Surjection(D, Chosen)
    <3> HIDE DEF f
    <3> QED
      BY <2>1, <2>2, <2>3 DEF Injection, Surjection, IsInjective
  <2> QED
    BY <2>4 DEF Bijection
<1>5. ExistsBijection(D, Chosen)
  BY <1>4 DEF ExistsBijection
<1> HIDE DEF D, f
<1>6. Cardinality(D) = Cardinality(Chosen)
  BY <1>3, <1>5, FS_Bijection
<1> QED
  BY <1>2, <1>6

(* The spawn: with nothing left to look up or to follow, what was decided  *)
(* has every line and every need in it.                                    *)
LEMMA SpawnKeeps ==
  ASSUME ModsInv, Spawn
  PROVE  ModsInv'
<1> USE SettingFacts
<1>1. /\ at = "recording" /\ resolved' = [installed |-> Chosen, clientOnly |-> ClientOnly(wanted)]
      /\ live' = staged /\ phase' = "running" /\ at' = "idle" /\ decided' = [p \in Packages |-> 0]
      /\ turned' = FALSE /\ UNCHANGED <<staged, wanted, todo, pending>>
      /\ cache' = [r \in Releases |-> IF r \in Chosen THEN cache[r] ELSE "none"]
  BY DEF Spawn, Undecided, Collect
<1>2. /\ LinesOK /\ NeedsOK /\ SparesImage /\ ModsTyped /\ Usable(wanted)
      /\ staged = Chosen /\ todo = {} /\ pending = <<>>
  BY <1>1 DEF ModsInv, ResolvingOK, ProgressOK, StagedOK
<1>3. Chosen \subseteq Releases
  BY <1>2 DEF Chosen, ModsTyped
<1>4. ModsTyped'
  <2>1. [p \in Packages |-> 0] \in [Packages -> Versions \union {0}]
    OBVIOUS
  <2>2. cache' \in [Releases -> {"none", "good", "torn", "rotten"}]
    BY <1>1, <1>2 DEF ModsTyped
  <2> QED
    BY <1>1, <1>2, <2>1, <2>2 DEF ModsTyped
<1>5. ProgressOK' /\ ResolvingOK' /\ StagedOK'
  BY <1>1, <1>2, <1>3 DEF ProgressOK, ResolvingOK, StagedOK, Usable
<1>6. RunningIsResolved'
  <2>1. /\ live' = Chosen /\ wanted' = wanted
        /\ live' = resolved'.installed
    BY <1>1, <1>2
  <2>2. Cardinality(Names(live')) = Cardinality(live')
    BY <2>1, ChosenNames
  <2>3. ASSUME NEW i \in Installs(wanted), wanted[i].pkg \notin Provided
        PROVE  \E r \in Chosen : r[1] = wanted[i].pkg /\ wanted[i].pin \in {0, r[2]}
    <3>1. decided[wanted[i].pkg] # 0 /\ wanted[i].pin \in {0, decided[wanted[i].pkg]}
      BY <1>2, <2>3 DEF LinesOK
    <3>2. wanted[i].pkg \in Packages
      <4>1. \A k \in DOMAIN wanted : wanted[k] \in Line
        BY <1>2 DEF ModsTyped
      <4> QED
        BY <4>1 DEF Installs, Line
    <3>3. <<wanted[i].pkg, decided[wanted[i].pkg]>> \in Chosen
      BY <3>1, <3>2 DEF Chosen
    <3> QED
      BY <3>1, <3>3
  <2>4. ASSUME NEW r \in Chosen, NEW d \in ToSet(Deps[r])
        PROVE  \/ d[1] \in Provided
               \/ \E s \in Chosen : s[1] = d[1] /\ (s[2] >= d[2] \/ Pinned(d[1]))
    <3>1. Met(d)
      BY <1>2 DEF NeedsOK, Queued
    <3>2. d[1] \in Packages
      <4>1. r \in Packages \X Versions /\ Deps[r] \in Seq(Packages \X Versions)
        BY <1>3
      <4> QED
        BY <4>1 DEF ToSet
    <3>3. CASE d[1] \notin Provided
      <4>1. decided[d[1]] # 0 /\ (decided[d[1]] >= d[2] \/ Pinned(d[1]))
        BY <3>1, <3>3 DEF Met
      <4>2. <<d[1], decided[d[1]]>> \in Chosen
        BY <3>2, <4>1 DEF Chosen
      <4> QED
        BY <4>1, <4>2
    <3> QED
      BY <3>3
  <2>5. Names(Chosen) \intersect Provided = {}
    BY <1>2 DEF SparesImage, Names, Chosen
  <2>6. \A p : Pinned(p)' <=> Pinned(p)
    BY <2>1 DEF Pinned
  <2> QED
    BY <2>1, <2>2, <2>3, <2>4, <2>5, <2>6 DEF RunningIsResolved
<1> QED
  BY <1>4, <1>5, <1>6 DEF ModsInv

(* The pod dies, or the game ends: there is nothing left to resolve.       *)
LEMMA DownKeeps ==
  ASSUME ModsInv, PodDies \/ Ends
  PROVE  ModsInv'
<1> USE SettingFacts
<1>1. /\ phase' = "down" /\ at' = "idle" /\ wanted' = <<>> /\ todo' = {} /\ pending' = <<>>
      /\ decided' \in [Packages -> Versions \union {0}] /\ turned' \in BOOLEAN /\ cache' = cache
  <2>1. CASE PodDies
    BY <2>1 DEF PodDies, Undecided, diskVars
  <2>2. CASE Ends
    BY <2>2 DEF Ends, diskVars, ModsInv, ModsTyped, ProgressOK
  <2> QED
    BY <2>1, <2>2
<1>2. ModsTyped'
  <2>1. <<>> \in Seq(Line)  /\ <<>> \in Seq(Want)
    OBVIOUS
  <2> QED
    BY <1>1, <2>1 DEF ModsInv, ModsTyped
<1>3. ProgressOK'
  BY <1>1 DEF ProgressOK, Usable, Installs
<1> QED
  BY <1>1, <1>2, <1>3 DEF ModsInv, ResolvingOK, StagedOK, RunningIsResolved

(* Every step keeps the invariant.                                         *)
LEMMA ModsStep ==
  ASSUME ModsInv, [ModsNext]_modVars
  PROVE  ModsInv'
<1>1. CASE \E l \in Lists \union {<<>>} : Begin(l)
  BY <1>1, LaunchKeeps
<1>2. CASE Reconcile
  BY <1>2, LookUpKeeps, FollowKeeps, PreparingKeeps, SpawnKeeps DEF Reconcile
<1>3. CASE Fails
  BY <1>3, RefusedKeeps DEF Fails, diskVars, ModsInv, ModsTyped
<1>4. CASE PodDies \/ Ends
  BY <1>4, DownKeeps
<1>5. CASE \/ Ready \/ ReadyStale \/ Sweeping \/ UNCHANGED modVars
           \/ \E r \in Upcoming : Publish(r)
           \/ Outage
  <2>1. /\ UNCHANGED <<at, wanted, todo, pending, decided, turned, staged, live, resolved, cache>>
        /\ phase' = phase \/ (phase = "running" /\ phase' = "ready")
    BY <1>5 DEF Ready, ReadyStale, Sweeping, SweepLists, SweepScans, SweepRemoves,
       Publish, Outage, modVars, diskVars, workVars
  <2>2. cache' \in [Releases -> {"none", "good", "torn", "rotten"}]
    BY <2>1 DEF ModsInv, ModsTyped
  <2> QED
    BY <2>1, <2>2, ElsewhereKeepsMods
<1>6. ASSUME NEW r \in Releases, NEW how \in {"torn", "rotten"}, Damage(r, how)
      PROVE  ModsInv'
  <2>1. /\ UNCHANGED <<at, wanted, todo, pending, decided, turned, staged, live, resolved, phase>>
        /\ cache' = [cache EXCEPT ![r] = how]
    BY <1>6 DEF Damage, workVars
  <2>2. cache' \in [Releases -> {"none", "good", "torn", "rotten"}]
    BY <2>1 DEF ModsInv, ModsTyped
  <2> QED
    BY <2>1, <2>2, ElsewhereKeepsMods
<1> QED
  BY <1>1, <1>2, <1>3, <1>4, <1>5, <1>6 DEF ModsNext, World

(* At every point of a launch the lines looked up are decided on, and what *)
(* is needed by what was decided on is had or still queued; nothing the    *)
(* image has is installed; and what is staged and runs is what was decided *)
(* on (resolve.rs, stage.rs, mod.rs).                                      *)
THEOREM ModsInvariant ==
  ModsSpec => []ModsInv
<1>1. ModsInit => ModsInv
  BY ModsStart
<1>2. ModsInv /\ [ModsNext]_modVars => ModsInv'
  BY ModsStep
<1> QED
  BY <1>1, <1>2, PTL DEF ModsSpec

(* A running game has the mods its list asks for and no others: every line *)
(* at its pin, every need as high as asked, from the image or held by a    *)
(* pin, one version of each, and what `resolved` tells the bot (resolve.rs,*)
(* stage.rs, mod.rs).                                                      *)
THEOREM RunningIsResolvedAlways ==
  ModsSpec => []RunningIsResolved
<1>1. ModsInv => RunningIsResolved
  BY DEF ModsInv
<1> QED
  BY <1>1, ModsInvariant, PTL

-----------------------------------------------------------------------------
(* A sweep begun by its own launch's readiness, that no launch has         *)
(* overtaken, is that of the game that is ready, or was last: the tree it  *)
(* reads has what that game had.                                           *)
SweepOK ==
  /\ sweep = [at |-> sweep.at, candidates |-> sweep.candidates, claimed |-> sweep.claimed]
  /\ sweep.at # "idle" /\ undisturbed =>
       /\ phase \in {"ready", "down"}
       /\ proven \subseteq Names(staged \ {NoTree})
  /\ sweep.at = "removing" /\ undisturbed => proven \subseteq sweep.claimed

(* Every step keeps it: a launch ends the sweep's claim, the game that gets*)
(* ready begins it, and in between nobody touches the tree.                *)
LEMMA SweepNext ==
  ASSUME ModsInv, SweepOK, [ModsNext]_modVars
  PROVE  SweepOK'
<1> USE SettingFacts
<1>1. CASE \E l \in Lists \union {<<>>} : Begin(l)
  BY <1>1 DEF Begin, SweepOK
<1>2. CASE Reconcile \/ Fails
  <2>1. phase = "preparing"
    BY <1>2 DEF Reconcile, Fails, LookUp, Follow, ResolvedAll,
       Download, Unstage, Stage, Spawn, ModsInv, ProgressOK
  <2>2. UNCHANGED <<sweep, undisturbed, proven>>
    BY <1>2 DEF Reconcile, Fails, LookUp, Follow, ResolvedAll,
       Download, Unstage, Stage, Spawn, sweepVars, historyVars
  <2> QED
    BY <2>1, <2>2 DEF SweepOK
<1>3. CASE PodDies
  BY <1>3 DEF PodDies, Idle, SweepOK
<1>4. CASE Ends \/ World \/ UNCHANGED modVars
  <2>1. UNCHANGED <<sweep, undisturbed, proven, staged>> /\ (phase' = phase \/ phase' = "down")
    <3>1. CASE Ends
      BY <3>1 DEF Ends, sweepVars, historyVars, diskVars
    <3>2. CASE World
      BY <3>2 DEF World, Publish, Outage, Damage, sweepVars,
         historyVars, diskVars
    <3>3. CASE UNCHANGED modVars
      BY <3>3 DEF modVars, sweepVars, historyVars, diskVars
    <3> QED
      BY <1>4, <3>1, <3>2, <3>3
  <2> QED
    BY <2>1 DEF SweepOK
<1>5. CASE Ready
  <2>1. /\ phase = "running" /\ phase' = "ready" /\ proven' = Names(live)
        /\ sweep' = IF sweep.at = "idle" THEN [sweep EXCEPT !.at = "planned"] ELSE sweep
        /\ undisturbed' = (undisturbed \/ sweep.at = "idle") /\ staged' = staged
    BY <1>5 DEF Ready, diskVars
  <2>2. live = staged /\ live \subseteq Packages \X Versions
    BY <2>1 DEF ModsInv, StagedOK
  <2>3. NoTree \notin live
    <3> SUFFICES ASSUME NoTree \in live
                 PROVE  FALSE
      OBVIOUS
    <3>1. NoTree \in Packages \X Versions
      BY <2>2
    <3>2. Len(NoTree) = 1 /\ Len(NoTree) = 2
      BY <3>1 DEF NoTree
    <3> QED
      BY <3>2
  <2>4. staged' \ {NoTree} = live
    BY <2>1, <2>2, <2>3
  <2> QED
    BY <2>1, <2>4 DEF SweepOK
<1>6. CASE SweepLists
  BY <1>6 DEF SweepLists, Idle, diskVars, historyVars, SweepOK
<1>7. CASE SweepScans
  BY <1>7 DEF SweepScans, diskVars, historyVars, SweepOK
<1>8. CASE SweepRemoves
  BY <1>8 DEF SweepRemoves, Idle, SweepOK
<1>9. CASE ReadyStale
  BY <1>9 DEF ReadyStale, diskVars, historyVars, SweepOK
<1> QED
  BY <1>1, <1>2, <1>3, <1>4, <1>5, <1>6, <1>7, <1>8, <1>9 DEF ModsNext, Sweeping

(* A sweep that the readiness of its own launch began, and no launch has   *)
(* overtaken, removes no settings of a mod that the game that was last     *)
(* ready had (orphaned_config.rs).                                         *)
THEOREM SweepSparesInstalledAlways ==
  ModsSpec => SweepSparesInstalled
<1>1. ModsInit => SweepOK
  BY DEF ModsInit, Idle, SweepOK
<1>2. ModsInv /\ SweepOK /\ [ModsNext]_modVars => SweepOK'
  BY SweepNext
<1>3. ModsInv /\ SweepOK =>
        (SweepRemoves /\ undisturbed => (settings \ settings') \intersect proven = {})
  BY DEF SweepOK, SweepRemoves
<1> QED
  BY <1>1, <1>2, <1>3, ModsInvariant, PTL DEF ModsSpec, SweepSparesInstalled

-----------------------------------------------------------------------------
(* A list that came through comes through again offline.  What was left    *)
(* to do, and the versions decided on, follow from the list alone as long  *)
(* as every line has a pin: a launch with the same list passes through     *)
(* the same states, and whatever those decide on is in the cache.          *)

Work == [todo |-> todo, pending |-> pending, decided |-> decided]
Start(l) == [todo |-> Installs(l), pending |-> <<>>, decided |-> [p \in Packages |-> 0]]

(* Settled, for any state of a resolution.                                 *)
SettledAt(l, d, w) ==
  \/ w.pkg \in Provided
  \/ w.version <= d[w.pkg]
  \/ d[w.pkg] # 0 /\ \E i \in Installs(l) : l[i].pkg = w.pkg /\ l[i].pin # 0

(* A line is looked up, if all have pins and the registry has everything.  *)
LooksUp(l, s, t, i) ==
  /\ i \in s.todo /\ \A j \in s.todo : i <= j
  /\ t = IF l[i].pkg \in Provided
         THEN [todo |-> s.todo \ {i}, pending |-> s.pending, decided |-> s.decided]
         ELSE [todo |-> s.todo \ {i},
               pending |-> Enqueued(s.pending, l[i].pkg, l[i].pin, 0),
               decided |-> [s.decided EXCEPT ![l[i].pkg] = l[i].pin]]

(* A dependency is followed.                                               *)
Follows(l, s, t, w) ==
  /\ s.todo = {} /\ s.pending # <<>> /\ w = Last(s.pending)
  /\ t = IF SettledAt(l, s.decided, w)
         THEN [todo |-> {}, pending |-> Front(s.pending), decided |-> s.decided]
         ELSE [todo |-> {},
               pending |-> Enqueued(Front(s.pending), w.pkg, w.version, w.depth),
               decided |-> [s.decided EXCEPT ![w.pkg] = w.version]]

StepsTo(l, s, t) == (\E i \in s.todo : LooksUp(l, s, t, i)) \/ Follows(l, s, t, Last(s.pending))

(* The states passed through so far: each but the last has its successor   *)
(* among them, and what it decided on is decided on still.                 *)
Walked(R) ==
  /\ Start(wanted) \in R /\ Work \in R
  /\ \A s \in R : s = Work \/ \A t : StepsTo(wanted, s, t) => t \in R
  /\ \A s \in R : \A p \in Packages : s.decided[p] # 0 => s.decided[p] = decided[p]

Trail == at # "idle" /\ AllPinned(wanted) /\ ~turned => \E R : Walked(R)

(* The states of a launch that came through: all they decide on is cached. *)
Beaten(R) ==
  /\ Start(comeback) \in R
  /\ \A s \in R : \A t : StepsTo(comeback, s, t) => t \in R
  /\ \A s \in R : \A p \in Packages : s.decided[p] # 0 =>
       <<p, s.decided[p]>> \in Releases /\ cache[<<p, s.decided[p]>>] = "good"
  /\ at # "idle" /\ wanted = comeback => Work \in R

Back == comeback # <<>> => AllPinned(comeback) /\ \E R : Beaten(R)

ComebackOK ==
  /\ Trail /\ Back
  /\ stranded # <<>> => phase = "refused" /\ stranded # comeback

(* A state has one successor.                                              *)
LEMMA OneSuccessor ==
  ASSUME NEW l, NEW s, NEW t, NEW u, s.todo \subseteq Int, StepsTo(l, s, t), StepsTo(l, s, u)
  PROVE  t = u
<1>1. CASE s.todo = {}
  BY <1>1 DEF StepsTo, Follows
<1>2. CASE s.todo # {}
  <2>1. PICK i \in s.todo : LooksUp(l, s, t, i)
    BY <1>2 DEF StepsTo, Follows
  <2>2. PICK j \in s.todo : LooksUp(l, s, u, j)
    BY <1>2 DEF StepsTo, Follows
  <2>3. i = j
    BY <2>1, <2>2 DEF LooksUp
  <2> QED
    BY <2>1, <2>2, <2>3 DEF LooksUp
<1> QED
  BY <1>1, <1>2

(* A step of the resolution is the one the list prescribes.                *)
LEMMA OnwardKeeps ==
  ASSUME ModsTyped, ComebackOK, at = "resolving", at' = "resolving", phase' = phase,
         phase = "preparing",
         UNCHANGED <<wanted, comeback, cache, stranded>>,
         AllPinned(wanted) => StepsTo(wanted, Work, Work'),
         ~turned' => ~turned /\ \A p \in Packages : decided[p] # 0 => decided'[p] = decided[p]
  PROVE  ComebackOK'
<1>1. ASSUME AllPinned(wanted), ~turned'
      PROVE  \E R : Walked(R)'
  <2>1. ~turned /\ \A p \in Packages : decided[p] # 0 => decided'[p] = decided[p]
    BY <1>1
  <2>2. PICK R : Walked(R)
    BY <1>1, <2>1 DEF ComebackOK, Trail
  <2>3. PICK Q : Q = R \union {Work'}
    OBVIOUS
  <2>4. todo \subseteq Int /\ Work.todo = todo
    BY DEF ModsTyped, Installs, Work
  <2>5. \A t : StepsTo(wanted, Work, t) => t = Work'
    BY <1>1, <2>4, OneSuccessor
  <2>6. \A s \in R : \A t : StepsTo(wanted, s, t) => t \in Q
    BY <2>2, <2>3, <2>5 DEF Walked
  <2>7. ASSUME NEW s \in R, NEW p \in Packages, s.decided[p] # 0
        PROVE  s.decided[p] = decided'[p]
    BY <2>1, <2>2, <2>7 DEF Walked
  <2>8. Work'.decided = decided'
    BY DEF Work
  <2>9. Walked(Q)'
    BY <2>2, <2>3, <2>6, <2>7, <2>8 DEF Walked
  <2> QED
    BY <2>9
<1>2. ASSUME comeback # <<>>
      PROVE  AllPinned(comeback) /\ \E R : Beaten(R)'
  <2>1. PICK R : Beaten(R)
    BY <1>2 DEF ComebackOK, Back
  <2>2. AllPinned(comeback)
    BY <1>2 DEF ComebackOK, Back
  <2>3. wanted = comeback => Work' \in R
    BY <2>1, <2>2 DEF Beaten
  <2>4. Beaten(R)'
    BY <2>1, <2>3 DEF Beaten
  <2> QED
    BY <2>2, <2>4
<1>3. Trail'
  <2>1. AllPinned(wanted)' <=> AllPinned(wanted)
    BY DEF AllPinned
  <2> QED
    BY <1>1, <2>1 DEF Trail
<1>4. Back'
  <2>1. AllPinned(comeback)' <=> AllPinned(comeback)
    BY DEF AllPinned
  <2> QED
    BY <1>2, <2>1 DEF Back
<1> QED
  BY <1>3, <1>4 DEF ComebackOK

(* What the next state of a list that came through decides on is cached.   *)
LEMMA NextIsCached ==
  ASSUME ComebackOK, at # "idle", comeback # <<>>, wanted = comeback,
         NEW t, StepsTo(wanted, Work, t), NEW p \in Packages, t.decided[p] # 0
  PROVE  cache[<<p, t.decided[p]>>] = "good"
<1>1. PICK R : Beaten(R)
  BY DEF ComebackOK, Back
<1>2. t \in R
  BY <1>1 DEF Beaten
<1> QED
  BY <1>1, <1>2 DEF Beaten

(* A refusal keeps the way back, unless it strands the list that came      *)
(* through.                                                                *)
LEMMA RefusedComeback ==
  ASSUME ComebackOK, NEW left, Refused(left), left # <<>> => left # comeback,
         UNCHANGED <<comeback, cache>>
  PROVE  ComebackOK'
<1>1. phase' = "refused" /\ stranded' = left /\ at' = "idle"
  BY DEF Refused
<1>2. Trail'
  BY <1>1 DEF Trail
<1>3. Back'
  <2> SUFFICES ASSUME comeback # <<>>
               PROVE  AllPinned(comeback) /\ \E R : Beaten(R)'
    BY DEF Back, AllPinned
  <2>1. PICK R : Beaten(R)
    BY DEF ComebackOK, Back
  <2>2. Beaten(R)'
    BY <1>1, <2>1 DEF Beaten
  <2> QED
    BY <2>2 DEF ComebackOK, Back
<1> QED
  BY <1>1, <1>2, <1>3 DEF ComebackOK

(* Looking up a pinned line can fail for want of the registry only if its  *)
(* zip is not in the cache; for the list that came through it is.          *)
LEMMA LookUpComeback ==
  ASSUME ModsInv, ComebackOK, LookUp
  PROVE  ComebackOK'
<1> USE SettingFacts
<1>1. PICK i \in todo :
        /\ \A j \in todo : i <= j
        /\ \/ /\ wanted[i].pkg \in Provided
              /\ todo' = todo \ {i}
              /\ UNCHANGED <<phase, stranded, wanted, at, pending, decided, turned>>
           \/ /\ wanted[i].pkg \notin Provided /\ Found(wanted[i].pkg, wanted[i].pin) = 0
              /\ Unknown
           \/ /\ wanted[i].pkg \notin Provided /\ Found(wanted[i].pkg, wanted[i].pin) # 0
              /\ todo' = todo \ {i}
              /\ decided' = [decided EXCEPT ![wanted[i].pkg] = Found(wanted[i].pkg, wanted[i].pin)]
              /\ pending' = Enqueued(pending, wanted[i].pkg, Found(wanted[i].pkg, wanted[i].pin), 0)
              /\ UNCHANGED <<phase, stranded, wanted, at, turned>>
  BY DEF LookUp
<1>2. at = "resolving" /\ UNCHANGED <<cache, comeback>> /\ phase = "preparing"
  BY DEF LookUp, diskVars, historyVars, ModsInv, ProgressOK
<1> DEFINE p == wanted[i].pkg
           pin == wanted[i].pin
           v == Found(p, pin)
<1>3. p \in Packages /\ pin \in Versions \union {0} /\ i \in Installs(wanted)
  <2>1. \A j \in DOMAIN wanted : wanted[j] \in Line
    BY DEF ModsInv, ModsTyped
  <2> QED
    BY <2>1 DEF ModsInv, ModsTyped, Installs, Line
<1>4. LinesOK /\ ModsTyped /\ decided \in [Packages -> Versions \union {0}]
  BY <1>2 DEF ModsInv, ResolvingOK, ModsTyped
<1>5. AllPinned(wanted) => pin # 0
  BY <1>3 DEF AllPinned
<1>6. pin # 0 /\ v = 0 => cache[<<p, pin>>] # "good"
  BY DEF Found, Exact, Opens
<1>7. pin # 0 /\ v # 0 => v = pin
  BY DEF Found
<1> HIDE DEF v, p, pin
<1>8. CASE p \notin Provided /\ v = 0 /\ Unknown
  <2>1. ASSUME wanted # <<>>, wanted = comeback
        PROVE  FALSE
    <3>1. AllPinned(wanted)
      BY <2>1 DEF ComebackOK, Back
    <3>2. pin # 0 /\ cache[<<p, pin>>] # "good"
      BY <1>5, <1>6, <1>8, <3>1
    <3> DEFINE t == [todo |-> todo \ {i}, pending |-> Enqueued(pending, p, pin, 0),
                     decided |-> [decided EXCEPT ![p] = pin]]
    <3>3. LooksUp(wanted, Work, t, i)
      BY <1>1, <1>8 DEF LooksUp, Work, p, pin
    <3>4. StepsTo(wanted, Work, t)
      BY <3>3 DEF StepsTo, LooksUp
    <3>5. t.decided[p] = pin
      BY <1>3, <1>4
    <3> HIDE DEF t
    <3> QED
      BY <1>2, <1>3, <2>1, <3>2, <3>4, <3>5, NextIsCached
  <2>2. Refused(IF reachable THEN <<>> ELSE wanted)
    BY <1>8 DEF Unknown
  <2> QED
    BY <1>2, <2>1, <2>2, RefusedComeback
<1>9. CASE /\ p \in Provided /\ todo' = todo \ {i}
           /\ UNCHANGED <<phase, stranded, wanted, at, pending, decided, turned>>
  <2>1. LooksUp(wanted, Work, Work', i)
    BY <1>1, <1>9 DEF LooksUp, Work, p
  <2>2. StepsTo(wanted, Work, Work')
    BY <2>1 DEF StepsTo, LooksUp
  <2> QED
    BY <1>2, <1>4, <1>9, <2>2, OnwardKeeps
<1>10. CASE /\ p \notin Provided /\ v # 0 /\ todo' = todo \ {i}
            /\ decided' = [decided EXCEPT ![p] = v]
            /\ pending' = Enqueued(pending, p, v, 0)
            /\ UNCHANGED <<phase, stranded, wanted, at, turned>>
  <2>1. ASSUME AllPinned(wanted)
        PROVE  StepsTo(wanted, Work, Work')
    <3>1. v = pin
      BY <1>5, <1>7, <1>10, <2>1
    <3>2. LooksUp(wanted, Work, Work', i)
      BY <1>1, <1>10, <3>1 DEF LooksUp, Work, p, pin
    <3> QED
      BY <3>2 DEF StepsTo, LooksUp
  <2>2. decided[p] = 0
    BY <1>1, <1>3, <1>4, <1>10 DEF LinesOK, p
  <2>3. \A q \in Packages : decided[q] # 0 => decided'[q] = decided[q]
    BY <1>3, <1>4, <1>10, <2>2
  <2> QED
    BY <1>2, <1>4, <1>10, <2>1, <2>3, OnwardKeeps
<1> QED
  BY <1>1, <1>8, <1>9, <1>10 DEF p, v, pin

(* Nor can following its dependencies.                                     *)
LEMMA FollowComeback ==
  ASSUME ModsInv, ComebackOK, Follow
  PROVE  ComebackOK'
<1> USE SettingFacts
<1> DEFINE w == Last(pending)
           p == w.pkg
<1>1. \/ Refused(<<>>)
      \/ /\ Settled(w) /\ pending' = Front(pending)
         /\ UNCHANGED <<phase, stranded, wanted, at, todo, decided, turned>>
      \/ ~Settled(w) /\ ~Exact(p, w.version) /\ Unknown
      \/ /\ ~Settled(w)
         /\ decided' = [decided EXCEPT ![p] = w.version]
         /\ pending' = Enqueued(Front(pending), p, w.version, w.depth)
         /\ UNCHANGED <<phase, stranded, wanted, at, todo>>
         /\ turned' = (turned \/ decided[p] # 0)
  BY DEF Follow
<1>2. /\ at = "resolving" /\ todo = {} /\ pending # <<>> /\ UNCHANGED <<cache, comeback>>
      /\ phase = "preparing"
  BY DEF Follow, diskVars, historyVars, ModsInv, ProgressOK
<1>3. ModsTyped
  BY DEF ModsInv
<1>4. w \in Want
  BY <1>2, <1>3, FrontProperties DEF ModsTyped
<1>5. /\ p \in Packages /\ w.version \in Versions /\ decided \in [Packages -> Versions \union {0}]
      /\ w.version \in Nat \ {0}
  BY <1>3, <1>4 DEF Want, ModsTyped
<1>6. Settled(w) <=> SettledAt(wanted, decided, w)
  BY DEF Settled, SettledAt, Pinned
<1>7. Work.pending = pending /\ Work.todo = todo /\ Work.decided = decided
  BY DEF Work
<1> HIDE DEF w
<1>8. CASE Refused(<<>>)
  BY <1>2, <1>8, RefusedComeback
<1>9. CASE ~Settled(w) /\ ~Exact(p, w.version) /\ Unknown
  <2>1. ASSUME wanted # <<>>, wanted = comeback
        PROVE  FALSE
    <3> DEFINE t == [todo |-> {}, pending |-> Enqueued(Front(pending), p, w.version, w.depth),
                     decided |-> [decided EXCEPT ![p] = w.version]]
    <3>1. Follows(wanted, Work, t, w)
      BY <1>2, <1>6, <1>7, <1>9 DEF Follows, w
    <3>2. StepsTo(wanted, Work, t)
      BY <1>7, <3>1 DEF StepsTo, w
    <3>3. t.decided[p] = w.version
      BY <1>5
    <3>4. cache[<<p, w.version>>] # "good"
      BY <1>9 DEF Exact, Opens
    <3> HIDE DEF t
    <3> QED
      BY <1>2, <1>5, <2>1, <3>2, <3>3, <3>4, NextIsCached
  <2>2. Refused(IF reachable THEN <<>> ELSE wanted)
    BY <1>9 DEF Unknown
  <2> QED
    BY <1>2, <2>1, <2>2, RefusedComeback
<1>10. CASE /\ Settled(w) /\ pending' = Front(pending)
            /\ UNCHANGED <<phase, stranded, wanted, at, todo, decided, turned>>
  <2>1. Follows(wanted, Work, Work', w)
    BY <1>2, <1>6, <1>7, <1>10 DEF Follows, Work, w
  <2>2. StepsTo(wanted, Work, Work')
    BY <1>7, <2>1 DEF StepsTo, w
  <2> QED
    BY <1>2, <1>3, <1>10, <2>2, OnwardKeeps
<1>11. CASE /\ ~Settled(w)
            /\ decided' = [decided EXCEPT ![p] = w.version]
            /\ pending' = Enqueued(Front(pending), p, w.version, w.depth)
            /\ UNCHANGED <<phase, stranded, wanted, at, todo>>
            /\ turned' = (turned \/ decided[p] # 0)
  <2>1. Follows(wanted, Work, Work', w)
    BY <1>2, <1>6, <1>7, <1>11 DEF Follows, Work, w
  <2>2. StepsTo(wanted, Work, Work')
    BY <1>7, <2>1 DEF StepsTo, w
  <2>3. ~turned' => ~turned /\ \A q \in Packages : decided[q] # 0 => decided'[q] = decided[q]
    BY <1>5, <1>11
  <2> QED
    BY <1>2, <1>3, <1>11, <2>2, <2>3, OnwardKeeps
<1> QED
  BY <1>1, <1>8, <1>9, <1>10, <1>11

(* Steps that decide nothing and lose no zip.                              *)
LEMMA QuietComeback ==
  ASSUME ComebackOK, UNCHANGED <<wanted, todo, pending, decided, turned, comeback>>,
         at' # "idle" => at # "idle",
         \A r \in Releases : cache[r] = "good" => cache'[r] = "good",
         stranded' \in {<<>>, stranded}, stranded' # <<>> => phase' = "refused"
  PROVE  ComebackOK'
<1>1. Trail'
  <2>1. \A R : Walked(R)' <=> Walked(R)
    BY DEF Walked, Work
  <2> QED
    BY <2>1 DEF ComebackOK, Trail, AllPinned
<1>2. Back'
  <2>1. \A R : Beaten(R) => Beaten(R)'
    BY DEF Beaten, Work
  <2> QED
    BY <2>1 DEF ComebackOK, Back, AllPinned
<1> QED
  BY <1>1, <1>2 DEF ComebackOK

(* A launch of the list that came through sets out on the way it took.     *)
LEMMA LaunchComeback ==
  ASSUME ModsInv, ComebackOK, NEW list \in Lists \union {<<>>}, Begin(list)
  PROVE  ComebackOK'
<1>1. UNCHANGED <<cache, comeback>>
  BY DEF Begin, diskVars, historyVars
<1>2. CASE Refused(<<>>)
  BY <1>1, <1>2, RefusedComeback
<1>3. CASE /\ at' = "resolving" /\ wanted' = list /\ todo' = Installs(list)
           /\ pending' = <<>> /\ decided' = [p \in Packages |-> 0] /\ stranded' = <<>>
  <2>1. Work' = Start(list)
    BY <1>3 DEF Work, Start
  <2>2. PICK Q : Q = {Start(list)}
    OBVIOUS
  <2>3. \A p \in Packages : Start(list).decided[p] = 0
    BY DEF Start
  <2>4. Walked(Q)'
    BY <1>3, <2>1, <2>2, <2>3 DEF Walked
  <2>5. \A R : Beaten(R) => Beaten(R)'
    BY <1>1, <1>3, <2>1 DEF Beaten
  <2>6. Back'
    BY <1>1, <2>5 DEF ComebackOK, Back, AllPinned
  <2> QED
    BY <1>3, <2>4, <2>6 DEF ComebackOK, Trail
<1> QED
  BY <1>2, <1>3 DEF Begin, Undecided

(* What it has decided on in the end is in the cache: nothing is missing.  *)
LEMMA PreparingComeback ==
  ASSUME ModsInv, ComebackOK,
         ResolvedAll \/ (\E r \in Releases : Download(r)) \/ Unstage \/ Stage
  PROVE  ComebackOK'
<1>1. at # "idle" /\ phase = "preparing" /\ comeback' = comeback
  BY DEF ModsInv, ProgressOK, ResolvedAll, Download, Unstage, Stage,
     historyVars
<1>2. \/ Refused(<<>>) /\ UNCHANGED cache
      \/ \E r \in Missing : Unknown /\ UNCHANGED cache
      \/ /\ UNCHANGED <<wanted, todo, pending, decided, turned, stranded, phase>>
         /\ cache' = cache \/ \E r \in Releases : cache' = [cache EXCEPT ![r] = "good"]
  BY DEF ResolvedAll, Download, Unstage, Stage, diskVars
<1>3. CASE Refused(<<>>) /\ UNCHANGED cache
  BY <1>1, <1>3, RefusedComeback
<1>4. ASSUME NEW r \in Missing, Unknown, UNCHANGED cache
      PROVE  ComebackOK'
  <2>1. ASSUME wanted # <<>>, wanted = comeback
        PROVE  FALSE
    <3>1. PICK R : Beaten(R)
      BY <2>1 DEF ComebackOK, Back
    <3>2. Work \in R /\ Work.decided = decided
      BY <1>1, <2>1, <3>1 DEF Beaten, Work
    <3>3. PICK p \in Packages : decided[p] # 0 /\ r = <<p, decided[p]>>
      BY DEF Missing, Chosen
    <3>4. cache[r] # "good"
      BY DEF Missing, Opens
    <3> QED
      BY <3>1, <3>2, <3>3, <3>4 DEF Beaten
  <2> QED
    BY <1>1, <1>4, <2>1, RefusedComeback DEF Unknown
<1>5. CASE /\ UNCHANGED <<wanted, todo, pending, decided, turned, stranded, phase>>
           /\ cache' = cache \/ \E r \in Releases : cache' = [cache EXCEPT ![r] = "good"]
  <2>1. \A r \in Releases : cache[r] = "good" => cache'[r] = "good"
    BY <1>5 DEF ModsInv, ModsTyped
  <2> QED
    BY <1>1, <1>5, <2>1, QuietComeback DEF ComebackOK
<1> QED
  BY <1>2, <1>3, <1>4, <1>5

(* A launch that comes through leaves the way it came.                     *)
LEMMA SpawnComeback ==
  ASSUME ModsInv, ComebackOK, Spawn
  PROVE  ComebackOK'
<1>1. /\ at = "recording" /\ at' = "idle" /\ UNCHANGED <<wanted, todo, pending, stranded>>
      /\ cache' = [r \in Releases |-> IF r \in Chosen THEN cache[r] ELSE "none"]
      /\ comeback' = IF /\ AllPinned(wanted) /\ ~turned
                        /\ Chosen \subseteq {r \in Releases : Extracts(r)}
                     THEN wanted ELSE <<>>
  BY DEF Spawn, Collect
<1>2. phase = "preparing" /\ stranded = <<>> /\ todo = {} /\ pending = <<>>
  BY <1>1 DEF ModsInv, ProgressOK, ComebackOK
<1>3. ASSUME comeback' # <<>>
      PROVE  AllPinned(comeback)' /\ \E R : Beaten(R)'
  <2>1. /\ AllPinned(wanted) /\ ~turned /\ comeback' = wanted
        /\ \A r \in Chosen : r \in Releases /\ cache[r] = "good"
    BY <1>1, <1>3 DEF Extracts
  <2>2. PICK R : Walked(R)
    BY <1>1, <2>1 DEF ComebackOK, Trail
  <2>3. \A t : ~StepsTo(wanted, Work, t)
    BY <1>2 DEF StepsTo, LooksUp, Follows, Work
  <2>4. \A s \in R : \A t : StepsTo(wanted, s, t) => t \in R
    BY <2>2, <2>3 DEF Walked
  <2>5. ASSUME NEW s \in R, NEW p \in Packages, s.decided[p] # 0
        PROVE  <<p, s.decided[p]>> \in Releases /\ cache'[<<p, s.decided[p]>>] = "good"
    <3>1. s.decided[p] = decided[p]
      BY <2>2, <2>5 DEF Walked
    <3>2. <<p, s.decided[p]>> \in Chosen
      BY <2>5, <3>1 DEF Chosen
    <3> QED
      BY <1>1, <2>1, <3>2
  <2>6. Beaten(R)'
    BY <1>1, <2>1, <2>2, <2>4, <2>5 DEF Beaten, Walked
  <2> QED
    BY <2>1, <2>6 DEF AllPinned
<1>4. Trail' /\ Back'
  BY <1>1, <1>3 DEF Trail, Back
<1> QED
  BY <1>1, <1>2, <1>4 DEF ComebackOK

(* Every step keeps it.                                                    *)
LEMMA NextComeback ==
  ASSUME ModsInv, ComebackOK, [ModsNext]_modVars
  PROVE  ComebackOK'
<1>1. CASE \E l \in Lists \union {<<>>} : Begin(l)
  BY <1>1, LaunchComeback
<1>2. CASE Reconcile
  BY <1>2, LookUpComeback, FollowComeback, PreparingComeback, SpawnComeback DEF Reconcile
<1>3. CASE Fails
  BY <1>3, RefusedComeback DEF Fails, diskVars, historyVars
<1>4. CASE PodDies \/ Ends
  <2>1. at' = "idle" /\ UNCHANGED <<cache, comeback>>
    BY <1>4 DEF PodDies, Ends, diskVars, historyVars, ModsInv, ProgressOK
  <2>2. stranded' = <<>>
    BY <1>4 DEF PodDies, Ends, ComebackOK
  <2>3. \A R : Beaten(R) => Beaten(R)'
    BY <2>1 DEF Beaten
  <2> QED
    BY <2>1, <2>2, <2>3 DEF ComebackOK, Trail, Back, AllPinned
<1>5. CASE \/ Ready \/ ReadyStale \/ Sweeping \/ UNCHANGED modVars
           \/ \E r \in Upcoming : Publish(r)
           \/ Outage
  <2>1. /\ UNCHANGED <<wanted, todo, pending, decided, turned, at, cache, comeback, stranded>>
        /\ phase' = phase \/ (phase = "running" /\ phase' = "ready")
    BY <1>5 DEF Ready, ReadyStale, Sweeping, SweepLists, SweepScans, SweepRemoves,
       Publish, Outage, modVars, diskVars, workVars, historyVars
  <2> QED
    BY <2>1, QuietComeback DEF ComebackOK
<1>6. ASSUME NEW r \in Releases, NEW how \in {"torn", "rotten"}, Damage(r, how)
      PROVE  ComebackOK'
  <2>1. /\ UNCHANGED <<wanted, todo, pending, decided, turned, at, stranded, phase>>
        /\ comeback' = <<>>
    BY <1>6 DEF Damage, workVars
  <2>2. \A R : Walked(R)' <=> Walked(R)
    BY <2>1 DEF Walked, Work
  <2>3. Trail' /\ Back'
    BY <2>1, <2>2 DEF ComebackOK, Trail, Back, AllPinned
  <2> QED
    BY <2>1, <2>3 DEF ComebackOK
<1> QED
  BY <1>1, <1>2, <1>3, <1>4, <1>5, <1>6 DEF ModsNext, World

(* A list whose lines all have pins, and that last came through without a  *)
(* version being raised, is not refused for want of the registry while its *)
(* zips are sound (cache.rs, api.rs, resolve.rs).                          *)
THEOREM OfflineComesBackAlways ==
  ModsSpec => []OfflineComesBack
<1>1. ModsInit => ComebackOK
  BY DEF ModsInit, ComebackOK, Trail, Back
<1>2. ModsInv /\ ComebackOK /\ [ModsNext]_modVars => ComebackOK'
  BY NextComeback
<1>3. ComebackOK => OfflineComesBack
  BY DEF ComebackOK, OfflineComesBack
<1> QED
  BY <1>1, <1>2, <1>3, ModsInvariant, PTL DEF ModsSpec
==============================================================================
