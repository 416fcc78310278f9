--------------------------- MODULE LifecycleProofs ---------------------------
(* Theorems about Lifecycle, for any names, requests, caps and troubles.      *)
EXTENDS Lifecycle, FiniteSetTheorems, TLAPS

USE DEF objects, request, reconciler, history

------------------------------------------------------------------------------
(* Type correctness, one group of variables at a time.                        *)

Pc == {"idle", "lock", "holder", "caps", "service", "volume", "server", "undo",
       "undoVolume", "undoService", "gate", "find", "start", "delete", "confirm",
       "delService", "delVolume", "ended"}

ObjectsOK ==
  /\ svc \subseteq Name
  /\ gs \in [Name -> {"absent", "new", "live", "terminating"}]
  /\ pod \in [Name -> {"none", "up", "stuck"}]
  /\ pvc \in [Name -> {"none", "bound", "going"}]

RequestOK ==
  /\ pc \in [Req -> Pc]
  /\ kind \in [Req -> {"create", "start", "revive", "shutdown", "destroy"}]
  /\ name \in [Req -> Name]
  /\ said \in [Req -> {"nothing", "done", "failed"}]

LockOK == lock \in {r \in Req : pc[r] \in Holding} \cup {None}

ReconcilerOK ==
  /\ rec \in {"idle", "next", "read", "force", "delete", "confirm", "find", "start"}
  /\ todo \subseteq Name /\ recovery \in {"Recycle", "Release", "Debris"}
  /\ cur \in IF rec \in {"idle", "next"} THEN {None} ELSE Name

Parts == {"service", "volume", "server"}

FlagsOK ==
  /\ old \in [Req -> BOOLEAN] /\ clean \in [Req -> BOOLEAN]
  /\ left \in [Req -> SUBSET Parts]

HistoryOK ==
  /\ meant \subseteq Name /\ owed \subseteq Name /\ down \subseteq Name
  /\ troubles \in Nat

LEMMA TypeParts ==
  TypeOK <=> ObjectsOK /\ RequestOK /\ LockOK /\ ReconcilerOK /\ FlagsOK
            /\ HistoryOK
  BY DEF TypeOK, ObjectsOK, RequestOK, LockOK, ReconcilerOK, FlagsOK, HistoryOK, Pc, Parts

LEMMA ObjectsStep == TypeOK /\ Next => ObjectsOK'
<1> SUFFICES ASSUME TypeOK, Next PROVE ObjectsOK'
  OBVIOUS
<1>t. ObjectsOK /\ RequestOK /\ ReconcilerOK
  BY TypeParts
<1>1. ASSUME NEW r \in Req, Handle(r) PROVE ObjectsOK'
  <2>n. name[r] \in Name
    BY <1>t DEF RequestOK
  <2>1. CASE BeginCreate(r) \/ BeginStart(r) \/ BeginRevive(r) \/ BeginShutdown(r)
             \/ BeginDestroy(r)
    BY <1>t, <2>1 DEF ObjectsOK, BeginCreate, BeginStart, BeginRevive, BeginShutdown,
       BeginDestroy, Begin
  <2>2. CASE TakeLock(r) \/ Refuse(r) \/ CheckName(r) \/ CheckCaps(r) \/ CheckLoad(r)
             \/ FindService(r) \/ ConfirmGone(r) \/ GiveUpConfirming(r) \/ UndoFails(r)
    BY <1>t, <2>2 DEF ObjectsOK, TakeLock, Refuse, CheckName, CheckCaps, CheckLoad,
       FindService, ConfirmGone, GiveUpConfirming, UndoFails
  <2>3. CASE CreateService(r) \/ CreateServiceFails(r) \/ UndoService(r) \/ DestroyService(r)
    BY <1>t, <2>n, <2>3 DEF ObjectsOK, CreateService, CreateServiceFails, UndoService,
       DestroyService
  <2>4. CASE CreateVolume(r) \/ CreateVolumeFails(r) \/ UndoVolume(r) \/ DestroyVolume(r)
    BY <1>t, <2>n, <2>4 DEF ObjectsOK, CreateVolume, CreateVolumeFails, UndoVolume,
       DestroyVolume, DeleteVolume
  <2>5. CASE CreateServer(r) \/ CreateServerFails(r) \/ UndoServer(r) \/ DeleteServer(r)
             \/ DeleteServerFails(r)
    BY <1>t, <2>n, <2>5 DEF ObjectsOK, CreateServer, CreateServerFails, UndoServer,
       DeleteServer, DeleteServerFails, Raise, Doom
  <2>6. CASE DestroyFails(r)
    BY <1>t, <2>n, <2>6 DEF ObjectsOK, DestroyFails, DeleteVolume
  <2> QED
    BY <1>1, <2>1, <2>2, <2>3, <2>4, <2>5, <2>6 DEF Handle
<1>2. ASSUME NEW n \in Name, Cluster(n) \/ NodeDies(n) \/ NodeReturns(n) PROVE ObjectsOK'
  BY <1>t, <1>2 DEF ObjectsOK, Cluster, NodeDies, NodeReturns, AgonesMakesPod,
     PodTerminates, AgonesReleases, PodGone, World
<1>3. CASE ForcePod \/ RecoverDeletes \/ RecycleStarts
  <2>1. cur \in Name
    BY <1>t, <1>3 DEF ReconcilerOK, ForcePod, RecoverDeletes, RecycleStarts
  <2> QED
    BY <1>t, <1>3, <2>1 DEF ObjectsOK, ForcePod, PodGone, RecoverDeletes, Doom,
       RecycleStarts, Raise
<1>4. CASE Scan \/ ScanEnds \/ RecoverBegins \/ ReadIntent \/ RecoverConfirms \/ RecycleFinds
           \/ RecoverGivesUp \/ RecoverFails \/ BotEnds
  BY <1>t, <1>4 DEF ObjectsOK, Scan, ScanEnds, RecoverBegins, ReadIntent, RecoverConfirms,
     RecycleFinds, RecoverGivesUp, RecoverFails, PutOff, BotEnds
<1> QED
  BY <1>1, <1>2, <1>3, <1>4 DEF Next, Reconcile

LEMMA RequestStep == TypeOK /\ Next => RequestOK' /\ LockOK'
<1> SUFFICES ASSUME TypeOK, Next PROVE RequestOK' /\ LockOK'
  OBVIOUS
<1>t. RequestOK /\ LockOK /\ None \notin Req
  BY TypeParts, LifecycleAssumption
<1>1. ASSUME NEW r \in Req, Handle(r) PROVE RequestOK' /\ LockOK'
  <2>1. CASE BeginCreate(r) \/ BeginStart(r) \/ BeginRevive(r) \/ BeginShutdown(r)
             \/ BeginDestroy(r)
    <3>1. PICK what \in {"create", "start", "revive", "shutdown", "destroy"},
               point \in {"lock", "find", "delete"} : Begin(r, what, point)
      BY <2>1, Zenon DEF BeginCreate, BeginStart, BeginRevive, BeginShutdown, BeginDestroy
    <3>2. /\ pc[r] = "idle" /\ pc' = [pc EXCEPT ![r] = point]
          /\ kind' = [kind EXCEPT ![r] = what] /\ UNCHANGED <<name, said, lock>>
      BY <3>1, Zenon DEF Begin, Goto
    <3>3. RequestOK'
      BY <1>t, <3>2 DEF RequestOK, Pc
    <3>4. lock # r
      BY <1>t, <3>2 DEF LockOK, Holding
    <3> QED
      BY <1>t, <3>2, <3>3, <3>4 DEF LockOK, RequestOK
  <2>2. CASE TakeLock(r)
    BY <1>t, <2>2 DEF RequestOK, LockOK, Pc, Holding, TakeLock, Goto
  <2>3. CASE Refuse(r) \/ CheckName(r) \/ CheckCaps(r) \/ CreateServiceFails(r) \/ CheckLoad(r)
             \/ FindService(r)
    BY <1>t, <2>3 DEF RequestOK, LockOK, Pc, Holding, Refuse, CheckName, CheckCaps,
       CreateServiceFails, CheckLoad, FindService, Goto, Answer, Release
  <2>4. CASE CreateService(r) \/ CreateVolume(r) \/ CreateVolumeFails(r)
             \/ CreateServer(r) \/ CreateServerFails(r)
    BY <1>t, <2>4 DEF RequestOK, LockOK, Pc, Holding, CreateService, CreateVolume,
       CreateVolumeFails, CreateServer, CreateServerFails, Goto, Answer, Release
  <2>5. CASE UndoServer(r) \/ UndoVolume(r) \/ UndoService(r) \/ UndoFails(r)
    BY <1>t, <2>5 DEF RequestOK, LockOK, Pc, Holding, UndoServer, UndoVolume, UndoService,
       UndoFails, Goto, Answer, Release
  <2>6. CASE DeleteServer(r) \/ DeleteServerFails(r) \/ ConfirmGone(r) \/ GiveUpConfirming(r)
             \/ DestroyService(r) \/ DestroyVolume(r) \/ DestroyFails(r)
    BY <1>t, <2>6 DEF RequestOK, LockOK, Pc, Holding, DeleteServer, DeleteServerFails,
       ConfirmGone, GiveUpConfirming, DestroyService, DestroyVolume, DestroyFails, Goto,
       Answer, Release
  <2> QED
    BY <1>1, <2>1, <2>2, <2>3, <2>4, <2>5, <2>6 DEF Handle
<1>2. CASE BotEnds
  BY <1>t, <1>2 DEF RequestOK, LockOK, Pc, Holding, BotEnds
<1>3. CASE UNCHANGED <<pc, request, said, lock>>
  BY <1>t, <1>3 DEF RequestOK, LockOK
<1>4. ASSUME NEW n \in Name, Cluster(n) \/ NodeDies(n) \/ NodeReturns(n)
      PROVE  UNCHANGED <<pc, request, said, lock>>
  BY <1>4 DEF Cluster, NodeDies, NodeReturns, AgonesMakesPod, PodTerminates,
     AgonesReleases, World
<1>5. Reconcile \/ RecoverFails => UNCHANGED <<pc, request, said, lock>>
  BY DEF Reconcile, RecoverFails, Scan, ScanEnds, RecoverBegins, ReadIntent, ForcePod,
     RecoverDeletes, RecoverConfirms, RecoverGivesUp, RecycleFinds, RecycleStarts, PutOff,
     Requests
<1> QED
  BY <1>1, <1>2, <1>3, <1>4, <1>5 DEF Next

LEMMA ReconcilerStep == TypeOK /\ Next => ReconcilerOK'
<1> SUFFICES ASSUME TypeOK, Next PROVE ReconcilerOK'
  OBVIOUS
<1>t. ReconcilerOK /\ ObjectsOK
  BY TypeParts
<1>1. CASE UNCHANGED <<rec, todo, cur, recovery>>
  BY <1>t, <1>1 DEF ReconcilerOK
<1>2. CASE Scan \/ ScanEnds \/ RecoverBegins
  BY <1>t, <1>2 DEF ReconcilerOK, Scan, ScanEnds, RecoverBegins, Stranded
<1>7. CASE ReadIntent
  <2>1. recovery' \in {"Recycle", "Release", "Debris"}
    BY <1>7 DEF ReadIntent, Live
  <2> QED
    BY <1>t, <1>7, <2>1 DEF ReconcilerOK, ReadIntent
<1>3. CASE ForcePod \/ RecoverDeletes \/ RecoverConfirms \/ RecycleFinds \/ RecycleStarts
  BY <1>t, <1>3 DEF ReconcilerOK, ForcePod, RecoverDeletes, RecoverConfirms, RecycleFinds,
     RecycleStarts, Leave
<1>4. CASE RecoverGivesUp \/ RecoverFails \/ BotEnds
  BY <1>t, <1>4 DEF ReconcilerOK, RecoverGivesUp, RecoverFails, PutOff, Leave, BotEnds
<1>5. ASSUME NEW r \in Req, Handle(r) PROVE UNCHANGED <<rec, todo, cur, recovery>>
  BY <1>5 DEF Handle, BeginCreate, BeginStart, BeginRevive, BeginShutdown, BeginDestroy,
     Begin, TakeLock, Refuse, CheckName, CheckCaps, CreateService, CreateServiceFails,
     CreateVolume, CreateVolumeFails, CreateServer, CreateServerFails, UndoServer,
     UndoVolume, UndoService, UndoFails, CheckLoad, FindService, DeleteServer,
     DeleteServerFails, ConfirmGone, GiveUpConfirming, DestroyService, DestroyVolume,
     DestroyFails
<1>6. ASSUME NEW n \in Name, Cluster(n) \/ NodeDies(n) \/ NodeReturns(n)
      PROVE  UNCHANGED <<rec, todo, cur, recovery>>
  BY <1>6 DEF Cluster, NodeDies, NodeReturns, AgonesMakesPod, PodTerminates,
     AgonesReleases, World
<1> QED
  BY <1>1, <1>2, <1>3, <1>4, <1>5, <1>6, <1>7 DEF Next, Reconcile

LEMMA FlagsStep == TypeOK /\ Next => FlagsOK'
<1> SUFFICES ASSUME TypeOK, Next PROVE FlagsOK'
  OBVIOUS
<1>t. FlagsOK
  BY TypeParts
<1>1. UNCHANGED old => old' \in [Req -> BOOLEAN]
  BY <1>t DEF FlagsOK
<1>2. UNCHANGED clean => clean' \in [Req -> BOOLEAN]
  BY <1>t DEF FlagsOK
<1>3. UNCHANGED left => left' \in [Req -> SUBSET Parts]
  BY <1>t DEF FlagsOK
<1>4. ASSUME NEW n, old' = [r \in Req |-> old[r] /\ name[r] # n]
      PROVE  old' \in [Req -> BOOLEAN]
  BY <1>4
<1>5. ASSUME NEW r \in Req, Handle(r) PROVE FlagsOK'
  <2>1. CASE BeginCreate(r) \/ BeginStart(r) \/ BeginRevive(r) \/ BeginShutdown(r)
             \/ BeginDestroy(r)
    <3>1. PICK what, point : Begin(r, what, point)
      BY <2>1, Zenon DEF BeginCreate, BeginStart, BeginRevive, BeginShutdown, BeginDestroy
    <3>2. clean' \in [Req -> BOOLEAN]
      BY <3>1 DEF Begin
    <3> QED
      BY <1>1, <1>3, <3>1, <3>2 DEF Begin, FlagsOK
  <2>2. CASE DeleteServer(r)
    <3>1. old' = [old EXCEPT ![r] = pod[name[r]] # "none"] /\ UNCHANGED <<clean, left>>
      BY <2>2 DEF DeleteServer
    <3>2. old' \in [Req -> BOOLEAN]
      BY <1>t, <3>1 DEF FlagsOK
    <3> QED
      BY <1>2, <1>3, <3>1, <3>2 DEF FlagsOK
  <2>3. CASE CreateServiceFails(r) \/ UndoFails(r)
    <3>1. /\ UNCHANGED <<old, clean>>
          /\ \/ UNCHANGED left
             \/ \E what \in SUBSET Parts : left' = [left EXCEPT ![r] = what]
      <4>1. left[r] \in SUBSET Parts
        BY <1>t DEF FlagsOK
      <4> QED
        BY <2>3, <4>1 DEF CreateServiceFails, UndoFails, Leaves, Parts
    <3>2. left' \in [Req -> SUBSET Parts]
      BY <1>t, <3>1 DEF FlagsOK
    <3> QED
      BY <1>1, <1>2, <3>1, <3>2 DEF FlagsOK
  <2>4. CASE UNCHANGED <<old, clean, left>>
    BY <1>1, <1>2, <1>3, <2>4 DEF FlagsOK
  <2>5. CASE TakeLock(r) \/ Refuse(r) \/ CheckName(r) \/ CheckCaps(r) \/ CreateService(r)
             \/ CreateVolume(r) \/ CreateVolumeFails(r) \/ CreateServer(r)
             \/ CreateServerFails(r) \/ UndoServer(r) \/ UndoVolume(r) \/ UndoService(r)
    BY <2>4, <2>5 DEF TakeLock, Refuse, CheckName, CheckCaps, CreateService, CreateVolume,
       CreateVolumeFails, CreateServer, CreateServerFails, UndoServer, UndoVolume, UndoService
  <2>6. CASE CheckLoad(r) \/ FindService(r) \/ DeleteServerFails(r) \/ ConfirmGone(r)
             \/ GiveUpConfirming(r) \/ DestroyService(r) \/ DestroyVolume(r)
             \/ DestroyFails(r)
    BY <2>4, <2>6 DEF CheckLoad, FindService, DeleteServerFails, ConfirmGone,
       GiveUpConfirming, DestroyService, DestroyVolume, DestroyFails
  <2> QED
    BY <1>5, <2>1, <2>2, <2>3, <2>5, <2>6 DEF Handle
<1>6. ASSUME NEW n \in Name, Cluster(n) \/ NodeDies(n) \/ NodeReturns(n) PROVE FlagsOK'
  <2>1. UNCHANGED <<clean, left>> /\ (UNCHANGED old \/ PodGone(n))
    BY <1>6 DEF Cluster, NodeDies, NodeReturns, AgonesMakesPod, PodTerminates,
       AgonesReleases, World
  <2> QED
    BY <1>1, <1>2, <1>3, <1>4, <2>1 DEF FlagsOK, PodGone
<1>7. CASE RecoverBegins
  <2>1. clean' \in [Req -> BOOLEAN] /\ UNCHANGED <<old, left>>
    BY <1>7 DEF RecoverBegins
  <2> QED
    BY <1>1, <1>3, <2>1 DEF FlagsOK
<1>8. CASE ForcePod
  BY <1>1, <1>2, <1>3, <1>4, <1>8 DEF ForcePod, PodGone, FlagsOK
<1>9. CASE BotEnds
  BY <1>1, <1>3, <1>9 DEF BotEnds, FlagsOK
<1>10. CASE Scan \/ ScanEnds \/ ReadIntent \/ RecoverDeletes \/ RecoverConfirms
            \/ RecoverGivesUp \/ RecoverFails \/ RecycleFinds \/ RecycleStarts
  BY <1>1, <1>2, <1>3, <1>10 DEF FlagsOK, Scan, ScanEnds, ReadIntent, RecoverDeletes,
     RecoverConfirms, RecoverGivesUp, RecoverFails, RecycleFinds, RecycleStarts, PutOff
<1> QED
  BY <1>5, <1>6, <1>7, <1>8, <1>9, <1>10 DEF Next, Reconcile

LEMMA HistoryStep == TypeOK /\ Next => HistoryOK'
<1> SUFFICES ASSUME TypeOK, Next PROVE HistoryOK'
  OBVIOUS
<1>t. HistoryOK /\ ReconcilerOK /\ RequestOK
  BY TypeParts
<1>1. ASSUME NEW r \in Req, Handle(r) PROVE HistoryOK'
  <2>n. name[r] \in Name
    BY <1>t DEF RequestOK
  <2>1. CASE BeginCreate(r) \/ BeginStart(r) \/ BeginRevive(r) \/ BeginShutdown(r)
             \/ BeginDestroy(r)
    <3>1. PICK what, point : Begin(r, what, point)
      BY <2>1, Zenon DEF BeginCreate, BeginStart, BeginRevive, BeginShutdown, BeginDestroy
    <3> QED
      BY <1>t, <3>1 DEF HistoryOK, Begin
  <2>2. CASE TakeLock(r) \/ Refuse(r) \/ CheckName(r) \/ CheckCaps(r) \/ CreateService(r)
             \/ CreateServiceFails(r) \/ CreateVolume(r) \/ CreateVolumeFails(r)
    BY <1>t, <2>2 DEF HistoryOK, TakeLock, Refuse, CheckName, CheckCaps, CreateService,
       CreateServiceFails, CreateVolume, CreateVolumeFails, Trouble
  <2>3. CASE CreateServer(r) \/ CreateServerFails(r) \/ UndoServer(r) \/ UndoVolume(r)
             \/ UndoService(r) \/ UndoFails(r)
    BY <1>t, <2>n, <2>3 DEF HistoryOK, CreateServer, CreateServerFails, UndoServer, UndoVolume,
       UndoService, UndoFails, Raise, Trouble
  <2>4. CASE CheckLoad(r) \/ FindService(r) \/ DeleteServer(r) \/ DeleteServerFails(r)
             \/ ConfirmGone(r) \/ GiveUpConfirming(r) \/ DestroyService(r)
             \/ DestroyVolume(r) \/ DestroyFails(r)
    BY <1>t, <2>n, <2>4 DEF HistoryOK, CheckLoad, FindService, DeleteServer,
       DeleteServerFails, ConfirmGone, GiveUpConfirming, DestroyService, DestroyVolume,
       DestroyFails, Trouble
  <2> QED
    BY <1>1, <2>1, <2>2, <2>3, <2>4 DEF Handle
<1>2. ASSUME NEW n \in Name, Cluster(n) \/ NodeDies(n) \/ NodeReturns(n) PROVE HistoryOK'
  BY <1>t, <1>2 DEF HistoryOK, Cluster, NodeDies, NodeReturns, AgonesMakesPod,
     PodTerminates, AgonesReleases, PodGone, World, Trouble
<1>3. CASE Scan \/ ScanEnds \/ RecoverBegins \/ ReadIntent \/ RecoverConfirms \/ RecycleFinds
           \/ BotEnds
  BY <1>t, <1>3 DEF HistoryOK, Scan, ScanEnds, RecoverBegins, ReadIntent, RecoverConfirms,
     RecycleFinds, BotEnds, Requests, Trouble
<1>4. CASE ForcePod \/ RecoverDeletes \/ RecycleStarts \/ RecoverGivesUp \/ RecoverFails
  <2>1. cur \in Name
    BY <1>t, <1>4 DEF ReconcilerOK, ForcePod, RecoverDeletes, RecycleStarts, RecoverGivesUp,
       RecoverFails
  <2> QED
    BY <1>t, <1>4, <2>1 DEF HistoryOK, ForcePod, PodGone, RecoverDeletes, RecycleStarts, Raise,
       RecoverGivesUp, RecoverFails, PutOff, Requests, Trouble
<1> QED
  BY <1>1, <1>2, <1>3, <1>4 DEF Next, Reconcile

\* Every variable keeps its type, the lock is held only where a request may hold
\* it, and the reconciler has an instance exactly while it recovers one.
THEOREM TypeCorrect == Spec => []TypeOK
<1>1. Init => TypeOK
  <2> SUFFICES ASSUME Init PROVE TypeOK
    OBVIOUS
  <2> QED
    BY LifecycleAssumption DEF Init, TypeOK
<1>2. TypeOK /\ [Next]_vars => TypeOK'
  <2>1. CASE Next
    BY <2>1, TypeParts, ObjectsStep, RequestStep, ReconcilerStep, FlagsStep,
       HistoryStep, PTL
  <2>2. CASE UNCHANGED vars
    BY <2>2 DEF TypeOK, vars
  <2> QED
    BY <2>1, <2>2
<1> QED
  BY <1>1, <1>2, PTL DEF Spec

------------------------------------------------------------------------------
(* The pod a request found when it deleted its GameServer keeps that          *)
(* GameServer terminating, on a dead node too; and a pod never outlives its   *)
(* GameServer.  So a GameServer that is gone confirms that the pod is.        *)

PodsOwned == \A n \in Name : pod[n] # "none" => gs[n] \in {"live", "terminating"}
OldHeld == \A r \in Req : old[r] => gs[name[r]] = "terminating" /\ pod[name[r]] # "none"
Confirmed == PodsOwned /\ OldHeld /\ OnlyConfirmedVolumesGo

LEMMA HeldStep == TypeOK /\ PodsOwned /\ OldHeld /\ Next => PodsOwned' /\ OldHeld'
<1> SUFFICES ASSUME TypeOK, PodsOwned, OldHeld, Next PROVE PodsOwned' /\ OldHeld'
  OBVIOUS
<1>t. ObjectsOK /\ RequestOK /\ ReconcilerOK /\ FlagsOK
  BY TypeParts
<1>0. CASE UNCHANGED <<gs, pod, old, name>>
  BY <1>0 DEF PodsOwned, OldHeld
<1>1. ASSUME NEW n \in Name, Doom(n), UNCHANGED <<pod, old, name>>
      PROVE  PodsOwned' /\ OldHeld'
  BY <1>t, <1>1 DEF ObjectsOK, RequestOK, Doom, Live, PodsOwned, OldHeld
<1>2. ASSUME NEW n \in Name, gs[n] = "absent", Raise(n), UNCHANGED <<pod, old, name>>
      PROVE  PodsOwned' /\ OldHeld'
  BY <1>t, <1>2 DEF ObjectsOK, RequestOK, Raise, PodsOwned, OldHeld
<1>3. ASSUME NEW n \in Name, PodGone(n), UNCHANGED <<gs, name>>
      PROVE  PodsOwned' /\ OldHeld'
  BY <1>t, <1>3 DEF ObjectsOK, RequestOK, PodGone, PodsOwned, OldHeld
<1>4. ASSUME NEW r \in Req, Handle(r) PROVE PodsOwned' /\ OldHeld'
  <2>n. name[r] \in Name
    BY <1>t DEF RequestOK
  <2>1. CASE BeginCreate(r) \/ BeginStart(r) \/ BeginRevive(r) \/ BeginShutdown(r)
             \/ BeginDestroy(r)
    BY <1>0, <2>1 DEF BeginCreate, BeginStart, BeginRevive, BeginShutdown, BeginDestroy, Begin
  <2>2. CASE TakeLock(r) \/ Refuse(r) \/ CheckName(r) \/ CheckCaps(r) \/ CreateService(r)
             \/ CreateServiceFails(r) \/ CreateVolume(r) \/ CreateVolumeFails(r)
             \/ UndoVolume(r) \/ UndoService(r) \/ UndoFails(r)
    BY <1>0, <2>2 DEF TakeLock, Refuse, CheckName, CheckCaps, CreateService,
       CreateServiceFails, CreateVolume, CreateVolumeFails, UndoVolume, UndoService, UndoFails
  <2>3. CASE CheckLoad(r) \/ FindService(r) \/ ConfirmGone(r) \/ GiveUpConfirming(r)
             \/ DestroyService(r) \/ DestroyVolume(r) \/ DestroyFails(r)
    BY <1>0, <2>3 DEF CheckLoad, FindService, ConfirmGone, GiveUpConfirming, DestroyService,
       DestroyVolume, DestroyFails
  <2>4. CASE CreateServer(r) \/ CreateServerFails(r)
    BY <1>0, <1>2, <2>n, <2>4 DEF CreateServer, CreateServerFails
  <2>5. CASE UndoServer(r) \/ DeleteServerFails(r)
    BY <1>0, <1>1, <2>n, <2>5 DEF UndoServer, DeleteServerFails
  <2>6. CASE DeleteServer(r)
    <3>1. /\ UNCHANGED <<pod, name>> /\ Doom(name[r])
          /\ \A q \in Req \ {r} : old'[q] = old[q]
          /\ old'[r] = (pod[name[r]] # "none")
      BY <1>t, <2>6 DEF DeleteServer, FlagsOK
    <3> QED
      <4>1. gs' = gs \/ (gs[name[r]] \in {"new", "live"}
                         /\ gs' = [gs EXCEPT ![name[r]] = "terminating"])
        BY <3>1 DEF Doom, Live
      <4>2. PodsOwned'
        BY <1>t, <2>n, <3>1, <4>1 DEF ObjectsOK, PodsOwned
      <4>3. \A n \in Name : pod[n] # "none" => gs'[n] = "terminating" \/ gs'[n] = gs[n]
        BY <1>t, <2>n, <4>1 DEF ObjectsOK
      <4>4. pod[name[r]] # "none" => gs'[name[r]] = "terminating"
        BY <1>t, <2>n, <3>1 DEF ObjectsOK, Doom, Live, PodsOwned
      <4>5. OldHeld'
        BY <1>t, <2>n, <3>1, <4>3, <4>4 DEF ObjectsOK, RequestOK, OldHeld
      <4> QED
        BY <4>2, <4>5
  <2> QED
    BY <1>4, <2>1, <2>2, <2>3, <2>4, <2>5, <2>6 DEF Handle
<1>5. ASSUME NEW n \in Name, Cluster(n) \/ NodeDies(n) \/ NodeReturns(n)
      PROVE  PodsOwned' /\ OldHeld'
  <2>1. CASE PodTerminates(n) \/ NodeReturns(n)
    BY <1>3, <2>1 DEF PodTerminates, NodeReturns, World
  <2>2. CASE AgonesMakesPod(n) \/ AgonesReleases(n) \/ NodeDies(n)
    BY <1>t, <2>2 DEF AgonesMakesPod, AgonesReleases, NodeDies, World, ObjectsOK, RequestOK,
       PodsOwned, OldHeld
  <2> QED
    BY <1>5, <2>1, <2>2 DEF Cluster
<1>6. CASE ForcePod \/ RecoverDeletes \/ RecycleStarts
  <2>1. cur \in Name
    BY <1>t, <1>6 DEF ReconcilerOK, ForcePod, RecoverDeletes, RecycleStarts
  <2> QED
    BY <1>0, <1>1, <1>2, <1>3, <1>6, <2>1 DEF ForcePod, RecoverDeletes, RecycleStarts, Requests
<1>7. CASE Scan \/ ScanEnds \/ RecoverBegins \/ ReadIntent \/ RecoverConfirms \/ RecycleFinds
           \/ RecoverGivesUp \/ RecoverFails \/ BotEnds
  BY <1>0, <1>7 DEF Scan, ScanEnds, RecoverBegins, ReadIntent, RecoverConfirms, RecycleFinds,
     RecoverGivesUp, RecoverFails, PutOff, BotEnds, Requests
<1> QED
  BY <1>4, <1>5, <1>6, <1>7 DEF Next, Reconcile

\* Where a request gets to its Service and volume, and what a step does to old.
LEMMA AskedStep == TypeOK /\ Confirmed /\ Next => OnlyConfirmedVolumesGo'
<1> SUFFICES ASSUME TypeOK, Confirmed, Next PROVE OnlyConfirmedVolumesGo'
  OBVIOUS
<1>t. RequestOK /\ FlagsOK
  BY TypeParts
<1> DEFINE Taking(p) == p \in {"delService", "delVolume"}
<1>1. ASSUME \A q \in Req : Taking(pc'[q]) => Taking(pc[q]),
             \A q \in Req : old'[q] => old[q]
      PROVE  OnlyConfirmedVolumesGo'
  BY <1>1 DEF Confirmed, OnlyConfirmedVolumesGo
<1>2. ASSUME NEW r \in Req, NEW point \in Pc \ {"delService", "delVolume"}, Goto(r, point),
             UNCHANGED old
      PROVE  OnlyConfirmedVolumesGo'
  BY <1>t, <1>2 DEF RequestOK, Goto, Confirmed, OnlyConfirmedVolumesGo
<1>3. ASSUME NEW r \in Req, Handle(r) PROVE OnlyConfirmedVolumesGo'
  <2>1. CASE BeginCreate(r) \/ BeginStart(r) \/ BeginRevive(r) \/ BeginShutdown(r)
             \/ BeginDestroy(r)
    BY <1>2, <2>1 DEF BeginCreate, BeginStart, BeginRevive, BeginShutdown, BeginDestroy, Begin,
       Pc
  <2>2. CASE TakeLock(r) \/ Refuse(r) \/ CheckName(r) \/ CheckCaps(r) \/ CreateService(r)
             \/ CreateServiceFails(r) \/ CreateVolume(r) \/ CreateVolumeFails(r)
    BY <1>2, <2>2 DEF TakeLock, Refuse, CheckName, CheckCaps, CreateService,
       CreateServiceFails, CreateVolume, CreateVolumeFails, Answer, Pc
  <2>3. CASE CreateServer(r) \/ CreateServerFails(r) \/ UndoServer(r) \/ UndoVolume(r)
             \/ UndoService(r) \/ UndoFails(r)
    BY <1>2, <2>3 DEF CreateServer, CreateServerFails, UndoServer, UndoVolume, UndoService,
       UndoFails, Answer, Pc
  <2>4. CASE CheckLoad(r) \/ FindService(r) \/ DeleteServerFails(r) \/ GiveUpConfirming(r)
             \/ DestroyVolume(r) \/ DestroyFails(r)
    BY <1>2, <2>4 DEF CheckLoad, FindService, DeleteServerFails, GiveUpConfirming,
       DestroyVolume, DestroyFails, Answer, Pc
  <2>5. CASE DeleteServer(r)
    BY <1>t, <2>5 DEF RequestOK, FlagsOK, DeleteServer, Goto, Confirmed, OnlyConfirmedVolumesGo
  <2>6. CASE ConfirmGone(r)
    <3>1. ~old[r]
      BY <2>6 DEF ConfirmGone, Confirmed, OldHeld
    <3>2. UNCHANGED old /\ \A q \in Req \ {r} : pc'[q] = pc[q]
      BY <1>t, <2>6 DEF RequestOK, ConfirmGone, Goto, Answer
    <3> QED
      BY <3>1, <3>2 DEF Confirmed, OnlyConfirmedVolumesGo
  <2>7. CASE DestroyService(r)
    BY <1>t, <2>7 DEF RequestOK, DestroyService, Goto, Confirmed, OnlyConfirmedVolumesGo
  <2> QED
    BY <1>3, <2>1, <2>2, <2>3, <2>4, <2>5, <2>6, <2>7 DEF Handle
<1>4. ASSUME NEW n, PodGone(n) PROVE \A q \in Req : old'[q] => old[q]
  BY <1>t, <1>4 DEF FlagsOK, PodGone
<1>5. ASSUME NEW n \in Name, Cluster(n) \/ NodeDies(n) \/ NodeReturns(n)
      PROVE  OnlyConfirmedVolumesGo'
  BY <1>1, <1>4, <1>5 DEF Cluster, NodeDies, NodeReturns, AgonesMakesPod, PodTerminates,
     AgonesReleases, World
<1>6. CASE Reconcile \/ RecoverFails
  BY <1>1, <1>4, <1>6 DEF Reconcile, Scan, ScanEnds, RecoverBegins, ReadIntent, ForcePod,
     RecoverDeletes, RecoverConfirms, RecoverGivesUp, RecoverFails, RecycleFinds,
     RecycleStarts, PutOff, Requests
<1>7. CASE BotEnds
  BY <1>7 DEF BotEnds, OnlyConfirmedVolumesGo
<1> QED
  BY <1>3, <1>5, <1>6, <1>7 DEF Next

\* destroy_instance takes a Service and a volume only once the pod it found is gone,
\* whatever the node, the reconciler and other requests do to the server meanwhile.
THEOREM ConfirmedAlways == Spec => []OnlyConfirmedVolumesGo
<1>1. Init => Confirmed
  BY DEF Init, Confirmed, PodsOwned, OldHeld, OnlyConfirmedVolumesGo
<1>2. TypeOK /\ Confirmed /\ [Next]_vars => Confirmed'
  <2>1. CASE Next
    BY <2>1, HeldStep, AskedStep DEF Confirmed
  <2>2. CASE UNCHANGED vars
    BY <2>2 DEF vars, Confirmed, PodsOwned, OldHeld, OnlyConfirmedVolumesGo
  <2> QED
    BY <2>1, <2>2
<1>3. Confirmed => OnlyConfirmedVolumesGo
  BY DEF Confirmed
<1> QED
  BY <1>1, <1>2, <1>3, TypeCorrect, PTL DEF Spec

------------------------------------------------------------------------------
(* Only the holder of the lock gets from the caps to the Service, so the room *)
(* it found is still there when it takes it.                                  *)

Exclusive == \A r \in Req : pc[r] \in {"holder", "caps", "service"} => lock = r
RoomLeft == \A r \in Req : pc[r] = "service" => Cardinality(svc) < ServerCap
Capped == Exclusive /\ RoomLeft /\ ServerCapHolds

LEMMA CapStep == TypeOK /\ Capped /\ Next => Capped'
<1> SUFFICES ASSUME TypeOK, Capped, Next PROVE Capped'
  OBVIOUS
<1>t. RequestOK /\ LockOK /\ ObjectsOK /\ None \notin Req /\ ServerCap \in Nat
  BY TypeParts, LifecycleAssumption
<1>f. IsFiniteSet(svc) /\ Cardinality(svc) \in Nat
  BY <1>t, FS_Subset, FS_CardinalityType, LifecycleAssumption DEF ObjectsOK
<1>s. ASSUME svc' \subseteq svc
      PROVE  /\ Cardinality(svc') \in Nat /\ Cardinality(svc') <= Cardinality(svc)
             /\ ServerCapHolds'
  <2>1. /\ IsFiniteSet(svc') /\ Cardinality(svc') <= Cardinality(svc)
        /\ Cardinality(svc') \in Nat
    BY <1>f, <1>s, FS_Subset, FS_CardinalityType
  <2> QED
    BY <1>t, <1>f, <2>1 DEF Capped, ServerCapHolds
<1> DEFINE Inside(p) == p \in {"holder", "caps", "service"}
\* Nobody gets closer to the Service, and no Service is added.
<1>0. ASSUME svc' \subseteq svc,
             \A q \in Req : Inside(pc'[q]) => pc'[q] = pc[q] /\ lock' = lock
      PROVE  Capped'
  BY <1>t, <1>f, <1>s, <1>0 DEF Capped, Exclusive, RoomLeft
\* A request moves on, outside, and may let go of the lock.
<1>1. ASSUME NEW r \in Req, NEW point \in Pc, ~Inside(point), Goto(r, point),
             lock' = lock \/ Release(r), svc' \subseteq svc
      PROVE  Capped'
  <2>1. \A q \in Req \ {r} : Inside(pc[q]) => lock' = lock
    BY <1>1 DEF Release, Capped, Exclusive
  <2> QED
    BY <1>t, <1>f, <1>s, <1>1, <2>1 DEF RequestOK, Goto, Capped, Exclusive, RoomLeft
<1>2. ASSUME NEW r \in Req, Handle(r) PROVE Capped'
  <2>1. CASE BeginCreate(r) \/ BeginStart(r) \/ BeginRevive(r) \/ BeginShutdown(r)
             \/ BeginDestroy(r)
    BY <1>1, <2>1 DEF BeginCreate, BeginStart, BeginRevive, BeginShutdown, BeginDestroy, Begin,
       Pc
  <2>2. CASE TakeLock(r)
    <3>1. lock' = r /\ UNCHANGED svc /\ pc' = [pc EXCEPT ![r] = pc'[r]] /\ pc'[r] # "service"
          /\ \A q \in Req : ~Inside(pc[q])
      BY <1>t, <2>2 DEF RequestOK, TakeLock, Goto, Capped, Exclusive
    <3> QED
      BY <1>t, <1>s, <3>1 DEF RequestOK, Capped, Exclusive, RoomLeft
  <2>3. CASE CheckName(r)
    BY <1>t, <1>1, <1>s, <2>3 DEF CheckName, RequestOK, Goto, Answer, Pc, Capped, Exclusive,
       RoomLeft
  <2>4. CASE CheckCaps(r)
    BY <1>t, <1>1, <1>s, <2>4 DEF CheckCaps, RequestOK, Goto, Answer, Pc, Capped, Exclusive,
       RoomLeft
  <2>5. CASE CreateService(r) \/ CreateServiceFails(r)
    <3>1. /\ pc[r] = "service" /\ lock = r /\ Cardinality(svc) < ServerCap
          /\ \A q \in Req \ {r} : ~Inside(pc[q])
      BY <2>5 DEF CreateService, CreateServiceFails, Capped, Exclusive, RoomLeft
    <3>2. svc' \in {svc, svc \cup {name[r]}}
          /\ \E point \in {"volume", "ended"} : pc' = [pc EXCEPT ![r] = point]
      BY <2>5 DEF CreateService, CreateServiceFails, Goto, Answer
    <3>3. \A q \in Req : ~Inside(pc'[q])
      BY <1>t, <3>1, <3>2 DEF RequestOK
    <3>4. Cardinality(svc') <= ServerCap
      BY <1>t, <1>f, <3>1, <3>2, FS_AddElement
    <3> QED
      BY <3>3, <3>4 DEF Capped, Exclusive, RoomLeft, ServerCapHolds
  <2>6. CASE Refuse(r) \/ CreateVolume(r) \/ CreateVolumeFails(r) \/ CreateServer(r)
             \/ CreateServerFails(r)
    BY <1>1, <2>6 DEF Refuse, CreateVolume, CreateVolumeFails, CreateServer, CreateServerFails,
       Answer, Pc
  <2>7. CASE UndoServer(r) \/ UndoVolume(r) \/ UndoService(r) \/ UndoFails(r)
    BY <1>1, <2>7 DEF UndoServer, UndoVolume, UndoService, UndoFails, Answer, Pc
  <2>8. CASE CheckLoad(r) \/ FindService(r) \/ DeleteServer(r) \/ DeleteServerFails(r)
    BY <1>1, <2>8 DEF CheckLoad, FindService, DeleteServer, DeleteServerFails, Answer, Pc
  <2>9. CASE ConfirmGone(r) \/ GiveUpConfirming(r) \/ DestroyService(r) \/ DestroyVolume(r)
             \/ DestroyFails(r)
    BY <1>1, <2>9 DEF ConfirmGone, GiveUpConfirming, DestroyService, DestroyVolume,
       DestroyFails, Answer, Pc
  <2> QED
    BY <1>2, <2>1, <2>2, <2>3, <2>4, <2>5, <2>6, <2>7, <2>8, <2>9 DEF Handle
<1>3. ASSUME NEW n \in Name, Cluster(n) \/ NodeDies(n) \/ NodeReturns(n) PROVE Capped'
  BY <1>0, <1>3 DEF Cluster, NodeDies, NodeReturns, AgonesMakesPod, PodTerminates,
     AgonesReleases, World
<1>4. CASE Reconcile \/ RecoverFails
  BY <1>0, <1>4 DEF Reconcile, Scan, ScanEnds, RecoverBegins, ReadIntent, ForcePod,
     RecoverDeletes, RecoverConfirms, RecoverGivesUp, RecoverFails, RecycleFinds,
     RecycleStarts, PutOff, Requests
<1>5. CASE BotEnds
  BY <1>0, <1>5 DEF BotEnds
<1> QED
  BY <1>2, <1>3, <1>4, <1>5 DEF Next

\* A guild never has more servers than it may, however its creates overlap with
\* each other, with failures and with what is being destroyed.
THEOREM CapAlways == Spec => []ServerCapHolds
<1>1. Init => Capped
  BY DEF Init, Capped, Exclusive, RoomLeft, ServerCapHolds
<1>2. TypeOK /\ Capped /\ [Next]_vars => Capped'
  <2>1. CASE Next
    BY <2>1, CapStep
  <2>2. CASE UNCHANGED vars
    BY <2>2 DEF vars, Capped, Exclusive, RoomLeft, ServerCapHolds
  <2> QED
    BY <2>1, <2>2
<1>3. Capped => ServerCapHolds
  BY DEF Capped
<1> QED
  BY <1>1, <1>2, <1>3, TypeCorrect, PTL DEF Spec

------------------------------------------------------------------------------
(* Answers.  A request that has kept its flag is alone at its server, so what *)
(* it has done so far is there, but for what Agones and the kubelet make of   *)
(* it; and where it stands tells what it has done.                            *)

Creating == {"lock", "holder", "caps", "service", "volume", "server", "undo",
             "undoVolume", "undoService", "ended"}
Destroying == {"delete", "confirm", "delService", "delVolume", "ended"}

Created(r, n) ==
  /\ pc[r] \in Creating
  /\ pc[r] \in {"lock", "holder"} => Whole(n)
  /\ pc[r] \in {"caps", "service"} => n \notin svc /\ gs[n] = "absent" /\ pvc[n] # "bound"
  /\ pc[r] = "volume" => n \in svc /\ gs[n] = "absent"
  /\ pc[r] = "server" => n \in svc /\ gs[n] = "absent" /\ pvc[n] = "bound"
  /\ pc[r] \in {"undoVolume", "undoService"} => (Live(n) => "server" \in left[r])
  /\ pc[r] = "undoService" => (pvc[n] = "bound" => "volume" \in left[r])
  /\ pc[r] = "ended" /\ said[r] = "done" => n \in svc /\ Live(n) /\ pvc[n] = "bound"
  /\ pc[r] = "ended" /\ said[r] = "failed" => Whole(n) \/ Leftover(r, n)

Destroyed(r, n) ==
  /\ pc[r] \in Destroying
  /\ pc[r] = "delService" => gs[n] = "absent"
  /\ pc[r] = "delVolume" => n \notin svc /\ gs[n] = "absent"
  /\ pc[r] = "ended" /\ said[r] = "done" =>
       n \notin svc /\ gs[n] = "absent" /\ pvc[n] = "none"

ShutDown(r, n) ==
  /\ pc[r] \in {"delete", "confirm", "ended"} /\ n \in svc
  /\ pc[r] = "ended" /\ said[r] = "done" => gs[n] = "absent"

Stage(r) ==
  /\ kind[r] = "create" => Created(r, name[r])
  /\ kind[r] = "destroy" => Destroyed(r, name[r])
  /\ kind[r] = "shutdown" => ShutDown(r, name[r])

AloneAt(r) ==
  /\ \A q \in Req \ {r} : AtWork(q) => name[q] # name[r]
  /\ cur # name[r]

Accounted == \A r \in Req : clean[r] => AloneAt(r) /\ Stage(r)

\* Agones and the kubelet take a stage nowhere else.
LEMMA StageKept ==
  ASSUME NEW r \in Req, Stage(r),
         UNCHANGED <<pc[r], kind[r], name[r], said[r], left[r]>>,
         name[r] \in svc' <=> name[r] \in svc,
         \/ gs'[name[r]] = gs[name[r]]
         \/ gs[name[r]] = "new" /\ gs'[name[r]] = "live"
         \/ gs[name[r]] = "terminating" /\ gs'[name[r]] = "absent",
         \/ pvc'[name[r]] = pvc[name[r]]
         \/ pvc[name[r]] = "going" /\ pvc'[name[r]] = "none"
  PROVE  Stage(r)'
<1>1. Whole(name[r]) => Whole(name[r])'
  BY DEF Whole, Live
<1>1a. Leftover(r, name[r]) => Leftover(r, name[r])'
  BY DEF Leftover, Live
<1>2. kind[r] = "create" => Created(r, name[r])'
  BY <1>1, <1>1a DEF Stage, Created, Live
<1>3. kind[r] = "destroy" => Destroyed(r, name[r])'
  BY DEF Stage, Destroyed
<1>4. kind[r] = "shutdown" => ShutDown(r, name[r])'
  BY DEF Stage, ShutDown
<1> QED
  BY <1>2, <1>3, <1>4 DEF Stage

\* A handler changes no server but its own, and no request but itself ...
LEMMA HandleFrame ==
  ASSUME TypeOK, NEW q \in Req, Handle(q)
  PROVE  /\ UNCHANGED <<name, cur>>
         /\ \A r \in Req \ {q} : 
              UNCHANGED <<pc[r], kind[r], said[r], left[r]>> /\ (clean'[r] => clean[r])
         /\ \A n \in Name \ {name[q]} :
              /\ n \in svc' <=> n \in svc
              /\ gs'[n] = gs[n] /\ pvc'[n] = pvc[n]
<1>t. /\ ObjectsOK /\ RequestOK /\ FlagsOK /\ name[q] \in Name
  BY TypeParts DEF RequestOK
<1>1. CASE BeginCreate(q) \/ BeginStart(q) \/ BeginRevive(q) \/ BeginShutdown(q)
           \/ BeginDestroy(q)
  <2>1. PICK what, point : Begin(q, what, point)
    BY <1>1, Zenon DEF BeginCreate, BeginStart, BeginRevive, BeginShutdown, BeginDestroy
  <2> QED
    BY <1>t, <2>1 DEF Begin, Goto, RequestOK
<1>2. CASE TakeLock(q) \/ Refuse(q) \/ CheckName(q) \/ CheckCaps(q) \/ CheckLoad(q)
           \/ FindService(q)
  BY <1>t, <1>2 DEF TakeLock, Refuse, CheckName, CheckCaps, CheckLoad, FindService, Goto,
     Answer, RequestOK
<1>3. CASE CreateService(q) \/ CreateServiceFails(q) \/ UndoService(q) \/ UndoFails(q)
  BY <1>t, <1>3 DEF CreateService, CreateServiceFails, UndoService, UndoFails, Leaves,
     Goto, Answer, RequestOK, FlagsOK
<1>4. CASE CreateVolume(q) \/ CreateVolumeFails(q) \/ UndoVolume(q)
  BY <1>t, <1>4 DEF CreateVolume, CreateVolumeFails, UndoVolume, DeleteVolume, Goto,
     RequestOK, ObjectsOK
<1>5. CASE CreateServer(q) \/ CreateServerFails(q) \/ UndoServer(q)
  BY <1>t, <1>5 DEF CreateServer, CreateServerFails, UndoServer, Raise, Doom, Goto, Answer,
     RequestOK, ObjectsOK
<1>6. CASE DeleteServer(q) \/ DeleteServerFails(q) \/ ConfirmGone(q) \/ GiveUpConfirming(q)
  BY <1>t, <1>6 DEF DeleteServer, DeleteServerFails, ConfirmGone, GiveUpConfirming, Doom, Goto,
     Answer, RequestOK, ObjectsOK
<1>7. CASE DestroyService(q) \/ DestroyVolume(q) \/ DestroyFails(q)
  BY <1>t, <1>7 DEF DestroyService, DestroyVolume, DestroyFails, DeleteVolume, Goto, Answer,
     RequestOK, ObjectsOK
<1> QED
  BY <1>1, <1>2, <1>3, <1>4, <1>5, <1>6, <1>7 DEF Handle

\* ... and is at work, or begins, and then disturbs whoever is at its server.
LEMMA HandleWorks ==
  ASSUME NEW q \in Req, Handle(q)
  PROVE  AtWork(q) \/ \A r \in Req \ {q} : clean'[r] => name[r] # name[q]
<1>1. CASE BeginCreate(q) \/ BeginStart(q) \/ BeginRevive(q) \/ BeginShutdown(q)
           \/ BeginDestroy(q)
  <2>1. PICK what, point : Begin(q, what, point)
    BY <1>1, Zenon DEF BeginCreate, BeginStart, BeginRevive, BeginShutdown, BeginDestroy
  <2> QED
    BY <2>1 DEF Begin
<1>2. CASE TakeLock(q) \/ Refuse(q) \/ CheckName(q) \/ CheckCaps(q) \/ CreateService(q)
           \/ CreateServiceFails(q) \/ CreateVolume(q) \/ CreateVolumeFails(q)
           \/ CreateServer(q) \/ CreateServerFails(q)
  BY <1>2 DEF AtWork, TakeLock, Refuse, CheckName, CheckCaps, CreateService,
     CreateServiceFails, CreateVolume, CreateVolumeFails, CreateServer, CreateServerFails
<1>3. CASE UndoServer(q) \/ UndoVolume(q) \/ UndoService(q) \/ UndoFails(q) \/ CheckLoad(q)
           \/ FindService(q) \/ DeleteServer(q) \/ DeleteServerFails(q) \/ ConfirmGone(q)
           \/ GiveUpConfirming(q) \/ DestroyService(q) \/ DestroyVolume(q)
           \/ DestroyFails(q)
  BY <1>3 DEF AtWork, UndoServer, UndoVolume, UndoService, UndoFails, CheckLoad, FindService,
     DeleteServer, DeleteServerFails, ConfirmGone, GiveUpConfirming, DestroyService,
     DestroyVolume, DestroyFails
<1> QED
  BY <1>1, <1>2, <1>3 DEF Handle

\* A handler of somebody else.
LEMMA OtherHandles ==
  ASSUME TypeOK, Accounted, NEW q \in Req, Handle(q), NEW r \in Req, r # q, clean'[r]
  PROVE  AloneAt(r)' /\ Stage(r)'
<1>1. /\ UNCHANGED <<name, cur>> /\ clean[r]
      /\ UNCHANGED <<pc[r], kind[r], said[r], left[r]>>
      /\ \A p \in Req \ {q} : pc'[p] = pc[p]
  BY HandleFrame
<1>2. AloneAt(r) /\ Stage(r)
  BY <1>1 DEF Accounted
<1>3. name[q] # name[r]
  BY <1>2, HandleWorks DEF AloneAt
<1>4. AloneAt(r)'
  BY <1>1, <1>2, <1>3 DEF AloneAt, AtWork
<1>5. name[r] \in Name \ {name[q]}
  BY <1>3 DEF TypeOK
<1>6. /\ name[r] \in svc' <=> name[r] \in svc
      /\ gs'[name[r]] = gs[name[r]] /\ pvc'[name[r]] = pvc[name[r]]
  BY <1>5, HandleFrame
<1>7. Stage(r)'
  BY <1>1, <1>2, <1>6, StageKept
<1> QED
  BY <1>4, <1>7

\* A request finds its server whole and nobody at it.
LEMMA RequestBegins ==
  ASSUME TypeOK, NEW r \in Req, clean'[r],
         BeginCreate(r) \/ BeginStart(r) \/ BeginRevive(r) \/ BeginShutdown(r)
           \/ BeginDestroy(r)
  PROVE  AloneAt(r)' /\ Stage(r)'
<1>t. pc \in [Req -> Pc] /\ kind \in [Req -> {"create", "start", "revive", "shutdown", "destroy"}]
  BY DEF TypeOK, Pc
<1>1. PICK what \in {"create", "start", "revive", "shutdown", "destroy"},
           point \in {"lock", "find", "delete"} :
        /\ Begin(r, what, point)
        /\ what = "create" => point = "lock"
        /\ what = "destroy" => point = "delete"
        /\ what = "shutdown" => point = "delete" /\ name[r] \in svc
  BY DEF BeginCreate, BeginStart, BeginRevive, BeginShutdown, BeginDestroy
<1>2. /\ pc'[r] = point /\ kind'[r] = what /\ UNCHANGED <<name, cur, svc, gs, pvc>>
      /\ \A q \in Req \ {r} : pc'[q] = pc[q]
      /\ \A q \in Req \ {r} : AtWork(q) => name[q] # name[r]
      /\ cur # name[r] /\ Whole(name[r])
  BY <1>t, <1>1 DEF Begin, Goto
<1>3. AloneAt(r)'
  BY <1>2 DEF AloneAt, AtWork
<1>4. Whole(name[r])'
  BY <1>2 DEF Whole, Live
<1>5. Stage(r)'
  BY <1>1, <1>2, <1>4 DEF Stage, Created, Destroyed, ShutDown, Creating, Destroying
<1> QED
  BY <1>3, <1>5

\* provision_under_lock goes from stage to stage.
LEMMA CreateStages ==
  ASSUME TypeOK, NEW r \in Req, Stage(r), clean'[r], kind[r] = "create",
         Handle(r), AtWork(r)
  PROVE  Created(r, name[r])'
<1> DEFINE n == name[r]
<1>t. /\ ObjectsOK /\ RequestOK /\ FlagsOK /\ n \in Name /\ name' = name
  BY TypeParts, HandleFrame DEF RequestOK
<1>0. Created(r, n) /\ pc[r] # "ended"
  BY DEF Stage, AtWork
<1> HIDE DEF n
<1>1. CASE TakeLock(r)
  BY <1>t, <1>0, <1>1 DEF TakeLock, Goto, RequestOK, Created, Creating, Whole, Live, n
<1>2. CASE Refuse(r)
  <2>1. Whole(n)
    BY <1>0, <1>2 DEF Refuse, Created, Creating, Whole, Live
  <2> QED
    BY <1>t, <1>2, <2>1 DEF Refuse, Answer, Goto, RequestOK, Created, Creating, Whole, Live, n
<1>3. CASE CheckName(r)
  BY <1>t, <1>0, <1>3 DEF CheckName, Answer, Goto, RequestOK, ObjectsOK, Created, Creating,
     Whole, Live, n
<1>4. CASE CheckCaps(r)
  BY <1>t, <1>0, <1>4 DEF CheckCaps, Answer, Goto, RequestOK, Created, Creating, Whole, Live, n
<1>5. CASE CreateService(r)
  BY <1>t, <1>0, <1>5 DEF CreateService, Goto, RequestOK, Created, Creating, n
<1>6. CASE CreateServiceFails(r)
  <2>1. /\ pc'[r] = "ended" /\ said'[r] = "failed" /\ gs' = gs /\ pvc' = pvc
        /\ svc' = svc \/ (svc' = svc \cup {n} /\ left'[r] = {"service"})
    BY <1>t, <1>6 DEF CreateServiceFails, Answer, Goto, RequestOK, FlagsOK, n
  <2>2. n \notin svc /\ gs[n] = "absent" /\ pvc[n] # "bound"
    BY <1>0, <1>6 DEF CreateServiceFails, Created
  <2>3. Whole(n)' \/ Leftover(r, n)'
    BY <1>t, <2>1, <2>2 DEF Whole, Leftover, Live, n
  <2> QED
    BY <1>t, <2>1, <2>3 DEF Created, Creating, n
<1>6a. CASE UndoFails(r)
  <2>1. UNCHANGED <<svc, gs, pvc>>
    BY <1>6a DEF UndoFails
  <2>2. CASE pc[r] = "undo"
    <3>1. pc'[r] = "undoVolume" /\ "server" \in left'[r]
      BY <1>t, <1>6a, <2>2 DEF UndoFails, Leaves, Goto, RequestOK, FlagsOK
    <3> QED
      BY <1>t, <3>1 DEF Created, Creating
  <2>3. CASE pc[r] = "undoVolume"
    <3>1. pc'[r] = "undoService" /\ "volume" \in left'[r] /\ left[r] \subseteq left'[r]
      BY <1>t, <1>6a, <2>3 DEF UndoFails, Leaves, Goto, RequestOK, FlagsOK
    <3> QED
      BY <1>t, <1>0, <2>1, <2>3, <3>1 DEF Created, Creating, Live, n
  <2>4. CASE pc[r] = "undoService"
    <3>1. /\ pc'[r] = "ended" /\ said'[r] = "failed"
          /\ "service" \in left'[r] /\ left[r] \subseteq left'[r]
      BY <1>t, <1>6a, <2>4 DEF UndoFails, Leaves, Answer, Goto, RequestOK, FlagsOK
    <3>2. Leftover(r, n)'
      BY <1>t, <1>0, <2>1, <2>4, <3>1 DEF Created, Leftover, Live, n
    <3> QED
      BY <1>t, <3>1, <3>2 DEF Created, Creating, n
  <2> QED
    BY <1>6a, <2>2, <2>3, <2>4 DEF UndoFails
<1>7. CASE CreateVolume(r) \/ CreateVolumeFails(r)
  BY <1>t, <1>0, <1>7 DEF CreateVolume, CreateVolumeFails, Goto, RequestOK, ObjectsOK, Created,
     Creating, n
<1>8. CASE CreateServer(r)
  BY <1>t, <1>0, <1>8 DEF CreateServer, Raise, Answer, Goto, RequestOK, ObjectsOK, Created,
     Creating, Live, n
<1>9. CASE CreateServerFails(r)
  <2>1. pc[r] = "server" /\ pc'[r] = "undo"
    BY <1>t, <1>0, <1>9 DEF CreateServerFails, Goto, RequestOK, Created, Creating
  <2> QED
    BY <2>1 DEF Created, Creating
<1>10. CASE UndoServer(r)
  BY <1>t, <1>0, <1>10 DEF UndoServer, Doom, Goto, RequestOK, ObjectsOK, Created, Creating, Live, n
<1>11. CASE UndoVolume(r)
  <2>1. /\ pc[r] = "undoVolume" /\ pc'[r] = "undoService" /\ pvc'[n] # "bound"
        /\ UNCHANGED <<gs, left>>
    BY <1>t, <1>11 DEF UndoVolume, DeleteVolume, Goto, RequestOK, ObjectsOK, n
  <2> QED
    BY <1>t, <1>0, <2>1 DEF Created, Creating, Live, n
<1>12. CASE UndoService(r)
  <2>1. /\ pc[r] = "undoService" /\ pc'[r] = "ended" /\ said'[r] = "failed"
        /\ n \notin svc' /\ UNCHANGED <<gs, pvc, left>>
    BY <1>t, <1>12 DEF UndoService, Answer, Goto, RequestOK, n
  <2>2. Leftover(r, n)'
    BY <1>t, <1>0, <2>1 DEF Created, Leftover, Live, n
  <2> QED
    BY <1>t, <2>1, <2>2 DEF Created, Creating, n
<1>13. CASE CheckLoad(r) \/ FindService(r) \/ DeleteServer(r) \/ DeleteServerFails(r)
            \/ DestroyService(r) \/ DestroyVolume(r) \/ DestroyFails(r)
            \/ ConfirmGone(r) \/ GiveUpConfirming(r)
  BY <1>0, <1>13 DEF CheckLoad, FindService, DeleteServer, DeleteServerFails, DestroyService,
     DestroyVolume, DestroyFails, ConfirmGone, GiveUpConfirming, Created, Creating
<1>14. CASE BeginCreate(r) \/ BeginStart(r) \/ BeginRevive(r) \/ BeginShutdown(r)
            \/ BeginDestroy(r)
  BY <1>14 DEF BeginCreate, BeginStart, BeginRevive, BeginShutdown, BeginDestroy, Begin, AtWork
<1> QED
  BY <1>1, <1>2, <1>3, <1>4, <1>5, <1>6, <1>6a, <1>7, <1>8, <1>9, <1>10, <1>11, <1>12, <1>13,
     <1>14
  DEF Handle

\* So do destroy_instance and shutdown_instance.
LEMMA RemovalStages ==
  ASSUME TypeOK, PodsOwned, NEW r \in Req, Stage(r), clean'[r],
         kind[r] \in {"destroy", "shutdown"}, Handle(r), AtWork(r)
  PROVE  /\ kind[r] = "destroy" => Destroyed(r, name[r])'
         /\ kind[r] = "shutdown" => ShutDown(r, name[r])'
<1> DEFINE n == name[r]
<1>t. /\ ObjectsOK /\ RequestOK /\ n \in Name /\ name' = name
  BY TypeParts, HandleFrame DEF RequestOK
<1>0. /\ pc[r] \in {"delete", "confirm", "delService", "delVolume"}
      /\ kind[r] = "destroy" => Destroyed(r, n)
      /\ kind[r] = "shutdown" => ShutDown(r, n)
  BY DEF Stage, AtWork, Destroyed, ShutDown, Destroying
<1> HIDE DEF n
<1>1. CASE Refuse(r) \/ DeleteServerFails(r) \/ GiveUpConfirming(r) \/ DestroyFails(r)
  <2>1. pc'[r] = "ended" /\ said'[r] = "failed"
    BY <1>t, <1>1 DEF Refuse, DeleteServerFails, GiveUpConfirming, DestroyFails, Answer, Goto,
       RequestOK
  <2>2. kind[r] = "shutdown" => n \in svc'
    BY <1>0, <1>1 DEF ShutDown, Refuse, DeleteServerFails, GiveUpConfirming, DestroyFails
  <2> QED
    BY <1>t, <2>1, <2>2 DEF Destroyed, ShutDown, Destroying, n
<1>2. CASE DeleteServer(r)
  BY <1>t, <1>0, <1>2 DEF DeleteServer, Goto, RequestOK, Destroyed, ShutDown, Destroying, n
<1>3. CASE ConfirmGone(r)
  BY <1>t, <1>0, <1>3 DEF ConfirmGone, Answer, Goto, RequestOK, Destroyed, ShutDown, Destroying, n
<1>4. CASE DestroyService(r)
  BY <1>t, <1>0, <1>4 DEF DestroyService, Goto, RequestOK, Destroyed, ShutDown, Destroying, n
<1>5. CASE DestroyVolume(r)
  <2>1. kind[r] = "destroy" /\ n \notin svc /\ gs[n] = "absent"
    BY <1>0, <1>5 DEF DestroyVolume, Destroyed, ShutDown
  <2>2. pod[n] = "none"
    BY <1>t, <2>1 DEF PodsOwned
  <2>3. pvc'[n] = "none"
    BY <1>t, <1>5, <2>2 DEF DestroyVolume, DeleteVolume, ObjectsOK, n
  <2>4. pc'[r] = "ended" /\ svc' = svc /\ gs' = gs
    BY <1>t, <1>5 DEF DestroyVolume, Answer, Goto, RequestOK
  <2> QED
    BY <1>t, <2>1, <2>3, <2>4 DEF Destroyed, Destroying, n
<1>6. CASE TakeLock(r) \/ CheckName(r) \/ CheckCaps(r) \/ CreateService(r)
           \/ CreateServiceFails(r) \/ CreateVolume(r) \/ CreateVolumeFails(r)
           \/ CreateServer(r) \/ CreateServerFails(r)
  BY <1>0, <1>6 DEF TakeLock, CheckName, CheckCaps, CreateService, CreateServiceFails,
     CreateVolume, CreateVolumeFails, CreateServer, CreateServerFails
<1>7. CASE UndoServer(r) \/ UndoVolume(r) \/ UndoService(r) \/ UndoFails(r) \/ CheckLoad(r)
           \/ FindService(r)
  BY <1>0, <1>7 DEF UndoServer, UndoVolume, UndoService, UndoFails, CheckLoad, FindService
<1>8. CASE BeginCreate(r) \/ BeginStart(r) \/ BeginRevive(r) \/ BeginShutdown(r)
           \/ BeginDestroy(r)
  BY <1>8 DEF BeginCreate, BeginStart, BeginRevive, BeginShutdown, BeginDestroy, Begin, AtWork
<1> QED
  BY <1>1, <1>2, <1>3, <1>4, <1>5, <1>6, <1>7, <1>8 DEF Handle

\* A handler of the request's own, once it has begun.
LEMMA OwnWork ==
  ASSUME NEW r \in Req, Handle(r),
         ~(BeginCreate(r) \/ BeginStart(r) \/ BeginRevive(r) \/ BeginShutdown(r)
             \/ BeginDestroy(r))
  PROVE  AtWork(r) /\ UNCHANGED <<kind, clean>>
<1>1. CASE TakeLock(r) \/ Refuse(r) \/ CheckName(r) \/ CheckCaps(r) \/ CreateService(r)
           \/ CreateServiceFails(r) \/ CreateVolume(r) \/ CreateVolumeFails(r)
           \/ CreateServer(r) \/ CreateServerFails(r)
  BY <1>1 DEF AtWork, TakeLock, Refuse, CheckName, CheckCaps, CreateService,
     CreateServiceFails, CreateVolume, CreateVolumeFails, CreateServer, CreateServerFails
<1>2. CASE UndoServer(r) \/ UndoVolume(r) \/ UndoService(r) \/ UndoFails(r) \/ CheckLoad(r)
           \/ FindService(r) \/ DeleteServer(r) \/ DeleteServerFails(r) \/ ConfirmGone(r)
           \/ GiveUpConfirming(r) \/ DestroyService(r) \/ DestroyVolume(r)
           \/ DestroyFails(r)
  BY <1>2 DEF AtWork, UndoServer, UndoVolume, UndoService, UndoFails, CheckLoad, FindService,
     DeleteServer, DeleteServerFails, ConfirmGone, GiveUpConfirming, DestroyService,
     DestroyVolume, DestroyFails
<1> QED
  BY <1>1, <1>2 DEF Handle

LEMMA OwnHandles ==
  ASSUME TypeOK, PodsOwned, Accounted, NEW r \in Req, Handle(r), clean'[r]
  PROVE  AloneAt(r)' /\ Stage(r)'
<1>1. CASE BeginCreate(r) \/ BeginStart(r) \/ BeginRevive(r) \/ BeginShutdown(r)
           \/ BeginDestroy(r)
  BY <1>1, RequestBegins
<1>2. CASE ~(BeginCreate(r) \/ BeginStart(r) \/ BeginRevive(r) \/ BeginShutdown(r)
               \/ BeginDestroy(r))
  <2>1. AtWork(r) /\ kind' = kind /\ clean[r]
    BY <1>2, OwnWork DEF TypeOK
  <2>2. AloneAt(r) /\ Stage(r)
    BY <2>1 DEF Accounted
  <2>3. AloneAt(r)'
    BY <2>2, HandleFrame DEF AloneAt, AtWork
  <2>4. Stage(r)'
    BY <2>1, <2>2, CreateStages, RemovalStages, HandleFrame DEF Stage
  <2> QED
    BY <2>3, <2>4
<1> QED
  BY <1>1, <1>2

\* The cluster and the reconciler.
LEMMA RestAccounted ==
  ASSUME TypeOK, Accounted, NEW r \in Req, clean'[r],
         \/ \E n \in Name : Cluster(n) \/ NodeDies(n) \/ NodeReturns(n)
         \/ Reconcile \/ RecoverFails
  PROVE  AloneAt(r)' /\ Stage(r)'
<1> DEFINE n == name[r]
<1>t. ObjectsOK /\ RequestOK /\ ReconcilerOK /\ FlagsOK /\ n \in Name /\ None # n
  BY TypeParts, LifecycleAssumption DEF RequestOK
<1>0. ASSUME clean[r], UNCHANGED <<pc, kind, name, said, left>>, cur' # n,
             n \in svc' <=> n \in svc,
             \/ gs'[n] = gs[n]
             \/ gs[n] = "new" /\ gs'[n] = "live"
             \/ gs[n] = "terminating" /\ gs'[n] = "absent",
             \/ pvc'[n] = pvc[n]
             \/ pvc[n] = "going" /\ pvc'[n] = "none"
      PROVE  AloneAt(r)' /\ Stage(r)'
  <2>1. AloneAt(r) /\ Stage(r)
    BY <1>0 DEF Accounted
  <2>2. AloneAt(r)'
    BY <1>0, <2>1 DEF AloneAt, AtWork
  <2> QED
    BY <1>0, <2>1, <2>2, StageKept
<1>a. clean[r] => cur # n
  BY DEF Accounted, AloneAt
<1> HIDE DEF n
<1>1. ASSUME NEW m \in Name, Cluster(m) \/ NodeDies(m) \/ NodeReturns(m)
      PROVE  AloneAt(r)' /\ Stage(r)'
  <2>1. UNCHANGED <<svc, pc, kind, name, said, clean, left, cur>>
    BY <1>1 DEF Cluster, NodeDies, NodeReturns, AgonesMakesPod, PodTerminates, AgonesReleases,
       World
  <2>2. \/ gs'[n] = gs[n]
        \/ gs[n] = "new" /\ gs'[n] = "live"
        \/ gs[n] = "terminating" /\ gs'[n] = "absent"
    BY <1>t, <1>1 DEF Cluster, NodeDies, NodeReturns, AgonesMakesPod, PodTerminates,
       AgonesReleases, World, ObjectsOK
  <2>3. \/ pvc'[n] = pvc[n]
        \/ pvc[n] = "going" /\ pvc'[n] = "none"
    BY <1>t, <1>1 DEF Cluster, NodeDies, NodeReturns, AgonesMakesPod, PodTerminates,
       AgonesReleases, World, PodGone, ObjectsOK
  <2> QED
    BY <1>0, <1>a, <2>1, <2>2, <2>3
<1>2. CASE RecoverBegins
  BY <1>0, <1>2 DEF RecoverBegins, Requests, n
<1>3. CASE Scan \/ ScanEnds \/ ReadIntent \/ RecoverConfirms \/ RecycleFinds
           \/ RecoverGivesUp \/ RecoverFails
  <2>1. UNCHANGED <<svc, gs, pvc, pc, kind, name, said, clean, left>> /\ cur' \in {cur, None}
    BY <1>3 DEF Scan, ScanEnds, ReadIntent, RecoverConfirms, RecycleFinds, RecoverGivesUp,
       RecoverFails, PutOff, Leave, Requests
  <2> QED
    BY <1>t, <1>0, <1>a, <2>1
<1>4. CASE ForcePod \/ RecoverDeletes \/ RecycleStarts
  <2>1. UNCHANGED <<svc, pc, kind, name, said, clean, left>> /\ cur' \in {cur, None}
    BY <1>4 DEF ForcePod, RecoverDeletes, RecycleStarts, Leave, Requests
  <2>2. \A m \in Name \ {cur} : gs'[m] = gs[m] /\ pvc'[m] = pvc[m]
    BY <1>t, <1>4 DEF ForcePod, PodGone, RecoverDeletes, Doom, RecycleStarts, Raise, ObjectsOK
  <2> QED
    BY <1>t, <1>0, <1>a, <2>1, <2>2
<1> QED
  BY <1>1, <1>2, <1>3, <1>4 DEF Reconcile

\* The inductive invariant of the requests that have a server to themselves.
LEMMA AccountedStep == TypeOK /\ PodsOwned /\ Accounted /\ Next => Accounted'
<1> SUFFICES ASSUME TypeOK, PodsOwned, Accounted, Next, NEW r \in Req, clean'[r]
             PROVE  AloneAt(r)' /\ Stage(r)'
  BY DEF Accounted
<1>1. ASSUME NEW q \in Req, Handle(q) PROVE AloneAt(r)' /\ Stage(r)'
  BY <1>1, OtherHandles, OwnHandles
<1>2. CASE BotEnds
  BY <1>2 DEF BotEnds
<1> QED
  BY <1>1, <1>2, RestAccounted DEF Next

\* A create, a destroy or a shutdown that had the server to itself leaves all of
\* what it reports.  A create that fails leaves a whole server or nothing of one, or
\* no more than its own calls left behind: the Service of a create that failed for
\* the caller alone, and what a failed delete of the roll-back did not remove.
THEOREM AnswersHoldAlways == Spec => []AnswersHold
<1>1. Init => PodsOwned /\ OldHeld /\ Accounted
  BY DEF Init, PodsOwned, OldHeld, Accounted
<1>2. TypeOK /\ PodsOwned /\ OldHeld /\ Accounted /\ [Next]_vars
        => (PodsOwned /\ OldHeld /\ Accounted)'
  <2>1. CASE Next
    BY <2>1, HeldStep, AccountedStep
  <2>2. CASE UNCHANGED vars
    BY <2>2 DEF vars, PodsOwned, OldHeld, Accounted, AloneAt, AtWork, Stage, Created,
       Destroyed, ShutDown, Whole, Live, Leftover
  <2> QED
    BY <2>1, <2>2
<1>3. Accounted => AnswersHold
  BY DEF Accounted, AnswersHold, Stage, Created, Destroyed, ShutDown
<1> QED
  BY <1>1, <1>2, <1>3, TypeCorrect, PTL DEF Spec
==============================================================================
