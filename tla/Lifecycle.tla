------------------------------ MODULE Lifecycle ------------------------------
(* The life of the servers of one guild: what crates/bot/src/agones does to   *)
(* the Kubernetes objects of an instance (Service, PersistentVolumeClaim and  *)
(* GameServer), for requests that run side by side and for the reconciler of  *)
(* stranded servers.  The objects are the only state that lasts; all the bot  *)
(* has of its own is the provision lock.  Agones and the kubelet act between  *)
(* any two calls.                                                             *)
EXTENDS Integers, FiniteSets

CONSTANTS
  Name,        \* instance names
  Req,         \* requests
  None,        \* no request, no name
  ServerCap,   \* servers the guild may have
  LoadCap,     \* pods the guild may have at a time, all of one size
  MaxTroubles  \* bound: failed calls, refusals for want of room, dead nodes,
               \* ends of the bot

ASSUME LifecycleAssumption ==
  /\ None \notin Name \cup Req /\ IsFiniteSet(Name)
  /\ {ServerCap, LoadCap, MaxTroubles} \subseteq Nat

VARIABLES
  \* the namespace: names with a Service, and by name the GameServer, its pod
  \* and the volume; "new" is a GameServer Agones has made no pod for yet,
  \* "stuck" a pod that is terminating on a dead node, "going" a volume whose
  \* deletion waits for its pod
  svc, gs, pod, pvc,
  \* the requests: where each is, what it does and to whom, what it answered
  pc, kind, name, said, lock,
  \* the reconciler: where it is, what is left of its list, the current
  \* instance, and whether to bring it back
  rec, todo, cur, recovery,
  \* history: the pod there was when a request deleted its GameServer is still
  \* there; nobody else has been at the request's server, which it found whole
  old, clean,
  \* history: what a create's own calls may have left behind: a Service that was
  \* made although its create failed, what a failed delete did not remove
  left,
  \* history: servers meant to run, left by the reconciler for its next pass,
  \* or reported down by a shutdown
  meant, owed, down,
  troubles

objects == <<svc, gs, pod, pvc>>
request == <<kind, name>>
reconciler == <<rec, todo, cur, recovery>>
history == <<meant, owed, down>>
vars == <<objects, pc, request, said, lock, reconciler, old, clean, left, history, troubles>>

\* Where the provision lock may be held.
Holding == {"holder", "caps", "service", "volume", "server", "undo",
            "undoVolume", "undoService", "gate", "find", "start"}

TypeOK ==
  /\ svc \subseteq Name
  /\ gs \in [Name -> {"absent", "new", "live", "terminating"}]
  /\ pod \in [Name -> {"none", "up", "stuck"}]
  /\ pvc \in [Name -> {"none", "bound", "going"}]
  /\ pc \in [Req -> {"idle", "lock", "holder", "caps", "service", "volume", "server",
                     "undo", "undoVolume", "undoService", "gate", "find", "start", "delete",
                     "confirm", "delService", "delVolume", "ended"}]
  /\ kind \in [Req -> {"create", "start", "revive", "shutdown", "destroy"}]
  /\ name \in [Req -> Name]
  /\ said \in [Req -> {"nothing", "done", "failed"}]
  /\ lock \in {r \in Req : pc[r] \in Holding} \cup {None}
  /\ rec \in {"idle", "next", "read", "force", "delete", "confirm", "find", "start"}
  /\ todo \subseteq Name /\ recovery \in {"Recycle", "Release", "Debris"}
  /\ cur \in IF rec \in {"idle", "next"} THEN {None} ELSE Name
  /\ old \in [Req -> BOOLEAN] /\ clean \in [Req -> BOOLEAN]
  /\ left \in [Req -> SUBSET {"service", "volume", "server"}]
  /\ meant \subseteq Name /\ owed \subseteq Name /\ down \subseteq Name
  /\ troubles \in Nat

Trouble == troubles > 0 /\ troubles' = troubles - 1

\* Any servers within the cap, running or shut down.
Init ==
  /\ svc \in {s \in SUBSET Name : Cardinality(s) <= ServerCap}
  /\ \E up \in SUBSET svc :
       /\ gs = [n \in Name |-> IF n \in up THEN "live" ELSE "absent"]
       /\ pod = [n \in Name |-> IF n \in up THEN "up" ELSE "none"]
       /\ Cardinality(up) <= LoadCap
       /\ meant = up
  /\ pvc = [n \in Name |-> IF n \in svc THEN "bound" ELSE "none"]
  /\ pc = [r \in Req |-> "idle"] /\ said = [r \in Req |-> "nothing"]
  /\ kind = [r \in Req |-> "create"] /\ name \in [Req -> Name]
  /\ lock = None
  /\ rec = "idle" /\ todo = {} /\ cur = None /\ recovery = "Release"
  /\ old = [r \in Req |-> FALSE] /\ clean = [r \in Req |-> FALSE]
  /\ left = [r \in Req |-> {}]
  /\ owed = {} /\ down = {}
  /\ troubles = MaxTroubles

Goto(r, point) == pc' = [pc EXCEPT ![r] = point]

\* Fault: the guard outlives the call.
KeepLock(r) == lock' = lock

\* The guard of the provision lock goes with the call.
Release(r) == lock' = IF lock = r THEN None ELSE lock
Answer(r, outcome) ==
  /\ Goto(r, "ended") /\ Release(r)
  /\ said' = [said EXCEPT ![r] = outcome]

------------------------------------------------------------------------------
(* The API server, Agones and the kubelet.                                    *)

Live(n) == gs[n] \in {"new", "live"}

\* A delete is accepted: the finalizer holds the object.
Doom(n) == gs' = IF Live(n) THEN [gs EXCEPT ![n] = "terminating"] ELSE gs
DeleteVolume(n) ==
  pvc' = IF pvc[n] = "none" THEN pvc
         ELSE [pvc EXCEPT ![n] = IF pod[n] = "none" THEN "none" ELSE "going"]

\* The pod is gone, and what waited for it.
PodGone(n) ==
  /\ pod' = [pod EXCEPT ![n] = "none"]
  /\ pvc' = IF pvc[n] = "going" THEN [pvc EXCEPT ![n] = "none"] ELSE pvc
  /\ old' = [r \in Req |-> old[r] /\ name[r] # n]

World == UNCHANGED <<svc, pc, request, said, lock, reconciler, clean, left>>

AgonesMakesPod(n) ==
  /\ gs[n] = "new" /\ pvc[n] = "bound" /\ pod[n] = "none"
  /\ gs' = [gs EXCEPT ![n] = "live"] /\ pod' = [pod EXCEPT ![n] = "up"]
  /\ World /\ UNCHANGED <<pvc, old, history, troubles>>

PodTerminates(n) ==
  /\ gs[n] = "terminating" /\ pod[n] = "up"
  /\ PodGone(n)
  /\ World /\ UNCHANGED <<gs, history, troubles>>

\* The finalizer goes once the pod has.
AgonesReleases(n) ==
  /\ gs[n] = "terminating" /\ pod[n] = "none"
  /\ gs' = [gs EXCEPT ![n] = "absent"]
  /\ World /\ UNCHANGED <<pod, pvc, old, history, troubles>>

\* The pod's node stops answering, and the pod is evicted.
NodeDies(n) ==
  /\ pod[n] = "up" /\ Trouble
  /\ pod' = [pod EXCEPT ![n] = "stuck"]
  /\ World /\ UNCHANGED <<gs, pvc, old, history>>

\* It answers again and finishes the eviction; nothing in the bot looks after a
\* GameServer that has lost its pod this way.
NodeReturns(n) ==
  /\ pod[n] = "stuck"
  /\ PodGone(n)
  /\ meant' = meant \ {n} /\ owed' = owed \ {n}
  /\ World /\ UNCHANGED <<gs, down, troubles>>

------------------------------------------------------------------------------
(* A request begins.  Whoever else is at the server is disturbed.             *)

\* All of a server is there, or all of it has been told to go.
Whole(n) == IF n \in svc THEN pvc[n] = "bound" ELSE ~Live(n) /\ pvc[n] # "bound"

AtWork(r) == pc[r] \notin {"idle", "ended"}

Begin(r, what, point) ==
  /\ pc[r] = "idle"
  /\ Goto(r, point) /\ kind' = [kind EXCEPT ![r] = what]
  /\ clean' = [p \in Req |->
       IF p = r THEN /\ ~\E q \in Req \ {r} : AtWork(q) /\ name[q] = name[r]
                     /\ cur # name[r] /\ name[r] \notin todo
                     /\ Whole(name[r])
       ELSE clean[p] /\ name[p] # name[r]]
  /\ owed' = owed \ {name[r]}
  /\ UNCHANGED <<objects, name, said, lock, reconciler, old, left, meant, down, troubles>>

BeginCreate(r) == Begin(r, "create", "lock")
\* start and exec_cold_start where instance_runtime_state said Down, the admin
\* panel's start of any server whose supervisor does not answer.
BeginStart(r) == Begin(r, "start", "lock")
\* ensure_pod_reachable, for a restore: neither the lock nor the guild's caps.
BeginRevive(r) ==
  /\ name[r] \in svc /\ gs[name[r]] = "absent"
  /\ Begin(r, "revive", "find")
\* Both find a Service first, or stop there.
BeginShutdown(r) == name[r] \in svc /\ Begin(r, "shutdown", "delete")
BeginDestroy(r) == name[r] \in svc /\ Begin(r, "destroy", "delete")

\* Fault: the lock is not waited for.
TakeLockAnyway(r) ==
  /\ pc[r] = "lock"
  /\ lock' = r
  /\ Goto(r, IF kind[r] = "create" THEN "holder" ELSE "gate")
  /\ UNCHANGED <<objects, request, said, reconciler, old, clean, left, history, troubles>>

TakeLock(r) ==
  /\ pc[r] = "lock" /\ lock = None
  /\ lock' = r
  /\ Goto(r, IF kind[r] = "create" THEN "holder" ELSE "gate")
  /\ UNCHANGED <<objects, request, said, reconciler, old, clean, left, history, troubles>>

\* A read fails, or the namespace has no room, or no port is left.
Refuse(r) ==
  /\ pc[r] \in {"holder", "caps", "gate", "find", "confirm"} /\ Trouble
  /\ Answer(r, "failed")
  /\ UNCHANGED <<objects, request, reconciler, old, clean, left, history>>

------------------------------------------------------------------------------
(* provision_under_lock.                                                      *)

CheckName(r) ==
  /\ pc[r] = "holder"
  /\ IF name[r] \in svc \/ gs[name[r]] # "absent"
       THEN Answer(r, "failed") ELSE Goto(r, "caps") /\ UNCHANGED <<said, lock>>
  /\ UNCHANGED <<objects, request, reconciler, old, clean, left, history, troubles>>

\* guild_usage: Services are counted, and the pods there are, but for one's own.
Load(n) == Cardinality({m \in svc \ {n} : pod[m] # "none"})

CheckCaps(r) ==
  /\ pc[r] = "caps"
  /\ IF Cardinality(svc) < ServerCap /\ Load(None) < LoadCap
       THEN Goto(r, "service") /\ UNCHANGED <<said, lock>> ELSE Answer(r, "failed")
  /\ UNCHANGED <<objects, request, reconciler, old, clean, left, history, troubles>>

\* A name somebody else took meanwhile takes a second bot, which there is none of.
CreateService(r) ==
  /\ pc[r] = "service" /\ name[r] \notin svc
  /\ svc' = svc \cup {name[r]}
  /\ Goto(r, "volume")
  /\ UNCHANGED <<gs, pod, pvc, request, said, lock, reconciler, old, clean, left, history,
                 troubles>>

\* Not rolled back, though the Service may be there.
CreateServiceFails(r) ==
  /\ pc[r] = "service" /\ Trouble
  /\ \/ UNCHANGED <<svc, left>>
     \/ svc' = svc \cup {name[r]} /\ left' = [left EXCEPT ![r] = {"service"}]
  /\ Answer(r, "failed")
  /\ UNCHANGED <<gs, pod, pvc, request, reconciler, old, clean, history>>

CreateVolume(r) ==
  /\ pc[r] = "volume"
  /\ IF pvc[name[r]] = "none"
       THEN pvc' = [pvc EXCEPT ![name[r]] = "bound"] /\ Goto(r, "server")
       ELSE UNCHANGED pvc /\ Goto(r, "undo")
  /\ UNCHANGED <<svc, gs, pod, request, said, lock, reconciler, old, clean, left, history,
                 troubles>>

CreateVolumeFails(r) ==
  /\ pc[r] = "volume" /\ Trouble
  /\ pvc' \in {pvc, [pvc EXCEPT ![name[r]] = IF @ = "none" THEN "bound" ELSE @]}
  /\ Goto(r, "undo")
  /\ UNCHANGED <<svc, gs, pod, request, said, lock, reconciler, old, clean, left, history>>

\* A GameServer is created: somebody wants this server up.
Raise(n) ==
  /\ gs' = [gs EXCEPT ![n] = "new"]
  /\ meant' = meant \cup {n} /\ owed' = owed \ {n}

\* Also for a start, which is told AlreadyRunning by a name that is taken, and
\* is not rolled back.
CreateServer(r) ==
  /\ pc[r] \in {"server", "start"}
  /\ IF gs[name[r]] = "absent"
       THEN Raise(name[r]) /\ down' = down \ {name[r]} /\ Answer(r, "done")
       ELSE /\ UNCHANGED <<gs, history>>
            /\ IF pc[r] = "server" THEN Goto(r, "undo") /\ UNCHANGED <<said, lock>>
               ELSE Answer(r, "failed")
  /\ UNCHANGED <<svc, pod, pvc, request, reconciler, old, clean, left, troubles>>

CreateServerFails(r) ==
  /\ pc[r] \in {"server", "start"} /\ Trouble
  /\ \/ UNCHANGED <<gs, history>>
     \/ gs[name[r]] = "absent" /\ Raise(name[r]) /\ down' = down \ {name[r]}
  /\ IF pc[r] = "server" THEN Goto(r, "undo") /\ UNCHANGED <<said, lock>>
     ELSE Answer(r, "failed")
  /\ UNCHANGED <<svc, pod, pvc, request, reconciler, old, clean, left>>

(* best_effort_remove: each delete is tried, whatever became of the last, and  *)
(* however long the GameServer takes to go.                                    *)

UndoServer(r) ==
  /\ pc[r] = "undo"
  /\ Doom(name[r]) /\ meant' = meant \ {name[r]}
  /\ Goto(r, "undoVolume")
  /\ UNCHANGED <<svc, pod, pvc, request, said, lock, reconciler, old, clean, left, owed, down,
                 troubles>>

\* Fault: the volume is forgotten.
UndoNoVolume(r) ==
  /\ pc[r] = "undoVolume"
  /\ Goto(r, "undoService")
  /\ UNCHANGED <<objects, request, said, lock, reconciler, old, clean, left, history, troubles>>

UndoVolume(r) ==
  /\ pc[r] = "undoVolume"
  /\ DeleteVolume(name[r]) /\ meant' = meant \ {name[r]}
  /\ Goto(r, "undoService")
  /\ UNCHANGED <<svc, gs, pod, request, said, lock, reconciler, old, clean, left, owed, down,
                 troubles>>

UndoService(r) ==
  /\ pc[r] = "undoService"
  /\ svc' = svc \ {name[r]}
  /\ Answer(r, "failed")
  /\ UNCHANGED <<gs, pod, pvc, request, reconciler, old, clean, left, history, troubles>>

Leaves(r, what) == left' = [left EXCEPT ![r] = @ \cup {what}]

\* One of the deletes fails, and the next is tried.  A failed call that took effect
\* after all, here and in the reconciler, leaves what a successful one does.
UndoFails(r) ==
  /\ Trouble
  /\ \/ pc[r] = "undo" /\ Leaves(r, "server")
        /\ Goto(r, "undoVolume") /\ UNCHANGED <<said, lock>>
     \/ pc[r] = "undoVolume" /\ Leaves(r, "volume")
        /\ Goto(r, "undoService") /\ UNCHANGED <<said, lock>>
     \/ pc[r] = "undoService" /\ Leaves(r, "service") /\ Answer(r, "failed")
  /\ UNCHANGED <<objects, request, reconciler, old, clean, history>>

------------------------------------------------------------------------------
(* begin_start.                                                               *)

\* cold_start_refusal.
CheckLoad(r) ==
  /\ pc[r] = "gate"
  /\ IF Load(name[r]) < LoadCap
       THEN Goto(r, "find") /\ UNCHANGED <<said, lock>> ELSE Answer(r, "failed")
  /\ UNCHANGED <<objects, request, reconciler, old, clean, left, history, troubles>>

FindService(r) ==
  /\ pc[r] = "find"
  /\ IF name[r] \in svc
       THEN Goto(r, "start") /\ UNCHANGED <<said, lock>> ELSE Answer(r, "failed")
  /\ UNCHANGED <<objects, request, reconciler, old, clean, left, history, troubles>>

------------------------------------------------------------------------------
(* shutdown_instance and destroy_instance.                                    *)

\* delete_and_confirm: the delete is accepted ...
DeleteServer(r) ==
  /\ pc[r] = "delete"
  /\ Doom(name[r]) /\ Goto(r, "confirm")
  /\ meant' = meant \ {name[r]}
  /\ old' = [old EXCEPT ![r] = pod[name[r]] # "none"]
  /\ UNCHANGED <<svc, pod, pvc, request, said, lock, reconciler, clean, left, owed, down,
                 troubles>>

DeleteServerFails(r) ==
  /\ pc[r] = "delete" /\ Trouble
  /\ \/ UNCHANGED <<gs, meant>>
     \/ Doom(name[r]) /\ meant' = meant \ {name[r]}
  /\ Answer(r, "failed")
  /\ UNCHANGED <<svc, pod, pvc, request, reconciler, old, clean, left, owed, down>>

\* ... and takes effect, while the request looks ...
ConfirmGone(r) ==
  /\ pc[r] = "confirm" /\ gs[name[r]] = "absent"
  /\ IF kind[r] = "shutdown"
       THEN Answer(r, "done") /\ down' = down \cup {name[r]}
       ELSE Goto(r, "delService") /\ UNCHANGED <<said, lock, down>>
  /\ UNCHANGED <<objects, request, reconciler, old, clean, left, meant, owed, troubles>>

\* Fault: what could not be confirmed is taken for done.
ProceedUnconfirmed(r) ==
  /\ pc[r] = "confirm" /\ gs[name[r]] # "absent"
  /\ IF kind[r] = "shutdown" THEN Answer(r, "failed")
     ELSE Goto(r, "delService") /\ UNCHANGED <<said, lock>>
  /\ UNCHANGED <<objects, request, reconciler, old, clean, left, history, troubles>>

\* ... or it does not: Stranded, Blocked.
GiveUpConfirming(r) ==
  /\ pc[r] = "confirm" /\ gs[name[r]] # "absent"
  /\ Answer(r, "failed")
  /\ UNCHANGED <<objects, request, reconciler, old, clean, left, history, troubles>>

DestroyService(r) ==
  /\ pc[r] = "delService"
  /\ svc' = svc \ {name[r]}
  /\ meant' = meant \ {name[r]}
  /\ Goto(r, "delVolume")
  /\ UNCHANGED <<gs, pod, pvc, request, said, lock, reconciler, old, clean, left, owed, down,
                 troubles>>

DestroyVolume(r) ==
  /\ pc[r] = "delVolume"
  /\ DeleteVolume(name[r])
  /\ meant' = meant \ {name[r]}
  /\ Answer(r, "done")
  /\ UNCHANGED <<svc, gs, pod, request, reconciler, old, clean, left, owed, down, troubles>>

DestroyFails(r) ==
  /\ pc[r] \in {"delService", "delVolume"} /\ Trouble
  /\ \/ UNCHANGED <<svc, pvc, meant>>
     \/ pc[r] = "delService" /\ svc' = svc \ {name[r]} /\ meant' = meant \ {name[r]}
        /\ UNCHANGED pvc
     \/ pc[r] = "delVolume" /\ DeleteVolume(name[r]) /\ meant' = meant \ {name[r]}
        /\ UNCHANGED svc
  /\ Answer(r, "failed")
  /\ UNCHANGED <<gs, pod, request, reconciler, old, clean, left, owed, down>>

------------------------------------------------------------------------------
(* run_stranded_cycle.                                                        *)

Requests == UNCHANGED <<pc, request, said, lock, down>>
Stranded == {n \in Name : pod[n] = "stuck"}

\* stranded_instances lists the pods that have been terminating for too long.
Scan ==
  /\ rec = "idle" /\ Stranded # {}
  /\ todo' = Stranded /\ rec' = "next"
  /\ UNCHANGED <<objects, cur, recovery, old, clean, left, meant, owed, troubles>> /\ Requests

ScanEnds ==
  /\ rec = "next" /\ todo = {}
  /\ rec' = "idle"
  /\ UNCHANGED <<objects, todo, cur, recovery, old, clean, left, meant, owed, troubles>> /\ Requests

RecoverBegins ==
  /\ rec = "next"
  /\ \E n \in todo :
       /\ todo' = todo \ {n} /\ cur' = n
       /\ clean' = [r \in Req |-> clean[r] /\ name[r] # n]
  /\ rec' = "read"
  /\ UNCHANGED <<objects, recovery, old, left, meant, owed, troubles>> /\ Requests

\* Is it meant to run?  Without a GameServer the pod is debris.
ReadIntent ==
  /\ rec = "read"
  /\ recovery' = IF gs[cur] = "absent" THEN "Debris"
                 ELSE IF Live(cur) THEN "Recycle" ELSE "Release"
  /\ rec' = "force"
  /\ UNCHANGED <<objects, todo, cur, old, clean, left, meant, owed, troubles>> /\ Requests

\* On to the next instance of the list.
Leave == rec' = "next" /\ cur' = None /\ UNCHANGED <<todo, recovery>>

\* Also the pod of a server started since ReadIntent found no GameServer.
ForcePod ==
  /\ rec = "force"
  /\ IF pod[cur] = "none" THEN UNCHANGED <<pod, pvc, old>> ELSE PodGone(cur)
  /\ IF recovery = "Debris"
       THEN Leave /\ meant' = meant \ {cur}
       ELSE rec' = "delete" /\ UNCHANGED <<todo, cur, recovery, meant>>
  /\ UNCHANGED <<svc, gs, clean, left, owed, troubles>> /\ Requests

\* Also a server started since ReadIntent found it going down.
RecoverDeletes ==
  /\ rec = "delete"
  /\ Doom(cur)
  /\ meant' = IF recovery = "Recycle" THEN meant ELSE meant \ {cur}
  /\ rec' = "confirm"
  /\ UNCHANGED <<svc, pod, pvc, todo, cur, recovery, old, clean, left, owed, troubles>>
  /\ Requests

\* Fault: an instance is only ever released.
ReleaseAll ==
  /\ rec = "confirm" /\ gs[cur] = "absent"
  /\ Leave
  /\ UNCHANGED <<objects, old, clean, left, meant, owed, troubles>> /\ Requests

RecoverConfirms ==
  /\ rec = "confirm" /\ gs[cur] = "absent"
  /\ IF recovery = "Recycle" THEN rec' = "find" /\ UNCHANGED <<todo, cur, recovery>> ELSE Leave
  /\ UNCHANGED <<objects, old, clean, left, meant, owed, troubles>> /\ Requests

\* Without a Service there is nothing to rebuild from.
RecycleFinds ==
  /\ rec = "find"
  /\ IF cur \in svc
       THEN rec' = "start" /\ UNCHANGED <<todo, cur, recovery, meant>>
       ELSE Leave /\ meant' = meant \ {cur}
  /\ UNCHANGED <<objects, old, clean, left, owed, troubles>> /\ Requests

RecycleStarts ==
  /\ rec = "start"
  /\ IF gs[cur] = "absent" THEN Raise(cur) ELSE UNCHANGED <<gs, meant, owed>>
  /\ Leave
  /\ UNCHANGED <<svc, pod, pvc, old, clean, left, troubles>> /\ Requests

\* What was to come back and is out of the cluster's hands is left for later.
PutOff ==
  /\ IF recovery = "Recycle" /\ pod[cur] = "none" /\ gs[cur] # "new"
       THEN owed' = owed \cup (meant \cap {cur}) /\ meant' = meant \ {cur}
       ELSE UNCHANGED <<meant, owed>>
  /\ Leave
  /\ UNCHANGED <<objects, old, clean, left>> /\ Requests

\* The finalizer outlived the wait, or the object reappeared: "retrying next cycle".
RecoverGivesUp ==
  /\ rec = "confirm" /\ gs[cur] # "absent"
  /\ PutOff /\ UNCHANGED troubles

\* A call failed, or there is no room: "will retry next cycle", "leaving it for
\* the next pass".
RecoverFails ==
  /\ rec \in {"read", "force", "delete", "confirm", "find", "start"} /\ Trouble
  /\ PutOff

\* The bot ends, with everything it was at; the lock was its own.
BotEnds ==
  /\ Trouble
  /\ pc' = [r \in Req |-> "ended"] /\ clean' = [r \in Req |-> FALSE]
  /\ lock' = None
  /\ rec' = "idle" /\ todo' = {} /\ cur' = None
  /\ meant' = meant \ {n \in {cur} : rec \in {"delete", "confirm", "find", "start"}}
  /\ UNCHANGED <<objects, request, said, recovery, old, left, owed, down>>

------------------------------------------------------------------------------
Handle(r) ==
  \/ BeginCreate(r) \/ BeginStart(r) \/ BeginRevive(r)
  \/ BeginShutdown(r) \/ BeginDestroy(r) \/ TakeLock(r) \/ Refuse(r)
  \/ CheckName(r) \/ CheckCaps(r) \/ CreateService(r) \/ CreateServiceFails(r)
  \/ CreateVolume(r) \/ CreateVolumeFails(r) \/ CreateServer(r) \/ CreateServerFails(r)
  \/ UndoServer(r) \/ UndoVolume(r) \/ UndoService(r) \/ UndoFails(r)
  \/ CheckLoad(r) \/ FindService(r)
  \/ DeleteServer(r) \/ DeleteServerFails(r) \/ ConfirmGone(r) \/ GiveUpConfirming(r)
  \/ DestroyService(r) \/ DestroyVolume(r) \/ DestroyFails(r)

Reconcile ==
  \/ Scan \/ ScanEnds \/ RecoverBegins \/ ReadIntent \/ ForcePod \/ RecoverDeletes
  \/ RecoverConfirms \/ RecoverGivesUp \/ RecycleFinds \/ RecycleStarts

Cluster(n) == AgonesMakesPod(n) \/ PodTerminates(n) \/ AgonesReleases(n)

Next ==
  \/ \E r \in Req : Handle(r)
  \/ \E n \in Name : Cluster(n) \/ NodeDies(n) \/ NodeReturns(n)
  \/ Reconcile \/ RecoverFails \/ BotEnds

Spec == Init /\ [][Next]_vars

(* Fairness: the reconciler comes round and its calls return, and what is     *)
(* Agones' or the kubelet's to do gets done where the node answers.           *)
FairSpec ==
  /\ Spec
  /\ WF_vars(Reconcile)
  /\ \A n \in Name : WF_vars(Cluster(n))

------------------------------------------------------------------------------
(* Properties.                                                                *)

\* ADR-022: "concurrent creates can't both squeeze under the cap": however
\* creates, recoveries and starts overlap, and whatever is destroyed meanwhile.
ServerCapHolds == Cardinality(svc) <= ServerCap

\* destroy_instance: nothing after an unconfirmed delete runs.  By the time it
\* takes the Service and the volume, the pod it found is gone, on whatever node,
\* with the reconciler and other requests at work on the same server.
OnlyConfirmedVolumesGo ==
  \A r \in Req : pc[r] \in {"delService", "delVolume"} => ~old[r]

\* There is no more of server n than r's own calls left behind.
Leftover(r, n) ==
  /\ n \in svc => "service" \in left[r]
  /\ Live(n) => "server" \in left[r]
  /\ pvc[n] = "bound" => "volume" \in left[r]

\* A request that had the server to itself leaves all of what it reports.  A create
\* that fails leaves what it found, a server or nothing, however late it fails; or
\* else no more than its own calls left behind.  The latter is not nothing, against
\* "rolling back" (provision.rs): a Service that was made although its create failed
\* for the caller stays, as no roll-back follows, and so does what a failed delete of
\* the roll-back did not remove; but a failed delete spares only its own object.
AnswersHold ==
  \A r \in Req : pc[r] = "ended" /\ clean[r] =>
    LET n == name[r] IN
    /\ kind[r] = "create" /\ said[r] = "done" => n \in svc /\ Live(n) /\ pvc[n] = "bound"
    /\ kind[r] = "create" /\ said[r] = "failed" => Whole(n) \/ Leftover(r, n)
    /\ kind[r] = "destroy" /\ said[r] = "done" =>
         n \notin svc /\ gs[n] = "absent" /\ pvc[n] = "none"
    /\ kind[r] = "shutdown" /\ said[r] = "done" => n \in svc /\ gs[n] = "absent"

\* stranded.rs: a server that is meant to run comes back from a dead node, or is
\* no longer meant to: somebody is taking it down, its node came back, or the
\* reconciler put it off, found it without a Service, took it for the shutdown it
\* saw before, or ended with its bot on the way.
StrandedComesBack ==
  \A n \in Name : n \in meant /\ pod[n] = "stuck" ~> n \notin meant \/ pod[n] = "up"

\* ADR-009: a GameServer that stays held "is left for the next pass", and what
\* failed "will retry next cycle": what a pass put off, the next one lists.
PostponedIsListed == \A n \in owed : n \in Stranded

\* cold_start_refusal is called "under one hold of Data::provision_lock so a
\* concurrent create can't add load in between": where only gated requests bring
\* pods, the guild's servers stay within its load cap.
LoadCapHolds ==
  (\A r \in Req : kind[r] # "revive") => Cardinality({n \in svc : Live(n)}) <= LoadCap

\* recover_instance: a deletion timestamp "means a shutdown was asked for and
\* should be honoured": a server reported down stays down until it is asked for.
ShutdownIsHonoured == \A n \in down : ~Live(n)
==============================================================================
