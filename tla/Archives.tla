------------------------------- MODULE Archives -------------------------------
(* Archives of one server name: crates/bot/src/backup/orchestrate.rs archives  *)
(* a server and releases it, recovers it, deletes and prunes archives, over    *)
(* the catalogue of store.rs, the bucket and the objects of the cluster.       *)
(* The flows share nothing but those: a command, a tool call and the           *)
(* scheduled cycle may all be at the same name.                                *)
EXTENDS Integers, FiniteSets

CONSTANTS
  Flow,         \* operations under way
  None,         \* no volume, no object, no key
  MaxKey,       \* bound: stamps
  MaxWorlds,    \* bound: states of the world worth telling apart
  MaxTroubles   \* bound: failing calls, other commands, ends of the bot

ASSUME ArchivesAssumption ==
  /\ None \notin Nat \cup Flow
  /\ {MaxKey, MaxWorlds, MaxTroubles} \subseteq Nat /\ MaxKey >= 2

\* A state of the world has a number; Torn is half of one, Blank a new volume.
Torn == 0
Blank == 1
Content == Nat \cup {None}

VARIABLES
  \* the server: its Service, its pod (of a GameServer that is live or going),
  \* whether the game runs, the world of the volume and of the process
  svc, pod, game, vol, memory,
  \* the catalogue, its serial and the bucket: tarballs by stamp
  rows, serial, tarball, stamp,
  \* the flows
  pc, op, key, todo, upto, reading,
  \* history: what each flow must save or bring back; nobody has changed the
  \* server or the archives under it; worlds whose one copy is the newest
  \* archive; keys of objects some failure left behind, or that two archives
  \* share; a tar broke off unnoticed, or two archives share a key
  due, clean, owed, lost, spoilt,
  worlds, troubles

server == <<svc, pod, game, vol, memory>>
catalogue == <<rows, serial>>
bucket == <<tarball, stamp>>
flow == <<pc, op, key, todo, upto, reading>>
history == <<due, clean, owed, lost, spoilt>>
vars == <<server, catalogue, bucket, flow, history, worlds, troubles>>

Key == 0..MaxKey
Row == [id : Nat, key : Key]

ServerOK ==
  /\ svc \in BOOLEAN /\ game \in BOOLEAN
  /\ pod \in {"none", "up", "going"} /\ (game => pod # "none")
  /\ vol \in Content /\ memory \in Nat
CatalogueOK ==
  /\ rows \in SUBSET Row /\ serial \in Nat
  /\ \A r \in rows : r.id <= serial
  /\ tarball \in [Key -> Content] /\ stamp \in Key
FlowOK ==
  /\ pc \in [Flow -> {"idle", "stop", "tar", "upload", "record", "release", "confirm",
                      "service", "volume", "released", "left", "build", "fetch", "seed",
                      "unpack", "launch", "recovered", "failed", "wipe", "drop",
                      "forget", "deleted"}]
  /\ op \in [Flow -> {"none", "archive", "recover", "delete", "prune", "destroy"}]
  /\ key \in [Flow -> Key] /\ todo \in [Flow -> SUBSET Row]
  /\ upto \in [Flow -> Nat]
  /\ reading \in [Flow -> Content]
HistoryOK ==
  /\ due \in [Flow -> Content] /\ clean \in [Flow -> BOOLEAN]
  /\ owed \in SUBSET Nat /\ lost \in SUBSET Key /\ spoilt \in BOOLEAN
  /\ worlds \in Nat /\ troubles \in Nat
TypeOK == ServerOK /\ CatalogueOK /\ FlowOK /\ HistoryOK

\* LATEST_QUERY: the newest row of the name.
Newest(r) == r \in rows /\ \A q \in rows : q.id <= r.id

\* A server up, paused or shut down with up to two archives of earlier servers
\* of its name; or none, with an archive that is the one copy of its world.
Init ==
  /\ \/ /\ svc = TRUE /\ vol = 2 /\ worlds = 2 /\ owed = {}
        /\ \/ pod = "up" /\ game \in BOOLEAN
           \/ pod = "none" /\ game = FALSE
        /\ serial \in 0..2
     \/ /\ svc = FALSE /\ vol = None /\ worlds = 4 /\ pod = "none" /\ game = FALSE
        /\ serial \in 1..2 /\ owed = {serial + 2}
  /\ memory = 2
  /\ rows = {[id |-> i, key |-> i] : i \in 1..serial}
  /\ tarball = [k \in Key |-> IF k \in 1..serial THEN k + 2 ELSE None]
  /\ stamp = serial
  /\ pc = [f \in Flow |-> "idle"] /\ op = [f \in Flow |-> "none"]
  /\ key = [f \in Flow |-> 0] /\ todo = [f \in Flow |-> {}]
  /\ upto = [f \in Flow |-> 0]
  /\ reading = [f \in Flow |-> None] /\ due = [f \in Flow |-> None]
  /\ clean = [f \in Flow |-> TRUE] /\ lost = {} /\ spoilt = FALSE
  /\ troubles = MaxTroubles

Trouble == troubles > 0 /\ troubles' = troubles - 1
Calm == UNCHANGED troubles
Goto(f, point) == pc' = [pc EXCEPT ![f] = point]
At(f, o, point) == op[f] = o /\ pc[f] = point

Over == {"released", "left", "recovered", "failed", "deleted"}
Active(f) == pc[f] \notin {"idle"} \cup Over

\* What a flow changes under the others' hands.
Disturbs(f) == clean' = [g \in Flow |-> clean[g] /\ (g = f \/ ~Active(g))]

\* The game saves its world to the volume, as long as there is one.
Save == vol' = IF game /\ vol # None THEN memory ELSE vol

\* A game that starts loads the volume; on an empty one it makes a new world.
Loads ==
  /\ game' = TRUE
  /\ IF vol \in {Blank, None}
       THEN worlds < MaxWorlds /\ worlds' = worlds + 1 /\ memory' = worlds'
       ELSE memory' = vol /\ UNCHANGED worlds
  /\ UNCHANGED vol

------------------------------------------------------------------------------
(* The players, and other commands on the server.                             *)

Play ==
  /\ game /\ memory # Torn /\ worlds < MaxWorlds
  /\ worlds' = worlds + 1 /\ memory' = worlds'
  /\ UNCHANGED <<svc, pod, game, vol, catalogue, bucket, flow, history, troubles>>

\* SIGTERM reaches the supervisor, which stops the game, which saves.  Streams to
\* and from it break.
PodEnds ==
  /\ pod = "going" /\ pod' = "none" /\ game' = FALSE /\ Save
  /\ reading' = [f \in Flow |-> IF pc[f] \in {"upload", "unpack"} THEN None ELSE reading[f]]
  /\ UNCHANGED <<svc, memory, catalogue, bucket, pc, op, key, todo, upto, history, worlds,
                 troubles>>

\* /start, warm or cold: a game that runs writes to what is being unpacked.
SomebodyStarts ==
  /\ svc /\ ~game /\ pod # "going" /\ Trouble
  /\ pod' = "up" /\ Loads /\ Disturbs(None)
  /\ reading' = [f \in Flow |-> IF pc[f] = "unpack" /\ reading[f] # None THEN Torn ELSE reading[f]]
  /\ UNCHANGED <<svc, catalogue, bucket, pc, op, key, todo, upto, due, owed, lost, spoilt>>

\* /stop, or /shutdown.
SomebodyStops ==
  /\ pod = "up" /\ Trouble
  /\ \/ game /\ game' = FALSE /\ Save /\ UNCHANGED pod
     \/ pod' = "going" /\ UNCHANGED <<game, vol>>
  /\ Disturbs(None)
  /\ UNCHANGED <<svc, memory, catalogue, bucket, flow, due, owed, lost, worlds, spoilt>>

\* A create takes the name.
SomebodyCreates ==
  /\ ~svc /\ pod = "none" /\ vol = None /\ worlds < MaxWorlds /\ Trouble
  /\ svc' = TRUE /\ pod' = "up" /\ game' = TRUE /\ vol' = Blank
  /\ worlds' = worlds + 1 /\ memory' = worlds'
  /\ Disturbs(None)
  /\ UNCHANGED <<catalogue, bucket, flow, due, owed, lost, spoilt>>

------------------------------------------------------------------------------
(* run_archive.                                                               *)

Begins(f, o, point) ==
  /\ pc[f] = "idle" /\ op' = [op EXCEPT ![f] = o] /\ Goto(f, point)

\* ensure_pod_reachable, with the cold start of a server that is down.
ArchiveBegins(f) ==
  /\ svc /\ pod # "going"
  /\ Begins(f, "archive", "stop")
  /\ IF pod = "none" THEN pod' = "up" /\ Loads /\ Disturbs(f)
                     ELSE UNCHANGED <<pod, game, vol, memory, clean, worlds>>
  /\ Calm
  /\ UNCHANGED <<svc, catalogue, bucket, key, todo, upto, reading, due, owed, lost, spoilt>>

\* stop_for_snapshot: the world the game has saved is the one to keep.
StopForSnapshot(f) ==
  /\ pc[f] = "stop" /\ pod = "up"
  /\ game' = FALSE /\ Save
  /\ due' = [due EXCEPT ![f] = vol']
  /\ IF game THEN Disturbs(f) ELSE UNCHANGED clean
  /\ Goto(f, "tar") /\ Calm
  /\ UNCHANGED <<svc, pod, memory, catalogue, bucket, op, key, todo, upto, reading, owed,
                 lost, worlds, spoilt>>

\* A pod that is gone or does not answer.
ArchiveFails(f) ==
  /\ pc[f] \in {"stop", "tar"}
  /\ \/ pod # "up" /\ Calm
     \/ Trouble
  /\ Goto(f, "failed")
  /\ UNCHANGED <<server, catalogue, bucket, op, key, todo, upto, reading, history, worlds>>

\* archive_keys, in seconds: two archives under way may share a key.
Stamps == {stamp + 1} \cup {key[g] : g \in {h \in Flow : pc[h] = "upload"}}

\* open_archive_stream: tar begins to read.
OpenStream(f) ==
  /\ pc[f] = "tar" /\ pod = "up"
  /\ stamp' \in Stamps \cap (stamp..MaxKey)
  /\ key' = [key EXCEPT ![f] = stamp']
  /\ reading' = [reading EXCEPT ![f] = vol]
  /\ IF stamp' = stamp + 1 THEN UNCHANGED <<spoilt, lost>>
     ELSE spoilt' = TRUE /\ lost' = lost \cup {stamp'}
  /\ Goto(f, "upload") /\ Calm
  /\ UNCHANGED <<server, catalogue, tarball, op, todo, upto, due, clean, owed, worlds>>

\* What tar has read: half of it, if the volume changed meanwhile.
Stored(f) == [tarball EXCEPT ![key[f]] = IF vol = reading[f] THEN vol ELSE Torn]

\* upload_stream, from a supervisor that lasted until tar had read it all.
Upload(f) ==
  /\ pc[f] = "upload" /\ reading[f] # None
  /\ tarball' = Stored(f)
  /\ Goto(f, "record") /\ Calm
  /\ UNCHANGED <<server, catalogue, stamp, op, key, todo, upto, reading, history, worlds>>

\* tar fails half-way: archive_out logs it and ends the stream like any other.
UploadTruncated(f) ==
  /\ pc[f] = "upload" /\ reading[f] # None /\ Trouble
  /\ tarball' = [tarball EXCEPT ![key[f]] = Torn]
  /\ spoilt' = TRUE
  /\ Goto(f, "record")
  /\ UNCHANGED <<server, catalogue, stamp, op, key, todo, upto, reading, due, clean, owed,
                 lost, worlds>>

\* Mutant: the row's id is not taken off the serial.
InsertUnnumbered(f) ==
  /\ rows' = rows \cup {[id |-> serial + 1, key |-> key[f]]}
  /\ owed' = {} /\ UNCHANGED serial

\* ArchiveStore::insert: the newest row of the name, which supersedes the others.
Insert(f) ==
  /\ serial' = serial + 1
  /\ rows' = rows \cup {[id |-> serial', key |-> key[f]]}
  /\ owed' = {}

\* put_manifest, then the row.
Record(f) ==
  /\ pc[f] = "record" /\ Insert(f)
  /\ Goto(f, "release") /\ Calm
  /\ UNCHANGED <<server, bucket, op, key, todo, upto, reading, due, clean, lost, worlds, spoilt>>

\* A pod that goes under tar, or an upload or insert that reports an error and
\* may have been carried out: the error ends the flow, and the object stays.
ArchiveBreaks(f) ==
  /\ \/ /\ pc[f] = "upload" /\ reading[f] = None /\ Calm
        /\ UNCHANGED <<tarball, catalogue, owed>>
     \/ /\ pc[f] = "upload" /\ reading[f] # None /\ Trouble
        /\ tarball' \in {tarball, Stored(f)} /\ UNCHANGED <<catalogue, owed>>
     \/ /\ pc[f] = "record" /\ Trouble
        /\ UNCHANGED <<tarball, catalogue, owed>>
     \/ /\ pc[f] = "record" /\ Trouble /\ Insert(f) /\ UNCHANGED tarball
  /\ lost' = lost \cup {key[f]}
  /\ Goto(f, "left")
  /\ UNCHANGED <<server, stamp, op, key, todo, upto, reading, due, clean, worlds, spoilt>>

------------------------------------------------------------------------------
(* destroy_instance: the end of an archive, the clean-up of a recovery that   *)
(* failed, and a command of its own.                                          *)

DestroyBegins(f) ==
  /\ svc /\ Begins(f, "destroy", "release") /\ Calm
  /\ UNCHANGED <<server, catalogue, bucket, key, todo, upto, reading, history, worlds>>

After(f) == IF op[f] = "recover" THEN "failed" ELSE "released"

\* Without a Service there is nothing to destroy.
NothingToRelease(f) ==
  /\ pc[f] = "release" /\ ~svc
  /\ Goto(f, After(f)) /\ Calm
  /\ UNCHANGED <<server, catalogue, bucket, op, key, todo, upto, reading, history, worlds>>

DeleteServer(f) ==
  /\ pc[f] = "release" /\ svc
  /\ pod' = IF pod = "up" THEN "going" ELSE pod
  /\ Disturbs(f)
  /\ Goto(f, "confirm") /\ Calm
  /\ UNCHANGED <<svc, game, vol, memory, catalogue, bucket, op, key, todo, upto, reading, due,
                 owed, lost, worlds, spoilt>>

ConfirmGone(f) ==
  /\ pc[f] = "confirm" /\ pod = "none"
  /\ Goto(f, "service") /\ Calm
  /\ UNCHANGED <<server, catalogue, bucket, op, key, todo, upto, reading, history, worlds>>

DestroyService(f) ==
  /\ pc[f] = "service"
  /\ svc' = FALSE
  /\ Disturbs(f)
  /\ Goto(f, "volume") /\ Calm
  /\ UNCHANGED <<pod, game, vol, memory, catalogue, bucket, op, key, todo, upto, reading, due,
                 owed, lost, worlds, spoilt>>

\* The world goes.  An archive that nobody disturbed, and that no later one has
\* superseded, now holds its one copy.
DestroyVolume(f) ==
  /\ pc[f] = "volume"
  /\ vol' = None
  /\ owed' = IF /\ op[f] = "archive" /\ clean[f] /\ ~spoilt
               /\ \E r \in rows : Newest(r) /\ r.key = key[f]
               THEN owed \cup {due[f]} ELSE owed
  /\ Disturbs(f)
  /\ Goto(f, After(f)) /\ Calm
  /\ UNCHANGED <<svc, pod, game, memory, catalogue, bucket, op, key, todo, upto, reading, due,
                 lost, worlds, spoilt>>

\* Blocked, or a failing call: ArchivedNotReleased, or an error that is logged.
ReleaseFails(f) ==
  /\ pc[f] \in {"release", "confirm", "service", "volume"}
  /\ \/ pc[f] = "confirm" /\ pod # "none" /\ Calm
     \/ Trouble
  /\ Goto(f, "left")
  /\ UNCHANGED <<server, catalogue, bucket, op, key, todo, upto, reading, history, worlds>>

------------------------------------------------------------------------------
(* run_recover.                                                               *)

\* The newest archive of a name that nothing holds.
RecoverBegins(f) ==
  /\ ~svc /\ pod = "none"
  /\ \E r \in rows : Newest(r) /\ key' = [key EXCEPT ![f] = r.key]
  /\ \/ owed = {} /\ UNCHANGED due
     \/ \E w \in owed : due' = [due EXCEPT ![f] = w]
  /\ Begins(f, "recover", "build") /\ Calm
  /\ UNCHANGED <<server, catalogue, bucket, todo, upto, reading, clean, owed, lost,
                 worlds, spoilt>>

\* Mutant: a recovered server is provisioned like a new one, not paused.
BuildUnpaused(f) ==
  /\ pc[f] = "build" /\ ~svc /\ pod = "none" /\ vol = None
  /\ svc' = TRUE /\ pod' = "up" /\ game' = TRUE /\ vol' = Blank
  /\ Disturbs(f)
  /\ Goto(f, "fetch") /\ Calm
  /\ UNCHANGED <<memory, catalogue, bucket, op, key, todo, upto, reading, due, owed,
                 lost, worlds, spoilt>>

\* provision_paused_instance: Service, empty volume and a pod that holds the game.
Build(f) ==
  /\ pc[f] = "build" /\ ~svc /\ pod = "none" /\ vol = None
  /\ svc' = TRUE /\ pod' = "up" /\ game' = FALSE /\ vol' = Blank
  /\ Disturbs(f)
  /\ Goto(f, "fetch") /\ Calm
  /\ UNCHANGED <<memory, catalogue, bucket, op, key, todo, upto, reading, due, owed,
                 lost, worlds, spoilt>>

\* The name was taken meanwhile, or the create was refused; or a volume of that
\* name is still there, and goes with the roll-back.
BuildFails(f) ==
  /\ pc[f] = "build"
  /\ \/ svc \/ pod # "none"
     \/ vol # None
     \/ troubles > 0
  /\ troubles' = IF svc \/ pod # "none" \/ vol # None THEN troubles ELSE troubles - 1
  /\ vol' = IF svc \/ pod # "none" THEN vol ELSE None
  /\ Disturbs(f)
  /\ Goto(f, "left")
  /\ UNCHANGED <<svc, pod, game, memory, catalogue, bucket, op, key, todo, upto, reading,
                 due, owed, lost, worlds, spoilt>>

\* wait_for_control_reachable, download_stream.
Fetch(f) ==
  /\ pc[f] = "fetch" /\ pod = "up" /\ tarball[key[f]] # None
  /\ reading' = [reading EXCEPT ![f] = tarball[key[f]]]
  /\ Goto(f, "seed") /\ Calm
  /\ UNCHANGED <<server, catalogue, bucket, op, key, todo, upto, history, worlds>>

\* The object is gone, or a call fails: an error, and the server stays as it is.
FetchFails(f) ==
  /\ pc[f] = "fetch"
  /\ \/ tarball[key[f]] = None /\ Calm
     \/ Trouble
  /\ Goto(f, "left")
  /\ UNCHANGED <<server, catalogue, bucket, op, key, todo, upto, reading, history, worlds>>

\* push_archive_stream: tar begins to unpack into the volume, without a purge.
Seed(f) ==
  /\ pc[f] = "seed" /\ pod = "up" /\ vol # None
  /\ vol' = Torn
  /\ reading' = [reading EXCEPT ![f] = IF vol = Blank /\ ~game THEN @ ELSE Torn]
  /\ Disturbs(f)
  /\ Goto(f, "unpack") /\ Calm
  /\ UNCHANGED <<svc, pod, game, memory, catalogue, bucket, op, key, todo, upto, due,
                 owed, lost, worlds, spoilt>>

Unpack(f) ==
  /\ pc[f] = "unpack" /\ reading[f] # None
  /\ vol' = reading[f]
  /\ Disturbs(f)
  /\ Goto(f, "launch") /\ Calm
  /\ UNCHANGED <<svc, pod, game, memory, catalogue, bucket, op, key, todo, upto, reading,
                 due, owed, lost, worlds, spoilt>>

\* start_and_wait: a game that runs already is left alone.
Launch(f) ==
  /\ pc[f] = "launch" /\ pod = "up"
  /\ IF game THEN UNCHANGED <<game, vol, memory, worlds>> ELSE Loads
  /\ Disturbs(f)
  /\ Goto(f, "recovered") /\ Calm
  /\ UNCHANGED <<svc, pod, catalogue, bucket, op, key, todo, upto, reading, due, owed,
                 lost, spoilt>>

\* RecoverOutcome::Failed: the half-built server is destroyed.
RecoverFails(f) ==
  /\ op[f] = "recover" /\ pc[f] \in {"fetch", "seed", "unpack", "launch"}
  /\ \/ pc[f] # "unpack" /\ pod # "up" /\ Calm
     \/ pc[f] = "unpack" /\ reading[f] = None /\ Calm
     \/ pc[f] # "fetch" /\ Trouble
  /\ Goto(f, "release")
  /\ UNCHANGED <<server, catalogue, bucket, op, key, todo, upto, reading, history, worlds>>

------------------------------------------------------------------------------
(* delete_archives and prune_archives.                                        *)

\* Whoever deletes a name's archives no longer wants the worlds in them.
DeleteBegins(f) ==
  /\ rows # {}
  /\ todo' = [todo EXCEPT ![f] = rows] /\ upto' = [upto EXCEPT ![f] = serial]
  /\ owed' = {} /\ Disturbs(f)
  /\ Begins(f, "delete", "wipe") /\ Calm
  /\ UNCHANGED <<server, catalogue, bucket, key, reading, due, lost, worlds, spoilt>>

\* Mutant: rows go by age alone.
PruneBeginsByAge(f) ==
  /\ \E n \in 1..serial : todo' = [todo EXCEPT ![f] = {r \in rows : r.id <= n}]
  /\ Begins(f, "prune", "wipe") /\ Calm
  /\ UNCHANGED <<server, catalogue, bucket, key, upto, reading, history, worlds>>

\* ROWS_TO_PRUNE: the rows up to some age, but for the newest of the name.
PruneBegins(f) ==
  /\ \E n \in 1..serial :
       todo' = [todo EXCEPT ![f] = {r \in rows : r.id <= n /\ ~Newest(r)}]
  /\ Begins(f, "prune", "wipe") /\ Calm
  /\ UNCHANGED <<server, catalogue, bucket, key, upto, reading, history, worlds>>

\* delete_object of the pair of a row; a delete takes the newest first.
Wipe(f, r) ==
  /\ pc[f] = "wipe" /\ r \in todo[f]
  /\ op[f] = "delete" => \A q \in todo[f] : q.id <= r.id
  /\ tarball' = [tarball EXCEPT ![r.key] = None]
  /\ IF op[f] = "delete" THEN Disturbs(f) ELSE UNCHANGED clean
  /\ todo' = [todo EXCEPT ![f] = @ \ {r}]
  /\ key' = [key EXCEPT ![f] = r.key]
  /\ Goto(f, IF op[f] = "prune" THEN "drop" ELSE "wipe") /\ Calm
  /\ UNCHANGED <<server, catalogue, stamp, op, upto, reading, due, owed, lost, worlds, spoilt>>

\* Mutant: a failed delete of an object does not keep its row.
WipeFailsForgetting(f, r) ==
  /\ pc[f] = "wipe" /\ r \in todo[f] /\ Trouble
  /\ todo' = [todo EXCEPT ![f] = @ \ {r}] /\ key' = [key EXCEPT ![f] = r.key]
  /\ Goto(f, IF op[f] = "prune" THEN "drop" ELSE "wipe")
  /\ UNCHANGED <<server, catalogue, bucket, op, upto, reading, history, worlds>>

\* A delete stops there and keeps its rows; a prune goes on to the next row.
WipeFails(f, r) ==
  /\ pc[f] = "wipe" /\ r \in todo[f] /\ Trouble
  /\ op[f] = "delete" => \A q \in todo[f] : q.id <= r.id
  /\ \/ tarball' = [tarball EXCEPT ![r.key] = None]
     \/ UNCHANGED tarball
  /\ IF op[f] = "delete" THEN Disturbs(f) ELSE UNCHANGED clean
  /\ todo' = [todo EXCEPT ![f] = @ \ {r}]
  /\ Goto(f, IF op[f] = "prune" THEN "wipe" ELSE "left")
  /\ UNCHANGED <<server, catalogue, stamp, op, key, upto, reading, due, owed, lost,
                 worlds, spoilt>>

WipeEnds(f) ==
  /\ pc[f] = "wipe" /\ todo[f] = {}
  /\ Goto(f, IF op[f] = "delete" THEN "forget" ELSE "deleted") /\ Calm
  /\ UNCHANGED <<server, catalogue, bucket, op, key, todo, upto, reading, history, worlds>>

\* delete_by_key.  Its failure may still have dropped the row.
Drop(f) ==
  /\ pc[f] = "drop"
  /\ \/ rows' = {r \in rows : r.key # key[f]} /\ Calm
     \/ UNCHANGED rows /\ Trouble
  /\ Goto(f, "wipe")
  /\ UNCHANGED <<server, serial, bucket, op, key, todo, upto, reading, history, worlds>>

\* delete_name drops every row of the name, those added since it read them too.
Forget(f) ==
  /\ pc[f] = "forget"
  /\ \/ /\ rows' = {} /\ Goto(f, "deleted") /\ Calm
        /\ lost' = lost \cup {r.key : r \in {q \in rows : q.id > upto[f]}}
     \/ UNCHANGED <<rows, lost>> /\ Goto(f, "left") /\ Trouble
  /\ Disturbs(f)
  /\ owed' = {}
  /\ UNCHANGED <<server, serial, bucket, op, key, todo, upto, reading, due, worlds, spoilt>>

------------------------------------------------------------------------------

\* The bot dies, or its drain runs out: every flow ends where it is.
BotEnds ==
  /\ Trouble /\ \E f \in Flow : Active(f)
  /\ pc' = [f \in Flow |-> IF Active(f) THEN "left" ELSE pc[f]]
  /\ lost' = lost \cup {key[f] : f \in {g \in Flow : pc[g] = "record"}}
  /\ UNCHANGED <<server, catalogue, bucket, op, key, todo, upto, reading, due, clean,
                 owed, worlds, spoilt>>

Somebody == Play \/ PodEnds \/ SomebodyStarts \/ SomebodyStops \/ SomebodyCreates
RunArchive(f) ==
  \/ ArchiveBegins(f) \/ StopForSnapshot(f) \/ ArchiveFails(f) \/ OpenStream(f)
  \/ Upload(f) \/ UploadTruncated(f) \/ Record(f) \/ ArchiveBreaks(f)
DestroyInstance(f) ==
  \/ DestroyBegins(f) \/ NothingToRelease(f) \/ DeleteServer(f) \/ ConfirmGone(f)
  \/ DestroyService(f) \/ DestroyVolume(f) \/ ReleaseFails(f)
RunRecover(f) ==
  \/ RecoverBegins(f) \/ Build(f) \/ BuildFails(f) \/ Fetch(f) \/ FetchFails(f)
  \/ Seed(f) \/ Unpack(f) \/ Launch(f) \/ RecoverFails(f)
DropArchives(f) ==
  \/ DeleteBegins(f) \/ PruneBegins(f) \/ \E r \in todo[f] : Wipe(f, r) \/ WipeFails(f, r)
  \/ WipeEnds(f) \/ Drop(f) \/ Forget(f)

Next ==
  \/ Somebody \/ BotEnds
  \/ \E f \in Flow : RunArchive(f) \/ DestroyInstance(f) \/ RunRecover(f) \/ DropArchives(f)

Spec == Init /\ [][Next]_vars

------------------------------------------------------------------------------
(* Properties.                                                                *)

\* A world an archive took off the cluster is what the newest archive of its
\* name holds, whatever is pruned, fails or is archived beside it, until
\* somebody has the archives deleted.
ReleasedIsRecoverable ==
  \A w \in owed : \E r \in rows : Newest(r) /\ tarball[r.key] = w

\* A recovery that nobody disturbed starts the game on exactly the world that
\* was archived, and not before it is all there.
RoundTrip ==
  \A f \in Flow : At(f, "recover", "launch") /\ clean[f] /\ due[f] # None
                  => vol = due[f] /\ ~game

\* No tarball is left that the catalogue does not name, but for those of flows
\* that failed between upload and row, of rows that came under a delete, and of
\* archives that share a key.
NoOrphans ==
  \A k \in Key : tarball[k] # None =>
    \/ \E r \in rows : r.key = k
    \/ \E f \in Flow : At(f, "archive", "record") /\ key[f] = k
    \/ k \in lost

\* What an archive nobody disturbed is about to destroy is in the object of its
\* row: "The archive is durable in S3 + Postgres" (orchestrate.rs, before the
\* release).  Not so: a tar that breaks off is stored as if it were whole.
ArchivedMeansSaved ==
  \A f \in Flow : At(f, "archive", "volume") /\ clean[f] => tarball[key[f]] = due[f]
==============================================================================
