------------------------------- MODULE Backups -------------------------------
(* Rolling backups of one server and restores from them: the flows of         *)
(* crates/bot/src/backup over the bucket, and the archive routes of the       *)
(* supervisor (control.rs) over the volume the game keeps writing.  Nothing   *)
(* keeps two flows apart: the scheduled cycle, a /backup and two restores may *)
(* all be under way on the same server.                                       *)
EXTENDS Integers, FiniteSets

CONSTANTS
  Backup,       \* snapshots: of the scheduled cycle, or asked for
  Restore,      \* restores
  None,         \* no flow
  Retention,    \* backups kept
  MaxClock,     \* bound: seconds
  MaxWorlds,    \* bound: states of the world worth telling apart
  MaxTroubles   \* bound: calls that fail, connections that break, starts and
                \* stops by other commands, ends of the bot process

\* optional_positive_usize refuses a retention of zero.
ASSUME BackupsAssumption ==
  /\ Backup \cap Restore = {} /\ None \notin Backup \cup Restore
  /\ Retention \in Nat \ {0}
  /\ {MaxClock, MaxWorlds, MaxTroubles} \subseteq Nat

Op == Backup \cup Restore

\* A state of the world has a number; Torn is half of one, or of two.
Torn == 0

VARIABLES
  \* the server
  game, saves,  \* is the process running, does it save on its own
  memory, disk, \* the world as the process and as /data have it
  writer,       \* whose purge /data still is
  \* the bucket, by the stamp in the key
  tarballs, manifests,
  \* the flows: where each is, target.running, the stamp of its backup, what
  \* it has still to prune, the backup to restore and its download, and
  \* whether snapshot_target said BackedUp
  pc, wants, stamp, doomed, key, fetched, landed,
  \* the tar child of each flow's GET /archive, and its output
  tar, content,
  \* history: stamps ever stored; nobody has meddled with the flow's view of
  \* /data; a pause of the saves whose resume is not to come
  ever, clean, unpaired,
  \* clock and bounds
  now, worlds, troubles

server == <<game, saves, memory, disk, writer>>
bucket == <<tarballs, manifests, ever>>
flow == <<pc, wants, stamp, doomed, key, fetched, landed>>
tars == <<tar, content>>
bounds == <<now, worlds>>
vars == <<server, bucket, flow, tars, clean, unpaired, bounds, troubles>>

TypeOK ==
  /\ game \in {"running", "stopped"} /\ saves \in BOOLEAN
  /\ memory \in 0..worlds /\ disk \in 0..worlds
  /\ writer \in Op \cup {None}
  /\ DOMAIN tarballs \subseteq ever
  /\ \A k \in DOMAIN tarballs : tarballs[k] \in 0..worlds
  /\ manifests \subseteq 0..now /\ ever \subseteq 0..now
  /\ pc \in [Op -> {"idle", "picked", "opening", "quiesced", "uploading", "manifest",
                    "listing", "pruning", "stopping", "fetching", "purging",
                    "extracting", "starting", "ended"}]
  /\ wants \in [Op -> BOOLEAN] /\ landed \in [Op -> BOOLEAN]
  /\ stamp \in [Op -> 0..now] /\ key \in [Op -> 0..now]
  /\ doomed \in [Op -> SUBSET ever]
  /\ fetched \in [Op -> 0..worlds] /\ content \in [Op -> 0..worlds]
  /\ tar \in [Op -> {"none", "reading", "exited", "reaped"}]
  /\ clean \in [Op -> BOOLEAN] /\ unpaired \in BOOLEAN
  /\ now \in Nat /\ worlds \in Nat
  /\ troubles \in Nat

\* A server that has been backed up long enough to be at its retention limit,
\* and has been played on since.
Init ==
  /\ game = "running" /\ saves = TRUE
  /\ memory = Retention + 1 /\ disk = Retention + 1 /\ worlds = Retention + 1
  /\ writer = None
  /\ tarballs = [k \in 1..Retention |-> k]
  /\ manifests = 1..Retention /\ ever = 1..Retention
  /\ now = Retention + 1
  /\ pc = [o \in Op |-> "idle"] /\ wants = [o \in Op |-> FALSE]
  /\ stamp = [o \in Op |-> 0] /\ doomed = [o \in Op |-> {}]
  /\ key = [o \in Op |-> 0] /\ fetched = [o \in Op |-> Torn]
  /\ landed = [o \in Op |-> FALSE]
  /\ tar = [o \in Op |-> "none"] /\ content = [o \in Op |-> Torn]
  /\ clean = [o \in Op |-> FALSE] /\ unpaired = FALSE
  /\ troubles = MaxTroubles

Trouble == troubles > 0 /\ troubles' = troubles - 1
Calm == UNCHANGED troubles

Goto(o, point) == pc' = [pc EXCEPT ![o] = point]

------------------------------------------------------------------------------
(* The volume.                                                                *)

\* /data is rewritten: whoever reads it meanwhile gets some of both.
Rewrite(world, who) ==
  /\ disk' = world /\ writer' = who
  /\ content' = [o \in Op |-> IF tar[o] = "reading" THEN Torn ELSE content[o]]
Untouched == UNCHANGED <<disk, writer, content>>

\* Flows that rely on /data or on the game to stay as they left it.
Exposed ==
  {o \in Op : tar[o] = "reading"
     \/ pc[o] \in {"quiesced", "fetching", "purging", "extracting", "starting"}}

\* Somebody changes the server under the others' hands.
Disturbs(o) == clean' = [p \in Op |-> clean[p] /\ (p = o \/ p \notin Exposed)]

\* Players change the world the process holds ...
Play ==
  /\ game = "running" /\ memory # Torn /\ worlds < MaxWorlds
  /\ worlds' = worlds + 1 /\ memory' = worlds'
  /\ UNCHANGED <<game, saves, disk, writer, bucket, flow, tars, clean, unpaired,
                 now, troubles>>

\* ... which writes it out now and then, unless told not to.
Autosave ==
  /\ game = "running" /\ saves /\ disk # memory
  /\ Rewrite(memory, None)
  /\ UNCHANGED <<game, saves, memory, bucket, flow, tar, clean, unpaired, bounds,
                 troubles>>

\* A stop writes the world out; a start reads it, and saves again.
GameStops == game' = "stopped" /\ Rewrite(memory, None) /\ UNCHANGED <<saves, memory>>
GameStarts == game' = "running" /\ saves' = TRUE /\ memory' = disk /\ Untouched

Order(o) ==
  /\ Trouble
  /\ Disturbs(o)
  /\ UNCHANGED <<bucket, flow, tar, unpaired, bounds>>
SomebodyStops == game = "running" /\ GameStops /\ Order(None)
SomebodyStarts == game = "stopped" /\ GameStarts /\ Order(None)

------------------------------------------------------------------------------
(* snapshot_target.                                                           *)

\* run_backup_cycle has listed the server, or find_target has; the cycle may
\* have others to do first, while target.running grows old.
Begin(b) ==
  /\ pc[b] = "idle"
  /\ wants' = [wants EXCEPT ![b] = (game = "running")]
  /\ Goto(b, "opening")
  /\ UNCHANGED <<server, bucket, stamp, doomed, key, fetched, landed, tars, clean,
                 unpaired, bounds, troubles>>

\* snapshot_target is over for its caller: a restore goes on regardless.
SnapshotEnds(o, backedUp) ==
  /\ landed' = [landed EXCEPT ![o] = backedUp]
  /\ Goto(o, IF o \in Restore THEN "stopping" ELSE "ended")

\* The supervisor cannot be reached.
OpenFails(o) ==
  /\ pc[o] = "opening" /\ Trouble
  /\ SnapshotEnds(o, FALSE)
  /\ UNCHANGED <<server, bucket, wants, stamp, doomed, key, fetched, tars, clean,
                 unpaired, bounds>>

\* archive_out, quiesce_for_snapshot: save-off, save-all flush ...
Quiesce(o) ==
  /\ pc[o] = "opening" /\ wants[o] /\ game = "running"
  /\ saves' = FALSE /\ Rewrite(memory, None)
  /\ Disturbs(o)
  /\ Goto(o, "quiesced")
  /\ UNCHANGED <<game, memory, bucket, wants, stamp, doomed, key, fetched, landed,
                 tar, unpaired, bounds, troubles>>

\* ... which is best-effort: the console does not answer, or only the first
\* command got through.
QuiesceMisses(o) ==
  /\ pc[o] = "opening" /\ wants[o]
  /\ \/ game = "stopped" /\ Calm /\ UNCHANGED saves
     \/ game = "running" /\ Trouble /\ saves' \in {saves, FALSE}
  /\ Goto(o, "quiesced")
  /\ UNCHANGED <<game, memory, disk, writer, bucket, wants, stamp, doomed, key,
                 fetched, landed, tars, clean, unpaired, bounds>>

\* The connection breaks during the quiesce: the handler is dropped there.
Disconnect(o) ==
  /\ pc[o] = "quiesced" /\ Trouble
  /\ unpaired' = TRUE
  /\ SnapshotEnds(o, FALSE)
  /\ UNCHANGED <<server, bucket, wants, stamp, doomed, key, fetched, tars, clean,
                 bounds>>

\* Fault: the stamp is rounded up to the next second.
TarStartsRounded(o) ==
  /\ pc[o] = "quiesced" \/ (pc[o] = "opening" /\ ~wants[o])
  /\ tar' = [tar EXCEPT ![o] = "reading"]
  /\ content' = [content EXCEPT ![o] = disk]
  /\ stamp' = [stamp EXCEPT ![o] = now + 1]
  /\ clean' = [clean EXCEPT ![o] =
       /\ game = "stopped" \/ ~saves
       /\ disk # Torn /\ Exposed \subseteq {o}]
  /\ Goto(o, "uploading")
  /\ UNCHANGED <<server, bucket, wants, doomed, key, fetched, landed, unpaired,
                 bounds, troubles>>

\* Fault: saves come back with the response, not with the end of the tar.
TarStartsResumed(o) ==
  /\ pc[o] = "quiesced" \/ (pc[o] = "opening" /\ ~wants[o])
  /\ saves' = TRUE
  /\ tar' = [tar EXCEPT ![o] = "reading"]
  /\ content' = [content EXCEPT ![o] = disk]
  /\ stamp' = [stamp EXCEPT ![o] = now]
  /\ clean' = [clean EXCEPT ![o] =
       /\ game = "stopped" \/ ~saves
       /\ disk # Torn /\ Exposed \subseteq {o}]
  /\ Goto(o, "uploading")
  /\ UNCHANGED <<game, memory, disk, writer, bucket, wants, doomed, key, fetched,
                 landed, unpaired, bounds, troubles>>

\* spawn_create; the bot has the response, takes the stamp and uploads.
TarStarts(o) ==
  /\ pc[o] = "quiesced" \/ (pc[o] = "opening" /\ ~wants[o])
  /\ tar' = [tar EXCEPT ![o] = "reading"]
  /\ content' = [content EXCEPT ![o] = disk]
  /\ stamp' = [stamp EXCEPT ![o] = now]
  /\ clean' = [clean EXCEPT ![o] =
       /\ game = "stopped" \/ ~saves
       /\ disk # Torn /\ Exposed \subseteq {o}]
  /\ Goto(o, "uploading")
  /\ UNCHANGED <<server, bucket, wants, doomed, key, fetched, landed, unpaired,
                 bounds, troubles>>

\* tar cannot be spawned: the handler brings the saves back, if the console
\* takes that, and answers with an error.
SpawnFails(o) ==
  /\ pc[o] = "quiesced" \/ (pc[o] = "opening" /\ ~wants[o])
  /\ Trouble
  /\ \/ saves' = (saves \/ (wants[o] /\ game = "running")) /\ UNCHANGED unpaired
     \/ wants[o] /\ UNCHANGED saves /\ unpaired' = TRUE
  /\ Disturbs(o)
  /\ SnapshotEnds(o, FALSE)
  /\ UNCHANGED <<game, memory, disk, writer, bucket, wants, stamp, doomed, key, fetched,
                 tars, bounds>>

\* The child is done with /data, or fails, which ends the stream no differently.
TarExits(o) ==
  /\ tar[o] = "reading"
  /\ tar' = [tar EXCEPT ![o] = "exited"]
  /\ UNCHANGED <<server, bucket, flow, content, clean, unpaired, bounds, troubles>>

TarFails(o) ==
  /\ tar[o] = "reading" /\ Trouble
  /\ tar' = [tar EXCEPT ![o] = "exited"]
  /\ content' = [content EXCEPT ![o] = Torn]
  /\ clean' = [clean EXCEPT ![o] = FALSE]
  /\ UNCHANGED <<server, bucket, flow, unpaired, bounds>>

\* Fault: saves are resumed only after a tar that went well.
ResumeIfWhole(o) ==
  /\ tar[o] = "exited"
  /\ tar' = [tar EXCEPT ![o] = "reaped"]
  /\ saves' = (saves \/ (wants[o] /\ game = "running" /\ content[o] # Torn))
  /\ Disturbs(o)
  /\ UNCHANGED <<game, memory, disk, writer, content, bucket, flow, unpaired,
                 bounds, troubles>>

\* The reaper task: resume_after_snapshot.
Resume(o) ==
  /\ tar[o] = "exited"
  /\ tar' = [tar EXCEPT ![o] = "reaped"]
  /\ saves' = (saves \/ (wants[o] /\ game = "running"))
  /\ Disturbs(o)
  /\ UNCHANGED <<game, memory, disk, writer, content, bucket, flow, unpaired,
                 bounds, troubles>>

ResumeFails(o) ==
  /\ tar[o] = "exited" /\ wants[o] /\ Trouble
  /\ tar' = [tar EXCEPT ![o] = "reaped"]
  /\ unpaired' = TRUE
  /\ UNCHANGED <<server, content, bucket, flow, clean, bounds>>

\* complete_multipart: the object is there, whole, in place of any other of
\* that second.
Store(o) ==
  /\ tar[o] \in {"exited", "reaped"}
  /\ tarballs' = [k \in DOMAIN tarballs \cup {stamp[o]} |->
                   IF k = stamp[o] THEN content[o] ELSE tarballs[k]]
  /\ ever' = ever \cup {stamp[o]}

UploadCompletes(o) ==
  /\ pc[o] = "uploading" /\ Store(o)
  /\ Goto(o, "manifest")
  /\ UNCHANGED <<server, manifests, wants, stamp, doomed, key, fetched, landed, tars,
                 clean, unpaired, bounds, troubles>>

\* A part or the completion fails, perhaps for want of an answer only; the
\* upload is aborted, and the connection to the tar goes with it.
UploadFails(o) ==
  /\ pc[o] = "uploading" /\ Trouble
  /\ Store(o) \/ UNCHANGED <<tarballs, ever>>
  /\ clean' = [clean EXCEPT ![o] = FALSE]
  /\ SnapshotEnds(o, FALSE)
  /\ UNCHANGED <<server, manifests, wants, stamp, doomed, key, fetched, tars, unpaired,
                 bounds>>

PutManifest(o) ==
  /\ pc[o] = "manifest"
  /\ manifests' = manifests \cup {stamp[o]}
  /\ Goto(o, "listing")
  /\ UNCHANGED <<server, tarballs, ever, wants, stamp, doomed, key, fetched, landed,
                 tars, clean, unpaired, bounds, troubles>>

\* Fault: a missing manifest is no reason to report a failure.
ManifestShrugged(o) ==
  /\ pc[o] = "manifest" /\ Trouble
  /\ Goto(o, "listing")
  /\ UNCHANGED <<server, bucket, wants, stamp, doomed, key, fetched, landed, tars,
                 clean, unpaired, bounds>>

ManifestFails(o) ==
  /\ pc[o] = "manifest" /\ Trouble
  /\ manifests' \in {manifests, manifests \cup {stamp[o]}}
  /\ SnapshotEnds(o, FALSE)
  /\ UNCHANGED <<server, tarballs, ever, wants, stamp, doomed, key, fetched, tars,
                 clean, unpaired, bounds>>

------------------------------------------------------------------------------
(* prune_backups.                                                             *)

\* The stamps of a set after a given one.
After(stamps, k) == {x \in stamps : x > k}

\* Fault: one backup too few is kept.
KeysToPruneOneMore(stamps) ==
  {k \in stamps : Cardinality(After(stamps, k)) >= Retention - 1}

\* keys_to_prune: all but the newest Retention.
KeysToPrune(stamps) == {k \in stamps : Cardinality(After(stamps, k)) >= Retention}

\* list_tarballs ...
List(o) ==
  /\ pc[o] = "listing"
  /\ doomed' = [doomed EXCEPT ![o] = KeysToPrune(DOMAIN tarballs)]
  /\ Goto(o, "pruning")
  /\ UNCHANGED <<server, bucket, wants, stamp, key, fetched, landed, tars, clean,
                 unpaired, bounds, troubles>>

ListFails(o) ==
  /\ pc[o] = "listing" /\ Trouble
  /\ SnapshotEnds(o, TRUE)
  /\ UNCHANGED <<server, bucket, wants, stamp, doomed, key, fetched, tars, clean,
                 unpaired, bounds>>

Oldest(o, k) == k \in doomed[o] /\ \A x \in doomed[o] : k <= x

\* ... then delete one after the other, each with its manifest, which nobody
\* looks at without its tarball; what fails is passed over.
Delete(o) ==
  /\ pc[o] = "pruning"
  /\ \E k \in doomed[o] :
       /\ Oldest(o, k)
       /\ doomed' = [doomed EXCEPT ![o] = @ \ {k}]
       /\ tarballs' = [x \in DOMAIN tarballs \ {k} |-> tarballs[x]]
       /\ \/ Calm /\ manifests' = manifests \ {k}
          \/ Trouble /\ UNCHANGED manifests
  /\ UNCHANGED <<server, ever, pc, wants, stamp, key, fetched, landed, tars, clean,
                 unpaired, bounds>>

DeleteFails(o) ==
  /\ pc[o] = "pruning" /\ Trouble
  /\ \E k \in doomed[o] :
       /\ Oldest(o, k)
       /\ doomed' = [doomed EXCEPT ![o] = @ \ {k}]
       /\ \/ UNCHANGED tarballs
          \/ tarballs' = [x \in DOMAIN tarballs \ {k} |-> tarballs[x]]
  /\ UNCHANGED <<server, manifests, ever, pc, wants, stamp, key, fetched, landed, tars,
                 clean, unpaired, bounds>>

PruneEnds(o) ==
  /\ pc[o] = "pruning" /\ doomed[o] = {}
  /\ SnapshotEnds(o, TRUE)
  /\ UNCHANGED <<server, bucket, wants, stamp, doomed, key, fetched, tars, clean,
                 unpaired, bounds, troubles>>

------------------------------------------------------------------------------
(* run_restore.                                                               *)

\* list_backups: a backup with both its halves is picked, then confirmed.
Visible == DOMAIN tarballs \cap manifests
Pick(r) ==
  /\ pc[r] = "idle"
  /\ \E k \in Visible : key' = [key EXCEPT ![r] = k]
  /\ Goto(r, "picked")
  /\ UNCHANGED <<server, bucket, wants, stamp, doomed, fetched, landed, tars, clean,
                 unpaired, bounds, troubles>>

\* The pod is up, and find_target knows it: the safety backup begins ...
RestoreBegins(r) ==
  /\ pc[r] = "picked"
  /\ wants' = [wants EXCEPT ![r] = (game = "running")]
  /\ Goto(r, "opening")
  /\ UNCHANGED <<server, bucket, stamp, doomed, key, fetched, landed, tars, clean,
                 unpaired, bounds, troubles>>

\* ... or it does not, and there is none.
SafetySkipped(r) ==
  /\ pc[r] = "picked" /\ Trouble
  /\ Goto(r, "stopping")
  /\ UNCHANGED <<server, bucket, wants, stamp, doomed, key, fetched, landed, tars,
                 clean, unpaired, bounds>>

\* From here on the flow answers for /data, if nobody else is at it.
Alone(r) == clean' = [p \in Op |->
  IF p = r THEN Exposed \subseteq {r} ELSE clean[p] /\ p \notin Exposed]

\* Fault: the restore does not wait for the game to be down.
StopSkipped(r) ==
  /\ pc[r] = "stopping"
  /\ Alone(r)
  /\ Goto(r, "fetching")
  /\ UNCHANGED <<server, bucket, wants, stamp, doomed, key, fetched, landed, tars,
                 unpaired, bounds, troubles>>

\* stop_for_snapshot ...
StopForSnapshot(r) ==
  /\ pc[r] = "stopping"
  /\ IF game = "running" THEN GameStops ELSE UNCHANGED <<server, content>>
  /\ Alone(r)
  /\ Goto(r, "fetching")
  /\ UNCHANGED <<bucket, wants, stamp, doomed, key, fetched, landed, tar, unpaired,
                 bounds, troubles>>

\* ... fails, or its answer is lost.
StopFails(r) ==
  /\ pc[r] = "stopping" /\ Trouble
  /\ \/ UNCHANGED <<server, content, clean>>
     \/ game = "running" /\ GameStops /\ Disturbs(r)
  /\ Goto(r, "ended")
  /\ UNCHANGED <<bucket, wants, stamp, doomed, key, fetched, landed, tar, unpaired,
                 bounds>>

\* download_stream.
Fetch(r) ==
  /\ pc[r] = "fetching" /\ key[r] \in DOMAIN tarballs
  /\ fetched' = [fetched EXCEPT ![r] = tarballs[key[r]]]
  /\ Goto(r, "purging")
  /\ UNCHANGED <<server, bucket, wants, stamp, doomed, key, landed, tars, clean,
                 unpaired, bounds, troubles>>

\* An error of any of the next steps leaves the game stopped.
FetchFails(r) ==
  /\ pc[r] = "fetching"
  /\ IF key[r] \in DOMAIN tarballs THEN Trouble ELSE Calm
  /\ Goto(r, "ended")
  /\ UNCHANGED <<server, bucket, wants, stamp, doomed, key, fetched, landed, tars,
                 clean, unpaired, bounds>>

\* archive_in: purge, unpack from the stream, answer.
Purge(r) ==
  /\ pc[r] = "purging"
  /\ Rewrite(Torn, r) /\ Disturbs(r)
  /\ Goto(r, "extracting")
  /\ UNCHANGED <<game, saves, memory, bucket, wants, stamp, doomed, key, fetched,
                 landed, tar, unpaired, bounds, troubles>>

PurgeFails(r) ==
  /\ pc[r] = "purging" /\ Trouble
  /\ \/ UNCHANGED <<disk, writer, content, clean>>
     \/ Rewrite(Torn, None) /\ Disturbs(r)
  /\ Goto(r, "ended")
  /\ UNCHANGED <<game, saves, memory, bucket, wants, stamp, doomed, key, fetched,
                 landed, tar, unpaired, bounds>>

Extract(r) ==
  /\ pc[r] = "extracting"
  /\ Rewrite(IF writer = r THEN fetched[r] ELSE Torn, None) /\ Disturbs(r)
  /\ Goto(r, "starting")
  /\ UNCHANGED <<game, saves, memory, bucket, wants, stamp, doomed, key, fetched,
                 landed, tar, unpaired, bounds, troubles>>

ExtractFails(r) ==
  /\ pc[r] = "extracting" /\ Trouble
  /\ Rewrite(Torn, None) /\ Disturbs(r)
  /\ Goto(r, "ended")
  /\ UNCHANGED <<game, saves, memory, bucket, wants, stamp, doomed, key, fetched,
                 landed, tar, unpaired, bounds>>

\* start_and_wait.
Start(r) ==
  /\ pc[r] = "starting"
  /\ IF game = "stopped" THEN GameStarts ELSE UNCHANGED <<server, content>>
  /\ Disturbs(r)
  /\ Goto(r, "ended")
  /\ UNCHANGED <<bucket, wants, stamp, doomed, key, fetched, landed, tar, unpaired,
                 bounds, troubles>>

StartFails(r) ==
  /\ pc[r] = "starting" /\ Trouble
  /\ Goto(r, "ended")
  /\ UNCHANGED <<server, bucket, wants, stamp, doomed, key, fetched, landed, tars,
                 clean, unpaired, bounds>>

------------------------------------------------------------------------------
\* The process ends, and every flow with it; tars end for want of a reader.
BotEnds ==
  /\ Trouble
  /\ unpaired' = (unpaired \/ \E o \in Op : pc[o] = "quiesced")
  /\ IF \E o \in Op : pc[o] = "extracting"
       THEN Rewrite(Torn, None) ELSE UNCHANGED <<disk, writer, content>>
  /\ clean' = [o \in Op |-> FALSE]
  /\ pc' = [o \in Op |-> "ended"]
  /\ UNCHANGED <<game, saves, memory, bucket, wants, stamp, doomed, key, fetched,
                 landed, tar, bounds>>

Tick ==
  /\ now < MaxClock /\ now' = now + 1
  /\ UNCHANGED <<server, bucket, flow, tars, clean, unpaired, worlds, troubles>>

Snapshot(o) ==
  \/ OpenFails(o) \/ Quiesce(o) \/ QuiesceMisses(o) \/ Disconnect(o) \/ TarStarts(o)
  \/ SpawnFails(o)
  \/ UploadCompletes(o) \/ UploadFails(o) \/ PutManifest(o) \/ ManifestFails(o)
  \/ List(o) \/ ListFails(o) \/ Delete(o) \/ DeleteFails(o) \/ PruneEnds(o)
TarChild(o) == TarExits(o) \/ TarFails(o) \/ Resume(o) \/ ResumeFails(o)
RunRestore(r) ==
  \/ Pick(r) \/ RestoreBegins(r) \/ SafetySkipped(r)
  \/ StopForSnapshot(r) \/ StopFails(r) \/ Fetch(r) \/ FetchFails(r)
  \/ Purge(r) \/ PurgeFails(r) \/ Extract(r) \/ ExtractFails(r)
  \/ Start(r) \/ StartFails(r)

Next ==
  \/ \E b \in Backup : Begin(b)
  \/ \E r \in Restore : RunRestore(r)
  \/ \E o \in Op : Snapshot(o) \/ TarChild(o)
  \/ Play \/ Autosave \/ SomebodyStops \/ SomebodyStarts \/ BotEnds \/ Tick

Spec == Init /\ [][Next]_vars

(* Fairness: a handler of the supervisor goes on, a tar that is read or whose *)
(* reader has gone ends, and the reaper task runs.                            *)
FairSpec ==
  /\ Spec
  /\ \A o \in Op : WF_vars(TarStarts(o)) /\ WF_vars(TarExits(o)) /\ WF_vars(Resume(o))

------------------------------------------------------------------------------
(* Properties.                                                                *)

\* Stored backups beyond a stamp.
Newer(k) == Cardinality(After(ever, k))

\* Whatever listings the prunes of overlapping flows work from, however old,
\* they leave the newest Retention backups there ever were.
NewestRetained == \A k \in ever : k \in DOMAIN tarballs \/ Newer(k) >= Retention

\* A flow that was told BackedUp (a restore: that it may promise an undo) has a
\* backup that can be listed and restored, until Retention later ones push it
\* out; uploads that overtake each other and clashing stamps included.
BackedUpIsKept ==
  \A o \in Op : landed[o] => stamp[o] \in Visible \/ Newer(stamp[o]) >= Retention

\* A backup of a paused or stopped game is one state of the world: the pause
\* outlasts the tar.  Promised only while no other flow pauses or resumes the
\* saves or rewrites /data and nobody starts or stops the game meanwhile (clean):
\* the code lets a second pause end the first and a restore run under the tar.
UndisturbedIsWhole ==
  \A o \in Op :
    pc[o] \in {"uploading", "manifest", "listing", "pruning"} /\ clean[o]
      => content[o] # Torn

\* What a restore is about to start is the backup it was asked for, to the
\* letter, whatever the game, its autosave and running backups did meanwhile.
\* Promised only where no other restore, start, stop, pause or resume fell
\* between (clean): nothing in the code keeps them out.
RestoreIsExact ==
  \A r \in Restore : pc[r] = "starting" /\ clean[r] => disk = fetched[r]

\* control.rs: saves are "re-enabled once `tar` finishes (in the reaper task)";
\* rcon.rs: "so saves are never left disabled".  But for a handler dropped in
\* its quiesce and a console that does not take the resume, that is so.
SavesComeBack ==
  game = "running" /\ ~saves ~> saves \/ game = "stopped" \/ unpaired

\* orchestrate.rs of run_restore: "Roll a live server back to one of its backups
\* (`tarball_key`), taking a safety backup of the current world first".  The key
\* came out of list_backups; with no other flow and no fault it is still there
\* when its time comes.
ListedBackupIsThere ==
  \A r \in Restore : pc[r] = "fetching" => key[r] \in DOMAIN tarballs
==============================================================================
