# A formal model of grizzly-gameservers

grizzly-gameservers runs multiplayer game servers for groups of friends on a
Kubernetes cluster with Agones.  Its user interface is *Gary*, an LLM agent in
Discord (and in the games' own chat) that creates, edits, restarts, backs up and
removes servers with tools.  This directory holds TLA+ models of its stateful
parts, the TLC runs that check them, and TLAPS proofs.

Contents: 1 the system; 2 the plan; 3 the modules; 4 the runs; 5 fairness; 6 the
proofs; 7 what is only model-checked, and what is not modelled.

## 1. The system

Two programs and a wire contract (`src/crates/`):

```
 Discord / in-game chat / HTTP operator / admin pages
        |  messages, commands                     (crates/bot)
        v
 Gary turn: session store -> model call -> tool round -> ...
        |            |               |                |
        | kube API   | S3, Postgres  | Valkey queue   | HTTP control API
        v            v               v                v   (crates/control-api)
 Agones GameServer, PVC   backups,   deferred tasks   supervisor, one per pod
 Service                  archives                    (crates/supervisor)
                                                      owns the game process
```

### Components, their state, operations and interactions

| Component | State it keeps | Operations | Talks to |
|---|---|---|---|
| Supervision loop (`supervisor/src/runner.rs`, `state.rs`, `process.rs`, `heartbeat.rs`, `readiness.rs`) | desired state, phase, child, crash window, heartbeat switch, control queue | launch, stop, start, restart, unexpected exit, ready, drain | game process, Agones SDK, bot through `control.rs` |
| Update on empty (`autoupdate.rs`, `occupancy.rs`) | empty streak | fold one occupancy reading, relaunch when due | the loop, through a one-slot channel |
| Launch log (`launch_log.rs`) | head and tail of each launch's output, files on disk | begin, push, settle, prune | the output pumps of every launch |
| File operations (`fs.rs`, `archive.rs`, `shell.rs`) | the `/data` volume, `.grizzly.bak` copies | read, write, edit, restore, tar out, untar in | bot; the game reads and writes the same files |
| Mod reconcile (`thunderstore/`) | the mod list, a cache of zips, the staged tree, the `resolved` file, the mods' settings | parse, resolve, download, stage, collect before every launch; sweep settings once the game is ready | package registry, the image's mirror, the loop |
| Server lifecycle (`bot/src/agones/`) | GameServer + PVC + Service per instance, all in Kubernetes; in the bot only a provision lock | provision, start, stop, restart, shut down, destroy, resize, list stranded volumes | kube API, supervisor |
| Backups and archives (`bot/src/backup/`) | tarballs and manifests in S3, archive rows in Postgres | backup cycle, snapshot, prune, restore, archive, recover, delete, expire | S3, Postgres, lifecycle, supervisor |
| Gary's turn (`bot/src/agent/`, `interrupt.rs`, `throttle.rs`) | transcript per channel, cancellation per channel, token buckets, permits | start, round, tool, stop, trim, expire | model endpoint, every tool |
| Gary's tools (`bot/src/discord/gary/`) | the pending confirmation, the last verified state | edit, restart, verify, roll back | lifecycle, file operations |
| Deferred tasks (`bot/src/defer/`, `kv.rs`) | a Valkey list per (server, condition), the registry of watchers | enqueue, wait, drain, run, retire, reconcile | supervisor, Valkey, Gary's turn |
| Watchdog (`bot/src/watchdog/`, `events/sampler.rs`) | per-instance streaks, latches and cooldowns, storm window | tick, fire, respond | sampler, deferred tasks, Gary's turn |
| Settings, memory, stores (`settings.rs`, `memory.rs`, `store.rs`, `signups.rs`) | rows in Postgres with a cached snapshot | load, set, clear | admin pages, commands |
| Surfaces (`discord/`, `ingame/`, `http/`, `admin/`) | sessions, CSRF tokens | authorise, route, render | Gary's turn |

### What is hard here

* One supervisor task runs each handler of a `select!` to the end, but the
  handlers await (a graceful stop, a back-off, the preparation of a launch), and
  probes, pumps, polls and clients go on meanwhile and reach the loop later, over
  channels that hold no launch number.
* The bot keeps no lock over an instance.  Kubernetes objects, S3 objects and
  Postgres rows are changed by several steps with a network call between each,
  beside a scheduled backup cycle and whatever else a turn or command does.
* Work crosses restarts: pods are recreated by Agones, the bot by every deploy.
  Deferred tasks and backups are durable, their watchers and locks are not.
* Requests have timeouts of their own while what they asked for goes on.

### What makes each component correct

* *Supervision loop*: a game is either held by the loop or being stopped; a stop
  is complete and only the operator ends it; crashes are neither lost nor counted
  twice, and only a real crash loop is condemned; every request is answered; what
  `/status` says is what the bot's verify-and-roll-back decisions may rely on.
* *Lifecycle*: no two instances hold a port; a name has one owner; a volume is
  deleted only with its owner's consent and never under a running pod; a failed
  provision leaves nothing behind.
* *Backups*: a server's volume is destroyed only once a complete archive is
  recorded; a restore leaves the old world or the new one; no S3 object is
  orphaned; the newest good backup is never pruned.
* *Deferred tasks*: a queued task is run once, in a batch, or its channel hears
  why not; watchers never leave a queue unwatched.
* *Watchdog*: every incident leaves one record; the same trouble wakes Gary at
  most once an hour; a recovered server is not reported.
* *Gary's turn*: one turn per channel; a stop reaches the turn it was meant for;
  a transcript always ends in an answer; a tool is never cut off half-way.
* *Mod reconcile*: a game runs with exactly what its list asks for; a list that
  stops the game costs nobody their settings; a pod comes back without the registry.
* *File operations and roll-back*: rolling back after a failed change brings back
  the last configuration that worked.

## 2. The plan

Modules, in the order they were written; 1 to 9 exist:

1. `SupervisorState`, `AutoUpdate`, `Supervisor`, `GameSlot`, `SupervisorProofs`:
   the heart of every running server, and the part every other one relies on.
2. `Defer`, `DeferProofs`: the deferred-task queue with its watchers, crashes of the
   bot and Valkey's expiry.
3. `Backups`, `BackupsProofs`: snapshots, pruning and restores of one server over its
   bucket and the volume the game keeps writing.
4. `Lifecycle`, `LifecycleProofs`: the servers of a guild against a Kubernetes API that
   fails between any two calls, with the reconciler of stranded servers.
5. `Archives`, `ArchivesProofs`: archive, recover, delete and prune at one server name.
6. `Watchdog`, `WatchdogProofs`: the sampler's passes, the detector, the queue and the responder.
7. `Turns`, `TurnsProofs`: the turns of one channel, its lock, its stop button, its transcript.
8. `ConfigGuard`, `ConfigGuardProofs`: edit, restart, verify and roll back over `fs.rs`'s
   copies.
9. `ModReconcile`: the mod list before a launch and the sweep behind it; its theorems are
   the second part of `SupervisorProofs`.
10. Left: sign-ups and settings (rows behind a cached snapshot), and the pure
    algorithms (port choice, the launch log's head and tail, sizing) against reference
    definitions.

Every safety property that holds in the runs has a theorem; liveness has none (section 7).

## 3. The modules

### SupervisorState, AutoUpdate: the pure transitions

`state.rs` and `autoupdate.rs` are synchronous state machines without I/O; the two
modules are their functions.  `SupervisorState` is a record with the fields the code
has (`desired`, `phase`, `pid`, `readied`, `restarts`, `crashes`) and one operator
per method (`OnStarted`, `OnReady`, `OnChildExit`, ...).  Two data abstractions:

* *Time.*  An `Instant` is kept as an age that saturates: a crash older than
  `CrashWindow` is `CrashWindow + 1`, an uptime is at most `UptimeCap`.  `Aged` adds
  one to every age, so a run need not bound time.  This is exact, because the code
  compares ages with those limits only.
* *Restart counter.*  `total_restarts` is a saturating `u32`; the model saturates
  at `RestartCap`.

`AutoUpdate` has `Streak(Since)` as an age up to `EmptyGrace` with `NoStreak` for
`None`, and `RelaunchDue` is the code's `idle_due` or `overdue`.

### Supervisor: the loop

`pc` says where the one runner task is: in its `select!` (`"loop"`) or at one of the
awaits inside a handler; `op` which handler that is.  An action is a handler up to
its next await, with every call in it that changes state:

| Action | Code |
|---|---|
| `StopWithoutChild`, `StopBegins`, `StartWithChild`, `StartBegins`, `RestartBegins` | `handle_request`: `do_stop`, `do_start`, `do_restart` up to `graceful_stop` or `relaunch` |
| `StopCompletes` | `graceful_stop` returning, and the rest of the stop |
| `LaunchSucceeds`, `LaunchRefused`, `LaunchFails` | `spawn_child` / `relaunch` with its three outcomes, at boot and later |
| `HandleUnexpectedExit`, `BackoffEnds` | `handle_unexpected_exit`, before and after its sleep |
| `SettleReady` | `settle_ready` |
| `SpawnOccupancyPoll`, `ObserveOnly`, `AutoUpdateBegins` | the occupancy tick and `maybe_auto_update` |
| `Drain` | the shutdown arm |
| `GameAccepts`, `GameExits`, `ProbeConnects`, `ProbeGivesUp`, `SignalReady`, `PollAnswers`, `Submit` | what runs beside the loop: the game, probes of every launch so far, log pumps, polls, control clients |
| `PodRecreated` | Agones, once the heartbeat is suspended |

`built` is history: the time since a launch last gave the slot a game.  The code has
no such clock; it goes by `uptime`, which `OnStarted` must set anew at every launch for
`BouncesOldBuilds` to hold, also for a reading taken before a bounce.
Exits a game makes while it is being stopped are part of `StopCompletes`: the
code cannot tell them from the kill.  Output handling, HTTP and RCON are left out.

### GameSlot: what the loop promises

One slot with three observables: is a game up, is one wanted, is the pod
condemned.  Games start only while wanted; the want is given up only by a stop;
the slot is condemned only with nothing up, and pardoned only while wanted.
`Supervisor` refines it through `INSTANCE GameSlot WITH up <- GameUp, wanted <-
(st.desired = "Running"), condemned <- ~beating`.

### Defer: the deferred-task queue

`run_when` queues a task for "when this server is empty" (or up).  The Valkey list
of one (server, condition) is durable; the watcher that waits for the condition is
a task of the bot, and the registry that says there is one is a map in memory.
The keys do not touch each other, so the module has one.  `queue` and `ttl` are
Valkey; `bot`, `reconcile`, `request`, `registered`, `pc`, `age`, `items` die with the
process; `runs`, `lost`, `expired` and `gaveUp` are history, for the properties.

| Action | Code |
|---|---|
| `Push`, `PushFails`, `Expire`, `ExpireFails`, `Watch` | `enqueue_and_watch`: `RPUSH`, `EXPIRE`, `ensure_watcher`, in between anything may happen |
| `Scan`, `ScanFails`, `Rearm` | `reconcile` at the first Ready of a process |
| `WaitEnds`, `WaitCancelled` | `wait_for_condition` returning, whatever it says, and the shutdown branch beside it |
| `Pop`, `PopNothing`, `PopFails` | `drain`, one `LPOP` at a time, so that another watcher's may come between |
| `RunBatch`, `AbandonBatch` | `run_batch` and `deregister` after it |
| `Retire`, `Recheck`, `RecheckFails`, `RegisterSilent` | retire, then re-check |
| `Stop`, `DrainEnds`, `Crash`, `ProcessStarts` | SIGTERM, the end of the drain (with or without work in flight), a kill, the Deployment |
| `Tick` | a unit of time for the ceilings and for the key's expiry |

A watcher goes by the call that spawned it: a push happens once, and `reconcile`
once a process.  A failing command may have reached Valkey.

### Backups: snapshots, pruning and restores

One server, its bucket and any number of flows: the scheduled cycle's turn at this
server, a backup somebody asked for, a restore.  Nothing in the code keeps flows
apart.  A state of the world is a number; `memory` is the one the game process
holds, `disk` the one in `/data`, `Torn` one that is half of something: what a tar
yields that reads while `/data` is rewritten, or that fails.  `writer` says whose
purge `/data` still is, so that two restores unpacking into it are told apart from
one.  A backup goes by the stamp in its key, in seconds: two of one second
overwrite each other.  `pc` is where a flow is, `tar` the child of its
`GET /archive` and the reaper task behind it, which outlive the flow.

| Action | Code |
|---|---|
| `Begin`, `OpenFails` | `run_backup_cycle` or `find_target` up to `snapshot_target`; `wants` is `target.running`, read then |
| `Quiesce`, `QuiesceMisses`, `Disconnect`, `TarStarts`, `SpawnFails` | `archive_out`: the pause, which may be missed, the handler dropped at its await, and a tar that cannot be spawned |
| `TarExits`, `TarFails`, `Resume`, `ResumeFails` | the child and the reaper with `resume_after_snapshot` |
| `UploadCompletes`, `UploadFails`, `PutManifest`, `ManifestFails` | `upload_stream` and `put_manifest`; a failing call may have been carried out |
| `List`, `ListFails`, `Delete`, `DeleteFails`, `PruneEnds` | `prune_backups`, one object pair at a time |
| `Pick`, `RestoreBegins`, `SafetySkipped`, `StopForSnapshot`, `StopFails`, `Fetch`, `FetchFails`, `Start`, `StartFails` | `run_restore` |
| `Purge`, `PurgeFails`, `Extract`, `ExtractFails` | `archive_in` |
| `Play`, `Autosave`, `SomebodyStops`, `SomebodyStarts` | players, the game, other commands |
| `BotEnds` | the bot killed or at the end of its drain: all flows end where they are |
| `Tick` | a second |

`ever`, `clean` and `unpaired` are history.  `clean` says that no other flow or
command changed the server while this flow relied on it to stay as it was, for the
properties that promise nothing otherwise: another flow's purge, pause or resume, a start
or a stop in between is excused by it, and the overlaps the code has nothing against
(a tar under a restore, a resume under a second tar) are reached and not forbidden.
`unpaired` says that a pause of the saves was left to nobody.  The game (it saves at its end, loads at its start, saves on its
own unless told not to) is external to `src/`, as is the volume under a reader.

### Lifecycle: the servers of a guild

A server is a Service (its record: name, ports, owner), a GameServer (it is meant to
be up) and a volume; Agones makes a pod of the GameServer.  `svc`, `gs`, `pod`, `pvc` are
the namespace, all that lasts; the bot has only `lock`, the provision lock.  Each
call to the API server is an action, and Agones, the kubelet, the other requests and
the reconciler act in between.  A failing call may have been carried out.

| Action | Code |
|---|---|
| `BeginCreate`, `TakeLock`, `CheckName`, `CheckCaps`, `CreateService`, `CreateServiceFails`, `CreateVolume`, `CreateVolumeFails`, `CreateServer`, `CreateServerFails` | `provision_instance`, `provision_under_lock`, `create_storage_and_server` |
| `UndoServer`, `UndoVolume`, `UndoService`, `UndoFails` | `best_effort_remove` |
| `BeginStart`, `TakeLock`, `CheckLoad`, `FindService`, `CreateServer` | the cold starts of commands, tools and panel: the lock, `cold_start_refusal`, `begin_start` |
| `BeginRevive`, `FindService`, `CreateServer` | `ensure_pod_reachable`: `begin_start` without lock and caps |
| `BeginShutdown`, `BeginDestroy`, `DeleteServer`, `DeleteServerFails`, `ConfirmGone`, `GiveUpConfirming`, `DestroyService`, `DestroyVolume`, `DestroyFails` | `shutdown_instance`, `destroy_instance`, `delete_and_confirm` |
| `Refuse` | a read that fails, no room in the namespace, no port left |
| `Scan`, `RecoverBegins`, `ScanEnds` | `run_stranded_cycle`, `stranded_instances` |
| `ReadIntent`, `ForcePod`, `RecoverDeletes`, `RecoverConfirms`, `RecoverGivesUp`, `RecycleFinds`, `RecycleStarts`, `RecoverFails` | `recover_instance`, `recycle_instance` with `begin_start` |
| `AgonesMakesPod`, `PodTerminates`, `AgonesReleases`, `NodeDies`, `NodeReturns` | the cluster: external |
| `BotEnds` | the bot dies with all it was at |

A pod is `"stuck"` once it has been terminating for the dwell time on a node that does
not answer.  `Refuse` stands for what depends on the port band and the namespace's
quota.  Every pod is a unit of load, so `guild_usage` counts pods.  `old`, `clean`,
`meant`, `owed` and `down` are history: whether the pod a request found is still
there, whether it had a whole server to itself, which servers are meant to run, were
put off by the reconciler, or were reported down.  `left` is history too: what a failed
create has left of its own, a Service whose create failed for the caller but took effect
(after which `provision_under_lock` returns without a roll-back), or an object whose undoing
failed.  `AnswersHold` allows a failed create a whole server, nothing, or no more than
that; nothing in the code removes it later, against the word "rolling back".  What
`StrandedComesBack` excuses is a server the reconciler put off, found without a Service or
let go after it forced the pod out.

### Archives: archive, recover, delete, prune

One server name.  `svc`, `pod`, `game`, `vol`, `memory` are the server in the cluster, `rows`
(with their `serial`) the catalogue in Postgres, `tarball` and `stamp` the bucket; each flow has
`pc`, `op`, the `key` it made or picked, and `todo`, `upto`, `reading`.  The history variables say
what a flow must save or bring back (`due`), whether nobody else has touched the server or
the archives under it (`clean`), which worlds have their one copy in the newest archive
(`owed`), and where a known weakness has struck (`lost`, `spoilt`).

| Action | Code |
|---|---|
| `ArchiveBegins`, `StopForSnapshot`, `OpenStream`, `Upload`, `UploadTruncated`, `Insert`, `Record`, `ArchiveFails`, `ArchiveBreaks`, `NothingToRelease` | `run_archive`; `UploadTruncated` is a tar that breaks off and is stored as if whole |
| `DestroyBegins`, `DeleteServer`, `ConfirmGone`, `DestroyService`, `DestroyVolume`, `ReleaseFails` | `destroy_instance`, alone or as the end of an archive |
| `RecoverBegins`, `Build`, `BuildFails`, `Fetch`, `FetchFails`, `Seed`, `Unpack`, `Launch`, `RecoverFails` | `run_recover` with the paused provision |
| `DeleteBegins`, `PruneBegins`, `Wipe`, `WipeFails`, `WipeEnds`, `Drop`, `Forget` | deletion of a name's archives, and of what exceeds the retention |
| `Play`, `PodEnds`, `SomebodyStarts`, `SomebodyStops`, `SomebodyCreates`, `BotEnds` | players, other commands, the end of the bot |

What the model met and the properties excuse: two archives of one second share a key
(whose tarball is then either's, and may outlive both rows);
`delete_name` beside an archive drops the row of an object it never wiped; a failing
`run_recover` leaves the half-built server holding the name; a volume left over from
before makes a recovery fail, and its roll-back deletes it; a start between tar and
destroy writes a world that is lost.

### Watchdog: from a poll to a turn

`life`, `restarts`, `gaveUp` are the pods as Agones shows them, `mode` the setting, `due` the servers
the pass of this tick has yet to visit, `watch` the detector's entry of each server, `queue` the
bounded channel, `pc`, `hand`, `stamp`, `starts` the responder with the storm guard's ring.  Times are
ages in ticks that saturate where the code stops comparing.  `recent`, `since`, `seen`, `turns`
and `owed` are history.

| Action | Code |
|---|---|
| `Tick`, `Observe`, `ObserveOff`, `Prune` | the sampler's timer, one instance's poll and reading folded by `observe` (`fold_restart_delta`, the latch, cooldowns, firing, `forward_incident`), the off mode, `prune` |
| `Receive`, `SettleAtOnce`, `RecordOnly`, `LeftToBatch`, `Suppressed`, `Proceed`, `Undeliverable`, `TurnBegins`, `TurnEnds` | `handle_incident` and `respond`: record, scope, storm guard, the wait for the gateway, the turn |
| `SamplerPanics`, `ResponderPanics`, `BotRestarts` | `spawn_sampler`'s fresh detector, the responder's supervision, a deploy |
| `GameExits`, `Repaired`, `Condemned`, `Recreated`, `Removed`, `ModeSet` | the world the passes look at |

Met and excused: an Unhealthy dropped at a full queue, or latched within the hour after
an announced crash, is never announced; an incident on a server without a guild takes a
storm slot and leaves no event; a server recreated and condemned again between two
passes is not seen.  `TurnBegins` records a start with the time before the wait, as
`respond` does; the time `resolve_channel` takes to open a DM comes on top of the gateway
wait in the code and is taken to be none.

### Turns: one channel

`lock` is the queue at the channel's turn lock, `slot` `TurnInterrupts`' registration, `store` the
committed transcript; a turn has its `kind` (a friend's message, the operator's, one that
nobody asked for), `pc`, `round`, its own copy `msgs`, its cancellation token (`stopped`) and its
`ending`.  A message is a role and the turn that wrote it; a result weighs `ResultSize`.

| Action | Code |
|---|---|
| `Arrives`, `Busy`, `Begin`, `CheckedOut`, `Register` | the shells up to the loop: `turn_lock`, `checkout` with the trim, `register` |
| `ModelHeard`, `ModelAnswers`, `ModelCalls`, `StopLands`, `ToolsEnd`, `Verdict`, `Fails` | `run_session`: the model call raced with the token, the tools run to their end, the second look at the token, the budget of rounds |
| `Posted`, `Committed`, `Gone`, `Keeps` | the reply, with which `run_gary_turn` returns and drops its guard, so that a stop no longer reaches the turn; then `commit` and the lock |
| `Stop`, `Forgotten` | the stop button; idle eviction and `/new-session` |

`Trim` with `TargetStart` and `Settled` is `trim`: the cut goes to the target size and then on past
results whose call it cut off.  Left out: a bot without a model, which answers with a
sentence and runs no loop; token buckets, other channels, players' unlocked
conversations in the game, a restart of the process (which keeps nothing).

### ConfigGuard: edit, restart, verify, roll back

One server's files with their one `.grizzly.bak` each, and turns that work on it at the same
time.  A content is a number fresh for every write; `bad` are those the game cannot come up
with; `loaded` what it was launched with.  `phase` is what the supervisor reports, `game`
what the process does, and `signal` a readiness seen but not settled yet: the watch reads the
first, and the three part company because a readiness message carries no launch.  `pending`
is `ToolCtx.pending_change`, `change` the one under verification, `spent` its one roll-back.
`mine` and `before` are history: what the turn's last tracked change wrote and replaced, 0
once anybody else touched the server or the watch was shown an earlier launch's readiness.

| Action | Code |
|---|---|
| `WriteFile`, `WriteUnheard`, `RestoreFile`, `CopyUnheard` | `exec_write_file`, `exec_edit_file`, `exec_restore_file` over `write_file` and `restore_file`; the answer lost included, and a copy a full disk breaks off, of the file (`TornFile`) or its `.bak` (`TornBackup`) |
| `Stop`, `Start`, `Restart` | the lifecycle tools; `Restart` takes the pending change and arms the watch, but not when its answer is lost |
| `Watches`, `WatchFails`, `RollsBack`, `RollBackFails`, `Relaunches`, `RelaunchFails` | `verify_change`, `next_step`, `roll_back`, `rollback_failed` |
| `Boots`, `Settles`, `Exits`, `AutoUpdates`, `PodReplaced` | the game comes up and is seen to; `settle_ready`, of whichever launch; `handle_unexpected_exit`, which launches the game again on what the files hold by then, or gives up; `maybe_auto_update`; Agones |
| `Destroyed`, `Ends` | another command; the end of the turn |

Met and excused: the readiness of an earlier launch, settled for a child that is still
booting, makes the watch call a change healthy that the game has not come up with (`guard_stale`
shows it, against the comment on `wait_for_ready`); only the last tracked edit is guarded (as
`recovery.rs` says); two edits and one restore leave the other edit unwatched, against the
comment on `drop_pending_change`; a stop followed by a start applies an edit unwatched, and so
does a launch the supervisor makes by itself.

### ModReconcile: the mods of one instance

`published`, `reachable` are the registry, `cache` the zips (a torn one does not open, a rotten
one has a readable manifest and unreadable files), `staged`, `resolved`, `live` the tree, the file and
the loader's directories, `settings` the mods' settings files.  `wanted`, `todo` (line numbers),
`pending`, `decided` are `resolve`'s, `sweep` the thread behind the game, `at` where the reconcile
is; `stale` says that a readiness message of the launch before is still unsettled.  A release is a package and a version.  Its initial states, steps and specification are
`ModsInit`, `ModsNext`, `ModsSpec`, so that `SupervisorProofs` can extend it beside `Supervisor`.

| Action | Code |
|---|---|
| `Begin` (`Unusable`, `Installs`, `ClientOnly`) | `reconcile` up to the resolution: `mods_file::parse` |
| `LookUp`, `Follow`, `ResolvedAll` (`Exact`, `Latest`, `Settled`, `Enqueued`) | `resolve` over `LayeredSource`: the lines first, then the dependencies, last queued first |
| `Download`, `Unstage`, `Stage`, `Spawn` (`Collect`) | `download_missing`, `rebuild` in two steps, `write_resolved`, `collect`, the launch with the image's mirror |
| `Fails`, `PodDies`, `Ends` | a full disk or the deadline; the pod; the game |
| `Ready`, `ReadyStale`, `SweepLists`, `SweepScans`, `SweepRemoves` | `settle_ready`, for the launch it is about or for a later one (`Unsettled`), and `orphaned_config::sweep` on its blocking thread |
| `Publish`, `Outage`, `Damage` | the registry and the volume |

Met and excused: the next launch may remove or replace the staged tree under a sweep,
which then deletes settings of live mods; a readiness message of an earlier launch begins a
sweep for a list that has yet to prove good, and the settings it deletes are gone when that
list is rolled back, against the comments in `settle_ready` and `orphaned_config.rs`
(`SweepSparesProven` is refuted); a rotten zip refuses every launch, against the
comment on `usable_in_cache`; and a pinned list whose resolution takes a version it then
raises is refused with the registry down, since that version's zip was never kept,
against `cache.rs` ("a pinned mod list resolves and installs from cache alone").

## 4. The runs

| Run | Instance | Shows |
|---|---|---|
| `supervisor_loop` | TCP probe, updates on empty, threshold 2 in a window of one tick, 3 disturbances | `NoUnwatchedGame`, `BudgetNotSpent`, `StoppedIsStopped`, `BouncesOldBuilds`, the refinement `SlotSpec`, and `RecoveryIsNoticed` (liveness) |
| `defer_queue` | two tasks, one failing command, one end of the process | `NoTaskStranded`, `AccountedFor`, `TaskIsSettled` (liveness) |
| `backups_flows` | one snapshot, one restore, one trouble, two backups kept | `NewestRetained`, `UndisturbedIsWhole`, `RestoreIsExact`, `SavesComeBack` (liveness) |
| `backups_evicted` (violation) | one restore, no trouble | a restore promises the chosen backup and an undo; at full retention the prune after its own safety backup deletes the oldest backup, if that was the one chosen |
| `lifecycle_requests` | two names, two requests of any kind, room for one server, two troubles | `ServerCapHolds`, `OnlyConfirmedVolumesGo`, `AnswersHold`, `StrandedComesBack` (liveness) |
| `archives_flows` | two flows of any kind, one trouble | `ReleasedIsRecoverable`, `RoundTrip`, `NoOrphans` |
| `archives_torn` (violation) | one archive, one tar that breaks off | the archive is said to be durable before the volume goes; a tar that breaks off is stored as if it were whole |
| `watchdog_storm` | one server, every threshold at its least, two changes of the world from elsewhere | `WindowIsHonest`, `StormGuard`, `WreckIsHeardOf` (liveness) |
| `turns_channel` | three turns of two rounds, up to two calls a round, a trim at five messages | `WellFormed`, `NewestIsStoppable`, `CommitExtends`, `StopReadsAsStop` |
| `guard_edits` | two turns, two files, one of them new, two writes, two troubles | `VerdictIsTrue`, `CrashIsOwned`, `VerificationEnds` (liveness) |
| `guard_stale` (violation) | one turn, one file, one write, no trouble | `Running` is said to mean up now; a change is called good while the game that loaded it is booting |
| `mods_launches` | four lists over four mods and the loader pack, one release to come, one trouble | `RunningIsResolved`, `OfflineComesBack`, `SweepSparesInstalled` |

Every run of a state machine with a type invariant also checks it, but for `defer_queue`, whose
`TypeOK` is proved.

Known disagreements that no run keeps.  These definitions state what a comment or a
document says and TLC refutes them in the instance named; they stand in their modules
for whoever changes the code: `RunningMeansUp` and `SpawnFailureReadsAsCrash`
(`Supervisor`, as `supervisor_loop`), `ExpirySparesWatched` (`Defer`, with `TTL =
Ceiling`), `PostponedIsListed`, `LoadCapHolds` and `ShutdownIsHonoured` (`Lifecycle`, as
`lifecycle_requests`, the second with two servers and load for one), `OneTurnToStop` and
`UnattendedRunsOn` (`Turns`, as `turns_channel`), `SweepSparesProven` (`ModReconcile`, as
`mods_launches`).  `HeldGameReadsAsUp`,
`OnlyOperatorEndsAStop`, `CondemnedByCrashLoop`, `RegisteredMeansWatched` and
`BackedUpIsKept` are proved and not run.

Exposures of the code that no property covers: the one `/ready` call to Agones is never
retried (`runner.rs`, `settle_ready`); ports are chosen from a list read earlier, and only
the API server's refusal keeps them apart (`provision.rs`, `used_ports`); a pump of an old
launch appends its last lines to the capture of the new one (`launch_log.rs`, `push`); the
footprint on a deletion card is read before the card is shown (`commands.rs`); pods are
forced out by name from a list minutes old (`stranded.rs`, `force_delete_pod`); a reset
takes no turn lock, so a turn at work brings the conversation back (`commands.rs`,
`clear`); two triggers of one player are answered without a lock (`ingame/agent.rs`); a
retune of the throttle adds a fresh semaphore to the permits still out (`throttle.rs`).

Bounds.  `MaxDisturbances` counts what the environment may do of its own accord:
requests, exits and polls together; three reach an escalation with a request
behind it, a stop overtaken by a late message, and two bounces in a row.
A paused first launch and readiness by a log line are in the module and under the theorems
only.  `CrashThreshold = 2` is the least with a crash below it and one at it;
`QueueDepth = 2` lets a request queue behind another.  A `Tick` is always
possible, so ages take every order the code can meet.  The pod can be recreated
whenever it is condemned, so behaviours are infinite without a bound on launches.

`Defer` needs two tasks for one to be queued while the other's watcher drains or
retires; with a third nothing new meets.  `MaxFaults = MaxExits = 1` lets a failure and
a restart fall together at any two points.  `TTL` exceeds `Ceiling` in `defer_queue`, so
that a queue both expires and is drained in time; they are equal in the code, and with
`TTL = Ceiling` `ExpirySparesWatched` is refuted.

`Backups` has two flows, because every interference is between two: a tar under a
purge, a prune from an old listing, an upload that overtakes another.  Snapshot and
restore together contain two snapshots, as a restore begins with one.  `MaxTroubles`
is one shared budget: one failing call, broken connection, foreign stop or start, or
end of the bot at any point.  `Retention = 2` with a full bucket is the least where a
prune has a choice of what to leave; `MaxClock` is one second past the start, so that two
stamps clash or follow each other; `MaxWorlds` leaves one change by the players, at
any point, which tells the world before from the one after.

`Lifecycle` needs two requests, as every interference is between two of them or
between one and the reconciler; two names let them be of one server or of two that
compete for the cap.  `ServerCap = 1` is where one create must keep the other out.
`MaxTroubles = 2` is a dead node and one more thing going wrong at any point, or two
nodes in turn.  The initial states are all sets of servers within the caps, running
or not.

`Archives` needs two flows, as every interference is between two; six worlds and four
stamps let players change the world on both sides of an archive.

`Watchdog` has one server, since servers share only the queue and the storm guard, both at
depth one, where one server's second incident already meets a full queue and a spent
guard.  `CrashWindow = 2` with threshold 1 lets a reading leave the window; `StormWindow =
3` is longer than the cooldown, so that a second incident falls inside it.

`Turns` has three turns: one that holds the lock, one that waits, and one that does not
take it.  A transcript of five messages is trimmed to four, so that a cut can fall at a
call, at a result, and past both; two calls a round make a result whose neighbour is a
result.

`ConfigGuard` has two turns, since every disturbance is between two; two writes are one
file edited twice, both files edited, or an edit of each turn, and two troubles any two of
an answer lost, a crash out of the blue, a torn copy and a server destroyed, at any two
points: a restart nobody heard of and the crash it leads to are one of the pairs.

`ModReconcile`'s packages are chosen for their dependencies: two mods that need two versions
of a third, a pin that holds it lower, a release to come whose resolution raises a
version, a chain longer than `MaxDepth`, a mod listed twice.  `MaxTroubles` counts outages,
damage, dying pods and messages left unsettled alike.  `MaxPackages` is never
reached there; the code's two checks of it are the same guard twice.

## 5. Fairness

`FairSpec` assumes only what tokio and the operating system give.  Awaits inside a
handler end, so that a stop that never returns is outside what `RecoveryIsNoticed` says:
`graceful_stop` kills after its grace period, the back-off is a sleep,
the preparation has timeouts (weak fairness).  `select!` polls its arms in random
order, so an arm that keeps becoming ready is taken (strong fairness on the four
arms).  A probe polling an open port connects (weak), and a channel serves waiting
senders in order (strong on `SignalReady`).  Nothing is assumed of the game, the
clients, the polls, the SDK, Agones or the clock.

`Defer`'s `FairSpec`: a task of the runtime goes on (`EnqueueStep`, `Scan`, `Rearm`,
`WatcherStep`), where the step that ends a wait is fair because every wait has a
ceiling in the code; the drain ends, because it has a time limit; and the
Deployment starts a bot that is down.  Nobody need enqueue anything, and nothing
need ever fail or be stopped.

`Backups`' `FairSpec`: a handler that has quiesced goes on to its tar, a tar ends
(it is read, or killed with its reader's connection), and the reaper task runs.
Uploads, prunes and restores may hang for ever.

`Lifecycle`'s `FairSpec`: the reconciler's loop comes round and its calls return, with
one answer or another (`Reconcile`; the wait of `delete_and_confirm` has a deadline),
and Agones and the kubelet of a node that answers do their part (`Cluster`).  Nothing
is assumed of requests, of nodes or of the bot's staying up.

`Watchdog`'s `FairSpec`: the sampler's timer fires and its passes go on, the responder's
task runs, with the turns it starts; and a server that stays condemned is read as such
now and then, as its listing does not fail for ever (strong fairness on that one
observation).  Nothing is assumed of the game, of Agones or of the mode.

`ConfigGuard`'s `FairSpec`: every wait of the verification has an end, `READY_WAIT_TIMEOUT` or
the client's request timeout (weak fairness of `Guarding`).  The game need neither boot
nor crash.  `Turns`, `Archives` and `ModReconcile` assume nothing and promise nothing
eventual.

## 6. The proofs

`SupervisorProofs` proves, for every `CrashWindow`, `CrashThreshold`, bound and mode
that `RunnerAssumption` and the two pure modules' assumptions allow:

* `TypeCorrect`, and `LoopInvariant`, the inductive invariant `IInv`;
* the safety invariants `HeldGameReadsAsUp`, `NoUnwatchedGame`, `StoppedIsStopped`,
  `BudgetNotSpent`; the action properties `OnlyOperatorEndsAStop`,
  `BouncesOldBuilds` and `CondemnedByCrashLoop`;
* `ImplementsSlot`: every behaviour of the loop is one of `GameSlot`.

None of the invariants is inductive.  `HeldGameReadsAsUp` says nothing of the time
inside a handler, which is where the state it needs is set up; so `IInv` says what
holds at each value of `pc`: which awaits have a child (none), what `desired` and
`phase` are while launching, stopping or backing off, that a label `"stopped"` is
only ever on a slot without a child, and that a game that is not held is being
stopped.  The one fact from afar is that a stopped server has phase `Stopped` and
no uptime outside its handlers, which is what keeps a late reading from being due
(`UpdateInterval > 0`) and a late readiness message from moving the phase.  `BouncesOldBuilds` is about `built`, which no guard
reads: `AgeIsHonest` says that the age the updater goes by is never more than the time since
a launch last gave the slot a game.  The proof that the next-state relation keeps `IInv` has a lemma per action.

`CondemnedByCrashLoopAlways` needs the order of the exits.  `Retained` drops from the front
of `crash_times` as many exits as have left the window, where the source filters; the two
agree (`RetainedAreRecent`) because the ages stay oldest first, which `CrashesInOrderAlways`
proves: an exit is counted at age zero, at the end, and time adds to all ages alike.

The assumption `UpdateInterval > 0` (`AutoUpdate`) is not checked by `config.rs`,
which accepts an interval of zero: with that setting the theorem does not hold.

`DeferProofs` proves, for any set of tasks and any number of failures and exits,
`TypeCorrect`, `RegisteredMeansWatchedAlways`, `NoTaskStrandedAlways` and
`AccountedForAlways`.  The first two safety properties need each other: a registered key may be left alone by an
enqueue only because `RegisteredMeansWatched` holds.  `IInv` adds that a process
that is down has an empty registry (`FreshRegistry`).  Watchers can double up, when
an enqueue falls between another watcher's re-check and its return to the registry,
and then the key may be missing from the registry though somebody waits; so the
proof rests on the one fact that survives: every way out of `Watching` takes the
key out of the registry, but for the way down.  `AccountedFor` counts the places of the
tasks that were taken; `PlacesInv` says the same of every task without counting (`OnePlace`),
that no list holds a task twice (`Distinct`), and that a task not pushed yet is nowhere, which
is why a push puts it in one place.  Every way a task moves is one of three: it joins the queue
(`JoinPlaced`), goes from the queue into a watcher's hands (`PopPlaced`), or leaves either for
an end (`EndPlaced`); doubled watchers drain one list and never hold the same task.

`BackupsProofs` proves, for any flows, any retention and any bounds, `TypeCorrect`,
`NewestRetainedAlways` and `BackedUpIsKeptAlways`.  What makes pruning from an old
listing safe is that a key is condemned by backups that had been stored, and being
stored once is for ever: `Newer` never shrinks (`OldStaysOld`).  So `IInv` says that
whatever a flow is still to delete is old (`DoomedAreOld`), and, for the second
theorem, how far each flow has come with its own backup (`OwnBackup`); a listing
condemns only what `ever`, a superset of the listing, condemns too (`AfterGrows`).
The proof uses no bound and not the order of deletions.  `UndisturbedIsWholeAlways` and
`RestoreIsExactAlways` are about the volume, and rest on `WorldInv`.  A tar whose flow kept
its flag reads while the game is down or its saves are off, so no autosave can reach it; a
restore that kept its flag has the game down from its stop to its start, is the last to
have purged the volume when it unpacks, and finds there what it unpacked when it starts.
Whoever turns saves on, starts or stops the game or rewrites the volume takes the flag from
all others who are exposed (`DisturbedAtRest`), so each step needs looking at only for the
flow that takes it.

`LifecycleProofs` proves, for any names, requests, caps and troubles, `TypeCorrect`,
`CapAlways`, `ConfirmedAlways` and `AnswersHoldAlways`.  For the cap, `Capped` adds that whoever is between
the cap check and the Service holds the lock, and that the room it found is still
there: others may destroy meanwhile, never add.  For the volumes, `Confirmed` says that
a pod never outlives its GameServer's name, and that while the pod a request found
is there, its GameServer is there and terminating, so that the absence
`delete_and_confirm` waits for implies the pod's; the forced deletion of pods by the
reconciler is where this could have failed.  For the answers, `Accounted` says of a request
that has kept its flag that nobody else is at its server (`AloneAt`) and, for each point of
a create, a destroy and a shutdown, what is there of Service, GameServer and volume
(`Stage`): what a roll-back has already removed, what is still whole, and what `left` accounts for.  Agones and the
kubelet only ever finish what was asked (`StageKept`), and a destroy finds no pod to hold
the volume back because of `PodsOwned`.  The assumptions are that there are finitely many
names, that `None` is none of them and no request, and that the caps and the bound are
naturals.

`ConfigGuardProofs` proves, for any turns, files, writes and troubles, `TypeCorrect`,
`VerdictIsTrueAlways` and `CrashIsOwnedAlways`.  Neither property says where the change
is between the write and the verdict, which is what both hang on; `GuardInvariant` does.
`Follows` says it of a change nobody else has disturbed, at each point of its life: while
pending, it is in its file alone, over a copy of what the file held (`InPlace`); while
watched, that is what the game was launched with; once rolled back, it is nowhere
(`Undone`); and the copy never holds the change itself.  `Fresh` (contents not written
yet are nowhere) is why a new write cannot pass for an old one, `UpIsGood` why a
game that is up vouches for what it loaded, `Honest` why the phase a watch reads is that of
its own launch unless it was shown another's readiness, and `OneChange` why a turn's guard that is
at work has no second change waiting and why a roll-back is spent at most once for each.
The assumptions are that `Missing` is a set of files and that the bounds are naturals.

`ArchivesProofs` proves, for any number of flows, stamps, states of the world and
troubles, `TypeCorrect`, `ReleasedIsRecoverableAlways`, `RoundTripAlways` and
`NoOrphansAlways`.  All four hang on who a stamp belongs to.  `OwnKey` says that a stamp
no two archives were given (`Unshared`) names one object, one row and one flow on the
way between the two, so that neither an upload nor a wipe for another row can touch it;
`Bounded` is why the next stamp is nobody's.  `NewestIsSafe` is what `ROWS_TO_PRUNE`
is worth once time passes: a row that was not the newest when a prune read the table
never becomes it, because a drop spares the newest row and an insert makes a newer one.
`Saved` and `Brings` say what an undisturbed archive or recovery has at each of its points,
which is where the history variable `clean` is used, and `Kept` that what is owed is in
the newest archive.  `Wiped` carries `NoOrphans`: a row goes only after its object, or
with a stamp that is known to be lost.  Once two archives have shared a stamp or a tar
has broken off (`spoilt`), no new promise is made; those made before still hold, which
`Sound` says.  The assumptions are that the bounds are naturals, `MaxKey` at least
the two archives a server may start with, and that `None` is neither a number nor a flow.

`TurnsProofs` proves, for any number of turns, rounds and calls in a round and for any
sizes that set off a trim, all that `turns_channel` checks: `TypeCorrect`,
`WellFormedAlways`, `CommitExtendsAlways`, `StopReadsAsStopAlways` and
`NewestIsStoppableAlways`.  `QueueOK` says why the lock is one: a turn queues once, and a
turn that keeps its words is at work only as the first in the queue.  `CopyOK` says what
such a turn works on: a transcript a provider accepts, which begins with what the channel
has and, while tools run, ends in their call; from there every word it says keeps it so
(`WordAccepted`, `ResultsAccepted`).  `/new-session` takes no lock, but forgets: what is
left, nothing, begins every transcript.  `TrimAccepted` is about `trim` alone: the
message the cut settles at is no result (`SettledInside`), so a result behind it has its call
behind it too, since nothing but results may lie between.  It uses nothing of how a trim
measures: `TargetInside` needs only that the cut falls on one of the messages behind the
system prompt.  The assumptions are that the bounds and sizes are naturals and that a round
calls at least one tool.

`WatchdogProofs` proves `WindowIsHonestAlways`, `StormGuardAlways` and `TypeCorrect` for
any servers, windows, thresholds, counters and changes.  `HonestAt` carries the first for
one server: once the counter has been read, it stands at most as far from that reading as
exits have been seen since (a new pod only takes it back), until then the ring is empty, and
delta by delta from the newest the ring is bounded by what happened (`Bounds`).
`BoundsGrow` is about the ring alone: appending to both and trimming each to the window
keeps the bound, also where the one is already full and the other, shortened by a recreated
pod, is not.  `StormOK` carries the second.  The responder records a turn's start before it
waits for the gateway, and the turn begins only after; so `Covered` pairs the turns that
count with the starts, from the newest, each start at most a gateway wait older than its
turn, and whoever waits found room before it waited.  Dropping what has left the window
drops no start of a turn that counts (`WindowKeepsStorm`), since such a turn is younger than
the window less the gateway wait.  The assumptions are that windows and thresholds are
positive, that the gateway wait is no longer than the storm window (five minutes against
thirty in `respond.rs`), and that the bounds are naturals.

The second part of `SupervisorProofs` is about `ModReconcile`:
for any finite sets of packages and versions, any dependencies, lists and caps
(`ModsAssumption`), it proves `ModsInvariant` and all three properties of
`mods_launches`.  `RunningIsResolved` is about the end of a launch; `ModsInv` says what makes
it come true.  `LinesOK`: a line that was looked up is decided on, at its pin, and one that
was not is not, since no two lines have one package; `NeedsOK`: what a package decided on
needs is had, comes from the image, is held by a pin, or is still queued.  A version is only
ever raised, and never over a pin, so nothing that was met stops being; with nothing left to
look up or follow, every need is met.  `SweepSparesInstalledAlways` rests on `SweepOK`: while
a sweep runs that its own launch's readiness began and no launch has overtaken, the game is
ready or has ended, so the staged tree
is the one the game was ready with.  `OfflineComesBackAlways` compares two launches.  With
every line pinned, the lines and decisions of a resolution follow from the list alone
(`StepsTo`, which `OneSuccessor` shows to be a function): so a launch keeps the set of the
states it has passed through (`Walked`), all of whose decisions hold still if no version was
raised; when it comes through, that set is closed, and all its decisions are in the cache
(`Beaten`); and a later launch with the same list never leaves it, so that whatever it asks
the registry for, the cache can answer.  `cache.rs` promises this of every pinned list; where
a version was raised it fails (section 3), and the proof fails there too.

## 7. Only model-checked, and not modelled

Liveness (`RecoveryIsNoticed`, `TaskIsSettled`, `SavesComeBack`, `StrandedComesBack`,
`WreckIsHeardOf`, `VerificationEnds`) is out of the proof system's reach under fairness
and is checked by TLC only.

`Lifecycle` has one guild and one bot: it leaves out port numbers, resizes in place, games
the catalogue no longer has, objects the bot does not manage, and the second bot that a
rolling update may run for a moment.  `Backups` leaves out the cold start of a pod for a
restore, a game killed at the end of its grace period before it has saved, and the games
whose console knows no pause (for which a live backup promises nothing).  `Defer` leaves
out what a wait observes and what the turn of a batch does: `WaitEnds` may happen at any
time.  `Turns`, `ConfigGuard` and `ModReconcile` name what they leave out in section 3.

Not modelled at all, and the greater part of the repository's lines: rendering and
markup (Discord embeds, the admin pages, chunking), parsing and validation of
configuration, prompts, tool schemas, telemetry export, mail, registry clients, protocol
clients of the games' consoles (pure I/O or text, whose only state is a connection), the
games catalogue, cluster manifests and scripts (no code with state).  Of the code with
state, the launch log, sign-ups, the settings snapshot and the sizing arithmetic have no
module yet; they are listed with that status in `PROJECT.json`.
