---------------------------- MODULE ModReconcile ----------------------------
(***************************************************************************)
(* Mods of one instance (supervisor thunderstore/): before every launch    *)
(* the list .grizzly/mods is parsed and resolved against the registry or,  *)
(* with the registry down, the cache of zips; what is missing is fetched,  *)
(* a tree is built aside and swapped in, and what was installed is written *)
(* to `resolved`.  The image mirrors the staged tree into the loader when  *)
(* the game starts, and once the game is ready a sweep on another thread   *)
(* removes the settings of mods that are gone.                             *)
(*                                                                         *)
(* Every request to the registry is a step; code between two requests is   *)
(* one step, but for the places where a pod that dies leaves a trace or    *)
(* where the sweep may look.  A release is <<package, version>>; a package *)
(* stands for its files and for the plugin its settings name.              *)
(***************************************************************************)
EXTENDS Integers, Sequences, FiniteSets, SequencesExt

CONSTANTS
    Packages, Provided,     \* what the image supplies is never installed
    Versions,
    Deps,                   \* a release's dependencies: a sequence of releases
    Upcoming,               \* releases that may yet appear in the registry
    Lists,                  \* the lists the group may write
    MaxPackages, MaxDepth,  \* MAX_PACKAGES, MAX_DEPTH
    MaxTroubles             \* bound: pods that die, full disks, damaged zips, late messages

Releases == Packages \X Versions

ASSUME ModsAssumption ==
    /\ IsFiniteSet(Packages) /\ Provided \subseteq Packages
    /\ IsFiniteSet(Versions) /\ Versions \subseteq Nat \ {0}
    /\ Upcoming \subseteq Releases
    /\ Deps \in [Releases -> Seq(Releases)]
    /\ Lists \subseteq Seq([pkg : Packages, pin : Versions \union {0}, side : {"install", "client"}])
    /\ MaxPackages \in Nat /\ MaxDepth \in Nat /\ MaxTroubles \in Nat

VARIABLES
    published,  \* what the registry has
    reachable,  \* the registry answers
    cache,      \* [Releases -> "none", "good", "torn" or "rotten"]
    staged,     \* the tree the image mirrors: {NoTree}, or the releases in it
    resolved,   \* the file: [installed, clientOnly], sets of releases
    live,       \* what the loader's directories hold
    settings,   \* packages with a settings file
    phase,      \* "down", "preparing", "refused", "running", "ready"
    at,         \* where the reconcile is
    wanted,     \* the lines it read: [pkg, pin, side]; pin 0: the newest
    todo,       \* the numbers of the lines not looked up yet
    pending,    \* dependencies not followed yet, the next one last
    decided,    \* [Packages -> 0..]: the version decided on; 0 none
    turned,     \* history: a version decided on was raised
    stranded,   \* history: the list refused for want of the registry
    sweep,      \* the sweep: [at, candidates, claimed]
    stale,      \* a readiness message of an earlier launch is not settled yet
    undisturbed,\* history: the readiness of this launch began the sweep, and
                \*   no launch has begun since
    proven,     \* history: packages the game was last ready with
    comeback,   \* history: the lines of the last launch that got through,
                \*   if all are pinned and no version was raised
    troubles

NoTree == <<"no tree">>
Idle == [at |-> "idle", candidates |-> {}, claimed |-> {}]

registryVars == <<published, reachable>>
diskVars == <<cache, staged, resolved, live>>
workVars == <<at, wanted, todo, pending, decided, turned>>
sweepVars == <<settings, sweep, stale, undisturbed>>
historyVars == <<proven, comeback>>
modVars == <<registryVars, diskVars, phase, workVars, stranded, sweepVars, historyVars, troubles>>

Undecided == [p \in Packages |-> 0]

ModsInit ==
    /\ published = Releases \ Upcoming /\ reachable = TRUE
    /\ cache = [r \in Releases |-> "none"] /\ staged = {NoTree}
    /\ resolved = [installed |-> {}, clientOnly |-> {}] /\ live = {}
    /\ phase = "down" /\ at = "idle"
    /\ wanted = <<>> /\ todo = {} /\ pending = <<>> /\ decided = Undecided /\ turned = FALSE
    /\ stranded = <<>>
    /\ settings = {} /\ sweep = Idle /\ stale = FALSE /\ undisturbed = TRUE
    /\ proven = {} /\ comeback = <<>> /\ troubles = 0

Trouble == troubles < MaxTroubles /\ troubles' = troubles + 1
Names(rs) == {r[1] : r \in rs}

-----------------------------------------------------------------------------
(* The world around: the registry and the volume.                          *)

Publish(r) ==
    /\ published' = published \union {r}
    /\ UNCHANGED <<reachable, diskVars, phase, workVars, stranded, sweepVars, historyVars, troubles>>

Outage ==
    /\ reachable' = ~reachable
    /\ UNCHANGED <<published, diskVars, phase, workVars, stranded, sweepVars, historyVars, troubles>>

(* A zip that no longer opens, or one whose manifest still does.           *)
Damage(r, how) ==
    /\ cache[r] = "good" /\ Trouble
    /\ cache' = [cache EXCEPT ![r] = how]
    /\ comeback' = <<>>
    /\ UNCHANGED <<registryVars, staged, resolved, live, phase, workVars, stranded, sweepVars, proven>>

-----------------------------------------------------------------------------
(* Reading the list (mods_file.rs).                                        *)

(* What the server installs, by line number.                               *)
Installs(l) == {i \in DOMAIN l : l[i].side = "install"}

(* An install line of a package that an earlier line has; a client line    *)
(* without a version is dropped, and has none.                             *)
Unusable(l) ==
    \E i, j \in DOMAIN l :
        /\ i < j /\ l[i].pkg = l[j].pkg /\ l[j].side = "install"
        /\ l[i].side = "install" \/ l[i].pin # 0

(* Client lines need a version, and a second listing is dropped.           *)
ClientOnly(l) ==
    {<<l[i].pkg, l[i].pin>> : i \in {j \in DOMAIN l :
        /\ l[j].side = "client" /\ l[j].pin # 0
        /\ \A k \in 1..(j - 1) : l[k].pkg # l[j].pkg \/ (l[k].side = "client" /\ l[k].pin = 0)}}

AllPinned(l) == \A i \in Installs(l) : l[i].pin # 0

Refused(offline) ==
    /\ phase' = "refused" /\ stranded' = offline
    /\ at' = "idle" /\ wanted' = <<>> /\ todo' = {} /\ pending' = <<>>
    /\ decided' = Undecided /\ turned' = FALSE

(* The game accepted a connection before it was stopped or ended, and the  *)
(* loop has yet to settle that: nothing takes the message back, nor does   *)
(* it say which launch it is of.                                           *)
Unsettled ==
    \/ UNCHANGED <<stale, settings, troubles>>
    \/ /\ phase = "running" /\ Trouble
       /\ stale' = TRUE /\ settings' = settings \union Names(live)

(* A launch: whatever ran is stopped, and the list is read, as the group   *)
(* has left it by then; at first it is seeded empty.                       *)
Begin(list) ==
    /\ phase # "preparing"
    /\ IF Unusable(list)
       THEN Refused(<<>>)
       ELSE /\ phase' = "preparing" /\ stranded' = <<>>
            /\ at' = "resolving" /\ wanted' = list /\ todo' = Installs(list)
            /\ pending' = <<>> /\ decided' = Undecided /\ turned' = FALSE
    /\ Unsettled /\ undisturbed' = (sweep.at = "idle")
    /\ UNCHANGED <<registryVars, diskVars, sweep, historyVars>>

-----------------------------------------------------------------------------
(* Resolving (resolve.rs over the layered source of api.rs).               *)

Greatest(S) == CHOOSE v \in S : \A w \in S : w <= v
Cached(p) == {v \in Versions : cache[<<p, v>>] # "none"}
Offered(p) == {v \in Versions : <<p, v>> \in published}

Opens(r) == cache[r] \in {"good", "rotten"}     \* its manifest can be read
Extracts(r) == cache[r] = "good"

(* A release whose facts can be had: from its zip, or from the registry.   *)
Exact(p, v) == Opens(<<p, v>>) \/ (reachable /\ <<p, v>> \in published)

(* The newest, or with the registry down the newest zip, if it opens; 0    *)
(* for none.                                                               *)
Latest(p) ==
    LET known == IF reachable THEN Offered(p) ELSE Cached(p)
    IN  IF known = {} \/ ~(reachable \/ Opens(<<p, Greatest(known)>>)) THEN 0 ELSE Greatest(known)

Found(p, pin) == IF pin = 0 THEN Latest(p) ELSE IF Exact(p, pin) THEN pin ELSE 0

Unknown == Refused(IF reachable THEN <<>> ELSE wanted)

Enqueued(q, p, v, depth) ==
    q \o [i \in DOMAIN Deps[<<p, v>>] |->
            [pkg |-> Deps[<<p, v>>][i][1], version |-> Deps[<<p, v>>][i][2], depth |-> depth + 1]]

Count(d) == Cardinality({p \in Packages : d[p] # 0})

(* Every line is looked up, in their order, before any dependency is       *)
(* followed.                                                               *)
LookUp ==
    /\ at = "resolving"
    /\ \E i \in todo :
         LET p == wanted[i].pkg
             v == Found(p, wanted[i].pin)
         IN  /\ \A j \in todo : i <= j
             /\ \/ /\ p \in Provided
                   /\ todo' = todo \ {i}
                   /\ UNCHANGED <<phase, stranded, wanted, at, pending, decided, turned>>
                \/ p \notin Provided /\ v = 0 /\ Unknown
                \/ /\ p \notin Provided /\ v # 0
                   /\ todo' = todo \ {i}
                   /\ decided' = [decided EXCEPT ![p] = v]
                   /\ pending' = Enqueued(pending, p, v, 0)
                   /\ UNCHANGED <<phase, stranded, wanted, at, turned>>
    /\ UNCHANGED <<registryVars, diskVars, sweepVars, historyVars, troubles>>

Pinned(p) == \E i \in Installs(wanted) : wanted[i].pkg = p /\ wanted[i].pin # 0

(* As it would be if the first version met were kept.                      *)
SettledFirst(w) == w.pkg \in Provided \/ decided[w.pkg] # 0

(* The last dependency queued is followed first.  It is settled already if *)
(* the image has it, if as high a version was decided on, or by a pin.     *)
Settled(w) ==
    \/ w.pkg \in Provided
    \/ w.version <= decided[w.pkg]
    \/ decided[w.pkg] # 0 /\ Pinned(w.pkg)

Follow ==
    /\ at = "resolving" /\ todo = {} /\ pending # <<>>
    /\ LET w == Last(pending)
           p == w.pkg IN
         \/ Count(decided) > MaxPackages /\ Refused(<<>>)
         \/ /\ Count(decided) <= MaxPackages
            /\ w.pkg \notin Provided /\ w.depth > MaxDepth
            /\ Refused(<<>>)
         \/ /\ Count(decided) <= MaxPackages
            /\ w.pkg \in Provided \/ w.depth <= MaxDepth
            /\ Settled(w)
            /\ pending' = Front(pending)
            /\ UNCHANGED <<phase, stranded, wanted, at, todo, decided, turned>>
         \/ /\ Count(decided) <= MaxPackages /\ w.depth <= MaxDepth
            /\ ~Settled(w) /\ ~Exact(p, w.version)
            /\ Unknown
         \/ /\ Count(decided) <= MaxPackages /\ w.depth <= MaxDepth
            /\ ~Settled(w) /\ Exact(p, w.version)
            /\ decided' = [decided EXCEPT ![p] = w.version]
            /\ pending' = Enqueued(Front(pending), p, w.version, w.depth)
            /\ turned' = (turned \/ decided[p] # 0)
            /\ UNCHANGED <<phase, stranded, wanted, at, todo>>
    /\ UNCHANGED <<registryVars, diskVars, sweepVars, historyVars, troubles>>

ResolvedAll ==
    /\ at = "resolving" /\ todo = {} /\ pending = <<>>
    /\ IF Count(decided) > MaxPackages
       THEN Refused(<<>>)
       ELSE at' = "fetching" /\ UNCHANGED <<phase, stranded, wanted, todo, pending, decided, turned>>
    /\ UNCHANGED <<registryVars, diskVars, sweepVars, historyVars, troubles>>

Chosen == {<<p, decided[p]>> : p \in {q \in Packages : decided[q] # 0}}

-----------------------------------------------------------------------------
(* Fetching, staging, recording (mod.rs, cache.rs, stage.rs).              *)

Missing == {r \in Chosen : ~Opens(r)}

(* download_missing: the zip is checked before it is stored, and stored    *)
(* whole.                                                                  *)
Download(r) ==
    /\ at = "fetching" /\ r \in Missing
    /\ IF reachable /\ r \in published
       THEN /\ cache' = [cache EXCEPT ![r] = "good"]
            /\ UNCHANGED <<phase, stranded, wanted, at, todo, pending, decided, turned>>
       ELSE Unknown /\ UNCHANGED cache
    /\ UNCHANGED <<registryVars, staged, resolved, live, sweepVars, historyVars, troubles>>

(* rebuild: the next tree is complete before the old one is removed.       *)
Unstage ==
    /\ at = "fetching" /\ Missing = {}
    /\ IF \E r \in Chosen : ~Extracts(r)
       THEN Refused(<<>>) /\ UNCHANGED staged
       ELSE /\ staged' = {NoTree}
            /\ at' = "staging"
            /\ UNCHANGED <<phase, stranded, wanted, todo, pending, decided, turned>>
    /\ UNCHANGED <<registryVars, cache, resolved, live, sweepVars, historyVars, troubles>>

Stage ==
    /\ at = "staging"
    /\ staged' = Chosen
    /\ at' = "recording"
    /\ UNCHANGED <<registryVars, cache, resolved, live, phase, wanted, todo, pending, decided,
                   turned, stranded, sweepVars, historyVars, troubles>>

(* As it would be if what a package needs were not kept with it.           *)
CollectListed ==
    cache' = [r \in Releases |->
        IF r \in Chosen /\ \E i \in DOMAIN wanted : wanted[i].pkg = r[1] THEN cache[r] ELSE "none"]

(* collect: every zip that was not installed goes.                         *)
Collect == cache' = [r \in Releases |-> IF r \in Chosen THEN cache[r] ELSE "none"]

(* As it would be with the sweep planned by the launch.                    *)
SpawnSweeping ==
    /\ at = "recording"
    /\ resolved' = [installed |-> Chosen, clientOnly |-> ClientOnly(wanted)]
    /\ Collect
    /\ live' = staged
    /\ phase' = "running" /\ at' = "idle" /\ decided' = Undecided /\ turned' = FALSE
    /\ sweep' = IF sweep.at = "idle" THEN [sweep EXCEPT !.at = "planned"] ELSE sweep
    /\ undisturbed' = (undisturbed \/ sweep.at = "idle")
    /\ comeback' = IF AllPinned(wanted) /\ ~turned /\ Chosen \subseteq {r \in Releases : Extracts(r)}
                 THEN wanted ELSE <<>>
    /\ UNCHANGED <<registryVars, staged, wanted, todo, pending, stranded, settings, stale, proven, troubles>>

(* `resolved` is written, the cache collected and the game spawned, whose  *)
(* image mirrors the staged tree.                                          *)
Spawn ==
    /\ at = "recording"
    /\ resolved' = [installed |-> Chosen, clientOnly |-> ClientOnly(wanted)]
    /\ Collect
    /\ live' = staged
    /\ phase' = "running" /\ at' = "idle" /\ decided' = Undecided /\ turned' = FALSE
    /\ comeback' = IF AllPinned(wanted) /\ ~turned /\ Chosen \subseteq {r \in Releases : Extracts(r)}
                 THEN wanted ELSE <<>>
    /\ UNCHANGED <<registryVars, staged, wanted, todo, pending, stranded, sweepVars, proven, troubles>>

(* A full disk, or the deadline, which is three minutes.                   *)
Fails ==
    /\ at # "idle" /\ Trouble
    /\ Refused(<<>>)
    /\ UNCHANGED <<registryVars, diskVars, sweepVars, historyVars>>

(* The pod dies, with whatever is on its volume, and a new one comes up.   *)
PodDies ==
    /\ phase # "down" /\ Trouble
    /\ phase' = "down" /\ stranded' = <<>> /\ wanted' = <<>>
    /\ at' = "idle" /\ todo' = {} /\ pending' = <<>> /\ decided' = Undecided /\ turned' = FALSE
    /\ sweep' = Idle /\ stale' = FALSE /\ undisturbed' = TRUE
    /\ UNCHANGED <<registryVars, diskVars, settings, historyVars>>

-----------------------------------------------------------------------------
(* The game, and the sweep behind it (runner.rs, orphaned_config.rs).      *)

(* A mod that stops the game, or a person.                                 *)
Ends ==
    /\ phase \in {"running", "ready"}
    /\ phase' = "down" /\ wanted' = <<>> /\ Unsettled
    /\ UNCHANGED <<registryVars, diskVars, at, todo, pending, decided, turned, stranded, sweep,
                   undisturbed, historyVars>>

(* The game is ready: its mods have written their settings, and a sweep is *)
(* planned.  One still at work goes on beside it; what it does is what the *)
(* new one does too, so the model keeps the old one.  Messages are settled *)
(* in their order.                                                         *)
Ready ==
    /\ phase = "running" /\ ~stale
    /\ phase' = "ready"
    /\ settings' = settings \union Names(live)
    /\ proven' = Names(live)
    /\ sweep' = IF sweep.at = "idle" THEN [sweep EXCEPT !.at = "planned"] ELSE sweep
    /\ undisturbed' = (undisturbed \/ sweep.at = "idle")
    /\ UNCHANGED <<registryVars, diskVars, workVars, stale, stranded, comeback, troubles>>

(* The message of an earlier launch plans a sweep as well, whatever is     *)
(* there by now: a game still booting, one that runs, or none.  It proves  *)
(* nothing of the list.                                                    *)
ReadyStale ==
    /\ stale /\ phase # "preparing"
    /\ stale' = FALSE
    /\ sweep' = IF sweep.at = "idle" THEN [sweep EXCEPT !.at = "planned"] ELSE sweep
    /\ undisturbed' = (undisturbed /\ sweep.at # "idle")
    /\ UNCHANGED <<registryVars, diskVars, phase, workVars, settings, stranded, historyVars, troubles>>

(* No tree is not an empty tree.                                           *)
SweepLists ==
    /\ sweep.at = "planned"
    /\ sweep' = IF staged = {NoTree} THEN Idle
                ELSE [sweep EXCEPT !.at = "scanning", !.candidates = settings]
    /\ UNCHANGED <<registryVars, diskVars, phase, workVars, stranded, settings, stale, undisturbed, historyVars, troubles>>

(* claimed_guids: what cannot be read claims nothing.                      *)
SweepScans ==
    /\ sweep.at = "scanning"
    /\ sweep' = [sweep EXCEPT !.at = "removing", !.claimed = Names(staged \ {NoTree})]
    /\ UNCHANGED <<registryVars, diskVars, phase, workVars, stranded, settings, stale, undisturbed, historyVars, troubles>>

SweepRemoves ==
    /\ sweep.at = "removing"
    /\ settings' = settings \ (sweep.candidates \ sweep.claimed)
    /\ sweep' = Idle
    /\ UNCHANGED <<registryVars, diskVars, phase, workVars, stranded, stale, undisturbed, historyVars, troubles>>

-----------------------------------------------------------------------------
Reconcile ==
    \/ LookUp \/ Follow \/ ResolvedAll \/ \E r \in Releases : Download(r)
    \/ Unstage \/ Stage \/ Spawn
Sweeping == SweepLists \/ SweepScans \/ SweepRemoves
World ==
    \/ \E r \in Upcoming : Publish(r)
    \/ Outage
    \/ \E r \in Releases, how \in {"torn", "rotten"} : Damage(r, how)

ModsNext == (\E l \in Lists \union {<<>>} : Begin(l)) \/ Reconcile \/ Fails \/ PodDies \/ Ends \/ Ready \/ ReadyStale
    \/ Sweeping \/ World

ModsSpec == ModsInit /\ [][ModsNext]_modVars

-----------------------------------------------------------------------------
(* The game runs with the mod list it was started with: every line is in,  *)
(* at its pin if it has one; what a mod needs is in as high as it asks, or *)
(* from the image, or held lower by a pin; and what is in is what          *)
(* `resolved` tells the bot.                                               *)
RunningIsResolved ==
    phase \in {"running", "ready"} =>
        /\ live = resolved.installed /\ Cardinality(Names(live)) = Cardinality(live)
        /\ \A i \in Installs(wanted) : wanted[i].pkg \notin Provided =>
             \E r \in live : r[1] = wanted[i].pkg /\ wanted[i].pin \in {0, r[2]}
        /\ \A r \in live : \A d \in ToSet(Deps[r]) :
             \/ d[1] \in Provided
             \/ \E s \in live : s[1] = d[1] /\ (s[2] >= d[2] \/ Pinned(d[1]))
        /\ Names(live) \intersect Provided = {}

(* Settings go only for mods the last game that was ready did not have: a  *)
(* list that stops the game costs nobody their settings.  Excused, against *)
(* what runner.rs and orphaned_config.rs say of it, is a sweep that was    *)
(* begun by the readiness of an earlier launch, or that a launch overtakes.*)
SweepSparesInstalled ==
    [][SweepRemoves /\ undisturbed => (settings \ settings') \intersect proven = {}]_modVars

(* A pinned list that got through last gets through again with the         *)
(* registry down.  Excused, against what cache.rs says, is one whose       *)
(* resolution took a version it then raised.                               *)
OfflineComesBack == stranded # <<>> => stranded # comeback
-----------------------------------------------------------------------------
(* Said of the code, and not so: that a sweep waits until the launch has   *)
(* proven good (orphaned_config.rs), since to be ready "is what proves     *)
(* that launch survived" (runner.rs).  A readiness message of an earlier   *)
(* launch begins it for a list that is yet to prove good, and one begun in *)
(* time goes on into the next launch.                                      *)
SweepSparesProven ==
    [][SweepRemoves => (settings \ settings') \intersect proven = {}]_modVars
=============================================================================
