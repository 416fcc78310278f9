---------------------------- MODULE BackupsProofs ----------------------------
(* Theorems about Backups, for any set of flows, any retention and any bounds.*)
EXTENDS Backups, FiniteSetTheorems, TLAPS

------------------------------------------------------------------------------
(* Type correctness.  What most actions do to the volume and to a flow comes  *)
(* from a few operators, whose effect on the types is stated first.           *)

Pc == {"idle", "picked", "opening", "quiesced", "uploading", "manifest", "listing",
       "pruning", "stopping", "fetching", "purging", "extracting", "starting", "ended"}

ServerOK ==
  /\ game \in {"running", "stopped"} /\ saves \in BOOLEAN
  /\ memory \in 0..worlds /\ disk \in 0..worlds
  /\ writer \in Op \cup {None}
  /\ content \in [Op -> 0..worlds]

BucketOK ==
  /\ DOMAIN tarballs \subseteq ever
  /\ \A k \in DOMAIN tarballs : tarballs[k] \in 0..worlds
  /\ manifests \subseteq 0..now /\ ever \subseteq 0..now

FlowOK ==
  /\ pc \in [Op -> Pc]
  /\ wants \in [Op -> BOOLEAN] /\ landed \in [Op -> BOOLEAN]
  /\ stamp \in [Op -> 0..now] /\ key \in [Op -> 0..now]
  /\ doomed \in [Op -> SUBSET ever]
  /\ fetched \in [Op -> 0..worlds]

RestOK ==
  /\ tar \in [Op -> {"none", "reading", "exited", "reaped"}]
  /\ clean \in [Op -> BOOLEAN] /\ unpaired \in BOOLEAN
  /\ now \in Nat /\ worlds \in Nat /\ troubles \in Nat

LEMMA TypeParts == TypeOK <=> ServerOK /\ BucketOK /\ FlowOK /\ RestOK
  BY DEF TypeOK, ServerOK, BucketOK, FlowOK, RestOK, Pc

LEMMA TroubleType ==
  ASSUME troubles \in Nat, Trouble \/ Calm
  PROVE  troubles' \in Nat
  BY DEF Trouble, Calm

LEMMA RewriteType ==
  ASSUME ServerOK, worlds \in Nat, worlds' = worlds,
         NEW world \in 0..worlds, NEW who \in Op \cup {None}, Rewrite(world, who)
  PROVE  disk' \in 0..worlds' /\ writer' \in Op \cup {None} /\ content' \in [Op -> 0..worlds']
  BY DEF ServerOK, Rewrite, Torn

LEMMA GameStopsType ==
  ASSUME ServerOK, worlds \in Nat, worlds' = worlds, GameStops
  PROVE  ServerOK'
<1>1. disk' \in 0..worlds' /\ writer' \in Op \cup {None} /\ content' \in [Op -> 0..worlds']
  BY RewriteType DEF GameStops, ServerOK
<1> QED
  BY <1>1 DEF GameStops, ServerOK

LEMMA GameStartsType ==
  ASSUME ServerOK, worlds' = worlds, GameStarts
  PROVE  ServerOK'
  BY DEF GameStarts, ServerOK, Untouched

LEMMA SnapshotEndsType ==
  ASSUME FlowOK, NEW o \in Op, NEW b \in BOOLEAN, SnapshotEnds(o, b)
  PROVE  pc' \in [Op -> Pc] /\ landed' \in [Op -> BOOLEAN]
  BY DEF FlowOK, SnapshotEnds, Goto, Pc

LEMMA CleanType ==
  ASSUME clean \in [Op -> BOOLEAN],
         clean' = clean \/ (\E o \in Op \cup {None} : Disturbs(o)) \/ (\E r \in Op : Alone(r))
  PROVE  clean' \in [Op -> BOOLEAN]
  BY DEF Disturbs, Alone

\* The server, the volume and what tars have read of it.
LEMMA ServerStep == TypeOK /\ Next => ServerOK'
<1> SUFFICES ASSUME TypeOK, Next PROVE ServerOK'
  OBVIOUS
<1>t. ServerOK /\ BucketOK /\ FlowOK /\ RestOK
  BY TypeParts
<1>0. Torn \in 0..worlds /\ worlds \in Nat
  BY <1>t DEF Torn, RestOK
<1>1. ASSUME NEW o \in Op, Snapshot(o) PROVE ServerOK'
  <2>1. CASE Quiesce(o)
    <3>1. memory \in 0..worlds /\ worlds' = worlds /\ None \in Op \cup {None}
      BY <1>t, <2>1 DEF ServerOK, Quiesce, bounds
    <3> QED
      BY <1>t, <1>0, <2>1, <3>1, RewriteType DEF Quiesce, ServerOK
  <2>2. CASE QuiesceMisses(o)
    BY <1>t, <2>2 DEF QuiesceMisses, ServerOK, tars, bounds
  <2>3. CASE TarStarts(o)
    BY <1>t, <2>3 DEF TarStarts, ServerOK, server, bounds
  <2>4. CASE OpenFails(o) \/ Disconnect(o) \/ UploadFails(o) \/ ManifestFails(o)
               \/ ListFails(o) \/ PruneEnds(o)
    BY <1>t, <2>4 DEF OpenFails, Disconnect, UploadFails, ManifestFails, ListFails,
                      PruneEnds, ServerOK, server, tars, bounds
  <2>5. CASE UploadCompletes(o) \/ PutManifest(o) \/ List(o) \/ Delete(o) \/ DeleteFails(o)
    BY <1>t, <2>5 DEF UploadCompletes, PutManifest, List, Delete, DeleteFails,
                      ServerOK, server, tars, bounds
  <2>6. CASE SpawnFails(o)
    BY <1>t, <2>6 DEF SpawnFails, ServerOK, tars, bounds
  <2> QED
    BY <1>1, <2>1, <2>2, <2>3, <2>4, <2>5, <2>6 DEF Snapshot
<1>2. ASSUME NEW o \in Op, TarChild(o) PROVE ServerOK'
  BY <1>t, <1>0, <1>2
  DEF TarChild, TarExits, TarFails, Resume, ResumeFails, ServerOK, server, bounds
<1>3. ASSUME NEW r \in Restore, RunRestore(r) PROVE ServerOK'
  <2>0. worlds' = worlds /\ r \in Op
    BY <1>3 DEF RunRestore, Pick, RestoreBegins, SafetySkipped, StopForSnapshot,
      StopFails, Fetch, FetchFails, Purge, PurgeFails, Extract, ExtractFails, Start,
      StartFails, bounds, Op
  <2>1. CASE Pick(r) \/ RestoreBegins(r) \/ SafetySkipped(r) \/ Fetch(r)
               \/ FetchFails(r) \/ StartFails(r)
    BY <1>t, <2>0, <2>1 DEF Pick, RestoreBegins, SafetySkipped, Fetch, FetchFails,
                            StartFails, ServerOK, server, tars
  <2>2. CASE StopForSnapshot(r) \/ StopFails(r)
    <3>1. GameStops \/ UNCHANGED <<server, content>>
      BY <2>2 DEF StopForSnapshot, StopFails
    <3> QED
      BY <1>t, <1>0, <2>0, <3>1, GameStopsType DEF ServerOK, server
  <2>3. CASE Start(r)
    <3>1. GameStarts \/ UNCHANGED <<server, content>>
      BY <2>3 DEF Start
    <3> QED
      BY <1>t, <2>0, <3>1, GameStartsType DEF ServerOK, server
  <2>4. CASE Purge(r) \/ PurgeFails(r) \/ Extract(r) \/ ExtractFails(r)
    <3>1. /\ UNCHANGED <<game, saves, memory>>
          /\ \/ \E world \in 0..worlds, who \in Op \cup {None} : Rewrite(world, who)
             \/ UNCHANGED <<disk, writer, content>>
      BY <1>t, <1>0, <2>0, <2>4 DEF Purge, PurgeFails, Extract, ExtractFails, FlowOK
    <3> QED
      BY <1>t, <1>0, <2>0, <3>1, RewriteType DEF ServerOK
  <2> QED
    BY <1>3, <2>1, <2>2, <2>3, <2>4 DEF RunRestore
<1>4. CASE \E b \in Backup : Begin(b)
  BY <1>t, <1>4 DEF Begin, ServerOK, server, tars, bounds
<1>5. CASE Play
  BY <1>t, <1>0, <1>5 DEF Play, ServerOK, tars
<1>6. CASE Autosave
  <2>1. memory \in 0..worlds /\ worlds' = worlds /\ None \in Op \cup {None}
    BY <1>t, <1>6 DEF ServerOK, Autosave, bounds
  <2> QED
    BY <1>t, <1>0, <1>6, <2>1, RewriteType DEF Autosave, ServerOK
<1>7. CASE SomebodyStops
  BY <1>t, <1>0, <1>7, GameStopsType DEF SomebodyStops, Order, bounds
<1>8. CASE SomebodyStarts
  BY <1>t, <1>8, GameStartsType DEF SomebodyStarts, Order, bounds
<1>9. CASE BotEnds
  <2>1. /\ UNCHANGED <<game, saves, memory>> /\ worlds' = worlds
        /\ Rewrite(Torn, None) \/ UNCHANGED <<disk, writer, content>>
    BY <1>9 DEF BotEnds, bounds
  <2> QED
    BY <1>t, <1>0, <2>1, RewriteType DEF ServerOK
<1>10. CASE Tick
  BY <1>t, <1>10 DEF Tick, ServerOK, server, tars
<1> QED
  BY <1>1, <1>2, <1>3, <1>4, <1>5, <1>6, <1>7, <1>8, <1>9, <1>10 DEF Next

\* The clock and the numbers of worlds only grow, and so do the stamps stored.
LEMMA Growth ==
  TypeOK /\ Next =>
    /\ now' \in Nat /\ now <= now' /\ worlds' \in Nat /\ worlds <= worlds'
    /\ ever \subseteq ever' /\ ever' \subseteq 0..now'
<1> SUFFICES ASSUME TypeOK, Next
             PROVE  /\ now' \in Nat /\ now <= now' /\ worlds' \in Nat /\ worlds <= worlds'
                    /\ ever \subseteq ever' /\ ever' \subseteq 0..now'
  OBVIOUS
<1>t. BucketOK /\ FlowOK /\ RestOK
  BY TypeParts
<1>1. ASSUME NEW o \in Op, Snapshot(o) PROVE bounds' = bounds /\ ever \subseteq ever' /\ ever' \subseteq 0..now
  <2>1. ever' = ever \/ ever' = ever \cup {stamp[o]}
    BY <1>1 DEF Snapshot, OpenFails, Quiesce, QuiesceMisses, Disconnect, TarStarts, SpawnFails,
      UploadCompletes, UploadFails, Store, PutManifest, ManifestFails, List, ListFails,
      Delete, DeleteFails, PruneEnds, bucket
  <2>2. bounds' = bounds
    BY <1>1 DEF Snapshot, OpenFails, Quiesce, QuiesceMisses, Disconnect, TarStarts, SpawnFails,
      UploadCompletes, UploadFails, PutManifest, ManifestFails, List, ListFails,
      Delete, DeleteFails, PruneEnds
  <2> QED
    BY <1>t, <2>1, <2>2 DEF BucketOK, FlowOK
<1>2. ASSUME NEW o \in Op, TarChild(o) PROVE bounds' = bounds /\ ever' = ever
  BY <1>2 DEF TarChild, TarExits, TarFails, Resume, ResumeFails, bucket
<1>3. ASSUME NEW r \in Restore, RunRestore(r) PROVE bounds' = bounds /\ ever' = ever
  BY <1>3 DEF RunRestore, Pick, RestoreBegins, SafetySkipped, StopForSnapshot,
    StopFails, Fetch, FetchFails, Purge, PurgeFails, Extract, ExtractFails, Start,
    StartFails, bucket
<1>4. ASSUME NEW b \in Backup, Begin(b) PROVE bounds' = bounds /\ ever' = ever
  BY <1>4 DEF Begin, bucket
<1>5. CASE Play \/ Autosave \/ SomebodyStops \/ SomebodyStarts \/ BotEnds \/ Tick
  <2>1. now \in Nat /\ worlds \in Nat /\ ever \subseteq 0..now
    BY <1>t DEF BucketOK, RestOK
  <2>2. CASE Play
    <3>1. now' = now /\ worlds' = worlds + 1 /\ ever' = ever
      BY <2>2 DEF Play, bucket
    <3> QED
      BY <2>1, <3>1
  <2>3. CASE Tick
    <3>1. now' = now + 1 /\ worlds' = worlds /\ ever' = ever
      BY <2>3 DEF Tick, bucket
    <3> QED
      BY <2>1, <3>1
  <2>4. CASE Autosave \/ SomebodyStops \/ SomebodyStarts \/ BotEnds
    <3>1. now' = now /\ worlds' = worlds /\ ever' = ever
      BY <2>4 DEF Autosave, SomebodyStops, SomebodyStarts, Order, BotEnds, bucket, bounds
    <3> QED
      BY <2>1, <3>1
  <2> QED
    BY <1>5, <2>2, <2>3, <2>4
<1>6. ASSUME bounds' = bounds, ever \subseteq ever', ever' \subseteq 0..now
      PROVE  /\ now' \in Nat /\ now <= now' /\ worlds' \in Nat /\ worlds <= worlds'
             /\ ever \subseteq ever' /\ ever' \subseteq 0..now'
  <2>1. now' = now /\ worlds' = worlds
    BY <1>6 DEF bounds
  <2> QED
    BY <1>t, <1>6, <2>1 DEF RestOK
<1>7. ever \subseteq 0..now
  BY <1>t DEF BucketOK
<1>8. (\E b \in Backup : Begin(b)) \/ (\E r \in Restore : RunRestore(r))
        \/ (\E o \in Op : Snapshot(o) \/ TarChild(o))
      => bounds' = bounds /\ ever \subseteq ever' /\ ever' \subseteq 0..now
  BY <1>1, <1>2, <1>3, <1>4, <1>7
<1> QED
  BY <1>5, <1>6, <1>8 DEF Next

LEMMA RestStep == TypeOK /\ Next => RestOK'
<1> SUFFICES ASSUME TypeOK, Next PROVE RestOK'
  OBVIOUS
<1>t. RestOK
  BY TypeParts
<1>0. now' \in Nat /\ worlds' \in Nat
  BY Growth
<1>1. troubles' \in Nat
  <2>1. Trouble \/ Calm
    BY DEF Next, Snapshot, OpenFails, Quiesce, QuiesceMisses, Disconnect, TarStarts, SpawnFails,
      UploadCompletes, UploadFails, PutManifest, ManifestFails, List, ListFails, Delete,
      DeleteFails, PruneEnds, TarChild, TarExits, TarFails, Resume, ResumeFails,
      RunRestore, Pick, RestoreBegins, SafetySkipped, StopForSnapshot, StopFails, Fetch,
      FetchFails, Purge, PurgeFails, Extract, ExtractFails, Start, StartFails, Begin,
      Play, Autosave, SomebodyStops, SomebodyStarts, Order, BotEnds, Tick, Calm
  <2> QED
    BY <1>t, <2>1, TroubleType DEF RestOK
<1>2. tar' \in [Op -> {"none", "reading", "exited", "reaped"}]
  <2>1. tar' = tar \/ \E o \in Op, v \in {"reading", "exited", "reaped"} :
                        tar' = [tar EXCEPT ![o] = v]
    BY DEF Next, Snapshot, OpenFails, Quiesce, QuiesceMisses, Disconnect, TarStarts, SpawnFails,
      UploadCompletes, UploadFails, PutManifest, ManifestFails, List, ListFails, Delete,
      DeleteFails, PruneEnds, TarChild, TarExits, TarFails, Resume, ResumeFails,
      RunRestore, Pick, RestoreBegins, SafetySkipped, StopForSnapshot, StopFails, Fetch,
      FetchFails, Purge, PurgeFails, Extract, ExtractFails, Start, StartFails, Begin,
      Play, Autosave, SomebodyStops, SomebodyStarts, Order, BotEnds, Tick, tars
  <2> QED
    BY <1>t, <2>1 DEF RestOK
<1>3. clean' \in [Op -> BOOLEAN]
  <2>1. \/ clean' = clean \/ (\E o \in Op \cup {None} : Disturbs(o)) \/ (\E r \in Op : Alone(r))
        \/ clean' = [o \in Op |-> FALSE]
        \/ \E o \in Op, v \in BOOLEAN : clean' = [clean EXCEPT ![o] = v]
    BY DEF Next, Snapshot, OpenFails, Quiesce, QuiesceMisses, Disconnect, TarStarts, SpawnFails,
      UploadCompletes, UploadFails, PutManifest, ManifestFails, List, ListFails, Delete,
      DeleteFails, PruneEnds, TarChild, TarExits, TarFails, Resume, ResumeFails,
      RunRestore, Pick, RestoreBegins, SafetySkipped, StopForSnapshot, StopFails, Fetch,
      FetchFails, Purge, PurgeFails, Extract, ExtractFails, Start, StartFails, Begin,
      Play, Autosave, SomebodyStops, SomebodyStarts, Order, BotEnds, Tick, Op
  <2> QED
    BY <1>t, <2>1, CleanType DEF RestOK
<1>4. unpaired' \in BOOLEAN
  <2>1. ASSUME NEW b \in Backup, Begin(b) PROVE unpaired' = unpaired
    BY <2>1 DEF Begin
  <2>2. ASSUME NEW r \in Restore, RunRestore(r) PROVE unpaired' = unpaired
    BY <2>2 DEF RunRestore, Pick, RestoreBegins, SafetySkipped, StopForSnapshot, StopFails,
         Fetch, FetchFails, Purge, PurgeFails, Extract, ExtractFails, Start, StartFails
  <2>3. ASSUME NEW o \in Op, Snapshot(o) \/ TarChild(o) PROVE unpaired' = unpaired \/ unpaired' = TRUE
    BY <2>3 DEF Snapshot, OpenFails, Quiesce, QuiesceMisses, Disconnect, TarStarts, SpawnFails,
         UploadCompletes, UploadFails, PutManifest, ManifestFails, List, ListFails, Delete,
         DeleteFails, PruneEnds, TarChild, TarExits, TarFails, Resume, ResumeFails
  <2>4. CASE Play \/ Autosave \/ SomebodyStops \/ SomebodyStarts \/ BotEnds \/ Tick
    BY <1>t, <2>4 DEF RestOK, Play, Autosave, SomebodyStops, SomebodyStarts, Order, BotEnds, Tick
  <2> QED
    BY <1>t, <2>1, <2>2, <2>3, <2>4 DEF RestOK, Next
<1> QED
  BY <1>0, <1>1, <1>2, <1>3, <1>4 DEF RestOK

LEMMA BucketStep == TypeOK /\ Next => BucketOK'
<1> SUFFICES ASSUME TypeOK, Next PROVE BucketOK'
  OBVIOUS
<1>t. ServerOK /\ BucketOK /\ FlowOK /\ RestOK
  BY TypeParts
<1>g. /\ now' \in Nat /\ now <= now' /\ worlds' \in Nat /\ worlds <= worlds'
      /\ ever \subseteq ever' /\ ever' \subseteq 0..now'
  BY Growth
<1>1. manifests' \subseteq 0..now'
  <2>1. manifests' \subseteq manifests \/ \E o \in Op : manifests' = manifests \cup {stamp[o]}
    BY DEF Next, Snapshot, OpenFails, Quiesce, QuiesceMisses, Disconnect, TarStarts, SpawnFails,
      UploadCompletes, UploadFails, PutManifest, ManifestFails, List, ListFails, Delete,
      DeleteFails, PruneEnds, TarChild, TarExits, TarFails, Resume, ResumeFails,
      RunRestore, Pick, RestoreBegins, SafetySkipped, StopForSnapshot, StopFails, Fetch,
      FetchFails, Purge, PurgeFails, Extract, ExtractFails, Start, StartFails, Begin,
      Play, Autosave, SomebodyStops, SomebodyStarts, Order, BotEnds, Tick, bucket
  <2>2. manifests \subseteq 0..now /\ \A o \in Op : stamp[o] \in 0..now
    BY <1>t DEF BucketOK, FlowOK
  <2>3. 0..now \subseteq 0..now'
    BY <1>t, <1>g DEF RestOK
  <2>4. \A T : manifests \subseteq T /\ (\A o \in Op : stamp[o] \in T) => manifests' \subseteq T
    BY <2>1
  <2> QED
    BY <2>2, <2>3, <2>4
<1>2. DOMAIN tarballs' \subseteq ever' /\ \A k \in DOMAIN tarballs' : tarballs'[k] \in 0..worlds'
  <2>0. 0..worlds \subseteq 0..worlds'
    BY <1>t, <1>g DEF RestOK
  <2>1. \/ tarballs' = tarballs
        \/ \E o \in Op : Store(o)
        \/ \E k \in ever : tarballs' = [x \in DOMAIN tarballs \ {k} |-> tarballs[x]]
    <3>1. \A o \in Op : doomed[o] \subseteq ever
      BY <1>t DEF FlowOK
    <3>2. ASSUME NEW o \in Op, Snapshot(o)
          PROVE \/ tarballs' = tarballs
                \/ Store(o)
                \/ \E k \in ever : tarballs' = [x \in DOMAIN tarballs \ {k} |-> tarballs[x]]
      BY <3>1, <3>2 DEF Snapshot, OpenFails, Quiesce, QuiesceMisses, Disconnect, TarStarts, SpawnFails,
        UploadCompletes, UploadFails, PutManifest, ManifestFails, List, ListFails, Delete,
        DeleteFails, PruneEnds, bucket
    <3> QED
      BY <3>2 DEF Next, TarChild, TarExits, TarFails, Resume, ResumeFails,
        RunRestore, Pick, RestoreBegins, SafetySkipped, StopForSnapshot, StopFails, Fetch,
        FetchFails, Purge, PurgeFails, Extract, ExtractFails, Start, StartFails, Begin,
        Play, Autosave, SomebodyStops, SomebodyStarts, Order, BotEnds, Tick, bucket
  <2>2. CASE tarballs' = tarballs
    BY <1>t, <1>g, <2>0, <2>2 DEF BucketOK
  <2>3. ASSUME NEW o \in Op, Store(o)
        PROVE DOMAIN tarballs' \subseteq ever' /\ \A k \in DOMAIN tarballs' : tarballs'[k] \in 0..worlds'
    <3>1. content[o] \in 0..worlds
      BY <1>t DEF ServerOK
    <3>2. /\ DOMAIN tarballs' = DOMAIN tarballs \cup {stamp[o]}
          /\ \A k \in DOMAIN tarballs' : tarballs'[k] \in {content[o], tarballs[k]}
          /\ \A k \in DOMAIN tarballs' \ {stamp[o]} : tarballs'[k] = tarballs[k]
          /\ tarballs'[stamp[o]] = content[o]
          /\ ever' = ever \cup {stamp[o]}
      BY <2>3 DEF Store
    <3> QED
      BY <1>t, <2>0, <3>1, <3>2 DEF BucketOK
  <2>4. ASSUME NEW k \in ever, tarballs' = [x \in DOMAIN tarballs \ {k} |-> tarballs[x]]
        PROVE DOMAIN tarballs' \subseteq ever' /\ \A x \in DOMAIN tarballs' : tarballs'[x] \in 0..worlds'
    BY <1>t, <1>g, <2>0, <2>4 DEF BucketOK
  <2> QED
    BY <2>1, <2>2, <2>3, <2>4
<1> QED
  BY <1>g, <1>1, <1>2 DEF BucketOK

LEMMA FlowStep == TypeOK /\ Next => FlowOK'
<1> SUFFICES ASSUME TypeOK, Next PROVE FlowOK'
  OBVIOUS
<1>t. BucketOK /\ FlowOK /\ RestOK
  BY TypeParts
<1>g. /\ now' \in Nat /\ now <= now' /\ worlds' \in Nat /\ worlds <= worlds'
      /\ ever \subseteq ever'
  BY Growth
<1>0. 0..now \subseteq 0..now' /\ 0..worlds \subseteq 0..worlds' /\ SUBSET ever \subseteq SUBSET ever'
  BY <1>t, <1>g DEF RestOK
<1>1. ASSUME NEW o \in Op, Snapshot(o)
      PROVE /\ pc' \in [Op -> Pc] /\ landed' \in [Op -> BOOLEAN]
            /\ wants' = wants /\ key' = key /\ fetched' = fetched
            /\ stamp' \in [Op -> 0..now]
            /\ doomed' \in [Op -> SUBSET ever]
  <2>1. wants' = wants /\ key' = key /\ fetched' = fetched
    BY <1>1 DEF Snapshot, OpenFails, Quiesce, QuiesceMisses, Disconnect, TarStarts, SpawnFails,
      UploadCompletes, UploadFails, PutManifest, ManifestFails, List, ListFails, Delete,
      DeleteFails, PruneEnds
  <2>2. stamp' = stamp \/ stamp' = [stamp EXCEPT ![o] = now]
    BY <1>1 DEF Snapshot, OpenFails, Quiesce, QuiesceMisses, Disconnect, TarStarts, SpawnFails,
      UploadCompletes, UploadFails, PutManifest, ManifestFails, List, ListFails, Delete,
      DeleteFails, PruneEnds
  <2>3. \/ doomed' = doomed
        \/ doomed' = [doomed EXCEPT ![o] = KeysToPrune(DOMAIN tarballs)]
        \/ \E k \in doomed[o] : doomed' = [doomed EXCEPT ![o] = @ \ {k}]
    BY <1>1 DEF Snapshot, OpenFails, Quiesce, QuiesceMisses, Disconnect, TarStarts, SpawnFails,
      UploadCompletes, UploadFails, PutManifest, ManifestFails, List, ListFails, Delete,
      DeleteFails, PruneEnds
  <2>4. KeysToPrune(DOMAIN tarballs) \in SUBSET ever
    BY <1>t DEF BucketOK, KeysToPrune
  <2>5. doomed' \in [Op -> SUBSET ever]
    BY <1>t, <2>3, <2>4 DEF FlowOK
  <2>6. stamp' \in [Op -> 0..now]
    BY <1>t, <2>2 DEF FlowOK, RestOK
  <2>7. \/ SnapshotEnds(o, TRUE) \/ SnapshotEnds(o, FALSE)
        \/ landed' = landed /\ (pc' = pc \/ \E p \in Pc : Goto(o, p))
    BY <1>1 DEF Snapshot, OpenFails, Quiesce, QuiesceMisses, Disconnect, TarStarts, SpawnFails,
      UploadCompletes, UploadFails, PutManifest, ManifestFails, List, ListFails, Delete,
      DeleteFails, PruneEnds, Pc
  <2>8. pc' \in [Op -> Pc] /\ landed' \in [Op -> BOOLEAN]
    BY <1>t, <2>7, SnapshotEndsType DEF FlowOK, Goto
  <2> QED
    BY <2>1, <2>5, <2>6, <2>8
<1>2. ASSUME NEW o \in Op, TarChild(o) PROVE UNCHANGED flow
  BY <1>2 DEF TarChild, TarExits, TarFails, Resume, ResumeFails
<1>3. ASSUME NEW r \in Op, r \in Restore, RunRestore(r)
      PROVE /\ pc' \in [Op -> Pc] /\ landed' = landed /\ doomed' = doomed /\ stamp' = stamp
            /\ wants' \in [Op -> BOOLEAN] /\ key' \in [Op -> 0..now]
            /\ fetched' \in [Op -> 0..worlds]
  <2>1. landed' = landed /\ doomed' = doomed /\ stamp' = stamp /\ \E p \in Pc : Goto(r, p)
    BY <1>3 DEF RunRestore, Pick, RestoreBegins, SafetySkipped, StopForSnapshot, StopFails,
      Fetch, FetchFails, Purge, PurgeFails, Extract, ExtractFails, Start, StartFails, Pc
  <2>2. wants' = wants \/ wants' = [wants EXCEPT ![r] = (game = "running")]
    BY <1>3 DEF RunRestore, Pick, RestoreBegins, SafetySkipped, StopForSnapshot, StopFails,
      Fetch, FetchFails, Purge, PurgeFails, Extract, ExtractFails, Start, StartFails
  <2>3. key' = key \/ \E k \in Visible : key' = [key EXCEPT ![r] = k]
    BY <1>3 DEF RunRestore, Pick, RestoreBegins, SafetySkipped, StopForSnapshot, StopFails,
      Fetch, FetchFails, Purge, PurgeFails, Extract, ExtractFails, Start, StartFails
  <2>4. \/ fetched' = fetched
        \/ key[r] \in DOMAIN tarballs /\ fetched' = [fetched EXCEPT ![r] = tarballs[key[r]]]
    BY <1>3 DEF RunRestore, Pick, RestoreBegins, SafetySkipped, StopForSnapshot, StopFails,
      Fetch, FetchFails, Purge, PurgeFails, Extract, ExtractFails, Start, StartFails
  <2>5. pc' \in [Op -> Pc]
    BY <1>t, <2>1 DEF FlowOK, Goto
  <2>6. wants' \in [Op -> BOOLEAN]
    BY <1>t, <2>2 DEF FlowOK
  <2>7. key' \in [Op -> 0..now]
    BY <1>t, <2>3 DEF FlowOK, BucketOK, Visible
  <2>8. fetched' \in [Op -> 0..worlds]
    BY <1>t, <2>4 DEF FlowOK, BucketOK
  <2> QED
    BY <2>1, <2>5, <2>6, <2>7, <2>8
<1>4. ASSUME NEW b \in Op, Begin(b)
      PROVE /\ pc' \in [Op -> Pc] /\ wants' \in [Op -> BOOLEAN]
            /\ UNCHANGED <<stamp, doomed, key, fetched, landed>>
  BY <1>t, <1>4 DEF Begin, Goto, FlowOK, Pc
<1>5. CASE Play \/ Autosave \/ SomebodyStops \/ SomebodyStarts \/ Tick
  <2>1. UNCHANGED flow
    BY <1>5 DEF Play, Autosave, SomebodyStops, SomebodyStarts, Order, Tick
  <2> QED
    BY <1>t, <1>0, <2>1 DEF flow, FlowOK
<1>6. CASE BotEnds
  BY <1>t, <1>0, <1>6 DEF BotEnds, FlowOK, Pc
<1>7. CASE \E o \in Op : Snapshot(o)
  BY <1>t, <1>0, <1>1, <1>7 DEF FlowOK
<1>8. CASE \E o \in Op : TarChild(o)
  BY <1>t, <1>0, <1>2, <1>8 DEF flow, FlowOK
<1>9. CASE \E r \in Restore : RunRestore(r)
  BY <1>t, <1>0, <1>3, <1>9 DEF FlowOK, Op
<1>10. CASE \E b \in Backup : Begin(b)
  BY <1>t, <1>0, <1>4, <1>10 DEF FlowOK, Op
<1> QED
  BY <1>5, <1>6, <1>7, <1>8, <1>9, <1>10 DEF Next

\* Type correctness of backup/: server, bucket, flows and tar children keep
\* their types.
THEOREM TypeCorrect == Spec => []TypeOK
<1>1. Init => TypeOK
  <2> SUFFICES ASSUME Init PROVE TypeOK
    OBVIOUS
  <2>1. Retention \in Nat /\ MaxTroubles \in Nat
    BY BackupsAssumption
  <2>2. 1..Retention \subseteq 0..(Retention + 1) /\ 0 \in 0..(Retention + 1)
    BY <2>1
  <2>3. ServerOK /\ RestOK
    <3>1. worlds \in Nat /\ now \in Nat /\ troubles \in Nat
      BY <2>1 DEF Init
    <3>2. memory \in 0..worlds /\ disk \in 0..worlds
      BY <2>1 DEF Init
    <3> QED
      BY <2>2, <3>1, <3>2 DEF Init, ServerOK, RestOK, Torn
  <2>4. BucketOK /\ FlowOK
    BY <2>1, <2>2 DEF Init, BucketOK, FlowOK, Pc, Torn
  <2> QED
    BY <2>3, <2>4, TypeParts
<1>2. TypeOK /\ [Next]_vars => TypeOK'
  <2>1. TypeOK /\ Next => TypeOK'
    BY ServerStep, BucketStep, FlowStep, RestStep, TypeParts DEF TypeOK, ServerOK,
       BucketOK, FlowOK, RestOK, Pc
  <2>2. TypeOK /\ UNCHANGED vars => TypeOK'
    BY DEF TypeOK, vars, server, bucket, flow, tars, bounds
  <2> QED
    BY <2>1, <2>2
<1> QED
  BY <1>1, <1>2, PTL DEF Spec

------------------------------------------------------------------------------
(* Retention.  A listing may be old by the time its prune gets to a key, but  *)
(* the backups that condemned the key were stored, and being stored is for    *)
(* ever: Newer never shrinks.                                                 *)

LEMMA AfterGrows ==
  ASSUME NEW S, NEW T, S \subseteq T, IsFiniteSet(T), NEW k
  PROVE  /\ Cardinality(After(S, k)) \in Nat /\ Cardinality(After(T, k)) \in Nat
         /\ Cardinality(After(S, k)) <= Cardinality(After(T, k))
<1>1. After(S, k) \subseteq After(T, k) /\ After(T, k) \subseteq T
  BY DEF After
<1>2. IsFiniteSet(After(T, k))
  BY <1>1, FS_Subset
<1> QED
  BY <1>1, <1>2, FS_Subset, FS_CardinalityType

LEMMA EverIsFinite == TypeOK => IsFiniteSet(ever)
<1> SUFFICES ASSUME TypeOK PROVE IsFiniteSet(ever)
  OBVIOUS
<1>1. now \in Int /\ ever \subseteq 0..now
  BY DEF TypeOK
<1>2. IsFiniteSet(0..now)
  BY <1>1, FS_Interval
<1> QED
  BY <1>1, <1>2, FS_Subset

\* Nothing condemned stops being so.
LEMMA OldStaysOld ==
  ASSUME TypeOK, TypeOK', ever \subseteq ever', NEW k, Newer(k) >= Retention
  PROVE  Newer(k)' >= Retention
<1>1. IsFiniteSet(ever')
  <2>1. now' \in Int /\ ever' \subseteq 0..now'
    BY DEF TypeOK
  <2>2. IsFiniteSet(0..now')
    BY <2>1, FS_Interval
  <2> QED
    BY <2>1, <2>2, FS_Subset
<1>2. /\ Cardinality(After(ever, k)) \in Nat /\ Cardinality(After(ever', k)) \in Nat
      /\ Cardinality(After(ever, k)) <= Cardinality(After(ever', k))
  BY <1>1, AfterGrows
<1>3. Newer(k) = Cardinality(After(ever, k)) /\ Newer(k)' = Cardinality(After(ever', k))
  BY DEF Newer, After
<1>4. Retention \in Nat
  BY BackupsAssumption
<1> QED
  BY <1>2, <1>3, <1>4

\* What a flow is still to delete is old, whatever was stored since it looked.
DoomedAreOld == \A o \in Op : \A k \in doomed[o] : Newer(k) >= Retention

\* A stamp that is stored with its manifest, or was and is old.
Recorded(k) == k \in ever /\ (k \in manifests \/ Newer(k) >= Retention)

\* How far a flow has come with its own backup.
OwnBackup ==
  \A o \in Op :
    /\ pc[o] = "manifest" => stamp[o] \in ever
    /\ pc[o] \in {"listing", "pruning"} => Recorded(stamp[o])
    /\ landed[o] => /\ Recorded(stamp[o])
                    /\ pc[o] \notin {"idle", "picked", "opening", "quiesced", "uploading", "manifest"}

IInv == NewestRetained /\ DoomedAreOld /\ OwnBackup

\* A delete takes only what is old.
LEMMA DeletesAreOld ==
  ASSUME TypeOK, DoomedAreOld, Next
  PROVE  /\ \A k \in DOMAIN tarballs : k \in DOMAIN tarballs' \/ Newer(k) >= Retention
         /\ \A k \in manifests : k \in manifests' \/ Newer(k) >= Retention
         /\ \A k \in ever' \ ever : k \in DOMAIN tarballs'
<1> USE DEF bucket
<1>1. ASSUME NEW o \in Op, Delete(o) \/ DeleteFails(o)
      PROVE  /\ \A k \in DOMAIN tarballs : k \in DOMAIN tarballs' \/ Newer(k) >= Retention
             /\ \A k \in manifests : k \in manifests' \/ Newer(k) >= Retention
             /\ ever' = ever
  BY <1>1 DEF Delete, DeleteFails, DoomedAreOld
<1>2. ASSUME NEW o \in Op, Store(o)
      PROVE  DOMAIN tarballs' = DOMAIN tarballs \cup {stamp[o]} /\ ever' = ever \cup {stamp[o]}
  BY <1>2 DEF Store
<1>3. ASSUME NEW o \in Op, Snapshot(o)
      PROVE  \/ Delete(o) \/ DeleteFails(o)
             \/ (Store(o) \/ UNCHANGED <<tarballs, ever>>) /\ manifests \subseteq manifests'
  BY <1>3 DEF Snapshot, OpenFails, Quiesce, QuiesceMisses, Disconnect, TarStarts, SpawnFails,
    UploadCompletes, UploadFails, PutManifest, ManifestFails, List, ListFails, PruneEnds
<1>4. (\E o \in Op : Snapshot(o)) \/ UNCHANGED bucket
  BY DEF Next, TarChild, TarExits, TarFails, Resume, ResumeFails, RunRestore, Pick,
    RestoreBegins, SafetySkipped, StopForSnapshot, StopFails, Fetch, FetchFails, Purge,
    PurgeFails, Extract, ExtractFails, Start, StartFails, Begin, Play, Autosave,
    SomebodyStops, SomebodyStarts, Order, BotEnds, Tick
<1> QED
  BY <1>1, <1>2, <1>3, <1>4

\* A step of a flow, with what it does to the bucket and to the flow's own
\* account of its backup.
LEMMA IInvStep == TypeOK /\ TypeOK' /\ IInv /\ Next => IInv'
<1> SUFFICES ASSUME TypeOK, TypeOK', IInv, Next PROVE IInv'
  OBVIOUS
<1>g. ever \subseteq ever'
  BY Growth
<1>o. ASSUME NEW k, Newer(k) >= Retention PROVE Newer(k)' >= Retention
  BY <1>g, <1>o, OldStaysOld
<1>d. /\ \A k \in DOMAIN tarballs : k \in DOMAIN tarballs' \/ Newer(k) >= Retention
      /\ \A k \in manifests : k \in manifests' \/ Newer(k) >= Retention
      /\ \A k \in ever' \ ever : k \in DOMAIN tarballs'
  BY DeletesAreOld DEF IInv
<1>r. ASSUME NEW k, Recorded(k) PROVE Recorded(k)'
  BY <1>g, <1>d, <1>o, <1>r DEF Recorded
<1>1. NewestRetained'
  BY <1>d, <1>o DEF IInv, NewestRetained
<1>2. DoomedAreOld'
  <2>1. \A k \in KeysToPrune(DOMAIN tarballs) : Newer(k) >= Retention
    <3> SUFFICES ASSUME NEW k \in KeysToPrune(DOMAIN tarballs) PROVE Newer(k) >= Retention
      OBVIOUS
    <3>1. DOMAIN tarballs \subseteq ever /\ IsFiniteSet(ever)
      BY EverIsFinite DEF TypeOK
    <3>2. /\ Cardinality(After(DOMAIN tarballs, k)) \in Nat
          /\ Cardinality(After(ever, k)) \in Nat
          /\ Cardinality(After(DOMAIN tarballs, k)) <= Cardinality(After(ever, k))
      BY <3>1, AfterGrows
    <3>3. Cardinality(After(DOMAIN tarballs, k)) >= Retention
      BY DEF KeysToPrune
    <3> QED
      BY <3>2, <3>3, BackupsAssumption DEF Newer
  <2>2. \/ doomed' = doomed
        \/ \E o \in Op : \/ doomed' = [doomed EXCEPT ![o] = KeysToPrune(DOMAIN tarballs)]
                         \/ \E k \in doomed[o] : doomed' = [doomed EXCEPT ![o] = @ \ {k}]
    <3>1. ASSUME NEW b \in Backup, Begin(b) PROVE doomed' = doomed
      BY <3>1 DEF Begin
    <3>2. ASSUME NEW r \in Restore, RunRestore(r) PROVE doomed' = doomed
      BY <3>2 DEF RunRestore, Pick, RestoreBegins, SafetySkipped, StopForSnapshot, StopFails,
         Fetch, FetchFails, Purge, PurgeFails, Extract, ExtractFails, Start, StartFails
    <3>3. ASSUME NEW o \in Op, Snapshot(o) \/ TarChild(o)
          PROVE  \/ doomed' = doomed
                 \/ doomed' = [doomed EXCEPT ![o] = KeysToPrune(DOMAIN tarballs)]
                 \/ \E k \in doomed[o] : doomed' = [doomed EXCEPT ![o] = @ \ {k}]
      BY <3>3 DEF Snapshot, OpenFails, Quiesce, QuiesceMisses, Disconnect, TarStarts, SpawnFails,
         UploadCompletes, UploadFails, PutManifest, ManifestFails, List, ListFails, Delete,
         DeleteFails, PruneEnds, TarChild, TarExits, TarFails, Resume, ResumeFails, flow
    <3>4. CASE Play \/ Autosave \/ SomebodyStops \/ SomebodyStarts \/ BotEnds \/ Tick
      BY <3>4 DEF Play, Autosave, SomebodyStops, SomebodyStarts, Order, BotEnds, Tick, flow
    <3> QED
      BY <3>1, <3>2, <3>3, <3>4 DEF Next
  <2>3. \A o \in Op : \A k \in doomed'[o] : Newer(k) >= Retention
    <3>1. doomed \in [Op -> SUBSET ever]
      BY DEF TypeOK
    <3>2. \A o \in Op : \A k \in doomed[o] : Newer(k) >= Retention
      BY DEF IInv, DoomedAreOld
    <3>3. ASSUME NEW o \in Op, NEW S, \A k \in S : Newer(k) >= Retention,
                 doomed' = [doomed EXCEPT ![o] = S]
          PROVE  \A q \in Op : \A k \in doomed'[q] : Newer(k) >= Retention
      BY <3>1, <3>2, <3>3
    <3>4. ASSUME NEW o \in Op, NEW k \in doomed[o], doomed' = [doomed EXCEPT ![o] = @ \ {k}]
          PROVE  \A q \in Op : \A j \in doomed'[q] : Newer(j) >= Retention
      BY <3>1, <3>2, <3>4
    <3> QED
      BY <2>1, <2>2, <3>2, <3>3, <3>4
  <2> QED
    BY <2>3, <1>o DEF DoomedAreOld
<1>3. OwnBackup'
  <2> DEFINE Own(o) ==
    /\ pc[o] = "manifest" => stamp[o] \in ever
    /\ pc[o] \in {"listing", "pruning"} => Recorded(stamp[o])
    /\ landed[o] => /\ Recorded(stamp[o])
                    /\ pc[o] \notin {"idle", "picked", "opening", "quiesced", "uploading", "manifest"}
  <2>0. \A o \in Op : Own(o)
    BY DEF IInv, OwnBackup
  <2>k. ASSUME NEW o \in Op, stamp'[o] = stamp[o], landed'[o] = landed[o], pc'[o] = pc[o]
        PROVE  Own(o)'
    BY <1>g, <1>r, <2>0, <2>k
  <2>1. ASSUME NEW p \in Op, Snapshot(p), NEW o \in Op PROVE Own(o)'
    <3>t. /\ pc \in [Op -> Pc] /\ stamp \in [Op -> 0..now] /\ landed \in [Op -> BOOLEAN]
      BY DEF TypeOK, Pc
    <3>1. CASE o # p
      <4>1. stamp'[o] = stamp[o] /\ landed'[o] = landed[o] /\ pc'[o] = pc[o]
        BY <2>1, <3>t, <3>1 DEF Snapshot, OpenFails, Quiesce, QuiesceMisses, Disconnect,
          TarStarts, SpawnFails, UploadCompletes, UploadFails, PutManifest, ManifestFails, List,
          ListFails, Delete, DeleteFails, PruneEnds, SnapshotEnds, Goto
      <4> QED
        BY <2>k, <4>1
    <3>2. CASE o = p
      <4>1. CASE Quiesce(p) \/ QuiesceMisses(p) \/ TarStarts(p)
        BY <2>0, <3>t, <3>2, <4>1 DEF Quiesce, QuiesceMisses, TarStarts, Goto
      <4>2. CASE \/ OpenFails(p) \/ Disconnect(p) \/ SpawnFails(p)
                 \/ UploadFails(p) \/ ManifestFails(p)
        BY <3>t, <3>2, <4>2 DEF OpenFails, Disconnect, SpawnFails, UploadFails, ManifestFails,
          SnapshotEnds, Goto
      <4>3. CASE UploadCompletes(p)
        BY <2>0, <3>t, <3>2, <4>3 DEF UploadCompletes, Store, Goto
      <4>4. CASE PutManifest(p)
        BY <2>0, <3>t, <3>2, <4>4 DEF PutManifest, Goto, Recorded
      <4>5. CASE List(p)
        BY <1>r, <2>0, <3>t, <3>2, <4>5 DEF List, Goto
      <4>6. CASE Delete(p) \/ DeleteFails(p)
        BY <2>k, <3>2, <4>6 DEF Delete, DeleteFails
      <4>7. CASE ListFails(p) \/ PruneEnds(p)
        BY <1>r, <2>0, <3>t, <3>2, <4>7 DEF ListFails, PruneEnds, SnapshotEnds, Goto
      <4> QED
        BY <2>1, <4>1, <4>2, <4>3, <4>4, <4>5, <4>6, <4>7 DEF Snapshot
    <3> QED
      BY <3>1, <3>2
  <2>2. ASSUME NEW r \in Restore, RunRestore(r), NEW o \in Op PROVE Own(o)'
    <3>t. pc \in [Op -> Pc] /\ stamp' = stamp /\ landed' = landed
      BY <2>2 DEF TypeOK, Pc, RunRestore, Pick, RestoreBegins, SafetySkipped,
        StopForSnapshot, StopFails, Fetch, FetchFails, Purge, PurgeFails, Extract,
        ExtractFails, Start, StartFails
    <3>1. CASE o # r
      BY <2>k, <2>2, <3>t, <3>1 DEF RunRestore, Pick, RestoreBegins, SafetySkipped,
        StopForSnapshot, StopFails, Fetch, FetchFails, Purge, PurgeFails, Extract,
        ExtractFails, Start, StartFails, Goto
    <3>2. CASE o = r
      <4>1. \/ pc[o] \in {"idle", "picked"} /\ pc'[o] \in {"picked", "opening", "stopping"}
            \/ pc'[o] \in {"fetching", "purging", "extracting", "starting", "ended"}
        BY <2>2, <3>t, <3>2 DEF RunRestore, Pick, RestoreBegins, SafetySkipped,
          StopForSnapshot, StopFails, Fetch, FetchFails, Purge, PurgeFails, Extract,
          ExtractFails, Start, StartFails, Goto
      <4> QED
        BY <1>r, <2>0, <3>t, <4>1
    <3> QED
      BY <3>1, <3>2
  <2>3. ASSUME NEW b \in Backup, Begin(b), NEW o \in Op PROVE Own(o)'
    <3>t. pc \in [Op -> Pc] /\ stamp' = stamp /\ landed' = landed
      BY <2>3 DEF TypeOK, Pc, Begin
    <3>1. pc'[o] = pc[o] \/ (pc[o] = "idle" /\ pc'[o] = "opening")
      BY <2>3, <3>t DEF Begin, Goto
    <3>2. CASE pc'[o] = pc[o]
      BY <2>k, <3>t, <3>2
    <3>3. CASE pc[o] = "idle" /\ pc'[o] = "opening"
      BY <2>0, <3>t, <3>3
    <3> QED
      BY <3>1, <3>2, <3>3
  <2>4. ASSUME NEW p \in Op, TarChild(p), NEW o \in Op PROVE Own(o)'
    BY <2>k, <2>4 DEF TarChild, TarExits, TarFails, Resume, ResumeFails, flow
  <2>5. ASSUME Play \/ Autosave \/ SomebodyStops \/ SomebodyStarts \/ Tick, NEW o \in Op
        PROVE  Own(o)'
    BY <2>k, <2>5 DEF Play, Autosave, SomebodyStops, SomebodyStarts, Order, Tick, flow
  <2>6. ASSUME BotEnds, NEW o \in Op PROVE Own(o)'
    BY <1>r, <2>0, <2>6 DEF BotEnds
  <2> QED
    BY <2>1, <2>2, <2>3, <2>4, <2>5, <2>6 DEF Next, OwnBackup
<1> QED
  BY <1>1, <1>2, <1>3 DEF IInv

\* The inductive invariant of the bucket: what is gone, what is about to go, and
\* what every flow of backup/orchestrate.rs may claim about its own backup.
THEOREM RetentionInvariant == Spec => []IInv
<1>1. Init => IInv
  BY DEF Init, IInv, NewestRetained, DoomedAreOld, OwnBackup
<1>2. TypeOK /\ TypeOK' /\ IInv /\ [Next]_vars => IInv'
  <2>1. IInv /\ UNCHANGED vars => IInv'
    BY DEF IInv, NewestRetained, DoomedAreOld, OwnBackup, Recorded, Newer, After, vars,
       bucket, flow
  <2> QED
    BY <2>1, IInvStep
<1> QED
  BY <1>1, <1>2, TypeCorrect, PTL DEF Spec

\* prune_backups never deletes one of the newest Retention backups ever stored,
\* however many flows prune at once and however old their listings are.
THEOREM NewestRetainedAlways == Spec => []NewestRetained
<1>1. IInv => NewestRetained
  BY DEF IInv
<1> QED
  BY <1>1, RetentionInvariant, PTL

\* A snapshot_target that said BackedUp left a backup that is listed, until
\* Retention later ones have been stored.
THEOREM BackedUpIsKeptAlways == Spec => []BackedUpIsKept
<1>1. IInv => BackedUpIsKept
  BY DEF IInv, OwnBackup, Recorded, NewestRetained, BackedUpIsKept, Visible
<1> QED
  BY <1>1, RetentionInvariant, PTL

------------------------------------------------------------------------------
(* Worlds.  A tar that nobody disturbed reads a volume nobody writes: the game *)
(* is down, or its saves are off.  A restore that nobody disturbed has the     *)
(* game down from its stop to its start, and the volume to itself.             *)

Reads == {"uploading", "manifest", "listing", "pruning"}
Writes == {"fetching", "purging", "extracting", "starting"}

AtRest(o) ==
  /\ pc[o] \in Reads /\ clean[o] =>
       /\ content[o] # Torn
       /\ tar[o] = "reading" => game = "stopped" \/ ~saves
  /\ pc[o] \in Writes /\ clean[o] =>
       /\ game = "stopped"
       /\ pc[o] = "extracting" => writer = o
       /\ pc[o] = "starting" => disk = fetched[o]

WorldInv == \A o \in Op : AtRest(o)

\* Whoever loses the flag, or has nothing at stake, stays at rest.
LEMMA SparedAtRest ==
  ASSUME NEW o \in Op, AtRest(o), pc'[o] = pc[o],
         clean'[o] => clean[o] /\ o \notin Exposed,
         tar'[o] = tar[o], tar[o] # "reading" => content'[o] = content[o]
  PROVE  AtRest(o)'
  BY DEF AtRest, Exposed, Writes

\* So does everybody when the volume, the game and the pause stay.
LEMMA UntouchedAtRest ==
  ASSUME NEW o \in Op, AtRest(o), pc'[o] = pc[o], clean'[o] => clean[o],
         fetched'[o] = fetched[o], content'[o] = content[o],
         tar'[o] \in {tar[o], "exited", "reaped"},
         UNCHANGED <<game, disk, writer>>, saves' => saves
  PROVE  AtRest(o)'
  BY DEF AtRest

\* A rewrite spoils only what a tar is reading.
LEMMA RewriteSpares ==
  ASSUME NEW world, NEW who, Rewrite(world, who), NEW o \in Op, tar[o] # "reading"
  PROVE  content'[o] = content[o]
  BY DEF Rewrite

\* Nobody rewrites /data under a flow that keeps its flag, but itself.
LEMMA DisturbedAtRest ==
  ASSUME NEW o \in Op, AtRest(o), NEW p, p # o, Disturbs(p) \/ (Alone(p) /\ p \in Op),
         clean \in [Op -> BOOLEAN], pc'[o] = pc[o], tar'[o] = tar[o],
         content' = content \/ \E world, who : Rewrite(world, who)
  PROVE  AtRest(o)'
<1>1. clean'[o] => clean[o] /\ o \notin Exposed
  BY DEF Disturbs, Alone
<1>2. tar[o] # "reading" => content'[o] = content[o]
  BY RewriteSpares
<1> QED
  BY <1>1, <1>2, SparedAtRest

LEMMA SnapshotAtRest ==
  ASSUME TypeOK, WorldInv, NEW p \in Op, Snapshot(p), NEW o \in Op
  PROVE  AtRest(o)'
<1>t. /\ pc \in [Op -> Pc] /\ clean \in [Op -> BOOLEAN] /\ fetched \in [Op -> 0..worlds]
      /\ content \in [Op -> 0..worlds]
      /\ tar \in [Op -> {"none", "reading", "exited", "reaped"}]
  BY DEF TypeOK, Pc
<1>0. AtRest(o)
  BY DEF WorldInv
<1>1. CASE Quiesce(p)
  <2>1. CASE o = p
    BY <1>t, <1>1, <2>1 DEF Quiesce, Goto, AtRest, Reads, Writes
  <2>2. CASE o # p
    BY <1>t, <1>0, <1>1, <2>2, DisturbedAtRest DEF Quiesce, Goto
  <2> QED
    BY <2>1, <2>2
<1>2. CASE TarStarts(p)
  <2>1. CASE o = p
    BY <1>t, <1>2, <2>1 DEF TarStarts, Goto, AtRest, Reads, Writes, server
  <2>2. CASE o # p
    BY <1>t, <1>0, <1>2, <2>2, UntouchedAtRest DEF TarStarts, Goto, server
  <2> QED
    BY <2>1, <2>2
<1>3. CASE QuiesceMisses(p)
  <2>1. CASE o = p
    BY <1>t, <1>3, <2>1 DEF QuiesceMisses, Goto, AtRest, Reads, Writes
  <2>2. CASE o # p
    <3>1. saves' => saves
      BY <1>3 DEF QuiesceMisses
    <3>2. /\ UNCHANGED <<game, disk, writer, content, clean, fetched, tar>>
          /\ pc'[o] = pc[o]
      BY <1>t, <1>3, <2>2 DEF QuiesceMisses, Goto, tars
    <3> QED
      BY <1>0, <3>1, <3>2, UntouchedAtRest
  <2> QED
    BY <2>1, <2>2
<1>4. CASE UploadCompletes(p) \/ PutManifest(p) \/ List(p) \/ Delete(p) \/ DeleteFails(p)
  <2>1. /\ UNCHANGED <<server, tars, clean, fetched>>
        /\ pc'[o] = pc[o] \/ {pc[o], pc'[o]} \subseteq Reads
    BY <1>t, <1>4 DEF UploadCompletes, PutManifest, List, Delete, DeleteFails, Goto, Reads
  <2> QED
    BY <1>0, <2>1 DEF server, tars, AtRest, Reads, Writes
<1>5. CASE OpenFails(p) \/ Disconnect(p) \/ UploadFails(p) \/ ManifestFails(p)
             \/ ListFails(p) \/ PruneEnds(p)
  <2>1. /\ UNCHANGED <<server, tars, fetched>> /\ (clean'[o] => clean[o])
        /\ \E b \in BOOLEAN : SnapshotEnds(p, b)
    BY <1>t, <1>5 DEF OpenFails, Disconnect, UploadFails, ManifestFails, ListFails, PruneEnds
  <2>2. pc'[o] = pc[o] \/ pc'[o] \in {"stopping", "ended"}
    BY <1>t, <2>1 DEF SnapshotEnds, Goto
  <2> QED
    BY <1>0, <2>1, <2>2 DEF server, tars, AtRest, Reads, Writes
<1>6. CASE SpawnFails(p)
  <2>1. /\ UNCHANGED <<game, disk, writer, content, fetched, tar>> /\ Disturbs(p)
        /\ SnapshotEnds(p, FALSE)
    BY <1>6 DEF SpawnFails, tars
  <2>2. pc'[o] = pc[o] \/ pc'[o] \in {"stopping", "ended"}
    BY <1>t, <2>1 DEF SnapshotEnds, Goto
  <2>3. CASE o = p
    BY <1>0, <1>t, <1>6, <2>1, <2>2, <2>3 DEF SpawnFails, SnapshotEnds, Goto, Disturbs, AtRest, Reads, Writes
  <2>4. CASE o # p
    BY <1>t, <1>0, <2>1, <2>2, <2>4, DisturbedAtRest DEF SnapshotEnds, Goto
  <2> QED
    BY <2>3, <2>4
<1> QED
  BY <1>1, <1>2, <1>3, <1>4, <1>5, <1>6 DEF Snapshot

LEMMA TarChildAtRest ==
  ASSUME TypeOK, WorldInv, NEW p \in Op, TarChild(p), NEW o \in Op
  PROVE  AtRest(o)'
<1>t. /\ clean \in [Op -> BOOLEAN] /\ content \in [Op -> 0..worlds]
      /\ tar \in [Op -> {"none", "reading", "exited", "reaped"}]
      /\ UNCHANGED <<game, disk, writer, flow>>
  BY DEF TypeOK, TarChild, TarExits, TarFails, Resume, ResumeFails, server
<1>0. AtRest(o)
  BY DEF WorldInv
<1>1. CASE o = p
  BY <1>t, <1>0, <1>1 DEF TarChild, TarExits, TarFails, Resume, ResumeFails, Disturbs,
    AtRest, server, flow
<1>2. CASE o # p /\ Resume(p)
  BY <1>t, <1>0, <1>2, DisturbedAtRest DEF Resume, flow
<1>3. CASE o # p /\ ~Resume(p)
  BY <1>t, <1>0, <1>3, UntouchedAtRest DEF TarChild, TarExits, TarFails, ResumeFails,
    server, flow
<1> QED
  BY <1>1, <1>2, <1>3

LEMMA RestoreAtRest ==
  ASSUME TypeOK, WorldInv, NEW r \in Restore, RunRestore(r), NEW o \in Op
  PROVE  AtRest(o)'
<1>t. /\ pc \in [Op -> Pc] /\ clean \in [Op -> BOOLEAN] /\ fetched \in [Op -> 0..worlds]
      /\ content \in [Op -> 0..worlds] /\ game \in {"running", "stopped"} /\ r \in Op
  BY DEF TypeOK, Pc, Op
<1>0. AtRest(o)
  BY DEF WorldInv
<1>1. CASE Pick(r) \/ RestoreBegins(r) \/ SafetySkipped(r) \/ FetchFails(r) \/ StartFails(r)
  <2>1. /\ UNCHANGED <<server, tars, clean, fetched>>
        /\ pc'[o] = pc[o] \/ pc'[o] \in {"picked", "opening", "stopping", "ended"}
    BY <1>t, <1>1 DEF Pick, RestoreBegins, SafetySkipped, FetchFails, StartFails, Goto
  <2> QED
    BY <1>0, <2>1 DEF server, tars, AtRest, Reads, Writes
<1>2. CASE Fetch(r)
  <2>1. CASE o = r
    BY <1>t, <1>0, <1>2, <2>1 DEF Fetch, Goto, AtRest, Reads, Writes, server
  <2>2. CASE o # r
    BY <1>t, <1>0, <1>2, <2>2, UntouchedAtRest DEF Fetch, Goto, server, tars
  <2> QED
    BY <2>1, <2>2
<1>3. CASE o = r /\ StopForSnapshot(r)
  <2>1. game' = "stopped"
    BY <1>t, <1>3 DEF StopForSnapshot, GameStops, server
  <2> QED
    BY <1>t, <1>3, <2>1 DEF StopForSnapshot, Goto, AtRest, Reads, Writes
<1>4. CASE o = r /\ (StopFails(r) \/ PurgeFails(r) \/ ExtractFails(r) \/ Start(r))
  <2>1. pc'[o] = "ended"
    BY <1>t, <1>4 DEF StopFails, PurgeFails, ExtractFails, Start, Goto
  <2> QED
    BY <2>1 DEF AtRest, Reads, Writes
<1>5. CASE o = r /\ Purge(r)
  BY <1>t, <1>0, <1>5 DEF Purge, Rewrite, Disturbs, Goto, AtRest, Reads, Writes
<1>6. CASE o = r /\ Extract(r)
  BY <1>t, <1>0, <1>6 DEF Extract, Rewrite, Disturbs, Goto, AtRest, Reads, Writes
<1>7. CASE o # r /\ (StopForSnapshot(r) \/ StopFails(r) \/ Purge(r) \/ PurgeFails(r)
                       \/ Extract(r) \/ ExtractFails(r) \/ Start(r))
  <2>1. pc'[o] = pc[o] /\ fetched' = fetched /\ tar' = tar
    BY <1>t, <1>7 DEF StopForSnapshot, StopFails, Purge, PurgeFails, Extract, ExtractFails,
      Start, Goto
  <2>2. \/ Disturbs(r) \/ Alone(r)
        \/ UNCHANGED <<server, content, clean>>
    BY <1>7 DEF StopForSnapshot, StopFails, Purge, PurgeFails, Extract, ExtractFails,
      Start, server
  <2>3. content' = content \/ \E world, who : Rewrite(world, who)
    BY <1>7 DEF StopForSnapshot, StopFails, Purge, PurgeFails, Extract, ExtractFails,
      Start, GameStops, GameStarts, Untouched
  <2>4. CASE Disturbs(r) \/ Alone(r)
    BY <1>t, <1>0, <1>7, <2>1, <2>3, <2>4, DisturbedAtRest
  <2>5. CASE UNCHANGED <<server, content, clean>>
    BY <1>0, <2>1, <2>5, UntouchedAtRest DEF server
  <2> QED
    BY <2>2, <2>4, <2>5
<1> QED
  BY <1>1, <1>2, <1>3, <1>4, <1>5, <1>6, <1>7 DEF RunRestore

LEMMA OthersAtRest ==
  ASSUME TypeOK, WorldInv, NEW o \in Op,
         \/ \E b \in Backup : Begin(b)
         \/ Play \/ Autosave \/ SomebodyStops \/ SomebodyStarts \/ BotEnds \/ Tick
  PROVE  AtRest(o)'
<1>t. /\ pc \in [Op -> Pc] /\ clean \in [Op -> BOOLEAN]
      /\ content \in [Op -> 0..worlds] /\ None # o
  BY BackupsAssumption DEF TypeOK, Pc, Op
<1>0. AtRest(o)
  BY DEF WorldInv
<1>1. ASSUME NEW b \in Backup, Begin(b) PROVE AtRest(o)'
  <2>1. /\ UNCHANGED <<server, tars, clean, fetched>>
        /\ pc'[o] = pc[o] \/ pc'[o] = "opening"
    BY <1>t, <1>1 DEF Begin, Goto, Op
  <2> QED
    BY <1>0, <2>1 DEF server, tars, AtRest, Reads, Writes
<1>2. CASE Play \/ Tick
  BY <1>0, <1>2, UntouchedAtRest DEF Play, Tick, server, tars, flow
<1>3. CASE Autosave
  BY <1>t, <1>0, <1>3 DEF Autosave, Rewrite, AtRest, Reads, flow
<1>4. CASE SomebodyStops \/ SomebodyStarts
  <2>1. pc' = pc /\ tar' = tar /\ Disturbs(None)
    BY <1>4 DEF SomebodyStops, SomebodyStarts, Order, flow
  <2>2. content' = content \/ \E world, who : Rewrite(world, who)
    BY <1>4 DEF SomebodyStops, SomebodyStarts, GameStops, GameStarts, Untouched
  <2> QED
    BY <1>t, <1>0, <2>1, <2>2, DisturbedAtRest
<1>5. CASE BotEnds
  BY <1>5 DEF BotEnds, AtRest
<1> QED
  BY <1>1, <1>2, <1>3, <1>4, <1>5

\* The inductive invariant of the volume: what every flow of
\* backup/orchestrate.rs that was left alone can rely on while it reads the
\* world through GET /archive, or replaces it through PUT /archive.
THEOREM WorldInvariant == Spec => []WorldInv
<1>1. Init => WorldInv
  BY DEF Init, WorldInv, AtRest
<1>2. TypeOK /\ WorldInv /\ [Next]_vars => WorldInv'
  <2>1. ASSUME TypeOK, WorldInv, Next PROVE WorldInv'
    BY <2>1, SnapshotAtRest, TarChildAtRest, RestoreAtRest, OthersAtRest DEF Next, WorldInv
  <2>2. WorldInv /\ UNCHANGED vars => WorldInv'
    BY DEF WorldInv, AtRest, vars, server, flow, tars
  <2> QED
    BY <2>1, <2>2
<1> QED
  BY <1>1, <1>2, TypeCorrect, PTL DEF Spec

\* A backup of a stopped or paused game that nobody disturbed holds one state of
\* the world: control.rs gives the saves back when its tar has ended, not before.
THEOREM UndisturbedIsWholeAlways == Spec => []UndisturbedIsWhole
<1>1. WorldInv => UndisturbedIsWhole
  BY DEF WorldInv, AtRest, Reads, UndisturbedIsWhole
<1> QED
  BY <1>1, WorldInvariant, PTL

\* run_restore, when no other restore, stop or start got in its way, starts the
\* game on the very world it downloaded.
THEOREM RestoreIsExactAlways == Spec => []RestoreIsExact
<1>1. WorldInv => RestoreIsExact
  BY DEF WorldInv, AtRest, Writes, RestoreIsExact, Op
<1> QED
  BY <1>1, WorldInvariant, PTL
==============================================================================
