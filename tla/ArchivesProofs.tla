---------------------------- MODULE ArchivesProofs ----------------------------
(* For any number of flows at one name, any number of stamps, failures and    *)
(* ends of the bot: a world that an archive took off the cluster stays what   *)
(* the newest archive holds, and no tarball is forgotten but by the failures  *)
(* that are known to forget.                                                  *)
EXTENDS Archives, TLAPS

-----------------------------------------------------------------------------
(* The inductive invariant.                                                   *)

\* What each point of a flow is part of.
PointsOK ==
  \A f \in Flow :
    /\ pc[f] \in {"stop", "tar", "upload", "record"} => op[f] = "archive"
    /\ pc[f] \in {"build", "fetch", "seed", "unpack", "launch"} => op[f] = "recover"
    /\ pc[f] = "wipe" => op[f] \in {"delete", "prune"}
    /\ pc[f] = "drop" => op[f] = "prune"
    /\ pc[f] = "forget" => op[f] = "delete"
    /\ pc[f] \in {"release", "confirm", "service", "volume"} =>
         op[f] \in {"archive", "recover", "destroy"}
    /\ pc[f] = "idle" => due[f] = None

\* The rows there are, and those a flow still means to drop.
Known(q) == q \in rows \/ \E f \in Flow : q \in todo[f]

\* Stamps and serials only grow, and a serial is one row's.
Bounded ==
  /\ \A f \in Flow : key[f] <= stamp /\ upto[f] <= serial
  /\ \A k \in lost : k <= stamp
  /\ \A q \in Row : Known(q) => q.key <= stamp /\ q.id <= serial
  /\ \A q, r \in rows : q.id = r.id => q = r

\* A stamp is that of such a row, or of the row a prune is about to drop.
Named(k) ==
  \/ \E q \in Row : Known(q) /\ q.key = k
  \/ \E f \in Flow : pc[f] = "drop" /\ key[f] = k

\* A stamp that no two archives were given.
Unshared(k) == ~spoilt \/ k \notin lost

Stores(f) == pc[f] \in {"upload", "record"}
Releases(f) == op[f] = "archive" /\ pc[f] \in {"release", "confirm", "service", "volume"}

\* Such a stamp names one object, one row and one flow on the way between them.
OwnKey ==
  /\ \A f \in Flow : Stores(f) /\ Unshared(key[f]) => ~Named(key[f])
  /\ \A f, g \in Flow :
       f # g /\ Stores(f) /\ (Stores(g) \/ (Releases(g) /\ ~spoilt)) /\ key[f] = key[g]
       => ~Unshared(key[f])
  /\ \A q, r \in Row : Known(q) /\ Known(r) /\ q.key = r.key /\ Unshared(q.key) => q = r

\* Nothing that could still make or break a promise has gone wrong.
Sound == ~spoilt \/ owed # {}

\* The newest row is nobody's to drop, unless the name's archives are deleted.
NewestIsSafe ==
  Sound =>
    /\ rows # {} => \E r \in rows : Newest(r)
    /\ \A f \in Flow : pc[f] \in {"wipe", "drop"} /\ (op[f] = "prune" \/ owed # {}) =>
         \A q \in todo[f] : ~Newest(q)
    /\ \A f \in Flow : pc[f] = "drop" /\ Unshared(key[f]) =>
         \A r \in rows : Newest(r) => r.key # key[f]

\* What an undisturbed archive has saved, at each point of its way.
Saved(f) ==
  /\ pc[f] = "tar" => ~game /\ vol = due[f]
  /\ pc[f] = "upload" => ~game /\ vol = due[f] /\ reading[f] \in {due[f], None}
  /\ pc[f] = "record" /\ ~spoilt => tarball[key[f]] = due[f]
  /\ Releases(f) /\ ~spoilt =>
       \A r \in rows : Newest(r) /\ r.key = key[f] => tarball[key[f]] = due[f]
  /\ pc[f] = "record" \/ Releases(f) => due[f] # None
  /\ (Stores(f) \/ Releases(f)) /\ ~spoilt =>
       /\ key[f] \notin lost
       /\ \A g \in Flow : pc[g] = "wipe" /\ op[g] = "delete" =>
            \A q \in todo[g] : q.key # key[f]

\* What an undisturbed recovery of a known world works on.
Brings(f) ==
  /\ pc[f] \in {"build", "fetch"} =>
       /\ tarball[key[f]] \in {due[f], None}
       /\ \A g \in Flow : Stores(g) => key[g] # key[f]
  /\ pc[f] \in {"fetch", "seed"} => ~game /\ vol = Blank
  /\ pc[f] = "seed" => reading[f] = due[f]
  /\ pc[f] = "unpack" => ~game /\ reading[f] \in {due[f], None}
  /\ pc[f] = "launch" => ~game /\ vol = due[f]

AllSaved == \A f \in Flow : clean[f] => Saved(f)
AllBrought == \A f \in Flow : clean[f] /\ op[f] = "recover" /\ due[f] # None => Brings(f)

\* What is owed is in the newest archive, whose stamp is its own.
Kept ==
  owed # {} =>
    \E r \in rows : Newest(r) /\ r.key \notin lost /\ \A w \in owed : tarball[r.key] = w

Promise == PointsOK /\ Bounded /\ OwnKey /\ NewestIsSafe /\ AllSaved /\ AllBrought /\ Kept

\* What a delete or a prune has wiped and not yet dropped from the catalogue.
Gone(k) == k \in lost \/ tarball[k] = None

Wiped ==
  \A f \in Flow :
    /\ pc[f] = "drop" => Gone(key[f])
    /\ pc[f] = "wipe" /\ op[f] = "delete" =>
         \A q \in rows : q.id <= upto[f] => q \in todo[f] \/ Gone(q.key)
    /\ pc[f] = "forget" => \A q \in rows : q.id <= upto[f] => Gone(q.key)

-----------------------------------------------------------------------------
(* The types, a group at a time.  That what is owed is a world is left for    *)
(* later: an archive of a server without a volume has none to save.           *)

MarksOK == /\ due \in [Flow -> Content] /\ lost \in SUBSET Key
           /\ worlds \in Nat /\ troubles \in Nat
TruthsOK == clean \in [Flow -> BOOLEAN] /\ spoilt \in BOOLEAN
OwedOK == owed \in SUBSET Nat

Typed == ServerOK /\ CatalogueOK /\ FlowOK /\ MarksOK /\ TruthsOK

LEMMA TypeParts == TypeOK <=> Typed /\ OwedOK
  BY DEF TypeOK, Typed, HistoryOK, MarksOK, TruthsOK, OwedOK

Points == {"idle", "stop", "tar", "upload", "record", "release", "confirm", "service",
           "volume", "released", "left", "build", "fetch", "seed", "unpack", "launch",
           "recovered", "failed", "wipe", "drop", "forget", "deleted"}

LEMMA LoadsTyped ==
  ASSUME ServerOK, MarksOK, Loads
  PROVE  game' = TRUE /\ vol' = vol /\ memory' \in Nat /\ worlds' \in Nat
  BY DEF ServerOK, MarksOK, Loads, Content

LEMMA ServerStep == ASSUME Typed, Next PROVE ServerOK'
<1> USE DEF server, Blank, Torn
<1>t. ServerOK /\ CatalogueOK /\ FlowOK /\ MarksOK
  BY DEF Typed
<1>b. Blank \in Content /\ Torn \in Content /\ None \in Content
  BY DEF Content
<1>1. CASE Play
  BY <1>t, <1>1 DEF Play, ServerOK, MarksOK
<1>2. CASE PodEnds
  BY <1>t, <1>2 DEF PodEnds, Save, ServerOK, Content
<1>3. CASE SomebodyStarts
  BY <1>t, <1>3, LoadsTyped DEF SomebodyStarts, ServerOK
<1>4. CASE SomebodyStops
  BY <1>t, <1>4 DEF SomebodyStops, Save, ServerOK, Content
<1>5. CASE SomebodyCreates
  BY <1>t, <1>b, <1>5 DEF SomebodyCreates, ServerOK, MarksOK
<1>6. CASE BotEnds
  BY <1>t, <1>6 DEF BotEnds, ServerOK
<1>7. ASSUME NEW f \in Flow, RunArchive(f) PROVE ServerOK'
  <2>1. CASE ArchiveBegins(f)
    BY <1>t, <2>1, LoadsTyped DEF ArchiveBegins, ServerOK
  <2>2. CASE StopForSnapshot(f)
    BY <1>t, <2>2 DEF StopForSnapshot, Save, ServerOK, Content
  <2>3. CASE UNCHANGED server
    BY <1>t, <2>3 DEF ServerOK
  <2> QED
    BY <1>7, <2>1, <2>2, <2>3 DEF RunArchive, ArchiveFails, OpenStream, Upload, UploadTruncated,
       Record, ArchiveBreaks
<1>8. ASSUME NEW f \in Flow, DestroyInstance(f) PROVE ServerOK'
  <2>1. CASE UNCHANGED server
    BY <1>t, <2>1 DEF ServerOK
  <2>2. CASE DeleteServer(f)
    BY <1>t, <2>2 DEF DeleteServer, ServerOK
  <2>3. CASE DestroyService(f)
    BY <1>t, <2>3 DEF DestroyService, ServerOK
  <2>4. CASE DestroyVolume(f)
    BY <1>t, <1>b, <2>4 DEF DestroyVolume, ServerOK
  <2> QED
    BY <1>8, <2>1, <2>2, <2>3, <2>4 DEF DestroyInstance, DestroyBegins, NothingToRelease,
       ConfirmGone, ReleaseFails
<1>9. ASSUME NEW f \in Flow, RunRecover(f) PROVE ServerOK'
  <2>1. CASE Launch(f)
    BY <1>t, <2>1, LoadsTyped DEF Launch, ServerOK
  <2>2. CASE Unpack(f)
    BY <1>t, <2>2 DEF Unpack, ServerOK, FlowOK
  <2>3. CASE Build(f)
    BY <1>t, <1>b, <2>3 DEF Build, ServerOK
  <2>5. CASE BuildFails(f)
    BY <1>t, <1>b, <2>5 DEF BuildFails, ServerOK
  <2>6. CASE Seed(f)
    BY <1>t, <1>b, <2>6 DEF Seed, ServerOK
  <2>4. CASE UNCHANGED server
    BY <1>t, <2>4 DEF ServerOK
  <2> QED
    BY <1>9, <2>1, <2>2, <2>3, <2>4, <2>5, <2>6 DEF RunRecover, RecoverBegins, Fetch, FetchFails, RecoverFails
<1>10. ASSUME NEW f \in Flow, DropArchives(f) PROVE ServerOK'
  BY <1>t, <1>10 DEF ServerOK, DropArchives, DeleteBegins, PruneBegins, Wipe, WipeFails, WipeEnds,
     Drop, Forget
<1> QED
  BY <1>1, <1>2, <1>3, <1>4, <1>5, <1>6, <1>7, <1>8, <1>9, <1>10 DEF Next, Somebody

\* What no step but those of the catalogue's own operations touches.
Cat == <<rows, serial, tarball, stamp, key, todo, upto, owed, lost, spoilt>>

\* The steps that leave it all alone.
QuietStep(f) ==
  \/ ArchiveBegins(f) \/ StopForSnapshot(f) \/ ArchiveFails(f)
  \/ DestroyBegins(f) \/ NothingToRelease(f) \/ DeleteServer(f) \/ ConfirmGone(f)
  \/ DestroyService(f) \/ ReleaseFails(f)
  \/ Build(f) \/ BuildFails(f) \/ Fetch(f) \/ FetchFails(f)
  \/ Seed(f) \/ Unpack(f) \/ Launch(f) \/ RecoverFails(f)
  \/ WipeEnds(f)
Quiet == Somebody \/ \E f \in Flow : QuietStep(f)

LEMMA QuietIsQuiet == ASSUME Quiet PROVE UNCHANGED Cat
<1> USE DEF Cat, catalogue, bucket, flow, history
<1>1. CASE Somebody
  BY <1>1 DEF Somebody, Play, PodEnds, SomebodyStarts, SomebodyStops, SomebodyCreates
<1>2. ASSUME NEW f \in Flow,
             ArchiveBegins(f) \/ StopForSnapshot(f) \/ ArchiveFails(f) \/ WipeEnds(f)
      PROVE  UNCHANGED Cat
  BY <1>2 DEF ArchiveBegins, StopForSnapshot, ArchiveFails, WipeEnds
<1>3. ASSUME NEW f \in Flow,
             \/ DestroyBegins(f) \/ NothingToRelease(f) \/ DeleteServer(f) \/ ConfirmGone(f)
             \/ DestroyService(f) \/ ReleaseFails(f)
      PROVE  UNCHANGED Cat
  BY <1>3 DEF DestroyBegins, NothingToRelease, DeleteServer, ConfirmGone, DestroyService,
     ReleaseFails
<1>4. ASSUME NEW f \in Flow,
             \/ Build(f) \/ BuildFails(f) \/ Fetch(f) \/ FetchFails(f)
             \/ Seed(f) \/ Unpack(f) \/ Launch(f) \/ RecoverFails(f)
      PROVE  UNCHANGED Cat
  BY <1>4 DEF Build, BuildFails, Fetch, FetchFails, Seed, Unpack, Launch, RecoverFails
<1> QED
  BY <1>1, <1>2, <1>3, <1>4 DEF Quiet, QuietStep

LEMMA CatalogueStep == ASSUME Typed, Next PROVE CatalogueOK'
<1>t. ServerOK /\ CatalogueOK /\ FlowOK /\ MarksOK
  BY DEF Typed
<1>1. CASE Quiet
  BY <1>t, <1>1, QuietIsQuiet DEF Cat, CatalogueOK
<1>2. CASE BotEnds
  BY <1>t, <1>2 DEF BotEnds, catalogue, bucket, CatalogueOK
<1>3. ASSUME NEW f \in Flow, Insert(f), UNCHANGED bucket PROVE CatalogueOK'
  BY <1>t, <1>3 DEF Insert, CatalogueOK, FlowOK, Row, bucket
<1>4. ASSUME NEW f \in Flow, UNCHANGED <<rows, serial, stamp>>,
             tarball' \in {tarball, Stored(f), [tarball EXCEPT ![key[f]] = Torn]}
      PROVE  CatalogueOK'
  BY <1>t, <1>4 DEF Stored, CatalogueOK, FlowOK, ServerOK, Content, Torn
<1>5. ASSUME NEW f \in Flow, RunArchive(f) PROVE CatalogueOK'
  <2>1. CASE OpenStream(f)
    BY <1>t, <2>1 DEF OpenStream, Stamps, CatalogueOK, FlowOK, catalogue, Key
  <2>2. CASE Upload(f) \/ UploadTruncated(f)
    BY <1>4, <2>2 DEF Upload, UploadTruncated, catalogue
  <2>3. CASE Record(f)
    BY <1>3, <2>3 DEF Record
  <2>4. CASE ArchiveBreaks(f)
    BY <1>3, <1>4, <2>4 DEF ArchiveBreaks, catalogue, bucket
  <2> QED
    BY <1>1, <1>5, <2>1, <2>2, <2>3, <2>4 DEF RunArchive, Quiet, QuietStep
<1>6. ASSUME NEW f \in Flow, DestroyVolume(f) \/ RecoverBegins(f) PROVE CatalogueOK'
  BY <1>t, <1>6 DEF DestroyVolume, RecoverBegins, catalogue, bucket, CatalogueOK
<1>7. ASSUME NEW f \in Flow, DropArchives(f) PROVE CatalogueOK'
  <2>1. CASE DeleteBegins(f) \/ PruneBegins(f)
    BY <1>t, <2>1 DEF DeleteBegins, PruneBegins, catalogue, bucket, CatalogueOK
  <2>2. ASSUME NEW r \in todo[f], Wipe(f, r) \/ WipeFails(f, r) PROVE CatalogueOK'
    BY <1>t, <2>2 DEF Wipe, WipeFails, catalogue, bucket, CatalogueOK, FlowOK, Row, Content
  <2>3. CASE Drop(f) \/ Forget(f)
    BY <1>t, <2>3 DEF Drop, Forget, bucket, CatalogueOK
  <2> QED
    BY <1>1, <1>7, <2>1, <2>2, <2>3 DEF DropArchives, Quiet, QuietStep
<1> QED
  BY <1>1, <1>2, <1>5, <1>6, <1>7 DEF Next, Quiet, QuietStep, DestroyInstance, RunRecover

LEMMA FlowStep == ASSUME Typed, Next PROVE FlowOK'
<1> USE DEF flow, Goto, Begins
<1>t. ServerOK /\ CatalogueOK /\ FlowOK /\ CatalogueOK'
  BY CatalogueStep DEF Typed
<1>n. None \in Content
  BY DEF Content
<1>1. CASE Play \/ SomebodyStops \/ SomebodyCreates
  BY <1>t, <1>1 DEF Play, SomebodyStops, SomebodyCreates, FlowOK
<1>2. CASE PodEnds \/ SomebodyStarts \/ BotEnds
  BY <1>t, <1>n, <1>2 DEF PodEnds, SomebodyStarts, BotEnds, FlowOK, Content, Torn
<1>3. ASSUME NEW f \in Flow, RunArchive(f) PROVE FlowOK'
  <2>1. CASE OpenStream(f)
    BY <1>t, <2>1 DEF OpenStream, FlowOK, CatalogueOK, ServerOK
  <2>2. CASE \/ ArchiveBegins(f) \/ StopForSnapshot(f) \/ ArchiveFails(f) \/ Upload(f)
             \/ UploadTruncated(f) \/ Record(f) \/ ArchiveBreaks(f)
    BY <1>t, <2>2 DEF ArchiveBegins, StopForSnapshot, ArchiveFails, Upload, UploadTruncated,
       Record, ArchiveBreaks, FlowOK
  <2> QED
    BY <1>3, <2>1, <2>2 DEF RunArchive
<1>4. ASSUME NEW f \in Flow, DestroyInstance(f) PROVE FlowOK'
  <2>1. After(f) \in {"failed", "released"}
    BY DEF After
  <2> QED
    BY <1>t, <1>4, <2>1 DEF DestroyInstance, DestroyBegins, NothingToRelease, DeleteServer,
       ConfirmGone, DestroyService, DestroyVolume, ReleaseFails, FlowOK
<1>5. ASSUME NEW f \in Flow, RunRecover(f) PROVE FlowOK'
  <2>1. CASE RecoverBegins(f)
    BY <1>t, <2>1 DEF RecoverBegins, Newest, FlowOK, CatalogueOK, Row
  <2>2. CASE Fetch(f) \/ Seed(f)
    BY <1>t, <2>2 DEF Fetch, Seed, FlowOK, CatalogueOK, Content, Torn
  <2>3. CASE Build(f) \/ BuildFails(f) \/ FetchFails(f) \/ Unpack(f) \/ Launch(f) \/ RecoverFails(f)
    BY <1>t, <2>3 DEF Build, BuildFails, FetchFails, Unpack, Launch, RecoverFails, FlowOK
  <2> QED
    BY <1>5, <2>1, <2>2, <2>3 DEF RunRecover
<1>6. ASSUME NEW f \in Flow, DropArchives(f) PROVE FlowOK'
  <2>1. CASE DeleteBegins(f) \/ PruneBegins(f)
    BY <1>t, <2>1 DEF DeleteBegins, PruneBegins, FlowOK, CatalogueOK
  <2>2. ASSUME NEW r \in todo[f], Wipe(f, r) \/ WipeFails(f, r) PROVE FlowOK'
    BY <1>t, <2>2 DEF Wipe, WipeFails, FlowOK, Row
  <2>3. CASE WipeEnds(f) \/ Drop(f) \/ Forget(f)
    BY <1>t, <2>3 DEF WipeEnds, Drop, Forget, FlowOK
  <2> QED
    BY <1>6, <2>1, <2>2, <2>3 DEF DropArchives
<1> QED
  BY <1>1, <1>2, <1>3, <1>4, <1>5, <1>6 DEF Next, Somebody

LEMMA TroubleTyped == ASSUME MarksOK, Trouble \/ Calm PROVE troubles' \in Nat
  BY DEF MarksOK, Trouble, Calm

LEMMA MarksStep == ASSUME Typed, OwedOK, Next PROVE MarksOK'
<1> USE DEF history
<1>t. /\ ServerOK /\ CatalogueOK /\ FlowOK /\ MarksOK
      /\ ServerOK' /\ CatalogueOK' /\ FlowOK'
  BY ServerStep, CatalogueStep, FlowStep DEF Typed
<1>1. troubles' \in Nat
  <2>1. \/ Trouble \/ Calm \/ \E f \in Flow : BuildFails(f)
    BY DEF Next, Somebody, Play, PodEnds, SomebodyStarts, SomebodyStops, SomebodyCreates, BotEnds,
       RunArchive, ArchiveBegins, StopForSnapshot, ArchiveFails, OpenStream, Upload,
       UploadTruncated, Record, ArchiveBreaks, DestroyInstance, DestroyBegins, NothingToRelease,
       DeleteServer, ConfirmGone, DestroyService, DestroyVolume, ReleaseFails, RunRecover,
       RecoverBegins, Build, Fetch, FetchFails, Seed, Unpack, Launch, RecoverFails, DropArchives,
       DeleteBegins, PruneBegins, Wipe, WipeFails, WipeEnds, Drop, Forget, Calm
  <2>2. ASSUME NEW f \in Flow, BuildFails(f) PROVE troubles' \in Nat
    <3>1. CASE troubles > 0
      BY <1>t, <2>2, <3>1 DEF BuildFails, MarksOK
    <3>2. CASE svc \/ pod # "none" \/ vol # None
      BY <1>t, <2>2, <3>2 DEF BuildFails, MarksOK
    <3> QED
      BY <2>2, <3>1, <3>2 DEF BuildFails
  <2> QED
    BY <1>t, <2>1, <2>2, TroubleTyped
<1>2. worlds' \in Nat
  <2>1. \/ worlds' = worlds \/ worlds' = worlds + 1 \/ Loads
    BY DEF Next, Somebody, Play, PodEnds, SomebodyStarts, SomebodyStops, SomebodyCreates, BotEnds,
       RunArchive, ArchiveBegins, StopForSnapshot, ArchiveFails, OpenStream, Upload,
       UploadTruncated, Record, ArchiveBreaks, DestroyInstance, DestroyBegins, NothingToRelease,
       DeleteServer, ConfirmGone, DestroyService, DestroyVolume, ReleaseFails, RunRecover,
       RecoverBegins, Build, BuildFails, Fetch, FetchFails, Seed, Unpack, Launch, RecoverFails,
       DropArchives, DeleteBegins, PruneBegins, Wipe, WipeFails, WipeEnds, Drop, Forget
  <2>2. Loads => worlds' \in Nat
    BY <1>t, LoadsTyped
  <2>3. worlds' = worlds \/ worlds' = worlds + 1 => worlds' \in Nat
    BY <1>t DEF MarksOK
  <2> QED
    BY <2>1, <2>2, <2>3
<1>3. due' \in [Flow -> Content]
  <2>1. \/ due' = due
        \/ \E f \in Flow, w \in Content : due' = [due EXCEPT ![f] = w]
    <3>1. CASE Somebody \/ BotEnds
      BY <3>1 DEF Somebody, Play, PodEnds, SomebodyStarts, SomebodyStops, SomebodyCreates, BotEnds
    <3>2. ASSUME NEW f \in Flow, RunArchive(f) PROVE due' = due \/ due' = [due EXCEPT ![f] = vol']
      BY <3>2 DEF RunArchive, ArchiveBegins, StopForSnapshot, ArchiveFails, OpenStream, Upload,
         UploadTruncated, Record, ArchiveBreaks
    <3>3. ASSUME NEW f \in Flow, DestroyInstance(f) \/ DropArchives(f) PROVE due' = due
      BY <3>3 DEF DestroyInstance, DestroyBegins, NothingToRelease, DeleteServer, ConfirmGone,
         DestroyService, DestroyVolume, ReleaseFails, DropArchives, DeleteBegins, PruneBegins,
         Wipe, WipeFails, WipeEnds, Drop, Forget
    <3>4. ASSUME NEW f \in Flow, RunRecover(f)
          PROVE  due' = due \/ \E w \in owed : due' = [due EXCEPT ![f] = w]
      BY <3>4 DEF RunRecover, RecoverBegins, Build, BuildFails, Fetch, FetchFails, Seed, Unpack,
         Launch, RecoverFails
    <3>5. vol' \in Content /\ owed \subseteq Content
      BY <1>t DEF ServerOK, OwedOK, Content
    <3> QED
      BY <3>1, <3>2, <3>3, <3>4, <3>5 DEF Next
  <2> QED
    BY <1>t, <2>1 DEF MarksOK
<1>4. lost' \in SUBSET Key
  <2>1. CASE UNCHANGED lost
    BY <1>t, <2>1 DEF MarksOK
  <2>2. ASSUME NEW f \in Flow, OpenStream(f) PROVE lost' \in SUBSET Key
    BY <1>t, <2>2 DEF OpenStream, MarksOK, CatalogueOK
  <2>3. ASSUME NEW f \in Flow, ArchiveBreaks(f) PROVE lost' \in SUBSET Key
    BY <1>t, <2>3 DEF ArchiveBreaks, MarksOK, FlowOK
  <2>4. ASSUME NEW f \in Flow, Forget(f) PROVE lost' \in SUBSET Key
    BY <1>t, <2>4 DEF Forget, MarksOK, CatalogueOK, Row
  <2>5. CASE BotEnds
    BY <1>t, <2>5 DEF BotEnds, MarksOK, FlowOK
  <2>6. Quiet => UNCHANGED lost
    BY QuietIsQuiet DEF Cat
  <2>7. ASSUME NEW f \in Flow,
               \/ Upload(f) \/ UploadTruncated(f) \/ Record(f)
               \/ DestroyVolume(f) \/ RecoverBegins(f) \/ DeleteBegins(f) \/ PruneBegins(f)
               \/ Drop(f) \/ \E r \in todo[f] : Wipe(f, r) \/ WipeFails(f, r)
        PROVE  UNCHANGED lost
    BY <2>7 DEF Upload, UploadTruncated, Record, DestroyVolume, RecoverBegins, DeleteBegins,
       PruneBegins, Drop, Wipe, WipeFails
  <2> QED
    BY <2>1, <2>2, <2>3, <2>4, <2>5, <2>6, <2>7 DEF Next, Quiet, QuietStep, RunArchive,
       DestroyInstance, RunRecover, DropArchives
<1> QED
  BY <1>1, <1>2, <1>3, <1>4 DEF MarksOK

LEMMA CleanStep == ASSUME Next PROVE clean' = clean \/ \E f \in Flow \cup {None} : Disturbs(f)
<1> USE DEF history
<1>1. CASE Somebody \/ BotEnds
  BY <1>1 DEF Somebody, Play, PodEnds, SomebodyStarts, SomebodyStops, SomebodyCreates, BotEnds
<1>2. ASSUME NEW f \in Flow, RunArchive(f) PROVE clean' = clean \/ Disturbs(f)
  BY <1>2 DEF RunArchive, ArchiveBegins, StopForSnapshot, ArchiveFails, OpenStream, Upload,
     UploadTruncated, Record, ArchiveBreaks
<1>3. ASSUME NEW f \in Flow, DestroyInstance(f) \/ DropArchives(f)
      PROVE  clean' = clean \/ Disturbs(f)
  BY <1>3 DEF DestroyInstance, DestroyBegins, NothingToRelease, DeleteServer, ConfirmGone,
     DestroyService, DestroyVolume, ReleaseFails, DropArchives, DeleteBegins, PruneBegins,
     Wipe, WipeFails, WipeEnds, Drop, Forget
<1>4. ASSUME NEW f \in Flow, RunRecover(f) PROVE clean' = clean \/ Disturbs(f)
  BY <1>4 DEF RunRecover, RecoverBegins, Build, BuildFails, Fetch, FetchFails, Seed, Unpack,
     Launch, RecoverFails
<1> QED
  BY <1>1, <1>2, <1>3, <1>4 DEF Next

\* A flow that stays clean was, and nobody it had to fear has acted.
LEMMA CleanShrinks ==
  ASSUME Typed, NEW f \in Flow, clean'[f], Next
  PROVE  clean[f]
  BY CleanStep DEF Typed, TruthsOK, Disturbs

LEMMA Undisturbed ==
  ASSUME NEW f \in Flow, clean'[f], NEW g, Disturbs(g)
  PROVE  g = f \/ ~Active(f)
  BY DEF Disturbs

LEMMA TruthsStep == ASSUME Typed, Next PROVE TruthsOK'
<1> USE DEF history
<1>t. clean \in [Flow -> BOOLEAN] /\ spoilt \in BOOLEAN
  BY DEF Typed, TruthsOK
<1>1. clean' \in [Flow -> BOOLEAN]
  BY <1>t, CleanStep DEF Disturbs
<1>2. spoilt' = spoilt \/ spoilt' = TRUE
  <2>1. Quiet => UNCHANGED spoilt
    BY QuietIsQuiet DEF Cat
  <2>2. ASSUME NEW f \in Flow,
               \/ OpenStream(f) \/ Upload(f) \/ UploadTruncated(f) \/ Record(f) \/ ArchiveBreaks(f)
               \/ DestroyVolume(f) \/ RecoverBegins(f) \/ DeleteBegins(f) \/ PruneBegins(f)
               \/ Drop(f) \/ Forget(f) \/ \E r \in todo[f] : Wipe(f, r) \/ WipeFails(f, r)
        PROVE  spoilt' = spoilt \/ spoilt' = TRUE
    BY <2>2 DEF OpenStream, Upload, UploadTruncated, Record, ArchiveBreaks, DestroyVolume,
       RecoverBegins, DeleteBegins, PruneBegins, Drop, Forget, Wipe, WipeFails
  <2>3. BotEnds => UNCHANGED spoilt
    BY DEF BotEnds
  <2> QED
    BY <2>1, <2>2, <2>3 DEF Next, Quiet, QuietStep, RunArchive, DestroyInstance, RunRecover,
       DropArchives
<1> QED
  BY <1>t, <1>1, <1>2 DEF TruthsOK

LEMMA TypedStep == ASSUME Typed, OwedOK, Next PROVE Typed'
  BY ServerStep, CatalogueStep, FlowStep, MarksStep, TruthsStep DEF Typed

-----------------------------------------------------------------------------
(* Where the flows are.                                                       *)

LEMMA PointsStep == ASSUME Typed, PointsOK, Next PROVE PointsOK'
<1> USE DEF flow, history, Goto, Begins
<1>t. /\ pc \in [Flow -> Points] /\ due \in [Flow -> Content]
      /\ op \in [Flow -> {"none", "archive", "recover", "delete", "prune", "destroy"}]
  BY DEF Typed, FlowOK, MarksOK, Points
<1>1. CASE Somebody
  <2>1. UNCHANGED <<pc, op, due>>
    BY <1>1 DEF Somebody, Play, PodEnds, SomebodyStarts, SomebodyStops, SomebodyCreates
  <2> QED
    BY <2>1 DEF PointsOK
<1>2. CASE BotEnds
  BY <1>t, <1>2 DEF PointsOK, BotEnds, Active, Over
<1>3. ASSUME NEW f \in Flow, RunArchive(f) PROVE PointsOK'
  <2>1. CASE StopForSnapshot(f)
    BY <1>t, <2>1 DEF PointsOK, StopForSnapshot
  <2>2. CASE \/ ArchiveBegins(f) \/ ArchiveFails(f) \/ OpenStream(f) \/ Upload(f)
             \/ UploadTruncated(f) \/ Record(f) \/ ArchiveBreaks(f)
    BY <1>t, <2>2 DEF PointsOK, ArchiveBegins, ArchiveFails, OpenStream, Upload, UploadTruncated,
       Record, ArchiveBreaks
  <2> QED
    BY <1>3, <2>1, <2>2 DEF RunArchive
<1>4. ASSUME NEW f \in Flow, DestroyInstance(f) PROVE PointsOK'
  <2>1. After(f) \in {"failed", "released"}
    BY DEF After
  <2> QED
    BY <1>t, <1>4, <2>1 DEF PointsOK, DestroyInstance, DestroyBegins, NothingToRelease, DeleteServer,
       ConfirmGone, DestroyService, DestroyVolume, ReleaseFails
<1>5. ASSUME NEW f \in Flow, RunRecover(f) PROVE PointsOK'
  BY <1>t, <1>5 DEF PointsOK, RunRecover, RecoverBegins, Build, BuildFails, Fetch, FetchFails, Seed,
     Unpack, Launch, RecoverFails
<1>6. ASSUME NEW f \in Flow, DropArchives(f) PROVE PointsOK'
  <2>1. ASSUME NEW r \in todo[f], Wipe(f, r) \/ WipeFails(f, r) PROVE PointsOK'
    BY <1>t, <2>1 DEF PointsOK, Wipe, WipeFails
  <2>2. CASE DeleteBegins(f) \/ PruneBegins(f) \/ WipeEnds(f) \/ Drop(f) \/ Forget(f)
    BY <1>t, <2>2 DEF PointsOK, DeleteBegins, PruneBegins, WipeEnds, Drop, Forget
  <2> QED
    BY <1>6, <2>1, <2>2 DEF DropArchives
<1> QED
  BY <1>1, <1>2, <1>3, <1>4, <1>5, <1>6 DEF Next

\* A step that leaves the catalogue alone brings nobody into it.
Settles ==
  \A f \in Flow :
    /\ pc'[f] \in {"upload", "record", "wipe", "drop"} => pc'[f] = pc[f] /\ op'[f] = op[f]
    /\ Releases(f)' => Releases(f)
    /\ pc'[f] = "forget" => \/ pc[f] = "forget"
                            \/ pc[f] = "wipe" /\ op[f] = "delete" /\ todo[f] = {}

LEMMA QuietSettles == ASSUME Typed, PointsOK, Quiet PROVE Settles
<1> USE DEF flow, Goto, Begins, Releases
<1>t. /\ pc \in [Flow -> Points]
      /\ op \in [Flow -> {"none", "archive", "recover", "delete", "prune", "destroy"}]
  BY DEF Typed, FlowOK, Points
<1>1. CASE Somebody
  <2>1. UNCHANGED <<pc, op>>
    BY <1>1 DEF Somebody, Play, PodEnds, SomebodyStarts, SomebodyStops, SomebodyCreates
  <2> QED
    BY <2>1 DEF Settles
<1>2. ASSUME NEW f \in Flow,
             ArchiveBegins(f) \/ StopForSnapshot(f) \/ ArchiveFails(f) \/ WipeEnds(f)
      PROVE  Settles
  BY <1>t, <1>2 DEF Settles, PointsOK, ArchiveBegins, StopForSnapshot, ArchiveFails, WipeEnds
<1>3. ASSUME NEW f \in Flow,
             \/ DestroyBegins(f) \/ NothingToRelease(f) \/ DeleteServer(f) \/ ConfirmGone(f)
             \/ DestroyService(f) \/ ReleaseFails(f)
      PROVE  Settles
  <2>1. After(f) \in {"failed", "released"}
    BY DEF After
  <2> QED
    BY <1>t, <1>3, <2>1 DEF Settles, DestroyBegins, NothingToRelease, DeleteServer, ConfirmGone,
       DestroyService, ReleaseFails
<1>4. ASSUME NEW f \in Flow,
             \/ Build(f) \/ BuildFails(f) \/ Fetch(f) \/ FetchFails(f)
             \/ Seed(f) \/ Unpack(f) \/ Launch(f) \/ RecoverFails(f)
      PROVE  Settles
  BY <1>t, <1>4 DEF Settles, PointsOK, Build, BuildFails, Fetch, FetchFails, Seed, Unpack, Launch,
     RecoverFails
<1> QED
  BY <1>1, <1>2, <1>3, <1>4 DEF Quiet, QuietStep

LEMMA BotEndsSettles == ASSUME Typed, BotEnds PROVE Settles
  BY DEF Typed, FlowOK, BotEnds, Active, Over, Settles, Releases

\* The clock of the catalogue.
LEMMA BoundedStep == ASSUME Typed, PointsOK, Bounded, Next PROVE Bounded'
<1> USE DEF flow, catalogue, bucket, history
<1>t. /\ key \in [Flow -> Key] /\ upto \in [Flow -> Nat] /\ todo \in [Flow -> SUBSET Row]
      /\ rows \in SUBSET Row /\ serial \in Nat /\ stamp \in Key /\ lost \in SUBSET Key
      /\ \A k \in Key : k \in Nat
      /\ \A q \in Row : q.id \in Nat /\ q.key \in Key
      /\ \A q \in rows : Known(q) /\ q \in Row
      /\ \A f \in Flow : \A q \in todo[f] : Known(q) /\ q \in Row
  BY DEF Typed, FlowOK, CatalogueOK, MarksOK, Key, Row, Known
<1>1. CASE UNCHANGED Cat
  BY <1>1 DEF Cat, Bounded, Known
<1>2. ASSUME NEW f \in Flow, OpenStream(f) PROVE Bounded'
  <2>1. /\ stamp' \in Nat /\ stamp <= stamp' /\ key' = [key EXCEPT ![f] = stamp']
        /\ lost' \subseteq lost \cup {stamp'} /\ UNCHANGED <<rows, serial, todo, upto>>
    BY <1>t, <1>2 DEF OpenStream, Key
  <2>2. \A k \in lost : k <= stamp'
    BY <1>t, <2>1 DEF Bounded
  <2>3. \A q \in Row : Known(q)' => q.key <= stamp' /\ q.id <= serial
    BY <1>t, <2>1 DEF Bounded, Known
  <2>4. \A g \in Flow : key'[g] <= stamp' /\ upto'[g] <= serial
    BY <1>t, <2>1 DEF Bounded
  <2> QED
    BY <2>1, <2>2, <2>3, <2>4 DEF Bounded
<1>3. ASSUME NEW f \in Flow, Insert(f), UNCHANGED <<tarball, stamp, key, todo, upto>>,
             lost' \subseteq lost \cup {key[f]}
      PROVE  Bounded'
  <2>1. serial' = serial + 1 /\ rows' = rows \cup {[id |-> serial + 1, key |-> key[f]]}
    BY <1>3 DEF Insert
  <2>2. \A q \in Row : Known(q)' => q.key <= stamp /\ q.id <= serial'
    BY <1>t, <1>3, <2>1 DEF Bounded, Known
  <2>3. \A q \in rows : q.id <= serial
    BY <1>t DEF Bounded
  <2>4. \A q, r \in rows' : q.id = r.id => q = r
    BY <1>t, <2>1, <2>3 DEF Bounded
  <2>5. \A g \in Flow : key'[g] <= stamp' /\ upto'[g] <= serial'
    BY <1>t, <1>3, <2>1 DEF Bounded
  <2> QED
    BY <1>t, <1>3, <2>2, <2>4, <2>5 DEF Bounded
<1>4. ASSUME NEW f \in Flow, Upload(f) \/ UploadTruncated(f) PROVE Bounded'
  BY <1>t, <1>4 DEF Upload, UploadTruncated, Bounded, Known
<1>5. ASSUME NEW f \in Flow, Record(f) PROVE Bounded'
  BY <1>3, <1>5 DEF Record
<1>6. ASSUME NEW f \in Flow, ArchiveBreaks(f) PROVE Bounded'
  <2>1. CASE UNCHANGED <<rows, serial, stamp, key, todo, upto>> /\ lost' = lost \cup {key[f]}
    BY <1>t, <2>1 DEF Bounded, Known
  <2> QED
    BY <1>3, <1>6, <2>1 DEF ArchiveBreaks
<1>7. ASSUME NEW f \in Flow, DestroyVolume(f) PROVE Bounded'
  BY <1>t, <1>7 DEF DestroyVolume, Bounded, Known
<1>8. ASSUME NEW f \in Flow, RecoverBegins(f) PROVE Bounded'
  <2>1. PICK r \in rows : key' = [key EXCEPT ![f] = r.key]
    BY <1>8 DEF RecoverBegins
  <2>2. UNCHANGED <<rows, serial, stamp, todo, upto, lost>>
    BY <1>8 DEF RecoverBegins
  <2> QED
    BY <1>t, <2>1, <2>2 DEF Bounded, Known
<1>9. ASSUME NEW f \in Flow, DeleteBegins(f) \/ PruneBegins(f) PROVE Bounded'
  <2>1. PICK S \in SUBSET rows : todo' = [todo EXCEPT ![f] = S]
    BY <1>9 DEF DeleteBegins, PruneBegins
  <2>2. /\ UNCHANGED <<rows, serial, stamp, key, lost>>
        /\ upto' = upto \/ upto' = [upto EXCEPT ![f] = serial]
    BY <1>9 DEF DeleteBegins, PruneBegins
  <2>3. \A q \in Row : Known(q)' => Known(q)
    BY <1>t, <2>1, <2>2 DEF Known
  <2> QED
    BY <1>t, <2>2, <2>3 DEF Bounded
<1>10. ASSUME NEW f \in Flow, NEW r \in todo[f], Wipe(f, r) \/ WipeFails(f, r) PROVE Bounded'
  <2>1. /\ UNCHANGED <<rows, serial, stamp, lost, upto>> /\ todo' = [todo EXCEPT ![f] = @ \ {r}]
        /\ key' = key \/ key' = [key EXCEPT ![f] = r.key]
    BY <1>10 DEF Wipe, WipeFails
  <2>2. \A q \in Row : Known(q)' => Known(q)
    BY <1>t, <2>1 DEF Known
  <2>3. \A g \in Flow : key'[g] <= stamp
    BY <1>t, <2>1 DEF Bounded
  <2> QED
    BY <2>1, <2>2, <2>3 DEF Bounded
<1>11. ASSUME NEW f \in Flow, Drop(f) \/ Forget(f) PROVE Bounded'
  <2>1. /\ UNCHANGED <<serial, stamp, key, todo, upto>> /\ rows' \subseteq rows
        /\ lost' \subseteq lost \cup {q.key : q \in rows}
    BY <1>11 DEF Drop, Forget
  <2>2. \A q \in Row : Known(q)' => Known(q)
    BY <1>t, <2>1 DEF Known
  <2> QED
    BY <1>t, <2>1, <2>2 DEF Bounded
<1>12. CASE BotEnds
  <2>1. /\ UNCHANGED <<rows, serial, stamp, key, todo, upto>>
        /\ lost' \subseteq lost \cup {key[g] : g \in Flow}
    BY <1>12 DEF BotEnds
  <2> QED
    BY <1>t, <2>1 DEF Bounded, Known
<1>13. CASE Quiet
  BY <1>1, <1>13, QuietIsQuiet
<1> QED
  BY <1>2, <1>4, <1>5, <1>6, <1>7, <1>8, <1>9, <1>10, <1>11, <1>12, <1>13
  DEF Next, Quiet, QuietStep, RunArchive, DestroyInstance, RunRecover, DropArchives

-----------------------------------------------------------------------------
(* A stamp that is nobody else's.                                             *)

\* A step that changes the catalogue, or what is owed or lost.
Busy(f) ==
  \/ OpenStream(f) \/ Upload(f) \/ UploadTruncated(f) \/ Record(f) \/ ArchiveBreaks(f)
  \/ DestroyVolume(f) \/ RecoverBegins(f) \/ DeleteBegins(f) \/ PruneBegins(f)
  \/ (\E r \in todo[f] : Wipe(f, r) \/ WipeFails(f, r)) \/ Drop(f) \/ Forget(f)

LEMMA QuietOrBusy == ASSUME Next PROVE Quiet \/ BotEnds \/ \E f \in Flow : Busy(f)
  BY DEF Next, Quiet, QuietStep, Busy, RunArchive, DestroyInstance, RunRecover, DropArchives

\* What is lost or spoilt stays so.
LEMMA Grows == ASSUME Next PROVE lost \subseteq lost' /\ (spoilt => spoilt')
<1> USE DEF history
<1>1. CASE Quiet
  BY <1>1, QuietIsQuiet DEF Cat
<1>2. CASE BotEnds
  BY <1>2 DEF BotEnds
<1>3. ASSUME NEW f \in Flow, Busy(f) PROVE lost \subseteq lost' /\ (spoilt => spoilt')
  BY <1>3 DEF Busy, OpenStream, Upload, UploadTruncated, Record, ArchiveBreaks, DestroyVolume,
     RecoverBegins, DeleteBegins, PruneBegins, Wipe, WipeFails, Drop, Forget
<1> QED
  BY <1>1, <1>2, <1>3, QuietOrBusy

LEMMA UnsharedShrinks == ASSUME Next PROVE \A k : Unshared(k)' => Unshared(k)
  BY Grows DEF Unshared

\* Once a promise is neither made nor can be, it stays so.
LEMMA SoundShrinks == ASSUME Next, Sound' PROVE Sound
<1> USE DEF history, Sound
<1>1. SUFFICES ASSUME spoilt, owed = {} PROVE owed' = {}
  BY Grows
<1>2. CASE Quiet
  BY <1>1, <1>2, QuietIsQuiet DEF Cat
<1>3. CASE BotEnds
  BY <1>1, <1>3 DEF BotEnds
<1>4. ASSUME NEW f \in Flow, Busy(f) PROVE owed' = {}
  BY <1>1, <1>4 DEF Busy, OpenStream, Upload, UploadTruncated, Record, ArchiveBreaks, Insert,
     DestroyVolume, RecoverBegins, DeleteBegins, PruneBegins, Wipe, WipeFails, Drop, Forget
<1> QED
  BY <1>2, <1>3, <1>4, QuietOrBusy

\* Steps that give no flow a stamp and add no row.
AddsNothing ==
  /\ \A f \in Flow :
       /\ Stores(f)' => Stores(f)
       /\ Releases(f)' => Releases(f)
       /\ Stores(f)' \/ Releases(f)' => key'[f] = key[f]
       /\ pc'[f] = "drop" => Named(key'[f])
  /\ \A q \in Row : Known(q)' => Known(q)

LEMMA NamedShrinks == ASSUME AddsNothing PROVE \A k : Named(k)' => Named(k)
  BY DEF AddsNothing, Named

LEMMA OwnKeyShrinks == ASSUME OwnKey, AddsNothing, Next PROVE OwnKey'
<1>1. /\ \A k : Named(k)' => Named(k)
      /\ \A k : Unshared(k)' => Unshared(k)
      /\ spoilt => spoilt'
  BY NamedShrinks, UnsharedShrinks, Grows
<1>2. ASSUME NEW f \in Flow, Stores(f)', Unshared(key[f])' PROVE ~Named(key[f])'
  BY <1>1, <1>2 DEF OwnKey, AddsNothing
<1>3. ASSUME NEW f \in Flow, NEW g \in Flow, f # g, Stores(f)',
             Stores(g)' \/ (Releases(g)' /\ ~spoilt'), key'[f] = key'[g]
      PROVE  ~Unshared(key[f])'
  BY <1>1, <1>3 DEF OwnKey, AddsNothing
<1>4. ASSUME NEW q \in Row, NEW r \in Row, Known(q)', Known(r)', q.key = r.key, Unshared(q.key)'
      PROVE  q = r
  BY <1>1, <1>4 DEF OwnKey, AddsNothing
<1> QED
  BY <1>2, <1>3, <1>4 DEF OwnKey

LEMMA QuietAddsNothing == ASSUME Settles, UNCHANGED <<rows, todo, key>> PROVE AddsNothing
<1>1. \A q \in Row : Known(q)' => Known(q)
  BY DEF Known
<1>2. \A f \in Flow : pc'[f] = "drop" => pc[f] = "drop"
  BY DEF Settles
<1>3. \A f \in Flow : Stores(f)' => Stores(f)
  BY DEF Settles, Stores
<1> QED
  BY <1>1, <1>2, <1>3 DEF AddsNothing, Settles, Named

\* A new row has the stamp of its flow, which no other row or flow has.
LEMMA InsertOwnsKey ==
  ASSUME Typed, OwnKey, Next, NEW f \in Flow, Stores(f), Insert(f), UNCHANGED <<key, todo>>,
         ~Stores(f)', Releases(f)' => lost' = lost,
         \A g \in Flow : g # f => pc'[g] = pc[g] /\ op'[g] = op[g],
         pc'[f] # "drop"
  PROVE  OwnKey'
<1>t. /\ rows \in SUBSET Row /\ serial \in Nat /\ key \in [Flow -> Key]
  BY DEF Typed, CatalogueOK, FlowOK
<1>1. /\ \A k : Unshared(k)' => Unshared(k)
      /\ spoilt => spoilt'
  BY UnsharedShrinks, Grows
<1>2. PICK n \in Row : n.key = key[f] /\ rows' = rows \cup {n}
  <2>1. [id |-> serial', key |-> key[f]] \in Row
    BY <1>t DEF Insert, Row
  <2> QED
    BY <2>1 DEF Insert
<1>3. \A q \in Row : Known(q)' => Known(q) \/ q = n
  BY <1>2 DEF Known
<1>4. \A k : Named(k)' => Named(k) \/ k = key[f]
  BY <1>2, <1>3 DEF Named
<1>5. ASSUME NEW g \in Flow, Stores(g)', Unshared(key[g])' PROVE ~Named(key[g])'
  <2>1. g # f /\ Stores(g) /\ Unshared(key[g])
    BY <1>1, <1>5 DEF Stores
  <2>2. key[g] # key[f]
    BY <2>1 DEF OwnKey
  <2> QED
    BY <1>4, <2>1, <2>2 DEF OwnKey
<1>6. ASSUME NEW g \in Flow, NEW h \in Flow, g # h, Stores(g)',
             Stores(h)' \/ (Releases(h)' /\ ~spoilt'), key'[g] = key'[h]
      PROVE  ~Unshared(key[g])'
  <2>1. g # f /\ Stores(g)
    BY <1>6 DEF Stores
  <2>2. CASE h = f
    BY <1>1, <1>6, <2>1, <2>2 DEF OwnKey
  <2>3. CASE h # f
    BY <1>1, <1>6, <2>1, <2>3 DEF OwnKey, Stores, Releases
  <2> QED
    BY <2>2, <2>3
<1>7. ASSUME NEW q \in Row, NEW r \in Row, Known(q)', Known(r)', q.key = r.key, Unshared(q.key)'
      PROVE  q = r
  <2>1. Unshared(q.key)
    BY <1>1, <1>7
  <2>2. Unshared(key[f]) => \A p \in Row : Known(p) => p.key # key[f]
    BY DEF OwnKey, Named
  <2>3. CASE Known(q) /\ Known(r)
    BY <1>7, <2>1, <2>3 DEF OwnKey
  <2> QED
    BY <1>2, <1>3, <1>7, <2>1, <2>2, <2>3
<1> QED
  BY <1>5, <1>6, <1>7 DEF OwnKey

\* A stamp of this second is new; one that another flow has just been given is
\* from then on known to be shared.
LEMMA OpenOwnsKey ==
  ASSUME Typed, Bounded, OwnKey, Next, NEW f \in Flow, OpenStream(f)
  PROVE  OwnKey'
<1> USE DEF flow, catalogue, history, Goto
<1>t. /\ rows \in SUBSET Row /\ key \in [Flow -> Key] /\ pc \in [Flow -> Points]
      /\ stamp \in Nat /\ \A q \in Row : q.key \in Nat /\ \A g \in Flow : key[g] \in Nat
  BY DEF Typed, CatalogueOK, FlowOK, Key, Row, Points
<1>1. /\ \A k : Unshared(k)' => Unshared(k)
      /\ spoilt => spoilt'
  BY UnsharedShrinks, Grows
<1>2. /\ pc[f] = "tar" /\ pc' = [pc EXCEPT ![f] = "upload"] /\ op' = op
      /\ key' = [key EXCEPT ![f] = stamp'] /\ UNCHANGED <<rows, todo>>
      /\ stamp' # stamp + 1 => spoilt' = TRUE /\ stamp' \in lost'
  BY DEF OpenStream
<1>3. /\ \A q \in Row : Known(q)' <=> Known(q)
      /\ \A k : Named(k)' => Named(k)
      /\ \A k : Named(k) => k # stamp + 1
  <2>1. \A q \in Row : Known(q)' <=> Known(q)
    BY <1>2 DEF Known
  <2>2. \A k : Named(k)' => Named(k)
    BY <1>t, <1>2, <2>1 DEF Named
  <2>3. \A k : Named(k) => k # stamp + 1
    BY <1>t DEF Named, Bounded
  <2> QED
    BY <2>1, <2>2, <2>3
<1>4. stamp' # stamp + 1 => ~Unshared(stamp)'
  BY <1>2 DEF Unshared
<1>5. /\ key'[f] = stamp' /\ \A g \in Flow : g # f => key'[g] = key[g] /\ key[g] # stamp + 1
      /\ ~Releases(f)'
  BY <1>t, <1>2 DEF Bounded, Releases
<1>6. \A g \in Flow : g # f => (Stores(g)' => Stores(g)) /\ (Releases(g)' => Releases(g))
  BY <1>t, <1>2 DEF Stores, Releases
<1>7. ASSUME NEW g \in Flow, Stores(g)', Unshared(key[g])' PROVE ~Named(key[g])'
  BY <1>1, <1>3, <1>4, <1>5, <1>6, <1>7 DEF OwnKey
<1>8. ASSUME NEW g \in Flow, NEW h \in Flow, g # h, Stores(g)',
             Stores(h)' \/ (Releases(h)' /\ ~spoilt'), key'[g] = key'[h]
      PROVE  ~Unshared(key[g])'
  <2>1. CASE g = f \/ h = f
    BY <1>4, <1>5, <1>8, <2>1
  <2>2. CASE g # f /\ h # f
    BY <1>1, <1>5, <1>6, <1>8, <2>2 DEF OwnKey
  <2> QED
    BY <2>1, <2>2
<1>9. ASSUME NEW q \in Row, NEW r \in Row, Known(q)', Known(r)', q.key = r.key, Unshared(q.key)'
      PROVE  q = r
  BY <1>1, <1>3, <1>9 DEF OwnKey
<1> QED
  BY <1>7, <1>8, <1>9 DEF OwnKey

LEMMA OwnKeyStep == ASSUME Typed, PointsOK, Bounded, OwnKey, Next PROVE OwnKey'
<1> USE DEF flow, catalogue, bucket, history, Goto, Begins
<1>t. /\ rows \in SUBSET Row /\ key \in [Flow -> Key] /\ pc \in [Flow -> Points]
      /\ op \in [Flow -> {"none", "archive", "recover", "delete", "prune", "destroy"}]
      /\ todo \in [Flow -> SUBSET Row]
  BY DEF Typed, CatalogueOK, FlowOK, Points
<1>1. CASE Quiet
  BY <1>1, QuietIsQuiet, QuietSettles, QuietAddsNothing, OwnKeyShrinks DEF Cat
<1>2. CASE BotEnds
  <2>1. UNCHANGED <<rows, todo, key>>
    BY <1>2 DEF BotEnds
  <2> QED
    BY <1>2, <2>1, BotEndsSettles, QuietAddsNothing, OwnKeyShrinks
<1>3. ASSUME NEW f \in Flow, OpenStream(f) PROVE OwnKey'
  BY <1>3, OpenOwnsKey
<1>4. ASSUME NEW f \in Flow, Record(f) PROVE OwnKey'
  <2>1. /\ pc[f] = "record" /\ pc' = [pc EXCEPT ![f] = "release"]
        /\ Insert(f) /\ UNCHANGED <<key, todo, op, lost>>
    BY <1>4 DEF Record
  <2>2. Stores(f) /\ ~Stores(f)' /\ pc'[f] # "drop"
    BY <1>t, <2>1 DEF Stores
  <2>3. \A g \in Flow : g # f => pc'[g] = pc[g] /\ op'[g] = op[g]
    BY <1>t, <2>1
  <2> QED
    BY <2>1, <2>2, <2>3, InsertOwnsKey
<1>5. ASSUME NEW f \in Flow, ArchiveBreaks(f) PROVE OwnKey'
  <2>1. /\ pc[f] \in {"upload", "record"} /\ pc' = [pc EXCEPT ![f] = "left"]
        /\ UNCHANGED <<key, todo, op>>
        /\ Insert(f) \/ UNCHANGED rows
    BY <1>5 DEF ArchiveBreaks
  <2>2. Stores(f) /\ ~Stores(f)' /\ ~Releases(f)' /\ pc'[f] # "drop"
    BY <1>t, <2>1 DEF Stores, Releases
  <2>3. \A g \in Flow : g # f => pc'[g] = pc[g] /\ op'[g] = op[g]
    BY <1>t, <2>1
  <2>4. CASE Insert(f)
    BY <2>1, <2>2, <2>3, <2>4, InsertOwnsKey
  <2>5. CASE UNCHANGED rows
    <3>1. AddsNothing
      BY <2>1, <2>2, <2>3, <2>5 DEF AddsNothing, Known, Named, Stores, Releases
    <3> QED
      BY <3>1, OwnKeyShrinks
  <2> QED
    BY <2>1, <2>4, <2>5
<1>6. ASSUME NEW f \in Flow, Upload(f) \/ UploadTruncated(f) PROVE AddsNothing
  <2>1. /\ pc[f] = "upload" /\ pc' = [pc EXCEPT ![f] = "record"]
        /\ UNCHANGED <<rows, key, todo, op>>
    BY <1>6 DEF Upload, UploadTruncated
  <2> QED
    BY <1>t, <2>1 DEF AddsNothing, Known, Named, Stores, Releases
<1>7. ASSUME NEW f \in Flow, DestroyVolume(f) PROVE AddsNothing
  <2>1. /\ pc' = [pc EXCEPT ![f] = After(f)] /\ After(f) \in {"failed", "released"}
        /\ UNCHANGED <<rows, key, todo, op>>
    BY <1>7 DEF DestroyVolume, After
  <2> QED
    BY <1>t, <2>1 DEF AddsNothing, Known, Named, Stores, Releases
<1>8. ASSUME NEW f \in Flow, RecoverBegins(f) PROVE AddsNothing
  <2>1. /\ pc[f] = "idle" /\ pc' = [pc EXCEPT ![f] = "build"] /\ op' = [op EXCEPT ![f] = "recover"]
        /\ \A g \in Flow : g # f => key'[g] = key[g]
        /\ UNCHANGED <<rows, todo>>
    BY <1>t, <1>8 DEF RecoverBegins
  <2> QED
    BY <1>t, <2>1 DEF AddsNothing, Known, Named, Stores, Releases
<1>9. ASSUME NEW f \in Flow, DeleteBegins(f) \/ PruneBegins(f) PROVE AddsNothing
  <2>1. PICK S \in SUBSET rows : todo' = [todo EXCEPT ![f] = S]
    BY <1>9 DEF DeleteBegins, PruneBegins
  <2>2. PICK o \in {"delete", "prune"} : op' = [op EXCEPT ![f] = o]
    BY <1>9 DEF DeleteBegins, PruneBegins
  <2>3. pc' = [pc EXCEPT ![f] = "wipe"] /\ UNCHANGED <<rows, key>>
    BY <1>9 DEF DeleteBegins, PruneBegins
  <2>4. \A q \in Row : Known(q)' => Known(q)
    BY <1>t, <2>1, <2>3 DEF Known
  <2> QED
    BY <1>t, <2>2, <2>3, <2>4 DEF AddsNothing, Named, Stores, Releases
<1>10. ASSUME NEW f \in Flow, NEW r \in todo[f], Wipe(f, r) \/ WipeFails(f, r) PROVE AddsNothing
  <2>1. /\ UNCHANGED <<rows, op>> /\ todo' = [todo EXCEPT ![f] = @ \ {r}]
        /\ pc[f] = "wipe"
    BY <1>10 DEF Wipe, WipeFails
  <2>2. PICK p \in {"wipe", "drop", "left"} : pc' = [pc EXCEPT ![f] = p]
    BY <1>10 DEF Wipe, WipeFails
  <2>3. /\ \A g \in Flow : g # f => key'[g] = key[g]
        /\ pc'[f] = "drop" => key'[f] = r.key
    BY <1>t, <1>10 DEF Wipe, WipeFails
  <2>4. \A q \in Row : Known(q)' => Known(q)
    BY <1>t, <2>1 DEF Known
  <2>5. r \in Row /\ Known(r)
    BY <1>t DEF Known
  <2> QED
    BY <1>t, <2>1, <2>2, <2>3, <2>4, <2>5 DEF AddsNothing, Named, Stores, Releases
<1>11. ASSUME NEW f \in Flow, Drop(f) \/ Forget(f) PROVE AddsNothing
  <2>1. rows' \subseteq rows /\ UNCHANGED <<key, todo, op>>
    BY <1>11 DEF Drop, Forget
  <2>2. PICK p \in {"wipe", "deleted", "left"} : pc' = [pc EXCEPT ![f] = p]
    BY <1>11 DEF Drop, Forget
  <2>3. \A q \in Row : Known(q)' => Known(q)
    BY <2>1 DEF Known
  <2> QED
    BY <1>t, <2>1, <2>2, <2>3 DEF AddsNothing, Named, Stores, Releases
<1> QED
  BY <1>1, <1>2, <1>3, <1>4, <1>5, <1>6, <1>7, <1>8, <1>9, <1>10, <1>11, QuietOrBusy, OwnKeyShrinks
  DEF Busy

-----------------------------------------------------------------------------
(* The newest row.                                                            *)

LEMMA NewestIsOne ==
  ASSUME Typed, Bounded, NEW q, NEW r, Newest(q), Newest(r)
  PROVE  q = r
<1>1. q \in rows /\ r \in rows /\ q.id \in Nat /\ r.id \in Nat
  BY DEF Newest, Typed, CatalogueOK, Row
<1>2. q.id = r.id
  BY <1>1 DEF Newest
<1> QED
  BY <1>1, <1>2 DEF Bounded

\* A row that a step does not drop stays the newest, unless one is added.
LEMMA NewestStays ==
  ASSUME Typed, Bounded, rows' \subseteq rows, NEW n, Newest(n), n \in rows'
  PROVE  Newest(n)' /\ \A r : Newest(r)' => r = n
<1>1. \A r \in rows : r.id \in Nat
  BY DEF Typed, CatalogueOK, Row
<1>2. Newest(n)'
  BY DEF Newest
<1>3. ASSUME NEW r, Newest(r)' PROVE r = n
  <2>1. r \in rows /\ n \in rows /\ n.id <= r.id /\ r.id <= n.id
    BY <1>3 DEF Newest
  <2> QED
    BY <1>1, <2>1 DEF Bounded
<1> QED
  BY <1>2, <1>3

\* A new row is.
LEMMA NewestIsNew ==
  ASSUME Typed, Bounded, NEW f \in Flow, Insert(f)
  PROVE  \E n \in Row : /\ n.key = key[f] /\ n.id = serial + 1 /\ rows' = rows \cup {n}
                        /\ Newest(n)' /\ \A r : Newest(r)' => r = n
<1>t. /\ rows \in SUBSET Row /\ serial \in Nat /\ key[f] \in Key
      /\ \A r \in rows : r.id \in Nat /\ r.id <= serial
  BY DEF Typed, CatalogueOK, FlowOK, Row
<1>1. PICK n \in Row : n.key = key[f] /\ n.id = serial + 1 /\ rows' = rows \cup {n}
  <2>1. [id |-> serial + 1, key |-> key[f]] \in Row
    BY <1>t DEF Row
  <2> QED
    BY <2>1 DEF Insert
<1>2. \A r \in rows' : r.id <= n.id
  BY <1>t, <1>1
<1>3. \A r \in rows' : n.id <= r.id => r = n
  BY <1>t, <1>1
<1>4. n \in rows'
  BY <1>1
<1>5. Newest(n)' /\ \A r : Newest(r)' => r = n
  BY <1>2, <1>3, <1>4 DEF Newest
<1> QED
  BY <1>1, <1>5

\* The row a prune drops is not the newest, as long as that matters.
LEMMA DropSpares ==
  ASSUME Typed, NewestIsSafe, Kept, Bounded, Sound,
         NEW f \in Flow, pc[f] = "drop", NEW n, Newest(n)
  PROVE  n.key # key[f]
<1>1. CASE owed # {}
  <2>1. PICK r \in rows : Newest(r) /\ r.key \notin lost
    BY <1>1 DEF Kept
  <2>2. n.key \notin lost
    BY <2>1, NewestIsOne
  <2> QED
    BY <2>2 DEF NewestIsSafe, Unshared, Newest
<1>2. CASE ~spoilt
  BY <1>2 DEF NewestIsSafe, Unshared, Newest
<1> QED
  BY <1>1, <1>2 DEF Sound

LEMMA DropKeepsNewest ==
  ASSUME Typed, NewestIsSafe, Kept, Bounded, Sound, NEW f \in Flow, Drop(f)
  PROVE  /\ rows' \subseteq rows
         /\ \A r : Newest(r)' <=> Newest(r)
<1> USE DEF Goto
<1>1. pc[f] = "drop" /\ rows' \subseteq rows
  BY DEF Drop
<1>2. ASSUME NEW n, Newest(n) PROVE n \in rows'
  <2>1. n.key # key[f] /\ n \in rows
    BY <1>1, <1>2, DropSpares DEF Newest
  <2> QED
    BY <2>1 DEF Drop
<1>3. ASSUME NEW n, Newest(n) PROVE Newest(n)' /\ \A r : Newest(r)' => r = n
  BY <1>1, <1>2, <1>3, NewestStays
<1>4. rows # {} => \E n \in rows : Newest(n)
  BY DEF NewestIsSafe
<1>5. \A r : Newest(r)' => r \in rows
  BY <1>1 DEF Newest
<1> QED
  BY <1>1, <1>3, <1>4, <1>5

\* A step that drops no row of consequence, and under which no flow turns to a
\* newest row.
Spares ==
  /\ rows' \subseteq rows
  /\ \A r : Newest(r)' <=> Newest(r)
  /\ \A f \in Flow :
       pc'[f] \in {"wipe", "drop"} =>
         \/ pc[f] \in {"wipe", "drop"} /\ op'[f] = op[f] /\ todo'[f] \subseteq todo[f]
         \/ op'[f] = "delete" /\ owed' = {}
         \/ \A q \in todo'[f] : ~Newest(q)
  /\ \A f \in Flow :
       pc'[f] = "drop" => \/ pc[f] = "drop" /\ key'[f] = key[f]
                          \/ \A r : Newest(r) /\ r.key = key'[f] => ~Unshared(key[f])'

LEMMA SparesIsSafe ==
  ASSUME NewestIsSafe, Next, Spares, owed' # {} => owed # {}
  PROVE  NewestIsSafe'
<1>1. SUFFICES ASSUME Sound' PROVE NewestIsSafe'
  BY DEF NewestIsSafe
<1>2. Sound /\ \A k : Unshared(k)' => Unshared(k)
  BY <1>1, SoundShrinks, UnsharedShrinks
<1>3. /\ rows # {} => \E r \in rows : Newest(r)
      /\ \A f \in Flow : pc[f] \in {"wipe", "drop"} /\ (op[f] = "prune" \/ owed # {}) =>
           \A q \in todo[f] : ~Newest(q)
      /\ \A f \in Flow : pc[f] = "drop" /\ Unshared(key[f]) =>
           \A r \in rows : Newest(r) => r.key # key[f]
  BY <1>2 DEF NewestIsSafe
<1>4. \A r : Newest(r)' => r \in rows' /\ Newest(r)
  BY DEF Newest, Spares
<1>5. rows' # {} => \E r \in rows' : Newest(r)'
  BY <1>3, <1>4 DEF Spares
<1>6. ASSUME NEW f \in Flow, pc'[f] \in {"wipe", "drop"}, op'[f] = "prune" \/ owed' # {},
             NEW q \in todo'[f]
      PROVE  ~Newest(q)'
  BY <1>3, <1>4, <1>6 DEF Spares
<1>7. ASSUME NEW f \in Flow, pc'[f] = "drop", Unshared(key[f])', NEW r \in rows', Newest(r)'
      PROVE  r.key # key'[f]
  <2>1. r \in rows /\ Newest(r)
    BY <1>4, <1>7 DEF Spares
  <2>2. CASE pc[f] = "drop" /\ key'[f] = key[f]
    BY <1>2, <1>3, <1>7, <2>1, <2>2
  <2> QED
    BY <1>7, <2>1, <2>2 DEF Spares
<1> QED
  BY <1>5, <1>6, <1>7 DEF NewestIsSafe

LEMMA SameNewest == ASSUME UNCHANGED rows PROVE \A r : Newest(r)' <=> Newest(r)
  BY DEF Newest

LEMMA NewestIsSafeInsert ==
  ASSUME Typed, Bounded, OwnKey, NewestIsSafe, Next,
         NEW f \in Flow, Stores(f), Insert(f), UNCHANGED <<key, todo>>,
         \A g \in Flow : pc'[g] \in {"wipe", "drop"} => pc[g] = pc'[g] /\ op'[g] = op[g]
  PROVE  NewestIsSafe'
<1>t. /\ \A g \in Flow : \A q \in todo[g] : q \in Row /\ Known(q) /\ q.id \in Nat
      /\ serial \in Nat
  BY DEF Typed, CatalogueOK, FlowOK, Known, Row
<1>1. PICK n \in Row : /\ n.key = key[f] /\ n.id = serial + 1 /\ rows' = rows \cup {n}
                       /\ Newest(n)' /\ \A r : Newest(r)' => r = n
  BY NewestIsNew
<1>2. \E r \in rows' : Newest(r)'
  BY <1>1
<1>3. ASSUME NEW g \in Flow, NEW q \in todo'[g] PROVE ~Newest(q)'
  <2>1. q.id <= serial /\ q.id \in Nat
    BY <1>t, <1>3 DEF Bounded
  <2> QED
    BY <1>t, <1>1, <2>1
<1>4. ASSUME NEW g \in Flow, pc'[g] = "drop", Unshared(key[g])', NEW r \in rows', Newest(r)'
      PROVE  r.key # key'[g]
  <2>1. r.key = key[f] /\ pc[g] = "drop" /\ Unshared(key[g])
    BY <1>1, <1>4, UnsharedShrinks
  <2>2. key[f] = key[g] => Named(key[f])
    BY <2>1 DEF Named
  <2> QED
    BY <2>1, <2>2 DEF OwnKey
<1> QED
  BY <1>2, <1>3, <1>4 DEF NewestIsSafe

LEMMA NewestIsSafeStep ==
  ASSUME Typed, PointsOK, Bounded, OwnKey, NewestIsSafe, AllSaved, Kept, Next
  PROVE  NewestIsSafe'
<1> USE DEF flow, catalogue, bucket, history, Goto, Begins
<1>t. /\ rows \in SUBSET Row /\ key \in [Flow -> Key] /\ pc \in [Flow -> Points]
      /\ op \in [Flow -> {"none", "archive", "recover", "delete", "prune", "destroy"}]
      /\ todo \in [Flow -> SUBSET Row]
      /\ \A g \in Flow : \A q \in todo[g] : q \in Row /\ Known(q)
      /\ \A q \in rows : q \in Row /\ Known(q)
  BY DEF Typed, CatalogueOK, FlowOK, Points, Known
<1>q. ASSUME Settles, UNCHANGED <<rows, todo, key, owed>> PROVE NewestIsSafe'
  <2>1. Spares
    BY <1>q, SameNewest DEF Spares, Settles
  <2> QED
    BY <1>q, <2>1, SparesIsSafe
<1>1. CASE Quiet
  BY <1>1, <1>q, QuietIsQuiet, QuietSettles DEF Cat
<1>2. CASE BotEnds
  <2>1. UNCHANGED <<rows, todo, key, owed>>
    BY <1>2 DEF BotEnds
  <2> QED
    BY <1>2, <1>q, <2>1, BotEndsSettles
<1>i. ASSUME NEW f \in Flow, pc[f] \in {"upload", "record"}, Insert(f), UNCHANGED <<key, todo, op>>,
             NEW p \in {"release", "left"}, pc' = [pc EXCEPT ![f] = p]
      PROVE  NewestIsSafe'
  <2>1. \A g \in Flow : pc'[g] \in {"wipe", "drop"} => pc[g] = pc'[g] /\ op'[g] = op[g]
    BY <1>t, <1>i
  <2> QED
    BY <1>i, <2>1, NewestIsSafeInsert DEF Stores
<1>s. ASSUME NEW f \in Flow, NEW p \in Points \ {"wipe", "drop"}, pc' = [pc EXCEPT ![f] = p],
             UNCHANGED <<rows, todo, owed>>,
             \A g \in Flow : g # f => op'[g] = op[g] /\ key'[g] = key[g]
      PROVE  NewestIsSafe'
  <2>1. Spares
    BY <1>t, <1>s, SameNewest DEF Spares
  <2> QED
    BY <1>s, <2>1, SparesIsSafe
<1>3. ASSUME NEW f \in Flow,
             OpenStream(f) \/ Upload(f) \/ UploadTruncated(f) \/ RecoverBegins(f)
      PROVE  NewestIsSafe'
  <2>1. PICK p \in Points \ {"wipe", "drop"} : pc' = [pc EXCEPT ![f] = p]
    BY <1>3 DEF OpenStream, Upload, UploadTruncated, RecoverBegins, Points
  <2>2. UNCHANGED <<rows, todo, owed>>
    BY <1>3 DEF OpenStream, Upload, UploadTruncated, RecoverBegins
  <2>3. \A g \in Flow : g # f => op'[g] = op[g] /\ key'[g] = key[g]
    BY <1>t, <1>3 DEF OpenStream, Upload, UploadTruncated, RecoverBegins
  <2> QED
    BY <1>s, <2>1, <2>2, <2>3
<1>4. ASSUME NEW f \in Flow, Record(f) PROVE NewestIsSafe'
  BY <1>4, <1>i DEF Record
<1>5. ASSUME NEW f \in Flow, ArchiveBreaks(f) PROVE NewestIsSafe'
  <2>1. /\ pc[f] \in {"upload", "record"} /\ pc' = [pc EXCEPT ![f] = "left"]
        /\ UNCHANGED <<key, todo, op>>
        /\ Insert(f) \/ UNCHANGED <<rows, owed>>
    BY <1>5 DEF ArchiveBreaks
  <2> QED
    BY <1>i, <1>s, <2>1 DEF Points
<1>6. ASSUME NEW f \in Flow, DestroyVolume(f) PROVE NewestIsSafe'
  <2>1. /\ After(f) \in Points \ {"wipe", "drop"} /\ pc' = [pc EXCEPT ![f] = After(f)]
        /\ UNCHANGED <<rows, todo, key, op>>
    BY <1>6 DEF DestroyVolume, After, Points
  <2>2. CASE owed' = owed
    BY <1>s, <2>1, <2>2
  <2>3. CASE owed' # owed
    <3>1. PICK n \in rows : Newest(n) /\ n.key = key[f] /\ clean[f] /\ ~spoilt /\ Releases(f)
      BY <1>6, <2>3 DEF DestroyVolume, Releases
    <3>2. \A g \in Flow : pc[g] = "wipe" /\ op[g] = "delete" => \A q \in todo[g] : q.key # key[f]
      BY <3>1 DEF AllSaved, Saved
    <3>3. \A g \in Flow : pc[g] \in {"wipe", "drop"} => \A q \in todo[g] : ~Newest(q)
      <4> SUFFICES ASSUME NEW g \in Flow, pc[g] \in {"wipe", "drop"}, NEW q \in todo[g], Newest(q) PROVE FALSE
        OBVIOUS
      <4>1. op[g] = "prune"
        BY <3>1, <3>2, NewestIsOne DEF PointsOK
      <4> QED
        BY <3>1, <4>1 DEF NewestIsSafe, Sound
    <3>4. \A g \in Flow : pc'[g] \in {"wipe", "drop"} => pc[g] = pc'[g]
      BY <1>t, <2>1
    <3>5. Sound /\ rows \in SUBSET Row /\ \A r : Newest(r)' <=> Newest(r)
      BY <1>t, <2>1, <3>1, SameNewest DEF Sound
    <3>6. \A g \in Flow : Unshared(key[g])' => Unshared(key[g])
      BY <2>1, UnsharedShrinks
    <3>7. rows' # {} => \E r \in rows' : Newest(r)'
      BY <2>1, <3>5 DEF NewestIsSafe
    <3>8. \A g \in Flow : pc'[g] \in {"wipe", "drop"} => \A q \in todo'[g] : ~Newest(q)'
      BY <2>1, <3>3, <3>4, <3>5
    <3>9. \A g \in Flow : pc'[g] = "drop" /\ Unshared(key[g])' =>
            \A r \in rows' : Newest(r)' => r.key # key'[g]
      BY <2>1, <3>4, <3>5, <3>6 DEF NewestIsSafe
    <3> QED
      BY <3>7, <3>8, <3>9 DEF NewestIsSafe
  <2> QED
    BY <2>2, <2>3
<1>7. ASSUME NEW f \in Flow, DeleteBegins(f) PROVE NewestIsSafe'
  <2>1. /\ pc' = [pc EXCEPT ![f] = "wipe"] /\ op' = [op EXCEPT ![f] = "delete"]
        /\ UNCHANGED <<rows, key>> /\ owed' = {} /\ \A g \in Flow : g # f => todo'[g] = todo[g]
    BY <1>t, <1>7 DEF DeleteBegins
  <2>2. Spares
    BY <1>t, <2>1, SameNewest DEF Spares
  <2> QED
    BY <2>1, <2>2, SparesIsSafe
<1>8. ASSUME NEW f \in Flow, PruneBegins(f) PROVE NewestIsSafe'
  <2>1. /\ pc' = [pc EXCEPT ![f] = "wipe"] /\ op' = [op EXCEPT ![f] = "prune"]
        /\ UNCHANGED <<rows, key, owed>> /\ \A g \in Flow : g # f => todo'[g] = todo[g]
        /\ \A q \in todo'[f] : ~Newest(q)
    BY <1>t, <1>8 DEF PruneBegins
  <2>2. Spares
    BY <1>t, <2>1, SameNewest DEF Spares
  <2> QED
    BY <2>1, <2>2, SparesIsSafe
<1>9. ASSUME NEW f \in Flow, NEW r \in todo[f], Wipe(f, r) \/ WipeFails(f, r) PROVE NewestIsSafe'
  <2>1. /\ UNCHANGED <<rows, op, owed>> /\ todo' = [todo EXCEPT ![f] = @ \ {r}]
        /\ pc[f] = "wipe" /\ \A g \in Flow : g # f => key'[g] = key[g]
    BY <1>t, <1>9 DEF Wipe, WipeFails
  <2>2. PICK p \in {"wipe", "drop", "left"} : pc' = [pc EXCEPT ![f] = p]
    BY <1>9 DEF Wipe, WipeFails
  <2>3. pc'[f] = "drop" => op[f] = "prune" /\ key'[f] = r.key
    BY <1>t, <1>9 DEF Wipe, WipeFails
  <2>4. ASSUME Sound', pc'[f] = "drop", NEW n, Newest(n), n.key = r.key PROVE ~Unshared(key[f])'
    <3>1. ~Newest(r)
      BY <2>1, <2>3, <2>4, SoundShrinks DEF NewestIsSafe
    <3>2. ~Unshared(r.key)
      BY <1>t, <2>4, <3>1 DEF Newest, OwnKey
    <3> QED
      BY <2>3, <2>4, <3>2, UnsharedShrinks
  <2>5. CASE Sound'
    <3>1. Spares
      BY <1>t, <2>1, <2>2, <2>3, <2>4, <2>5, SameNewest DEF Spares
    <3> QED
      BY <2>1, <3>1, SparesIsSafe
  <2> QED
    BY <2>5 DEF NewestIsSafe
<1>10. ASSUME NEW f \in Flow, Drop(f) PROVE NewestIsSafe'
  <2>1. pc[f] = "drop" /\ pc' = [pc EXCEPT ![f] = "wipe"] /\ UNCHANGED <<op, todo, key, owed>>
    BY <1>10 DEF Drop
  <2>2. CASE Sound
    <3>2. rows' \subseteq rows /\ \A r : Newest(r)' <=> Newest(r)
      BY <1>10, <2>2, DropKeepsNewest
    <3>1. Spares
      BY <1>t, <2>1, <3>2 DEF Spares
    <3> QED
      BY <2>1, <3>1, SparesIsSafe
  <2> QED
    BY <2>2, SoundShrinks DEF NewestIsSafe
<1>11. ASSUME NEW f \in Flow, Forget(f) PROVE NewestIsSafe'
  <2>1. PICK p \in {"deleted", "left"} : pc' = [pc EXCEPT ![f] = p]
    BY <1>11 DEF Forget
  <2>2. /\ UNCHANGED <<op, todo, key>> /\ owed' = {}
        /\ rows' = {} \/ rows' = rows
    BY <1>11 DEF Forget
  <2>3. CASE rows' = {}
    BY <2>3 DEF NewestIsSafe, Newest
  <2>4. CASE rows' = rows
    <3>1. Spares
      BY <1>t, <2>1, <2>2, <2>4, SameNewest DEF Spares
    <3> QED
      BY <2>2, <3>1, SparesIsSafe
  <2> QED
    BY <2>2, <2>3, <2>4
<1> QED
  BY <1>1, <1>2, <1>3, <1>4, <1>5, <1>6, <1>7, <1>8, <1>9, <1>10, <1>11, QuietOrBusy DEF Busy

-----------------------------------------------------------------------------
(* What is owed is kept.                                                      *)

\* No flow on its way to the catalogue has the stamp of a row that is not shared.
LEMMA StoresElsewhere ==
  ASSUME Typed, OwnKey, NEW n \in rows, Unshared(n.key), NEW g \in Flow, Stores(g)
  PROVE  key[g] # n.key
<1>1. n \in Row /\ Known(n)
  BY DEF Typed, CatalogueOK, Known
<1> QED
  BY <1>1 DEF OwnKey, Named

\* What a prune wipes, and a delete while something is owed, is another's.
LEMMA WipesElsewhere ==
  ASSUME Typed, OwnKey, NewestIsSafe, Sound, NEW n, Newest(n), Unshared(n.key),
         NEW f \in Flow, pc[f] = "wipe", op[f] = "prune" \/ owed # {}, NEW r \in todo[f]
  PROVE  r.key # n.key
<1>1. n \in Row /\ Known(n) /\ r \in Row /\ Known(r)
  BY DEF Typed, CatalogueOK, FlowOK, Known, Newest
<1>2. ~Newest(r)
  BY DEF NewestIsSafe
<1> QED
  BY <1>1, <1>2 DEF OwnKey

LEMMA KeptStep ==
  ASSUME Typed, PointsOK, Bounded, OwnKey, NewestIsSafe, AllSaved, Kept, Next
  PROVE  Kept'
<1> USE DEF catalogue, bucket, history, Goto, Begins
<1>t. /\ rows \in SUBSET Row /\ key \in [Flow -> Key] /\ pc \in [Flow -> Points]
      /\ tarball \in [Key -> Content] /\ todo \in [Flow -> SUBSET Row]
      /\ \A q \in Row : q.key \in Key
  BY DEF Typed, CatalogueOK, FlowOK, Points, Row
<1>1. CASE Quiet
  BY <1>1, QuietIsQuiet DEF Cat, Kept, Newest
<1>2. ASSUME NEW f \in Flow, DestroyVolume(f) PROVE Kept'
  <2>1. UNCHANGED <<rows, tarball, lost>> /\ \A r : Newest(r)' <=> Newest(r)
    BY <1>2, SameNewest DEF DestroyVolume
  <2>2. CASE owed' = owed
    BY <2>1, <2>2 DEF Kept
  <2>3. CASE owed' # owed
    <3>1. PICK n \in rows : /\ Newest(n) /\ n.key = key[f] /\ clean[f] /\ ~spoilt
                            /\ Releases(f) /\ owed' = owed \cup {due[f]}
      BY <1>2, <2>3 DEF DestroyVolume, Releases
    <3>2. key[f] \notin lost /\ tarball[n.key] = due[f]
      BY <3>1 DEF AllSaved, Saved
    <3>3. \A w \in owed : tarball[n.key] = w
      BY <3>1, NewestIsOne DEF Kept
    <3> QED
      BY <2>1, <3>1, <3>2, <3>3 DEF Kept
  <2> QED
    BY <2>2, <2>3
<1>3. SUFFICES ASSUME owed' = owed, owed # {},
                      NEW n \in rows, Newest(n), n.key \notin lost, \A w \in owed : tarball[n.key] = w
               PROVE  n \in rows' /\ Newest(n)' /\ n.key \notin lost' /\ tarball'[n.key] = tarball[n.key]
  <2>1. owed' = owed \/ owed' = {} \/ Quiet \/ \E f \in Flow : DestroyVolume(f)
    <3>1. BotEnds => owed' = owed
      BY DEF BotEnds
    <3>2. ASSUME NEW f \in Flow, Busy(f) PROVE owed' = owed \/ owed' = {} \/ DestroyVolume(f)
      BY <3>2 DEF Busy, OpenStream, Upload, UploadTruncated, Record, ArchiveBreaks, Insert,
         RecoverBegins, DeleteBegins, PruneBegins, Wipe, WipeFails, Drop, Forget
    <3> QED
      BY <3>1, <3>2, QuietOrBusy
  <2>2. CASE owed' = owed /\ owed # {}
    <3>1. PICK n \in rows : /\ Newest(n) /\ n.key \notin lost
                            /\ \A w \in owed : tarball[n.key] = w
      BY <2>2 DEF Kept
    <3>2. n \in rows' /\ Newest(n)' /\ n.key \notin lost' /\ tarball'[n.key] = tarball[n.key]
      BY <1>3, <2>2, <3>1
    <3> QED
      BY <2>2, <3>1, <3>2 DEF Kept
  <2>3. CASE owed' = {}
    BY <2>3 DEF Kept
  <2> QED
    BY <1>1, <1>2, <2>1, <2>2, <2>3
<1>4. /\ n \in Row /\ n.key \in Key /\ Unshared(n.key) /\ Sound
      /\ UNCHANGED rows => n \in rows' /\ Newest(n)'
  BY <1>t, <1>3 DEF Unshared, Sound, Newest
<1>5. \A g \in Flow : Stores(g) => key[g] # n.key
  BY <1>4, StoresElsewhere
<1> DEFINE Goal == n \in rows' /\ Newest(n)' /\ n.key \notin lost' /\ tarball'[n.key] = tarball[n.key]
<1>6. CASE BotEnds
  BY <1>3, <1>4, <1>5, <1>6 DEF BotEnds, Stores
<1>7. ASSUME NEW f \in Flow, OpenStream(f) PROVE Goal
  <2>1. lost' \subseteq lost \cup {key[g] : g \in {h \in Flow : pc[h] = "upload"}}
    BY <1>7 DEF OpenStream, Stamps
  <2>2. n.key \notin lost'
    BY <1>3, <1>5, <2>1 DEF Stores
  <2> QED
    BY <1>4, <1>7, <2>2 DEF OpenStream
<1>8. ASSUME NEW f \in Flow, Upload(f) \/ UploadTruncated(f) PROVE Goal
  <2>1. key[f] # n.key
    BY <1>5, <1>8 DEF Upload, UploadTruncated, Stores
  <2> QED
    BY <1>t, <1>3, <1>4, <1>8, <2>1 DEF Upload, UploadTruncated, Stored
<1>9. ASSUME NEW f \in Flow, Record(f) PROVE Goal
  BY <1>3, <1>9 DEF Record, Insert
<1>10. ASSUME NEW f \in Flow, ArchiveBreaks(f) PROVE Goal
  <2>1. key[f] # n.key
    BY <1>5, <1>10 DEF ArchiveBreaks, Stores
  <2>2. UNCHANGED rows /\ lost' = lost \cup {key[f]} /\ (tarball' = tarball \/ tarball' = Stored(f))
    BY <1>3, <1>10 DEF ArchiveBreaks, Insert
  <2> QED
    BY <1>t, <1>3, <1>4, <2>1, <2>2 DEF Stored
<1>11. ASSUME NEW f \in Flow, DestroyVolume(f) \/ RecoverBegins(f) \/ PruneBegins(f) PROVE Goal
  BY <1>3, <1>4, <1>11 DEF DestroyVolume, RecoverBegins, PruneBegins
<1>12. ASSUME NEW f \in Flow, DeleteBegins(f) \/ Forget(f) PROVE Goal
  BY <1>3, <1>12 DEF DeleteBegins, Forget
<1>13. ASSUME NEW f \in Flow, NEW r \in todo[f], Wipe(f, r) \/ WipeFails(f, r) PROVE Goal
  <2>1. pc[f] = "wipe" /\ UNCHANGED <<rows, lost>>
    BY <1>13 DEF Wipe, WipeFails
  <2>2. r.key # n.key
    BY <1>3, <1>4, <2>1, WipesElsewhere
  <2>3. tarball'[n.key] = tarball[n.key]
    BY <1>t, <1>4, <1>13, <2>2 DEF Wipe, WipeFails
  <2> QED
    BY <1>3, <1>4, <2>1, <2>3
<1>14. ASSUME NEW f \in Flow, Drop(f) PROVE Goal
  <2>1. Newest(n)' /\ UNCHANGED <<lost, tarball>>
    BY <1>3, <1>4, <1>14, DropKeepsNewest DEF Drop
  <2> QED
    BY <1>3, <2>1 DEF Newest
<1> QED
  BY <1>1, <1>3, <1>4, <1>6, <1>7, <1>8, <1>9, <1>10, <1>11, <1>12, <1>13, <1>14, QuietOrBusy,
     QuietIsQuiet DEF Busy, Cat

\* What is owed is a world.
LEMMA OwedStep == ASSUME Typed, OwedOK, AllSaved, Next PROVE OwedOK'
<1> USE DEF history
<1>1. CASE owed' \subseteq owed
  BY <1>1 DEF OwedOK
<1>2. ASSUME NEW f \in Flow, DestroyVolume(f), owed' # owed PROVE OwedOK'
  <2>1. clean[f] /\ Releases(f) /\ owed' = owed \cup {due[f]}
    BY <1>2 DEF DestroyVolume, Releases
  <2>2. due[f] \in Content /\ due[f] # None
    BY <2>1 DEF AllSaved, Saved, Typed, MarksOK
  <2> QED
    BY <2>1, <2>2 DEF OwedOK, Content
<1>3. ASSUME NEW f \in Flow, Busy(f) PROVE owed' \subseteq owed \/ DestroyVolume(f)
  BY <1>3 DEF Busy, OpenStream, Upload, UploadTruncated, Record, ArchiveBreaks, Insert,
     RecoverBegins, DeleteBegins, PruneBegins, Wipe, WipeFails, Drop, Forget
<1>4. BotEnds => owed' = owed
  BY DEF BotEnds
<1> QED
  BY <1>1, <1>2, <1>3, <1>4, QuietOrBusy, QuietIsQuiet DEF Cat

-----------------------------------------------------------------------------
(* What an undisturbed archive has saved.                                     *)

\* A flow that is nowhere in an archive has saved nothing.
LEMMA SavesNothing ==
  ASSUME NEW f \in Flow, pc'[f] \notin {"tar", "upload", "record"}, ~Releases(f)'
  PROVE  Saved(f)'
  BY DEF Saved, Stores

\* The steps of others that leave a flow its world, its tarball and its row.
Leaves(f) ==
  /\ pc'[f] = pc[f] /\ op'[f] = op[f] /\ due'[f] = due[f] /\ key'[f] = key[f]
  /\ ~game => ~game' /\ vol' = vol
  /\ reading'[f] = reading[f] \/ (pc[f] \in {"upload", "unpack"} /\ reading'[f] = None)
  /\ (Stores(f) \/ Releases(f)) /\ ~spoilt' =>
       /\ \/ tarball'[key[f]] = tarball[key[f]]
          \/ Releases(f) /\ \A r : Newest(r)' => r.key # key[f]
       /\ key[f] \in lost' => key[f] \in lost
       /\ \A r : Newest(r)' /\ r.key = key[f] => Newest(r)
       /\ \A g \in Flow : pc'[g] = "wipe" /\ op'[g] = "delete" =>
            \A q \in todo'[g] : q.key = key[f] =>
              pc[g] = "wipe" /\ op[g] = "delete" /\ q \in todo[g]

LEMMA LeavesSaved ==
  ASSUME Next, NEW f \in Flow, Saved(f), Leaves(f)
  PROVE  Saved(f)'
<1>1. /\ pc'[f] = pc[f] /\ op'[f] = op[f] /\ due'[f] = due[f] /\ key'[f] = key[f]
      /\ Stores(f)' <=> Stores(f)
      /\ Releases(f)' <=> Releases(f)
      /\ ~spoilt' => ~spoilt
  BY Grows DEF Leaves, Stores, Releases
<1>2. \A r : Newest(r) => r \in rows
  BY DEF Newest
<1>3. pc'[f] \in {"tar", "upload"} => ~game' /\ vol' = due'[f]
  BY <1>1 DEF Saved, Leaves
<1>4. pc'[f] = "upload" => reading'[f] \in {due'[f], None}
  BY <1>1 DEF Saved, Leaves
<1>5. pc'[f] = "record" /\ ~spoilt' => tarball'[key'[f]] = due'[f]
  BY <1>1 DEF Saved, Leaves, Stores, Releases
<1>6. ASSUME Releases(f)', ~spoilt', NEW r \in rows', Newest(r)', r.key = key'[f]
      PROVE  tarball'[key'[f]] = due'[f]
  BY <1>1, <1>2, <1>6 DEF Saved, Leaves
<1>7. pc'[f] = "record" \/ Releases(f)' => due'[f] # None
  BY <1>1 DEF Saved
<1>8. ASSUME Stores(f)' \/ Releases(f)', ~spoilt'
      PROVE  /\ key'[f] \notin lost'
             /\ \A g \in Flow : pc'[g] = "wipe" /\ op'[g] = "delete" =>
                  \A q \in todo'[g] : q.key # key'[f]
  BY <1>1, <1>8 DEF Saved, Leaves
<1> QED
  BY <1>3, <1>4, <1>5, <1>6, <1>7, <1>8 DEF Saved

\* What others do to the archives: nothing to one that is nobody else's.
LEMMA OthersLeaveArchives ==
  ASSUME Typed, PointsOK, Bounded, OwnKey, NewestIsSafe, Kept, Next,
         NEW f \in Flow, clean'[f], Active(f),
         NEW g \in Flow, g # f, Busy(g), ~DestroyVolume(g)
  PROVE  Leaves(f)
<1> USE DEF catalogue, bucket, flow, history, Goto, Begins
<1>t. /\ rows \in SUBSET Row /\ key \in [Flow -> Key] /\ pc \in [Flow -> Points]
      /\ op \in [Flow -> {"none", "archive", "recover", "delete", "prune", "destroy"}]
      /\ tarball \in [Key -> Content] /\ todo \in [Flow -> SUBSET Row] /\ due \in [Flow -> Content]
      /\ reading \in [Flow -> Content]
      /\ \A q \in Row : q.key \in Key
      /\ \A h \in Flow : \A q \in todo[h] : q \in Row /\ Known(q)
      /\ \A q \in rows : q \in Row /\ Known(q)
  BY DEF Typed, CatalogueOK, FlowOK, MarksOK, Points, Row, Known
<1> DEFINE Same == /\ pc'[f] = pc[f] /\ op'[f] = op[f] /\ due'[f] = due[f] /\ key'[f] = key[f]
                   /\ reading'[f] = reading[f] /\ UNCHANGED server
           NoDeletes == \A h \in Flow : pc'[h] = "wipe" /\ op'[h] = "delete" =>
                          /\ pc[h] = "wipe" /\ op[h] = "delete" /\ todo'[h] \subseteq todo[h]
           Tarball == \/ tarball'[key[f]] = tarball[key[f]]
                      \/ Releases(f) /\ \A r : Newest(r)' => r.key # key[f]
           Row1 == \A r : Newest(r)' /\ r.key = key[f] => Newest(r)
           Lost == key[f] \in lost' => key[f] \in lost
<1>1. ~Disturbs(g)
  BY Undisturbed
<1>2. SUFFICES Same /\ (~spoilt /\ ~spoilt' /\ (Stores(f) \/ Releases(f)) =>
                          Tarball /\ Lost /\ Row1 /\ NoDeletes)
  <2>1. ~spoilt' => ~spoilt
    BY Grows
  <2>2. Same => (~game => ~game' /\ vol' = vol)
    BY DEF server
  <2> QED
    BY <2>1, <2>2 DEF Leaves
<1>3. Same
  BY <1>t DEF Busy, OpenStream, Upload, UploadTruncated, Record, ArchiveBreaks, RecoverBegins,
     DeleteBegins, PruneBegins, Wipe, WipeFails, Drop, Forget, server
<1>4. SUFFICES ASSUME ~spoilt, ~spoilt', Stores(f) \/ Releases(f)
               PROVE  Tarball /\ Lost /\ Row1 /\ NoDeletes
  BY <1>3
<1>5. /\ Stores(g) => key[g] # key[f]
      /\ \A k : Unshared(k)
      /\ Sound
      /\ UNCHANGED rows => Row1
  BY <1>4, SameNewest DEF OwnKey, Unshared, Sound
<1>6. CASE OpenStream(g)
  <2>1. NoDeletes
    BY <1>t, <1>6 DEF OpenStream
  <2> QED
    BY <1>4, <1>5, <1>6, <2>1 DEF OpenStream
<1>7. CASE Upload(g) \/ UploadTruncated(g)
  <2>1. NoDeletes
    BY <1>t, <1>7 DEF Upload, UploadTruncated
  <2>2. key[g] # key[f]
    BY <1>5, <1>7 DEF Upload, UploadTruncated, Stores
  <2> QED
    BY <1>t, <1>5, <1>7, <2>1, <2>2 DEF Upload, UploadTruncated, Stored
<1>8. CASE Record(g) \/ ArchiveBreaks(g)
  <2>1. NoDeletes
    BY <1>t, <1>8 DEF Record, ArchiveBreaks
  <2>2. key[g] # key[f]
    BY <1>5, <1>8 DEF Record, ArchiveBreaks, Stores
  <2>3. Lost /\ Tarball
    BY <1>t, <1>8, <2>2 DEF Record, ArchiveBreaks, Stored
  <2>4. Insert(g) => Row1
    BY <2>2, NewestIsNew
  <2> QED
    BY <1>5, <1>8, <2>1, <2>3, <2>4 DEF Record, ArchiveBreaks
<1>9. CASE RecoverBegins(g)
  <2>1. NoDeletes
    BY <1>t, <1>9 DEF RecoverBegins
  <2> QED
    BY <1>5, <1>9, <2>1 DEF RecoverBegins
<1>10. CASE PruneBegins(g)
  <2>1. NoDeletes
    BY <1>t, <1>10 DEF PruneBegins
  <2> QED
    BY <1>5, <1>10, <2>1 DEF PruneBegins
<1>11. CASE DeleteBegins(g) \/ Forget(g)
  BY <1>1, <1>11 DEF DeleteBegins, Forget
<1>12. ASSUME NEW r \in todo[g], Wipe(g, r) \/ WipeFails(g, r)
       PROVE  Tarball /\ Lost /\ Row1 /\ NoDeletes
  <2>1. /\ pc[g] = "wipe" /\ op[g] # "delete" /\ UNCHANGED <<rows, lost, op>>
        /\ todo' = [todo EXCEPT ![g] = @ \ {r}]
        /\ tarball' = tarball \/ tarball' = [tarball EXCEPT ![r.key] = None]
    BY <1>1, <1>12 DEF Wipe, WipeFails
  <2>2. NoDeletes
    BY <1>t, <1>12, <2>1 DEF Wipe, WipeFails
  <2>3. op[g] = "prune" /\ Known(r) /\ r \in Row
    BY <1>t, <2>1 DEF PointsOK
  <2>4. ASSUME r.key = key[f] PROVE Releases(f) /\ \A n : Newest(n)' => n.key # key[f]
    <3>1. ~Stores(f)
      BY <1>5, <2>3, <2>4 DEF OwnKey, Named
    <3>2. \A n : Newest(n) => n.key # r.key
      BY <1>5, <2>1, <2>3, WipesElsewhere
    <3> QED
      BY <1>4, <2>1, <2>4, <3>1, <3>2, SameNewest
  <2>5. r.key # key[f] => tarball'[key[f]] = tarball[key[f]]
    BY <1>t, <2>1, <2>3
  <2> QED
    BY <1>5, <2>1, <2>2, <2>4, <2>5
<1>13. CASE Drop(g)
  <2>1. NoDeletes
    BY <1>t, <1>13 DEF Drop, PointsOK
  <2>2. \A r : Newest(r)' <=> Newest(r)
    BY <1>5, <1>13, DropKeepsNewest
  <2> QED
    BY <1>13, <2>1, <2>2 DEF Drop
<1> QED
  BY <1>6, <1>7, <1>8, <1>9, <1>10, <1>11, <1>12, <1>13 DEF Busy

LEMMA OthersLeaveServer ==
  ASSUME Typed, PointsOK, NEW f \in Flow, clean'[f], Active(f),
         Somebody \/ \E g \in Flow : g # f /\ QuietStep(g)
  PROVE  Leaves(f)
<1> USE DEF server, flow, history, Goto, Begins
<1>t. /\ pc \in [Flow -> Points] /\ due \in [Flow -> Content] /\ reading \in [Flow -> Content]
      /\ op \in [Flow -> {"none", "archive", "recover", "delete", "prune", "destroy"}]
  BY DEF Typed, FlowOK, MarksOK, Points
<1> DEFINE Same == pc'[f] = pc[f] /\ op'[f] = op[f] /\ due'[f] = due[f]
           World == ~game => ~game' /\ vol' = vol
           Reads == \/ reading'[f] = reading[f]
                    \/ pc[f] \in {"upload", "unpack"} /\ reading'[f] = None
<1>1. \A g : Disturbs(g) => g = f
  BY Undisturbed
<1>2. SUFFICES Same /\ World /\ Reads
  <2>1. Settles /\ UNCHANGED Cat
    BY QuietSettles, QuietIsQuiet DEF Quiet
  <2> QED
    BY <1>2, <2>1, SameNewest DEF Leaves, Settles, Cat
<1>3. CASE Play
  BY <1>3 DEF Play
<1>4. CASE PodEnds
  BY <1>t, <1>4 DEF PodEnds, Save
<1>5. CASE SomebodyStarts \/ SomebodyStops \/ SomebodyCreates
  BY <1>1, <1>5, ArchivesAssumption DEF SomebodyStarts, SomebodyStops, SomebodyCreates
<1>6. ASSUME NEW g \in Flow, g # f, QuietStep(g) PROVE Same /\ World /\ Reads
  <2>1. CASE ArchiveBegins(g)
    BY <1>t, <1>1, <1>6, <2>1 DEF ArchiveBegins
  <2>2. CASE StopForSnapshot(g)
    BY <1>t, <1>1, <1>6, <2>2 DEF StopForSnapshot, Save
  <2>3. CASE \/ ArchiveFails(g) \/ DestroyBegins(g) \/ NothingToRelease(g) \/ ConfirmGone(g)
             \/ ReleaseFails(g) \/ WipeEnds(g)
    BY <1>t, <1>6, <2>3 DEF ArchiveFails, DestroyBegins, NothingToRelease, ConfirmGone,
       ReleaseFails, WipeEnds
  <2>4. CASE Fetch(g) \/ FetchFails(g) \/ RecoverFails(g)
    BY <1>t, <1>6, <2>4 DEF Fetch, FetchFails, RecoverFails
  <2>5. CASE \/ DeleteServer(g) \/ DestroyService(g) \/ Build(g) \/ BuildFails(g)
             \/ Seed(g) \/ Unpack(g) \/ Launch(g)
    BY <1>1, <1>6, <2>5 DEF DeleteServer, DestroyService, Build, BuildFails, Seed, Unpack, Launch
  <2> QED
    BY <1>6, <2>1, <2>2, <2>3, <2>4, <2>5 DEF QuietStep
<1> QED
  BY <1>3, <1>4, <1>5, <1>6 DEF Somebody

LEMMA OthersLeave ==
  ASSUME Typed, PointsOK, Bounded, OwnKey, NewestIsSafe, Kept, Next,
         NEW f \in Flow, clean'[f], Active(f)'
  PROVE  Leaves(f) \/ QuietStep(f) \/ Busy(f)
<1>1. CASE BotEnds
  BY <1>1 DEF BotEnds, Active, Over, Typed, FlowOK
<1>2. CASE Somebody
  <2>1. pc' = pc
    BY <1>2 DEF Somebody, Play, PodEnds, SomebodyStarts, SomebodyStops, SomebodyCreates, flow
  <2> QED
    BY <1>2, <2>1, OthersLeaveServer DEF Active
<1>3. ASSUME NEW g \in Flow, g # f, QuietStep(g) \/ Busy(g) PROVE Leaves(f)
  <2>1. pc'[f] = pc[f]
    <3>1. \E p : pc' = [pc EXCEPT ![g] = p]
      BY <1>3 DEF QuietStep, Busy, ArchiveBegins, StopForSnapshot, ArchiveFails, DestroyBegins,
         NothingToRelease, DeleteServer, ConfirmGone, DestroyService, ReleaseFails, Build,
         BuildFails, Fetch, FetchFails, Seed, Unpack, Launch, RecoverFails, WipeEnds, OpenStream,
         Upload, UploadTruncated, Record, ArchiveBreaks, DestroyVolume, RecoverBegins,
         DeleteBegins, PruneBegins, Wipe, WipeFails, Drop, Forget, Goto, Begins
    <3> QED
      BY <1>3, <3>1 DEF Typed, FlowOK
  <2>2. Active(f)
    BY <2>1 DEF Active
  <2>3. ~DestroyVolume(g)
    BY <1>3, <2>2, Undisturbed DEF DestroyVolume
  <2> QED
    BY <1>3, <2>2, <2>3, OthersLeaveServer, OthersLeaveArchives
<1> QED
  BY <1>1, <1>2, <1>3, QuietOrBusy DEF Quiet

LEMMA AllSavedStep ==
  ASSUME Typed, PointsOK, Bounded, OwnKey, NewestIsSafe, AllSaved, Kept, Next
  PROVE  AllSaved'
<1> USE DEF catalogue, bucket, flow, history, server, Goto, Begins
<1>t. /\ rows \in SUBSET Row /\ key \in [Flow -> Key] /\ pc \in [Flow -> Points]
      /\ op \in [Flow -> {"none", "archive", "recover", "delete", "prune", "destroy"}]
      /\ tarball \in [Key -> Content] /\ todo \in [Flow -> SUBSET Row] /\ due \in [Flow -> Content]
      /\ reading \in [Flow -> Content] /\ vol \in Content
      /\ \A h \in Flow : \A q \in todo[h] : q \in Row /\ Known(q)
      /\ \A q \in rows : q \in Row /\ Known(q)
      /\ stamp \in Nat /\ \A q \in Row : q.key \in Nat
  BY DEF Typed, CatalogueOK, FlowOK, MarksOK, ServerOK, Points, Known, Key, Row
<1>1. SUFFICES ASSUME NEW f \in Flow, clean'[f] PROVE Saved(f)'
  BY DEF AllSaved
<1>2. Saved(f)
  BY <1>1, CleanShrinks DEF AllSaved
<1>3. CASE ~Active(f)'
  <2>1. pc'[f] \notin {"tar", "upload", "record"} /\ ~Releases(f)'
    BY <1>3 DEF Active, Over, Releases
  <2> QED
    BY <2>1, SavesNothing
<1>4. CASE Leaves(f)
  BY <1>2, <1>4, LeavesSaved
<1>5. CASE \/ ArchiveBegins(f) \/ ArchiveFails(f) \/ ArchiveBreaks(f) \/ DestroyBegins(f)
           \/ NothingToRelease(f) \/ DestroyVolume(f) \/ ReleaseFails(f)
  <2>1. pc'[f] \notin {"tar", "upload", "record"} /\ ~Releases(f)'
    BY <1>t, <1>5 DEF ArchiveBegins, ArchiveFails, ArchiveBreaks, DestroyBegins, NothingToRelease,
       DestroyVolume, ReleaseFails, After, Releases
  <2> QED
    BY <2>1, SavesNothing
<1>6. CASE \/ Build(f) \/ BuildFails(f) \/ Fetch(f) \/ FetchFails(f) \/ Seed(f) \/ Unpack(f)
           \/ Launch(f) \/ RecoverFails(f) \/ RecoverBegins(f)
  <2>1. pc'[f] \notin {"tar", "upload", "record"} /\ ~Releases(f)'
    BY <1>t, <1>6 DEF Build, BuildFails, Fetch, FetchFails, Seed, Unpack, Launch, RecoverFails,
       RecoverBegins, PointsOK, Releases
  <2> QED
    BY <2>1, SavesNothing
<1>7. CASE \/ WipeEnds(f) \/ DeleteBegins(f) \/ PruneBegins(f) \/ Drop(f) \/ Forget(f)
           \/ \E r \in todo[f] : Wipe(f, r) \/ WipeFails(f, r)
  <2>1. pc'[f] \notin {"tar", "upload", "record"} /\ ~Releases(f)'
    BY <1>t, <1>7 DEF WipeEnds, DeleteBegins, PruneBegins, Drop, Forget, Wipe, WipeFails, Releases
  <2> QED
    BY <2>1, SavesNothing
<1>8. CASE StopForSnapshot(f)
  <2>1. pc'[f] = "tar" /\ game' = FALSE /\ vol' = due'[f]
    BY <1>t, <1>8 DEF StopForSnapshot
  <2> QED
    BY <2>1 DEF Saved, Stores, Releases
<1>9. CASE OpenStream(f)
  <2>1. /\ pc'[f] = "upload" /\ reading'[f] = due'[f] /\ vol' = due'[f] /\ ~game'
    BY <1>t, <1>2, <1>9 DEF OpenStream, Saved
  <2>2. ASSUME ~spoilt'
        PROVE  /\ key'[f] = stamp + 1 /\ lost' = lost
               /\ \A g \in Flow : pc'[g] = "wipe" => todo'[g] = todo[g]
    BY <1>t, <1>9, <2>2 DEF OpenStream
  <2>3. \A q \in Row : Known(q) => q.key # stamp + 1
    BY <1>t DEF Bounded
  <2>4. stamp + 1 \notin lost
    BY <1>t DEF Bounded
  <2>5. ~spoilt' => /\ key'[f] \notin lost'
                    /\ \A g \in Flow : pc'[g] = "wipe" /\ op'[g] = "delete" =>
                         \A q \in todo'[g] : q.key # key'[f]
    BY <1>t, <2>2, <2>3, <2>4
  <2> QED
    BY <2>1, <2>5 DEF Saved, Stores, Releases
<1>10. CASE Upload(f) \/ UploadTruncated(f)
  <2>1. /\ pc[f] = "upload" /\ pc'[f] = "record" /\ due' = due /\ key' = key /\ lost' = lost
        /\ todo' = todo /\ op' = op /\ reading[f] # None
        /\ \A g \in Flow : pc'[g] = "wipe" => pc[g] = "wipe"
    BY <1>t, <1>10 DEF Upload, UploadTruncated
  <2>2. ~spoilt' => ~spoilt
    BY Grows
  <2>3. due[f] # None /\ vol = due[f] /\ reading[f] = due[f]
    BY <1>2, <2>1 DEF Saved
  <2>4. ~spoilt' => tarball'[key[f]] = due[f]
    BY <1>t, <1>10, <2>3 DEF Upload, UploadTruncated, Stored
  <2>5. ~spoilt' => /\ key[f] \notin lost
                    /\ \A g \in Flow : pc[g] = "wipe" /\ op[g] = "delete" =>
                         \A q \in todo[g] : q.key # key[f]
    BY <1>2, <2>1, <2>2 DEF Saved, Stores
  <2> QED
    BY <2>1, <2>3, <2>4, <2>5 DEF Saved, Stores, Releases
<1>11. CASE Record(f) \/ DeleteServer(f) \/ ConfirmGone(f) \/ DestroyService(f)
  <2>1. /\ pc[f] \in {"record", "release", "confirm", "service"}
        /\ pc'[f] \in {"release", "confirm", "service", "volume"}
        /\ UNCHANGED <<due, key, lost, todo, op, spoilt, tarball>>
        /\ \A g \in Flow : pc'[g] = "wipe" => pc[g] = "wipe"
    BY <1>t, <1>11 DEF Record, DeleteServer, ConfirmGone, DestroyService
  <2>2. CASE op[f] # "archive"
    BY <2>1, <2>2, SavesNothing DEF Releases
  <2>3. CASE op[f] = "archive"
    <3>1. pc[f] = "record" \/ Releases(f)
      BY <2>1, <2>3 DEF Releases
    <3>2. /\ due[f] # None
          /\ ~spoilt => /\ key[f] \notin lost
                        /\ \A g \in Flow : pc[g] = "wipe" /\ op[g] = "delete" =>
                             \A q \in todo[g] : q.key # key[f]
      BY <1>2, <3>1 DEF Saved, Stores
    <3>3. ~spoilt => \A r \in rows' : Newest(r)' /\ r.key = key[f] => tarball[key[f]] = due[f]
      <4>1. CASE pc[f] = "record"
        BY <1>2, <4>1 DEF Saved
      <4>2. CASE pc[f] # "record"
        <5>1. Releases(f) /\ rows' = rows
          BY <1>11, <3>1, <4>2 DEF Record, DeleteServer, ConfirmGone, DestroyService
        <5> QED
          BY <1>2, <5>1, SameNewest DEF Saved
      <4> QED
        BY <4>1, <4>2
    <3>4. ~spoilt' => \A r \in rows' : Newest(r)' /\ r.key = key'[f] => tarball'[key'[f]] = due'[f]
      BY <2>1, <3>3
    <3>5. /\ due'[f] # None
          /\ ~spoilt' => /\ key'[f] \notin lost'
                         /\ \A g \in Flow : pc'[g] = "wipe" /\ op'[g] = "delete" =>
                              \A q \in todo'[g] : q.key # key'[f]
      BY <2>1, <3>2
    <3> QED
      BY <2>1, <3>4, <3>5 DEF Saved, Releases, Stores
  <2> QED
    BY <2>2, <2>3
<1> QED
  BY <1>1, <1>3, <1>4, <1>5, <1>6, <1>7, <1>8, <1>9, <1>10, <1>11, OthersLeave DEF QuietStep, Busy

-----------------------------------------------------------------------------
(* What an undisturbed recovery brings back.                                  *)

LEMMA BringsNothing ==
  ASSUME NEW f \in Flow, pc'[f] \notin {"build", "fetch", "seed", "unpack", "launch"}
  PROVE  Brings(f)'
  BY DEF Brings

\* The tarball a recovery is to fetch: nobody writes another in its place.
LEMMA TarballStays ==
  ASSUME Typed, Bounded, PointsOK, Next, NEW f \in Flow, pc[f] \in {"build", "fetch"},
         \A g \in Flow : Stores(g) => key[g] # key[f]
  PROVE  /\ key'[f] = key[f] /\ tarball'[key[f]] \in {tarball[key[f]], None}
         /\ \A g \in Flow : Stores(g)' => key'[g] # key[f]
<1> USE DEF catalogue, bucket, flow, history, Goto, Begins
<1>t. /\ key \in [Flow -> Key] /\ pc \in [Flow -> Points] /\ todo \in [Flow -> SUBSET Row]
      /\ tarball \in [Key -> Content] /\ stamp \in Nat /\ \A k \in Key : k \in Nat
      /\ \A q \in Row : q.key \in Key
  BY DEF Typed, CatalogueOK, FlowOK, Points, Key, Row
<1>1. CASE Quiet
  <2>1. Settles /\ UNCHANGED Cat
    BY <1>1, QuietSettles, QuietIsQuiet
  <2> QED
    BY <2>1 DEF Settles, Cat, Stores
<1>2. CASE BotEnds
  BY <1>2, BotEndsSettles DEF BotEnds, Settles, Stores
<1>3. ASSUME NEW g \in Flow, Busy(g), ~OpenStream(g)
      PROVE  \A h \in Flow : Stores(h)' => Stores(h) /\ key'[h] = key[h]
  <2>1. CASE \/ Upload(g) \/ UploadTruncated(g) \/ Record(g) \/ ArchiveBreaks(g)
             \/ Drop(g) \/ Forget(g)
    BY <1>t, <2>1 DEF Upload, UploadTruncated, Record, ArchiveBreaks, Drop, Forget, Stores
  <2>2. CASE DestroyVolume(g) \/ RecoverBegins(g)
    BY <1>t, <2>2 DEF DestroyVolume, RecoverBegins, Stores, After
  <2>3. CASE DeleteBegins(g) \/ PruneBegins(g) \/ \E r \in todo[g] : Wipe(g, r) \/ WipeFails(g, r)
    BY <1>t, <2>3 DEF DeleteBegins, PruneBegins, Wipe, WipeFails, Stores
  <2> QED
    BY <1>3, <2>1, <2>2, <2>3 DEF Busy
<1>4. ASSUME NEW g \in Flow, Busy(g)
      PROVE  key'[f] = key[f] /\ tarball'[key[f]] \in {tarball[key[f]], None}
  <2>1. CASE OpenStream(g) \/ Record(g) \/ DestroyVolume(g) \/ Drop(g) \/ Forget(g)
    BY <1>t, <2>1 DEF OpenStream, Record, DestroyVolume, Drop, Forget
  <2>2. CASE Upload(g) \/ UploadTruncated(g) \/ ArchiveBreaks(g)
    <3>1. key[g] # key[f]
      BY <2>2 DEF Upload, UploadTruncated, ArchiveBreaks, Stores
    <3> QED
      BY <1>t, <2>2, <3>1 DEF Upload, UploadTruncated, ArchiveBreaks, Stored
  <2>3. CASE RecoverBegins(g) \/ DeleteBegins(g) \/ PruneBegins(g)
    BY <1>t, <2>3 DEF RecoverBegins, DeleteBegins, PruneBegins
  <2>4. ASSUME NEW r \in todo[g], Wipe(g, r) \/ WipeFails(g, r)
        PROVE  key'[f] = key[f] /\ tarball'[key[f]] \in {tarball[key[f]], None}
    BY <1>t, <2>4 DEF Wipe, WipeFails
  <2> QED
    BY <1>4, <2>1, <2>2, <2>3, <2>4 DEF Busy
<1>5. ASSUME NEW g \in Flow, OpenStream(g), NEW h \in Flow, Stores(h)' PROVE key'[h] # key[f]
  <2>1. CASE h # g
    BY <1>t, <1>5, <2>1 DEF OpenStream, Stores
  <2>2. CASE h = g
    <3>1. key'[h] \in {stamp + 1} \cup {key[h1] : h1 \in {h2 \in Flow : pc[h2] = "upload"}}
      BY <1>t, <1>5, <2>2 DEF OpenStream, Stamps
    <3>2. key[f] # stamp + 1
      BY <1>t DEF Bounded
    <3> QED
      BY <3>1, <3>2 DEF Stores
  <2> QED
    BY <2>1, <2>2
<1> QED
  BY <1>1, <1>2, <1>3, <1>4, <1>5, QuietOrBusy

LEMMA AllBroughtStep ==
  ASSUME Typed, PointsOK, Bounded, OwnKey, NewestIsSafe, AllBrought, Kept, Next
  PROVE  AllBrought'
<1> USE DEF catalogue, bucket, flow, history, server, Goto, Begins
<1>t. /\ key \in [Flow -> Key] /\ pc \in [Flow -> Points]
      /\ op \in [Flow -> {"none", "archive", "recover", "delete", "prune", "destroy"}]
      /\ due \in [Flow -> Content] /\ reading \in [Flow -> Content] /\ vol \in Content
      /\ tarball \in [Key -> Content]
  BY DEF Typed, FlowOK, MarksOK, ServerOK, CatalogueOK, Points
<1>1. SUFFICES ASSUME NEW f \in Flow, clean'[f], op'[f] = "recover", due'[f] # None,
                      pc'[f] \in {"build", "fetch", "seed", "unpack", "launch"}
               PROVE  Brings(f)'
  BY BringsNothing DEF AllBrought
<1>2. clean[f] /\ Active(f)'
  BY <1>1, CleanShrinks DEF Active, Over
<1>3. op[f] = "recover" /\ due[f] # None => Brings(f)
  BY <1>2 DEF AllBrought
<1>4. CASE Leaves(f)
  <2>1. Brings(f) /\ pc'[f] = pc[f] /\ due'[f] = due[f]
    BY <1>1, <1>3, <1>4 DEF Leaves
  <2>2. pc'[f] \in {"build", "fetch"} => /\ tarball'[key'[f]] \in {due'[f], None}
                                         /\ \A g \in Flow : Stores(g)' => key'[g] # key'[f]
    BY <2>1, TarballStays DEF Brings
  <2>3. /\ pc'[f] \in {"fetch", "seed"} => ~game' /\ vol' = Blank
        /\ pc'[f] = "seed" => reading'[f] = due'[f]
        /\ pc'[f] = "unpack" => ~game' /\ reading'[f] \in {due'[f], None}
        /\ pc'[f] = "launch" => ~game' /\ vol' = due'[f]
    BY <1>4, <2>1 DEF Brings, Leaves
  <2> QED
    BY <2>2, <2>3 DEF Brings
<1>5. CASE RecoverBegins(f)
  <2>1. pc'[f] = "build" /\ pc[f] = "idle" /\ UNCHANGED <<rows, tarball>>
    BY <1>t, <1>5 DEF RecoverBegins
  <2>2. PICK r \in rows : Newest(r) /\ key' = [key EXCEPT ![f] = r.key]
    BY <1>5 DEF RecoverBegins
  <2>3. PICK w \in owed : due'[f] = w
    BY <1>t, <1>1, <1>5, <2>1 DEF RecoverBegins, PointsOK
  <2>4. tarball[r.key] = w /\ r.key \notin lost
    BY <2>2, <2>3, NewestIsOne DEF Kept
  <2>5. \A g \in Flow : Stores(g) => key[g] # r.key
    BY <2>4, StoresElsewhere DEF Unshared
  <2>6. key'[f] = r.key /\ \A g \in Flow : Stores(g)' => Stores(g) /\ key'[g] = key[g]
    BY <1>t, <1>5, <2>1, <2>2 DEF RecoverBegins, Stores
  <2> QED
    BY <2>1, <2>3, <2>4, <2>5, <2>6 DEF Brings
<1>6. CASE Build(f) \/ Fetch(f)
  <2>1. /\ pc[f] \in {"build", "fetch"} /\ op[f] = "recover" /\ due'[f] = due[f]
        /\ pc'[f] \in {"fetch", "seed"}
    BY <1>t, <1>1, <1>6 DEF Build, Fetch
  <2>2. Brings(f)
    BY <1>1, <1>3, <2>1
  <2>3. /\ tarball'[key'[f]] \in {due'[f], None}
        /\ \A g \in Flow : Stores(g)' => key'[g] # key'[f]
    BY <2>1, <2>2, TarballStays DEF Brings
  <2>4. ~game' /\ vol' = Blank
    BY <1>6, <2>2 DEF Build, Fetch, Brings
  <2>5. pc'[f] = "seed" => reading'[f] = due'[f]
    BY <1>t, <1>6, <2>1, <2>2 DEF Build, Fetch, Brings
  <2> QED
    BY <2>1, <2>3, <2>4, <2>5 DEF Brings
<1>7. CASE Seed(f)
  <2>1. pc[f] = "seed" /\ pc'[f] = "unpack" /\ op[f] = "recover" /\ due'[f] = due[f] /\ game' = game
    BY <1>t, <1>1, <1>7 DEF Seed
  <2>2. ~game /\ vol = Blank /\ reading[f] = due[f]
    BY <1>1, <1>3, <2>1 DEF Brings
  <2>3. reading'[f] = due'[f]
    BY <1>t, <1>7, <2>1, <2>2 DEF Seed
  <2> QED
    BY <2>1, <2>2, <2>3 DEF Brings
<1>8. CASE Unpack(f)
  <2>1. /\ pc[f] = "unpack" /\ pc'[f] = "launch" /\ op[f] = "recover" /\ due'[f] = due[f]
        /\ game' = game /\ reading[f] # None /\ vol' = reading[f]
    BY <1>t, <1>1, <1>8 DEF Unpack
  <2>2. ~game /\ reading[f] = due[f]
    BY <1>1, <1>3, <2>1 DEF Brings
  <2> QED
    BY <2>1, <2>2 DEF Brings
<1>9. CASE \/ BuildFails(f) \/ FetchFails(f) \/ Launch(f) \/ RecoverFails(f) \/ ArchiveBegins(f)
           \/ StopForSnapshot(f) \/ ArchiveFails(f) \/ DestroyBegins(f) \/ NothingToRelease(f)
           \/ DeleteServer(f) \/ ConfirmGone(f) \/ DestroyService(f) \/ ReleaseFails(f) \/ WipeEnds(f)
  BY <1>t, <1>1, <1>9 DEF BuildFails, FetchFails, Launch, RecoverFails, ArchiveBegins,
     StopForSnapshot, ArchiveFails, DestroyBegins, NothingToRelease, DeleteServer, ConfirmGone,
     DestroyService, ReleaseFails, WipeEnds, After
<1>10. CASE \/ OpenStream(f) \/ Upload(f) \/ UploadTruncated(f) \/ Record(f) \/ ArchiveBreaks(f)
            \/ DestroyVolume(f) \/ DeleteBegins(f) \/ PruneBegins(f) \/ Drop(f) \/ Forget(f)
            \/ \E r \in todo[f] : Wipe(f, r) \/ WipeFails(f, r)
  BY <1>t, <1>1, <1>10 DEF OpenStream, Upload, UploadTruncated, Record, ArchiveBreaks, DestroyVolume,
     DeleteBegins, PruneBegins, Drop, Forget, Wipe, WipeFails, After
<1> QED
  BY <1>2, <1>1, <1>4, <1>5, <1>6, <1>7, <1>8, <1>9, <1>10, OthersLeave DEF QuietStep, Busy

-----------------------------------------------------------------------------
(* No tarball is forgotten.                                                   *)

\* Nothing puts a tarball back under a row, unless two archives share its stamp.
LEMMA GoneStays ==
  ASSUME Typed, OwnKey, Next, NEW k \in Key, Named(k), Gone(k)
  PROVE  Gone(k)'
<1> USE DEF catalogue, bucket, flow, history
<1>t. key \in [Flow -> Key] /\ tarball \in [Key -> Content] /\ todo \in [Flow -> SUBSET Row]
      /\ \A q \in Row : q.key \in Key
  BY DEF Typed, FlowOK, CatalogueOK, Row
<1>1. SUFFICES ASSUME k \notin lost, tarball[k] = None PROVE tarball'[k] = None
  BY Grows DEF Gone
<1>2. \A f \in Flow : Stores(f) => key[f] # k
  BY <1>1 DEF OwnKey, Unshared
<1>3. CASE Quiet
  BY <1>1, <1>3, QuietIsQuiet DEF Cat
<1>4. CASE BotEnds
  BY <1>1, <1>4 DEF BotEnds
<1>5. ASSUME NEW f \in Flow, Upload(f) \/ UploadTruncated(f) \/ ArchiveBreaks(f)
      PROVE  tarball'[k] = None
  <2>1. key[f] # k
    BY <1>2, <1>5 DEF Upload, UploadTruncated, ArchiveBreaks, Stores
  <2> QED
    BY <1>t, <1>1, <1>5, <2>1 DEF Upload, UploadTruncated, ArchiveBreaks, Stored
<1>6. ASSUME NEW f \in Flow, NEW r \in todo[f], Wipe(f, r) \/ WipeFails(f, r)
      PROVE  tarball'[k] = None
  BY <1>t, <1>1, <1>6 DEF Wipe, WipeFails
<1>7. ASSUME NEW f \in Flow,
             \/ OpenStream(f) \/ Record(f) \/ DestroyVolume(f) \/ RecoverBegins(f)
             \/ DeleteBegins(f) \/ PruneBegins(f) \/ Drop(f) \/ Forget(f)
      PROVE  tarball'[k] = None
  BY <1>1, <1>7 DEF OpenStream, Record, DestroyVolume, RecoverBegins, DeleteBegins, PruneBegins,
     Drop, Forget
<1> QED
  BY <1>3, <1>4, <1>5, <1>6, <1>7, QuietOrBusy DEF Busy

\* A flow that was already wiping goes on to have wiped what it has.
Goes(f) ==
  /\ pc'[f] = "drop" => pc[f] = "drop" /\ key'[f] = key[f]
  /\ pc'[f] = "wipe" /\ op'[f] = "delete" =>
       pc[f] = "wipe" /\ op[f] = "delete" /\ todo'[f] = todo[f] /\ upto'[f] = upto[f]
  /\ pc'[f] = "forget" =>
       /\ pc[f] = "forget" \/ (pc[f] = "wipe" /\ op[f] = "delete" /\ todo[f] = {})
       /\ upto'[f] = upto[f]

LEMMA WipedStep ==
  ASSUME Typed, PointsOK, Bounded, OwnKey, Wiped, Next
  PROVE  Wiped'
<1> USE DEF catalogue, bucket, flow, history, Goto, Begins
<1>t. /\ rows \in SUBSET Row /\ key \in [Flow -> Key] /\ pc \in [Flow -> Points]
      /\ op \in [Flow -> {"none", "archive", "recover", "delete", "prune", "destroy"}]
      /\ tarball \in [Key -> Content] /\ todo \in [Flow -> SUBSET Row]
      /\ upto \in [Flow -> Nat] /\ serial \in Nat
      /\ \A q \in Row : q.key \in Key /\ q.id \in Nat
      /\ \A q \in rows : q \in Row /\ Known(q)
      /\ \A q \in rows : Named(q.key)
  BY DEF Typed, FlowOK, CatalogueOK, Points, Row, Known, Named
<1> DEFINE Done(f) ==
             /\ pc'[f] = "drop" => Gone(key[f])'
             /\ pc'[f] = "wipe" /\ op'[f] = "delete" =>
                  \A q \in rows' : q.id <= upto'[f] => q \in todo'[f] \/ Gone(q.key)'
             /\ pc'[f] = "forget" => \A q \in rows' : q.id <= upto'[f] => Gone(q.key)'
<1>1. SUFFICES ASSUME NEW f \in Flow PROVE Done(f)
  BY DEF Wiped
<1>2. \A k \in Key : Named(k) /\ Gone(k) => Gone(k)'
  BY GoneStays
<1>3. ASSUME Goes(f), \A q \in rows' : q.id <= upto[f] => q \in rows PROVE Done(f)
  <2>1. pc'[f] = "drop" => Gone(key[f])'
    <3>1. pc'[f] = "drop" => Named(key[f]) /\ Gone(key[f]) /\ key[f] \in Key /\ key'[f] = key[f]
      BY <1>t, <1>3 DEF Goes, Wiped, Named
    <3> QED
      BY <1>2, <3>1
  <2>2. \A q \in rows' : q.id <= upto[f] => q \in rows /\ Named(q.key) /\ q.key \in Key
    BY <1>t, <1>3
  <2>3. ASSUME pc'[f] = "wipe", op'[f] = "delete", NEW q \in rows', q.id <= upto'[f]
        PROVE  q \in todo'[f] \/ Gone(q.key)'
    <3>1. q \in rows /\ Named(q.key) /\ q.key \in Key
      BY <1>3, <2>2, <2>3 DEF Goes
    <3>2. q \in todo'[f] \/ Gone(q.key)
      BY <1>3, <2>3, <3>1 DEF Goes, Wiped
    <3> QED
      BY <1>2, <3>1, <3>2
  <2>4. ASSUME pc'[f] = "forget", NEW q \in rows', q.id <= upto'[f]
        PROVE  Gone(q.key)'
    <3>1. q \in rows /\ Named(q.key) /\ q.key \in Key
      BY <1>3, <2>2, <2>4 DEF Goes
    <3>2. Gone(q.key)
      BY <1>3, <2>4, <3>1 DEF Goes, Wiped
    <3> QED
      BY <1>2, <3>1, <3>2
  <2> QED
    BY <2>1, <2>3, <2>4
<1>4. CASE Quiet \/ BotEnds
  <2>1. Settles /\ UNCHANGED <<rows, key, todo, upto>>
    BY <1>4, QuietSettles, QuietIsQuiet, BotEndsSettles DEF Cat, BotEnds
  <2>2. Goes(f)
    BY <2>1 DEF Settles, Goes
  <2> QED
    BY <1>3, <2>1, <2>2
<1>5. ASSUME NEW g \in Flow, Record(g) \/ ArchiveBreaks(g) PROVE Done(f)
  <2>1. Goes(f)
    BY <1>t, <1>5 DEF Record, ArchiveBreaks, Goes
  <2>2. ASSUME Insert(g), NEW q \in rows', q.id <= upto[f] PROVE q \in rows
    <3>1. PICK n \in Row : n.id = serial + 1 /\ rows' = rows \cup {n}
      BY <2>2, NewestIsNew
    <3>2. upto[f] <= serial
      BY DEF Bounded
    <3> QED
      BY <1>t, <2>2, <3>1, <3>2
  <2>3. \A q \in rows' : q.id <= upto[f] => q \in rows
    BY <1>5, <2>2 DEF Record, ArchiveBreaks
  <2> QED
    BY <1>3, <2>1, <2>3
<1>6. ASSUME NEW g \in Flow,
             \/ OpenStream(g) \/ Upload(g) \/ UploadTruncated(g) \/ DestroyVolume(g)
             \/ RecoverBegins(g) \/ PruneBegins(g) \/ Drop(g) \/ Forget(g)
      PROVE  Done(f)
  <2>1. rows' \subseteq rows
    BY <1>6 DEF OpenStream, Upload, UploadTruncated, DestroyVolume, RecoverBegins, PruneBegins,
       Drop, Forget
  <2>2. CASE OpenStream(g) \/ Upload(g) \/ UploadTruncated(g) \/ DestroyVolume(g)
    BY <1>t, <1>3, <2>1, <2>2 DEF OpenStream, Upload, UploadTruncated, DestroyVolume, After, Goes
  <2>3. CASE RecoverBegins(g) \/ PruneBegins(g) \/ Drop(g) \/ Forget(g)
    BY <1>t, <1>3, <2>1, <2>3 DEF RecoverBegins, PruneBegins, Drop, Forget, Goes, PointsOK
  <2> QED
    BY <1>6, <2>2, <2>3
<1>7. ASSUME NEW g \in Flow, DeleteBegins(g) PROVE Done(f)
  <2>1. CASE g = f
    BY <1>t, <1>7, <2>1 DEF DeleteBegins
  <2>2. CASE g # f
    BY <1>t, <1>3, <1>7, <2>2 DEF DeleteBegins, Goes
  <2> QED
    BY <2>1, <2>2
<1>8. ASSUME NEW g \in Flow, NEW r \in todo[g], Wipe(g, r) \/ WipeFails(g, r) PROVE Done(f)
  <2>1. CASE g # f
    BY <1>t, <1>3, <1>8, <2>1 DEF Wipe, WipeFails, Goes
  <2>2. CASE WipeFails(f, r) /\ g = f
    BY <1>t, <1>3, <2>2 DEF WipeFails, Goes
  <2>3. CASE Wipe(f, r) /\ g = f
    <3>1. Gone(r.key)'
      BY <1>t, <1>8, <2>3 DEF Wipe, Gone
    <3>2. /\ pc[f] = "wipe" /\ UNCHANGED <<rows, op, upto>> /\ pc'[f] \in {"wipe", "drop"}
          /\ todo'[f] = todo[f] \ {r} /\ key'[f] = r.key
      BY <1>t, <2>3 DEF Wipe
    <3>3. ASSUME op[f] = "delete", NEW q \in rows, q.id <= upto[f]
          PROVE  q \in todo'[f] \/ Gone(q.key)'
      <4>1. q.key \in Key /\ Named(q.key)
        BY <1>t
      <4>2. q \in todo[f] \/ Gone(q.key)
        BY <3>2, <3>3 DEF Wiped
      <4> QED
        BY <1>2, <3>1, <3>2, <4>1, <4>2
    <3> QED
      BY <3>1, <3>2, <3>3
  <2> QED
    BY <1>8, <2>1, <2>2, <2>3
<1> QED
  BY <1>4, <1>5, <1>6, <1>7, <1>8, QuietOrBusy DEF Busy

LEMMA NoOrphansStep ==
  ASSUME Typed, PointsOK, Wiped, NoOrphans, Next
  PROVE  NoOrphans'
<1> USE DEF catalogue, bucket, flow, history, Goto, Begins, At
<1>t. /\ rows \in SUBSET Row /\ key \in [Flow -> Key] /\ pc \in [Flow -> Points]
      /\ op \in [Flow -> {"none", "archive", "recover", "delete", "prune", "destroy"}]
      /\ tarball \in [Key -> Content]
      /\ \A q \in Row : q.key \in Key /\ q.id \in Nat
      /\ \A f \in Flow : todo[f] \in SUBSET Row /\ upto[f] \in Nat
  BY DEF Typed, FlowOK, CatalogueOK, Points, Row
<1> DEFINE Found(k) == \/ \E r \in rows : r.key = k
                       \/ \E f \in Flow : pc[f] = "record" /\ key[f] = k
                       \/ k \in lost
<1>1. \A k \in Key : tarball[k] # None => Found(k)
  BY DEF NoOrphans
<1>2. SUFFICES ASSUME NEW k \in Key, tarball'[k] # None
               PROVE  \/ \E r \in rows' : r.key = k
                      \/ \E f \in Flow : pc'[f] = "record" /\ key'[f] = k
                      \/ k \in lost'
  <2>1. \A f \in Flow : pc'[f] = "record" => op'[f] = "archive"
    BY PointsStep DEF PointsOK
  <2> QED
    BY <1>2, <2>1 DEF NoOrphans
<1> DEFINE Goal == \/ \E r \in rows' : r.key = k
                   \/ \E f \in Flow : pc'[f] = "record" /\ key'[f] = k
                   \/ k \in lost'
<1>3. ASSUME Found(k), lost \subseteq lost', rows \subseteq rows',
             \A f \in Flow : pc[f] = "record" => \/ pc'[f] = "record" /\ key'[f] = key[f]
                                                 \/ key[f] \in lost'
                                                 \/ \E r \in rows' : r.key = key[f]
      PROVE  Goal
  BY <1>3
<1>4. CASE Somebody
  <2>1. UNCHANGED <<pc, rows, lost, key, tarball>>
    BY <1>4 DEF Somebody, Play, PodEnds, SomebodyStarts, SomebodyStops, SomebodyCreates
  <2> QED
    BY <1>1, <1>2, <2>1
<1>5. CASE BotEnds
  <2>1. UNCHANGED <<rows, tarball>> /\ lost' = lost \cup {key[f] : f \in {g \in Flow : pc[g] = "record"}}
    BY <1>5 DEF BotEnds
  <2> QED
    BY <1>1, <1>2, <2>1
<1>6. ASSUME NEW f \in Flow, QuietStep(f) PROVE Goal
  <2>1. UNCHANGED Cat
    BY <1>6, QuietIsQuiet DEF Quiet
  <2>2. \A g \in Flow : pc[g] = "record" => pc'[g] = "record"
    <3>1. CASE \/ ArchiveBegins(f) \/ StopForSnapshot(f) \/ ArchiveFails(f) \/ DestroyBegins(f)
               \/ NothingToRelease(f) \/ DeleteServer(f) \/ ConfirmGone(f) \/ DestroyService(f)
               \/ ReleaseFails(f) \/ WipeEnds(f)
      BY <1>t, <3>1 DEF ArchiveBegins, StopForSnapshot, ArchiveFails, DestroyBegins,
         NothingToRelease, DeleteServer, ConfirmGone, DestroyService, ReleaseFails, WipeEnds
    <3>2. CASE \/ Build(f) \/ BuildFails(f) \/ Fetch(f) \/ FetchFails(f) \/ Seed(f)
               \/ Unpack(f) \/ Launch(f) \/ RecoverFails(f)
      BY <1>t, <3>2 DEF Build, BuildFails, Fetch, FetchFails, Seed, Unpack, Launch, RecoverFails
    <3> QED
      BY <1>6, <3>1, <3>2 DEF QuietStep
  <2> QED
    BY <1>1, <1>2, <2>1, <2>2 DEF Cat
<1>7. ASSUME NEW f \in Flow, Upload(f) \/ UploadTruncated(f) PROVE Goal
  <2>1. /\ UNCHANGED <<rows, lost, key>> /\ pc[f] = "upload" /\ pc' = [pc EXCEPT ![f] = "record"]
        /\ \A l \in Key : l # key[f] => tarball'[l] = tarball[l]
    BY <1>t, <1>7 DEF Upload, UploadTruncated, Stored
  <2> QED
    BY <1>t, <1>1, <1>2, <2>1
<1>8. ASSUME NEW f \in Flow, Record(f) \/ ArchiveBreaks(f) PROVE Goal
  <2>1. /\ UNCHANGED key /\ \E p \in Points : pc' = [pc EXCEPT ![f] = p]
        /\ rows \subseteq rows' /\ lost \subseteq lost'
        /\ \A l \in Key : l # key[f] => tarball'[l] = tarball[l]
    BY <1>t, <1>8 DEF Record, ArchiveBreaks, Insert, Stored, Points
  <2>2. key[f] \in lost' \/ \E r \in rows' : r.key = key[f]
    <3>1. Insert(f) => [id |-> serial', key |-> key[f]] \in rows'
      BY DEF Insert
    <3>2. CASE Record(f)
      BY <3>1, <3>2 DEF Record
    <3>3. CASE ArchiveBreaks(f)
      BY <3>3 DEF ArchiveBreaks
    <3> QED
      BY <1>8, <3>2, <3>3
  <2> QED
    BY <1>t, <1>1, <1>2, <1>3, <2>1, <2>2
<1>9. ASSUME NEW f \in Flow,
             \/ OpenStream(f) \/ DestroyVolume(f) \/ RecoverBegins(f) \/ DeleteBegins(f)
             \/ PruneBegins(f)
      PROVE  Goal
  <2>1. UNCHANGED <<rows, tarball>> /\ lost \subseteq lost'
    BY <1>9 DEF OpenStream, DestroyVolume, RecoverBegins, DeleteBegins, PruneBegins
  <2>2. \A g \in Flow : pc[g] = "record" => pc'[g] = "record" /\ key'[g] = key[g]
    BY <1>t, <1>9 DEF OpenStream, DestroyVolume, RecoverBegins, DeleteBegins, PruneBegins
  <2> QED
    BY <1>1, <1>2, <2>1, <2>2
<1>10. ASSUME NEW f \in Flow, NEW r \in todo[f], Wipe(f, r) \/ WipeFails(f, r) PROVE Goal
  <2>1. /\ UNCHANGED <<rows, lost>> /\ tarball[k] # None
        /\ \A g \in Flow : pc[g] = "record" => pc'[g] = "record" /\ key'[g] = key[g]
    BY <1>t, <1>2, <1>10 DEF Wipe, WipeFails
  <2> QED
    BY <1>1, <2>1
<1>11. ASSUME NEW f \in Flow, Drop(f) \/ Forget(f) PROVE Goal
  <2>1. /\ pc[f] \in {"drop", "forget"} /\ \E p \in Points : pc' = [pc EXCEPT ![f] = p]
        /\ UNCHANGED <<tarball, key>> /\ lost \subseteq lost'
    BY <1>11 DEF Drop, Forget, Points
  <2>2. \A q \in rows \ rows' : q.key \in lost' \/ tarball[q.key] = None
    <3>1. CASE Drop(f)
      BY <2>1, <3>1 DEF Drop, Wiped, Gone
    <3>2. CASE Forget(f)
      <4>1. pc[f] = "forget" /\ \A q \in rows : q.id <= upto[f] => Gone(q.key)
        BY <3>2 DEF Forget, Wiped
      <4>2. \A q \in rows \ rows' : q.id <= upto[f] \/ q.key \in lost'
        BY <1>t, <3>2 DEF Forget
      <4> QED
        BY <2>1, <4>1, <4>2 DEF Gone
    <3> QED
      BY <1>11, <3>1, <3>2
  <2> QED
    BY <1>t, <1>1, <1>2, <2>1, <2>2
<1> QED
  BY <1>4, <1>5, <1>6, <1>7, <1>8, <1>9, <1>10, <1>11, QuietOrBusy DEF Quiet, Busy

-----------------------------------------------------------------------------
(* The results.                                                               *)

IInv == Typed /\ OwedOK /\ Promise /\ Wiped /\ NoOrphans

LEMMA InitTyped == ASSUME Init PROVE Typed /\ OwedOK
<1>1. serial \in 0..2 /\ 0..2 \subseteq Key /\ serial \in Nat /\ \A i \in 1..serial : i \in Key /\ i \in Nat
  BY ArchivesAssumption DEF Init, Key
<1>2. CatalogueOK
  <2>1. rows \in SUBSET Row /\ \A r \in rows : r.id <= serial
    BY <1>1 DEF Init, Row
  <2>2. tarball \in [Key -> Content]
    BY <1>1 DEF Init, Content
  <2> QED
    BY <1>1, <2>1, <2>2 DEF CatalogueOK, Init
<1>3. ServerOK
  <2>1. svc \in BOOLEAN /\ game \in BOOLEAN
    BY DEF Init
  <2>2. vol \in Content /\ memory \in Nat
    BY DEF Init, Content
  <2>3. pod \in {"none", "up"} /\ (game => pod # "none")
    BY DEF Init
  <2> QED
    BY <2>1, <2>2, <2>3 DEF ServerOK
<1>4. FlowOK
  <2>1. 0 \in Key /\ None \in Content /\ {} \in SUBSET Row
    BY <1>1 DEF Content
  <2>2. key \in [Flow -> Key] /\ reading \in [Flow -> Content]
    BY <2>1 DEF Init
  <2>3. todo \in [Flow -> SUBSET Row] /\ upto \in [Flow -> Nat]
    BY <2>1 DEF Init
  <2>4. pc \in [Flow -> {"idle"}] /\ op \in [Flow -> {"none"}]
    BY DEF Init
  <2> QED
    BY <2>2, <2>3, <2>4 DEF FlowOK
<1>5. MarksOK /\ TruthsOK /\ OwedOK
  <2>1. None \in Content /\ serial + 2 \in Nat /\ MaxTroubles \in Nat
    BY <1>1, ArchivesAssumption DEF Content
  <2>2. MarksOK
    BY <2>1 DEF Init, MarksOK
  <2>3. TruthsOK
    BY DEF Init, TruthsOK
  <2>4. OwedOK
    BY <2>1 DEF Init, OwedOK
  <2> QED
    BY <2>2, <2>3, <2>4
<1> QED
  BY <1>2, <1>3, <1>4, <1>5 DEF Typed

LEMMA InitPromise == ASSUME Init PROVE Promise /\ Wiped /\ NoOrphans
<1>t. Typed /\ OwedOK
  BY InitTyped
<1>i. /\ \A f \in Flow : pc[f] = "idle" /\ op[f] = "none" /\ key[f] = 0 /\ todo[f] = {}
                         /\ upto[f] = 0 /\ due[f] = None
      /\ lost = {} /\ spoilt = FALSE /\ serial \in 0..2 /\ stamp = serial
      /\ rows = {[id |-> i, key |-> i] : i \in 1..serial}
      /\ \A r \in rows : r.id \in 1..serial /\ r.key = r.id /\ r = [id |-> r.id, key |-> r.id]
      /\ \A i \in 1..serial : [id |-> i, key |-> i] \in rows
  BY DEF Init
<1>k. \A q \in Row : Known(q) => q \in rows
  BY <1>i DEF Known
<1>1. PointsOK
  BY <1>i DEF PointsOK
<1>2. Bounded
  BY <1>i, <1>k DEF Bounded
<1>3. OwnKey
  BY <1>i, <1>k DEF OwnKey, Stores
<1>n. serial > 0 => Newest([id |-> serial, key |-> serial])
  BY <1>i DEF Newest
<1>4. NewestIsSafe
  <2>1. rows # {} => \E r \in rows : Newest(r)
    BY <1>i, <1>n
  <2> QED
    BY <1>i, <2>1 DEF NewestIsSafe
<1>5. AllSaved /\ AllBrought
  BY <1>i DEF AllSaved, AllBrought, Saved, Stores, Releases
<1>6. Kept
  <2>1. CASE owed = {}
    BY <2>1 DEF Kept
  <2>2. CASE serial \in 1..2 /\ owed = {serial + 2}
    <3>1. [id |-> serial, key |-> serial] \in rows /\ tarball[serial] = serial + 2
      BY <1>t, <1>i, <2>2, ArchivesAssumption DEF Init, Key
    <3> QED
      BY <1>i, <1>n, <2>2, <3>1 DEF Kept
  <2> QED
    BY <2>1, <2>2 DEF Init
<1>7. Wiped
  BY <1>i DEF Wiped
<1>8. NoOrphans
  <2>1. \A k \in Key : tarball[k] # None => k \in 1..serial
    BY DEF Init
  <2> QED
    BY <1>i, <2>1 DEF NoOrphans
<1> QED
  BY <1>1, <1>2, <1>3, <1>4, <1>5, <1>6, <1>7, <1>8 DEF Promise

LEMMA Stutters == ASSUME IInv, UNCHANGED vars PROVE IInv'
<1> USE DEF vars, server, catalogue, bucket, flow, history
<1>1. Typed' /\ OwedOK'
  BY DEF IInv, Typed, OwedOK, ServerOK, CatalogueOK, FlowOK, MarksOK, TruthsOK
<1>2. PointsOK' /\ Bounded' /\ OwnKey'
  BY DEF IInv, Promise, PointsOK, Bounded, OwnKey, Known, Named, Unshared, Stores, Releases
<1>3. NewestIsSafe' /\ Kept'
  BY DEF IInv, Promise, NewestIsSafe, Kept, Newest, Sound, Unshared
<1>4. AllSaved' /\ AllBrought'
  BY DEF IInv, Promise, AllSaved, AllBrought, Saved, Brings, Stores, Releases, Newest
<1>5. Wiped' /\ NoOrphans'
  BY DEF IInv, Wiped, Gone, NoOrphans, At
<1> QED
  BY <1>1, <1>2, <1>3, <1>4, <1>5 DEF IInv, Promise

LEMMA Step == ASSUME IInv, Next PROVE IInv'
  BY TypedStep, OwedStep, PointsStep, BoundedStep, OwnKeyStep, NewestIsSafeStep, AllSavedStep,
     AllBroughtStep, KeptStep, WipedStep, NoOrphansStep DEF IInv, Promise

\* What the runs check on two flows holds of any number.
THEOREM ArchivesInvariant == Spec => []IInv
<1>1. Init => IInv
  BY InitTyped, InitPromise DEF IInv
<1>2. IInv /\ [Next]_vars => IInv'
  BY Step, Stutters
<1> QED
  BY <1>1, <1>2, PTL DEF Spec

\* Flows, catalogue and bucket stay within their types (of orchestrate.rs).
THEOREM TypeCorrect == Spec => []TypeOK
<1>1. IInv => TypeOK
  BY TypeParts DEF IInv
<1> QED
  BY <1>1, ArchivesInvariant, PTL

\* However many archives, prunes and failures there are at the name of a world
\* that run_archive took off the cluster, the newest archive of the name holds
\* it, until somebody has the archives deleted.
THEOREM ReleasedIsRecoverableAlways == Spec => []ReleasedIsRecoverable
<1>1. IInv => ReleasedIsRecoverable
  BY DEF IInv, Promise, Kept, ReleasedIsRecoverable
<1> QED
  BY <1>1, ArchivesInvariant, PTL

\* A run_recover that nobody disturbed launches the game on the world that was
\* archived, however many flows read and write the bucket beside it.
THEOREM RoundTripAlways == Spec => []RoundTrip
<1>1. IInv => RoundTrip
  BY DEF IInv, Promise, AllBrought, Brings, RoundTrip, At
<1> QED
  BY <1>1, ArchivesInvariant, PTL

\* No order of archives, deletes and prunes leaves a tarball that neither the
\* catalogue names nor a failure known to leave one has left.
THEOREM NoOrphansAlways == Spec => []NoOrphans
<1>1. IInv => NoOrphans
  BY DEF IInv
<1> QED
  BY <1>1, ArchivesInvariant, PTL
=============================================================================
