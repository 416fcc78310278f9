----------------------------- MODULE DeferProofs -----------------------------
(* The deferred-task queue keeps its types, its registry never names a key    *)
(* nobody watches, and no task is stranded, for any number of tasks, any      *)
(* ceiling and expiry, and any number of failures and restarts.               *)
EXTENDS Defer, SequenceTheorems, FiniteSetTheorems, TLAPS

USE DEF Live, Watching, Leaving

\* What is left of a list is a list.
LEMMA SubListsAreLists ==
  ASSUME NEW list \in Seq(Task), NEW n \in 0..Len(list)
  PROVE  SubSeq(list, n + 1, Len(list)) \in Seq(Task)
  OBVIOUS

\* ensure_watcher keeps the types of the watchers.
LEMMA EnsureWatcherIsTyped ==
  ASSUME TypeOK, NEW x \in Watcher, EnsureWatcher(x)
  PROVE  /\ registered' \in BOOLEAN /\ gaveUp' \in BOOLEAN
         /\ pc' \in [Watcher -> Live \cup {"none"}]
         /\ age' \in [Watcher -> 0..Ceiling]
         /\ items' \in [Watcher -> Seq(Task)]
<1>1. "waiting" \in Live \cup {"none"} /\ 0 \in 0..Ceiling
  BY DeferAssumption
<1> QED
  BY <1>1 DEF TypeOK, EnsureWatcher

\* Type correctness of defer/: every variable of the queue, of the process and
\* of its watchers keeps its type.
THEOREM TypeCorrect == Spec => []TypeOK
<1>1. Init => TypeOK
  <2> SUFFICES ASSUME Init PROVE TypeOK
    OBVIOUS
  <2>1. queue \in Seq(Task) /\ items \in [Watcher -> Seq(Task)]
    BY EmptySeq DEF Init
  <2>2. ttl \in 0..TTL /\ age \in [Watcher -> 0..Ceiling]
    BY DeferAssumption DEF Init
  <2>3. faults \in Nat /\ exits \in Nat
    BY DeferAssumption DEF Init
  <2> QED
    BY <2>1, <2>2, <2>3 DEF Init, TypeOK
<1>2. TypeOK /\ [Next]_vars => TypeOK'
  <2> SUFFICES ASSUME TypeOK, [Next]_vars PROVE TypeOK'
    OBVIOUS
  <2> USE DeferAssumption
  <2>1. CASE UNCHANGED vars
    BY <2>1 DEF vars, valkey, watchers, fate, bounds, TypeOK
  <2>2. ASSUME NEW t \in Task, Push(t) \/ PushFails(t) PROVE TypeOK'
    <3>1. Append(queue, t) \in Seq(Task)
      BY AppendProperties DEF TypeOK
    <3>2. CASE Push(t)
      BY <3>1, <3>2 DEF TypeOK, Push, watchers, fate, bounds
    <3>3. CASE PushFails(t)
      <4>1. queue' \in Seq(Task)
        BY <3>1, <3>3 DEF TypeOK, PushFails
      <4>3. faults' \in Nat
        BY <3>3 DEF TypeOK, PushFails, Fault
      <4>2. request' \in [Task -> {"new", "pushed", "timed", "queued", "refused", "cut"}]
        BY <3>3 DEF TypeOK, PushFails
      <4> QED
        BY <3>3, <4>1, <4>2, <4>3 DEF TypeOK, PushFails, watchers, fate
    <3> QED
      BY <2>2, <3>2, <3>3
  <2>3. ASSUME NEW t \in Task, Expire(t) \/ ExpireFails(t) PROVE TypeOK'
    <3>1. request' \in [Task -> {"new", "pushed", "timed", "queued", "refused", "cut"}]
      BY <2>3 DEF TypeOK, Expire, ExpireFails
    <3>2. CASE Expire(t)
      BY <3>1, <3>2 DEF TypeOK, Expire, watchers, fate, bounds
    <3>3. CASE ExpireFails(t)
      <4>1. faults' \in Nat
        BY <3>3 DEF TypeOK, ExpireFails, Fault
      <4> QED
        BY <3>1, <3>3, <4>1 DEF TypeOK, ExpireFails, valkey, watchers, fate
    <3> QED
      BY <2>3, <3>2, <3>3
  <2>4. ASSUME NEW t \in Task, Watch(t) PROVE TypeOK'
    <3>1. t \in Watcher /\ EnsureWatcher(t)
      BY <2>4 DEF Watcher, Watch
    <3> QED
      BY <2>4, <3>1, EnsureWatcherIsTyped DEF TypeOK, Watch, valkey, fate, bounds
  <2>5. CASE Scan \/ ScanFails
    <3>1. CASE Scan
      BY <3>1 DEF TypeOK, Scan, valkey, watchers, fate, bounds
    <3>2. CASE ScanFails
      BY <3>2 DEF TypeOK, ScanFails, Fault, valkey, watchers, fate, bounds
    <3> QED
      BY <2>5, <3>1, <3>2
  <2>6. CASE Rearm
    <3>1. Reconciler \in Watcher /\ EnsureWatcher(Reconciler)
      BY <2>6 DEF Watcher, Rearm
    <3> QED
      BY <2>6, <3>1, EnsureWatcherIsTyped DEF TypeOK, Rearm, valkey, fate, bounds
  <2>7. ASSUME NEW w \in Watcher, WatcherStep(w) PROVE TypeOK'
    <3>1. CASE WaitEnds(w) \/ WaitCancelled(w) \/ PopNothing(w) \/ Recheck(w)
      BY <3>1 DEF TypeOK, WaitEnds, WaitCancelled, PopNothing, Recheck, Await,
                  valkey, watchers, fate, bounds
    <3>2. CASE Pop(w)
      <4>1. Head(queue) \in Task /\ Tail(queue) \in Seq(Task)
        BY <3>2, HeadTailProperties DEF Pop, TypeOK
      <4>2. Append(items[w], Head(queue)) \in Seq(Task)
        BY <4>1, AppendProperties DEF TypeOK
      <4> QED
        BY <3>2, <4>1, <4>2 DEF TypeOK, Pop, TtlOf, valkey, watchers, fate, bounds
    <3>3. CASE PopFails(w)
      <4>1. PICK taken \in {0, 1} :
              /\ taken <= Len(queue)
              /\ queue' = SubSeq(queue, taken + 1, Len(queue)) /\ ttl' = TtlOf(queue')
              /\ lost' = lost \cup Members(items[w]) \cup Members(SubSeq(queue, 1, taken))
        BY <3>3 DEF PopFails
      <4>2. queue' \in Seq(Task)
        <5>1. taken \in 0..Len(queue)
          BY <4>1, LenProperties DEF TypeOK
        <5> QED
          BY <4>1, <5>1, SubListsAreLists DEF TypeOK
      <4>3. Members(items[w]) \subseteq Task
        BY ElementOfSeq DEF Members, TypeOK
      <4>4. Members(SubSeq(queue, 1, taken)) \subseteq Task
        <5>1. SubSeq(queue, 1, taken) \in Seq(Task)
          BY <4>1 DEF TypeOK
        <5> QED
          BY <5>1, ElementOfSeq DEF Members
      <4>5. ttl' \in 0..TTL
        BY <4>1 DEF TtlOf, TypeOK
      <4>6. lost' \in SUBSET Task
        BY <4>1, <4>3, <4>4 DEF TypeOK
      <4>7. items' \in [Watcher -> Seq(Task)]
        BY <3>3, EmptySeq DEF PopFails, TypeOK
      <4>8. pc' \in [Watcher -> Live \cup {"none"}]
        BY <3>3 DEF PopFails, Await, TypeOK
      <4>9. registered' \in BOOLEAN /\ gaveUp' \in BOOLEAN
        BY <3>3 DEF PopFails
      <4>10. faults' \in Nat
        BY <3>3 DEF PopFails, Fault, TypeOK
      <4> QED
        BY <3>3, <4>10, <4>2, <4>5, <4>6, <4>7, <4>8, <4>9 DEF PopFails, TypeOK
    <3>4. CASE RunBatch(w)
      <4>1. runs' \in [Task -> Nat]
        BY <3>4 DEF RunBatch, TypeOK
      <4>2. /\ items' \in [Watcher -> Seq(Task)] /\ registered' \in BOOLEAN
            /\ pc' \in [Watcher -> Live \cup {"none"}]
        BY <3>4, EmptySeq DEF RunBatch, Await, TypeOK
      <4> QED
        BY <3>4, <4>1, <4>2 DEF TypeOK, RunBatch, valkey, bounds
    <3>5. CASE AbandonBatch(w)
      <4>1. Members(items[w]) \subseteq Task
        BY ElementOfSeq DEF Members, TypeOK
      <4>2. items' \in [Watcher -> Seq(Task)]
        BY <3>5, EmptySeq DEF AbandonBatch, TypeOK
      <4>3. pc' \in [Watcher -> Live \cup {"none"}]
        BY <3>5 DEF AbandonBatch, Await, TypeOK
      <4>4. registered' \in BOOLEAN /\ lost' \in SUBSET Task
        BY <3>5, <4>1 DEF AbandonBatch, TypeOK
      <4>5. faults' \in Nat
        BY <3>5 DEF AbandonBatch, Fault, TypeOK
      <4> QED
        BY <3>5, <4>2, <4>3, <4>4, <4>5 DEF TypeOK, AbandonBatch, valkey
    <3>6. CASE Retire(w)
      BY <3>6 DEF TypeOK, Retire, Await, valkey, fate, bounds
    <3>8. CASE RecheckFails(w)
      <4>1. pc' \in [Watcher -> Live \cup {"none"}] /\ gaveUp' \in BOOLEAN
        BY <3>8 DEF RecheckFails, Await, TypeOK
      <4>2. faults' \in Nat
        BY <3>8 DEF RecheckFails, Fault, TypeOK
      <4> QED
        BY <3>8, <4>1, <4>2 DEF TypeOK, RecheckFails, valkey, fate
    <3>7. CASE RegisterSilent(w)
      BY <3>7 DEF TypeOK, RegisterSilent, Await, valkey, fate, bounds
    <3> QED
      BY <2>7, <3>1, <3>2, <3>3, <3>4, <3>5, <3>6, <3>7, <3>8 DEF WatcherStep
  <2>8. CASE Stop \/ ProcessStarts
    <3>1. CASE Stop
      BY <3>1 DEF TypeOK, Stop, valkey, watchers, fate, bounds
    <3>2. CASE ProcessStarts
      BY <3>2 DEF TypeOK, ProcessStarts, valkey, watchers, fate, bounds
    <3> QED
      BY <2>8, <3>1, <3>2
  <2>9. CASE DrainEnds \/ Crash
    <3>1. UNION {Members(items[w]) : w \in Watcher} \subseteq Task
      BY ElementOfSeq DEF Members, TypeOK
    <3>2. items' \in [Watcher -> Seq(Task)]
      BY <2>9, EmptySeq DEF DrainEnds, Crash, ProcessEnds
    <3>3. request' \in [Task -> {"new", "pushed", "timed", "queued", "refused", "cut"}]
      BY <2>9 DEF DrainEnds, Crash, ProcessEnds, TypeOK
    <3>4. /\ pc' \in [Watcher -> Live \cup {"none"}]
          /\ age' \in [Watcher -> 0..Ceiling]
      BY <2>9 DEF DrainEnds, Crash, ProcessEnds
    <3>5. exits' \in Nat /\ lost' \in SUBSET Task
      BY <2>9, <3>1 DEF DrainEnds, Crash, ProcessEnds, TypeOK
    <3> QED
      BY <2>9, <3>1, <3>2, <3>3, <3>4, <3>5
      DEF TypeOK, DrainEnds, Crash, ProcessEnds, valkey
  <2>10. CASE Tick
    <3>1. Members(queue) \subseteq Task
      BY ElementOfSeq DEF Members, TypeOK
    <3>2. age' \in [Watcher -> 0..Ceiling]
      BY <2>10 DEF Tick, TypeOK
    <3> QED
      BY <2>10, <3>1, <3>2, EmptySeq DEF Tick, TypeOK, bounds
  <2> QED
    BY <2>1, <2>2, <2>3, <2>4, <2>5, <2>6, <2>7, <2>8, <2>9, <2>10
    DEF Next, EnqueueStep
<1> QED
  BY <1>1, <1>2, PTL DEF Spec

------------------------------------------------------------------------------
(* The registry and the queue.  A registered key is safe to leave alone while *)
(* somebody is Watching; every way out of Watching takes the key out of the   *)
(* registry, but for the way down, after which the registry starts afresh.    *)

FreshRegistry == bot = "down" => ~registered

IInv == RegisteredMeansWatched /\ NoTaskStranded /\ FreshRegistry

\* ensure_watcher leaves somebody Watching, the spawned watcher or the one the
\* registry promised, and keeps it so.
LEMMA EnsureWatcherWatches ==
  ASSUME TypeOK, IInv, bot = "up", NEW x \in Watcher, EnsureWatcher(x)
  PROVE  \E w \in Watcher : pc'[w] \in Watching
<1>1. CASE registered
  <2>1. PICK w \in Watcher : pc[w] \in Watching
    BY <1>1 DEF IInv, RegisteredMeansWatched
  <2> QED
    BY <1>1, <2>1 DEF EnsureWatcher
<1>2. CASE ~registered
  <2>1. pc'[x] = "waiting"
    BY <1>2 DEF EnsureWatcher, TypeOK
  <2> QED
    BY <2>1
<1> QED
  BY <1>1, <1>2

\* The invariant is kept by every step.
LEMMA IInvStep == TypeOK /\ IInv /\ [Next]_vars => IInv'
<1> SUFFICES ASSUME TypeOK, IInv, [Next]_vars PROVE IInv'
  OBVIOUS
<1> USE DEF IInv, RegisteredMeansWatched, NoTaskStranded, Attended, FreshRegistry
<1>1. CASE UNCHANGED vars
  BY <1>1 DEF vars, valkey, watchers
<1>2. ASSUME NEW t \in Task, Push(t) PROVE IInv'
  <2>1. request'[t] = "pushed"
    BY <1>2 DEF Push, TypeOK
  <2> QED
    BY <1>2, <2>1 DEF Push, watchers
<1>3. ASSUME NEW t \in Task, PushFails(t) PROVE IInv'
  BY <1>3 DEF PushFails, watchers
<1>4. ASSUME NEW t \in Task, Expire(t) \/ ExpireFails(t) PROVE IInv'
  <2>1. request'[t] = "timed"
    BY <1>4 DEF Expire, ExpireFails, TypeOK
  <2> QED
    BY <1>4, <2>1 DEF Expire, ExpireFails, watchers, valkey
<1>5. ASSUME NEW t \in Task, Watch(t) PROVE IInv'
  <2>1. bot' = "up" => \E w \in Watcher : pc'[w] \in Watching
    BY <1>5, EnsureWatcherWatches DEF Watch, Watcher
  <2> QED
    BY <1>5, <2>1 DEF Watch, EnsureWatcher, Alive
<1>6. CASE Scan
  BY <1>6 DEF Scan, valkey, watchers
<1>7. CASE ScanFails
  BY <1>7 DEF ScanFails, valkey, watchers
<1>8. CASE Rearm
  <2>1. bot' = "up" => \E w \in Watcher : pc'[w] \in Watching
    BY <1>8, EnsureWatcherWatches DEF Rearm, Watcher
  <2> QED
    BY <1>8, <2>1 DEF Rearm, EnsureWatcher, Alive
<1>9. ASSUME NEW w \in Watcher, WatcherStep(w) PROVE IInv'
  <2>u. /\ pc \in [Watcher -> Live \cup {"none"}]
        /\ bot' = bot /\ request' = request /\ reconcile' = reconcile
    BY <1>9 DEF TypeOK, WatcherStep, WaitEnds, WaitCancelled, Pop, PopNothing,
                PopFails, RunBatch, AbandonBatch, Retire, Recheck, RecheckFails,
                RegisterSilent, bounds
  <2>1. CASE WaitEnds(w) \/ PopNothing(w)
    <3>1. pc'[w] \in Watching
      BY <2>1, <2>u DEF WaitEnds, PopNothing, Await
    <3> QED
      BY <2>1, <2>u, <3>1 DEF WaitEnds, PopNothing, valkey
  <2>2. CASE WaitCancelled(w)
    BY <2>2, <2>u DEF WaitCancelled
  <2>3. CASE Pop(w)
    BY <2>3, <2>u DEF Pop
  <2>4. CASE PopFails(w)
    BY <2>4, <2>u DEF PopFails
  <2>5. CASE RunBatch(w) \/ AbandonBatch(w) \/ Retire(w)
    <3>1. pc'[w] \in Live
      BY <2>5, <2>u DEF RunBatch, AbandonBatch, Retire, Await
    <3>2. ~registered'
      BY <2>5 DEF RunBatch, AbandonBatch, Retire
    <3> QED
      BY <2>u, <3>1, <3>2
  <2>6. CASE Recheck(w) \/ RecheckFails(w)
    <3>1. \A v \in Watcher \ {w} : pc'[v] = pc[v]
      BY <2>6, <2>u DEF Recheck, RecheckFails, Await
    <3>2. pc[w] \notin Watching /\ registered' = registered /\ queue' = queue
      BY <2>6 DEF Recheck, RecheckFails, valkey
    <3>3. RegisteredMeansWatched' /\ FreshRegistry'
      BY <2>u, <3>1, <3>2
    <3>4. queue # <<>> /\ ~gaveUp' => pc'[w] \in Live
      BY <2>6, <2>u DEF Recheck, RecheckFails, Await
    <3> QED
      BY <2>u, <3>2, <3>3, <3>4
  <2>7. CASE RegisterSilent(w)
    <3>1. pc'[w] = "waiting" /\ bot # "down"
      BY <2>7, <2>u DEF RegisterSilent, Await, Alive
    <3> QED
      BY <2>u, <3>1
  <2> QED
    BY <1>9, <2>1, <2>2, <2>3, <2>4, <2>5, <2>6, <2>7 DEF WatcherStep
<1>10. CASE Stop
  BY <1>10 DEF Stop
<1>11. CASE DrainEnds \/ Crash
  BY <1>11 DEF DrainEnds, Crash, ProcessEnds
<1>12. CASE ProcessStarts
  BY <1>12 DEF ProcessStarts, watchers
<1>13. CASE Tick
  BY <1>13 DEF Tick
<1> QED
  BY <1>1, <1>2, <1>3, <1>4, <1>5, <1>6, <1>7, <1>8, <1>9, <1>10, <1>11, <1>12, <1>13
  DEF Next, EnqueueStep

\* The inductive invariant of the queue: the registry is true to the watchers,
\* nothing in the queue is left alone, and a new process starts unregistered.
THEOREM QueueInvariant == Spec => []IInv
<1>1. Init => IInv
  BY DEF Init, IInv, RegisteredMeansWatched, NoTaskStranded, FreshRegistry
<1> QED
  BY <1>1, IInvStep, TypeCorrect, PTL DEF Spec

\* DeferRuntime.watchers never names a key without a watcher that will look at
\* the queue again, however watchers retire, fail and double up.
THEOREM RegisteredMeansWatchedAlways == Spec => []RegisteredMeansWatched
<1>1. IInv => RegisteredMeansWatched
  BY DEF IInv
<1> QED
  BY <1>1, QueueInvariant, PTL

\* No task in the queue is left without a watcher, an enqueue about to ensure
\* one, or the reconcile of a fresh process, unless Valkey failed someone.
THEOREM NoTaskStrandedAlways == Spec => []NoTaskStranded
<1>1. IInv => NoTaskStranded
  BY DEF IInv
<1> QED
  BY <1>1, QueueInvariant, PTL

------------------------------------------------------------------------------
(* Where a task is: in the queue, in a watcher's hands, run, lost or expired; *)
(* never in two of these, nor twice in one.                                   *)

Distinct(list) == \A i, j \in DOMAIN list : list[i] = list[j] => i = j
Waits(t) == t \in Members(queue)
Holds(w, t) == t \in Members(items[w])

Somewhere(t) ==
  Waits(t) \/ (\E w \in Watcher : Holds(w, t)) \/ runs[t] # 0 \/ t \in lost \/ t \in expired

OnePlace(t) ==
  /\ Waits(t) => /\ \A w \in Watcher : ~Holds(w, t)
                 /\ runs[t] = 0 /\ t \notin lost /\ t \notin expired
  /\ \A w \in Watcher : Holds(w, t) =>
       /\ \A v \in Watcher : Holds(v, t) => v = w
       /\ runs[t] = 0 /\ t \notin lost /\ t \notin expired
  /\ runs[t] # 0 => runs[t] = 1 /\ t \notin lost /\ t \notin expired
  /\ t \in lost => t \notin expired

Taken == {"pushed", "timed", "queued", "cut"}

Placed(t) ==
  /\ OnePlace(t)
  /\ request[t] = "new" => ~Somewhere(t)
  /\ request[t] \in Taken => Somewhere(t)

PlacesInv ==
  /\ Distinct(queue) /\ \A w \in Watcher : Distinct(items[w])
  /\ \A t \in Task : Placed(t)

\* What a list and its pieces hold.
LEMMA ListMembers ==
  /\ Members(<<>>) = {} /\ Distinct(<<>>)
  /\ \A list \in Seq(Task) : Members(list) \subseteq Task
BY ElementOfSeq DEF Members, Distinct

LEMMA AppendMembers ==
  ASSUME NEW list \in Seq(Task), NEW t \in Task, Distinct(list), t \notin Members(list)
  PROVE  /\ Append(list, t) \in Seq(Task) /\ Distinct(Append(list, t))
         /\ Members(Append(list, t)) = Members(list) \cup {t}
<1> DEFINE longer == Append(list, t)
<1>1. /\ longer \in Seq(Task) /\ DOMAIN longer = 1..(Len(list) + 1)
      /\ DOMAIN list = 1..Len(list) /\ Len(list) \in Nat
      /\ longer[Len(list) + 1] = t
      /\ \A i \in 1..Len(list) : longer[i] = list[i]
  BY AppendProperties, LenProperties
<1> HIDE DEF longer
<1>2. Distinct(longer)
  <2> SUFFICES ASSUME NEW i \in DOMAIN longer, NEW j \in DOMAIN longer, longer[i] = longer[j]
               PROVE  i = j
    BY DEF Distinct
  <2>1. \A k \in 1..Len(list) : longer[k] # t
    BY <1>1 DEF Members
  <2>2. CASE i \in 1..Len(list) /\ j \in 1..Len(list)
    BY <1>1, <2>2 DEF Distinct
  <2> QED
    BY <1>1, <2>1, <2>2
<1>3. Members(longer) = Members(list) \cup {t}
  BY <1>1 DEF Members
<1> QED
  BY <1>1, <1>2, <1>3 DEF longer

LEMMA TailMembers ==
  ASSUME NEW list \in Seq(Task), list # <<>>, Distinct(list)
  PROVE  /\ Head(list) \in Task /\ Tail(list) \in Seq(Task) /\ Distinct(Tail(list))
         /\ Head(list) \in Members(list)
         /\ Members(Tail(list)) = Members(list) \ {Head(list)}
<1> DEFINE rest == Tail(list)
           h == Head(list)
           n == Len(list)
<1>1. /\ n \in Nat \ {0} /\ DOMAIN list = 1..n /\ h = list[1] /\ h \in Task
      /\ rest \in Seq(Task) /\ DOMAIN rest = 1..(n - 1)
      /\ \A i \in 1..(n - 1) : rest[i] = list[i + 1]
  BY HeadTailProperties, LenProperties, EmptySeq
<1> HIDE DEF rest, h, n
<1>2. Distinct(rest)
  <2> SUFFICES ASSUME NEW i \in 1..(n - 1), NEW j \in 1..(n - 1), rest[i] = rest[j]
               PROVE  i = j
    BY <1>1 DEF Distinct
  <2>1. list[i + 1] = list[j + 1] /\ i + 1 \in 1..n /\ j + 1 \in 1..n
    BY <1>1
  <2>2. i + 1 = j + 1
    BY <1>1, <2>1 DEF Distinct
  <2> QED
    BY <2>2
<1>3. h \in Members(list)
  BY <1>1 DEF Members
<1>4. Members(rest) \subseteq Members(list) \ {h}
  <2> SUFFICES ASSUME NEW i \in 1..(n - 1)
               PROVE  rest[i] \in Members(list) /\ rest[i] # h
    BY <1>1 DEF Members
  <2>1. i + 1 \in 1..n /\ rest[i] = list[i + 1] /\ i + 1 # 1 /\ 1 \in 1..n
    BY <1>1
  <2> QED
    BY <1>1, <2>1 DEF Members, Distinct
<1>5. Members(list) \ {h} \subseteq Members(rest)
  <2> SUFFICES ASSUME NEW i \in 1..n, list[i] # h
               PROVE  list[i] \in Members(rest)
    BY <1>1 DEF Members
  <2>1. i - 1 \in 1..(n - 1) /\ rest[i - 1] = list[(i - 1) + 1] /\ (i - 1) + 1 = i
    BY <1>1
  <2> QED
    BY <1>1, <2>1 DEF Members
<1> QED
  BY <1>1, <1>2, <1>3, <1>4, <1>5 DEF rest, h

\* Nothing moves, and requests only move on among those that are taken, or are
\* refused.
LEMMA StayPlaced ==
  ASSUME PlacesInv, UNCHANGED <<queue, items, runs, lost, expired>>,
         \A t \in Task : \/ request'[t] = request[t]
                         \/ request[t] \in Taken /\ request'[t] \in Taken
                         \/ request'[t] = "refused"
  PROVE  PlacesInv'
<1>1. \A t \in Task : Placed(t)'
  BY DEF PlacesInv, Placed, OnePlace, Somewhere, Waits, Holds, Taken
<1> QED
  BY <1>1 DEF PlacesInv

\* A task that was nowhere joins the queue.
LEMMA JoinPlaced ==
  ASSUME TypeOK, PlacesInv, NEW t \in Task, request[t] = "new",
         queue' = Append(queue, t), UNCHANGED <<items, runs, lost, expired>>,
         \A u \in Task \ {t} : request'[u] = request[u],
         request'[t] # "new"
  PROVE  PlacesInv'
<1>1. ~Somewhere(t)
  BY DEF PlacesInv, Placed
<1>2. Distinct(queue') /\ \A u : Waits(u)' <=> Waits(u) \/ u = t
  BY <1>1, AppendMembers DEF TypeOK, PlacesInv, Somewhere, Waits
<1>3. \A w \in Watcher : Distinct(items'[w])
  BY DEF PlacesInv
<1>4. \A w, u : Holds(w, u)' <=> Holds(w, u)
  BY DEF Holds
<1>5. ASSUME NEW u \in Task PROVE Placed(u)'
  <2>1. Placed(u)
    BY DEF PlacesInv
  <2>2. CASE u = t
    BY <1>1, <1>2, <1>4, <2>2 DEF Placed, OnePlace, Somewhere
  <2>3. CASE u # t
    BY <1>2, <1>4, <2>1, <2>3 DEF Placed, OnePlace, Somewhere
  <2> QED
    BY <2>2, <2>3
<1> QED
  BY <1>2, <1>3, <1>5 DEF PlacesInv

\* Tasks leave the queue, or watchers' hands, for one of the ends: run, lost
\* or expired.
LEMMA EndPlaced ==
  ASSUME PlacesInv, NEW Gone \in SUBSET Task,
         Distinct(queue'), \A w \in Watcher : Distinct(items'[w]),
         \A u \in Gone : Waits(u) \/ \E w \in Watcher : Holds(w, u),
         \A u \in Task : Waits(u)' <=> Waits(u) /\ u \notin Gone,
         \A u \in Task : \A w \in Watcher : Holds(w, u)' <=> Holds(w, u) /\ u \notin Gone,
         \/ /\ \A u \in Task : runs'[u] = IF u \in Gone THEN runs[u] + 1 ELSE runs[u]
            /\ UNCHANGED <<lost, expired>>
         \/ lost' = lost \cup Gone /\ UNCHANGED <<runs, expired>>
         \/ expired' = expired \cup Gone /\ UNCHANGED <<runs, lost>>,
         \A u \in Task : \/ request'[u] = request[u]
                         \/ request[u] \in Taken /\ request'[u] \in Taken
  PROVE  PlacesInv'
<1>1. ASSUME NEW u \in Task PROVE Placed(u)'
  <2>1. Placed(u)
    BY DEF PlacesInv
  <2>2. CASE u \in Gone
    <3>1. /\ runs[u] = 0 /\ u \notin lost /\ u \notin expired /\ Somewhere(u)
      BY <2>1, <2>2 DEF Placed, OnePlace, Somewhere
    <3>2. ~Waits(u)' /\ \A w \in Watcher : ~Holds(w, u)'
      BY <2>2
    <3>3. Somewhere(u)' /\ OnePlace(u)'
      BY <2>2, <3>1, <3>2 DEF Somewhere, OnePlace
    <3> QED
      BY <2>1, <3>1, <3>3 DEF Placed, Taken
  <2>3. CASE u \notin Gone
    <3>1. /\ Waits(u)' <=> Waits(u)
          /\ \A w \in Watcher : Holds(w, u)' <=> Holds(w, u)
          /\ runs'[u] = runs[u] /\ (u \in lost' <=> u \in lost)
          /\ (u \in expired' <=> u \in expired)
      BY <2>3
    <3>2. (Somewhere(u)' <=> Somewhere(u)) /\ (OnePlace(u) => OnePlace(u)')
      BY <3>1 DEF Somewhere, OnePlace
    <3> QED
      BY <2>1, <3>2 DEF Placed, Taken
  <2> QED
    BY <2>2, <2>3
<1> QED
  BY <1>1 DEF PlacesInv

\* One LPOP: the head of the queue goes into one watcher's hands.
LEMMA PopPlaced ==
  ASSUME TypeOK, PlacesInv, NEW w \in Watcher, Pop(w)
  PROVE  PlacesInv'
<1> DEFINE h == Head(queue)
<1>1. /\ h \in Task /\ Waits(h) /\ Distinct(queue')
      /\ \A u : Waits(u)' <=> Waits(u) /\ u # h
  BY TailMembers DEF Pop, TypeOK, PlacesInv, Waits
<1>2. /\ \A v \in Watcher : ~Holds(v, h)
      /\ runs[h] = 0 /\ h \notin lost /\ h \notin expired
  BY <1>1 DEF PlacesInv, Placed, OnePlace
<1>3. /\ items' = [items EXCEPT ![w] = Append(items[w], h)]
      /\ UNCHANGED <<runs, lost, expired, request>>
  BY DEF Pop, fate
<1> HIDE DEF h
<1>4. /\ items'[w] = Append(items[w], h) /\ items[w] \in Seq(Task) /\ Distinct(items[w])
      /\ \A v \in Watcher \ {w} : items'[v] = items[v]
  BY <1>3 DEF TypeOK, PlacesInv
<1>5. Distinct(items'[w]) /\ \A u : Holds(w, u)' <=> Holds(w, u) \/ u = h
  BY <1>1, <1>2, <1>4, AppendMembers DEF Holds
<1>6. \A v \in Watcher \ {w} : Distinct(items'[v]) /\ \A u : Holds(v, u)' <=> Holds(v, u)
  BY <1>4 DEF PlacesInv, Holds
<1>7. ASSUME NEW u \in Task PROVE Placed(u)'
  <2>1. Placed(u)
    BY DEF PlacesInv
  <2>2. CASE u = h
    <3>1. OnePlace(u)' /\ Somewhere(u)'
      BY <1>1, <1>2, <1>3, <1>5, <1>6, <2>2 DEF OnePlace, Somewhere
    <3>2. Somewhere(u)
      BY <1>1, <2>2 DEF Somewhere
    <3> QED
      BY <1>3, <2>1, <3>1, <3>2 DEF Placed
  <2>3. CASE u # h
    <3>1. (Waits(u)' <=> Waits(u)) /\ \A v \in Watcher : Holds(v, u)' <=> Holds(v, u)
      BY <1>1, <1>5, <1>6, <2>3
    <3>2. (Somewhere(u)' <=> Somewhere(u)) /\ (OnePlace(u) => OnePlace(u)')
      BY <1>3, <3>1 DEF Somewhere, OnePlace
    <3> QED
      BY <1>3, <2>1, <3>2 DEF Placed
  <2> QED
    BY <2>2, <2>3
<1> QED
  BY <1>1, <1>5, <1>6, <1>7 DEF PlacesInv

\* A watcher's hands are emptied.
LEMMA HandsEmptied ==
  ASSUME TypeOK, PlacesInv, NEW w \in Watcher, items' = [items EXCEPT ![w] = <<>>]
  PROVE  /\ \A v \in Watcher : Distinct(items'[v])
         /\ Members(items[w]) \in SUBSET Task
         /\ \A u \in Members(items[w]) : Holds(w, u) /\ ~Waits(u)
         /\ \A u \in Task : \A v \in Watcher :
              Holds(v, u)' <=> Holds(v, u) /\ u \notin Members(items[w])
<1>1. /\ items'[w] = <<>> /\ items[w] \in Seq(Task)
      /\ \A v \in Watcher \ {w} : items'[v] = items[v]
  BY DEF TypeOK
<1>2. \A v \in Watcher : Distinct(items'[v])
  BY <1>1, ListMembers DEF PlacesInv
<1>3. Members(items[w]) \in SUBSET Task
  BY <1>1, ListMembers
<1>4. \A u \in Members(items[w]) : Holds(w, u) /\ ~Waits(u) /\ \A v \in Watcher : Holds(v, u) => v = w
  BY <1>3 DEF PlacesInv, Placed, OnePlace, Holds
<1>5. ASSUME NEW u \in Task, NEW v \in Watcher
      PROVE  Holds(v, u)' <=> Holds(v, u) /\ u \notin Members(items[w])
  <2>1. CASE v = w
    BY <1>1, <2>1, ListMembers DEF Holds
  <2>2. CASE v # w
    <3>1. Holds(v, u)' <=> Holds(v, u)
      BY <1>1, <2>2 DEF Holds
    <3> QED
      BY <1>4, <2>2, <3>1
  <2> QED
    BY <2>1, <2>2
<1> QED
  BY <1>2, <1>3, <1>4, <1>5

\* Enqueueing keeps every task in its place.
LEMMA EnqueuePlaced ==
  ASSUME TypeOK, PlacesInv, NEW t \in Task, Push(t) \/ PushFails(t) \/ EnqueueStep(t)
  PROVE  PlacesInv'
<1>1. CASE Push(t)
  <2>1. request'[t] = "pushed" /\ \A u \in Task \ {t} : request'[u] = request[u]
    BY <1>1 DEF Push, TypeOK
  <2> QED
    BY <1>1, <2>1, JoinPlaced DEF Push, watchers, fate
<1>2. CASE PushFails(t)
  <2>1. /\ request'[t] = "refused" /\ \A u \in Task \ {t} : request'[u] = request[u]
        /\ request[t] = "new" /\ UNCHANGED <<items, runs, lost, expired>>
    BY <1>2 DEF PushFails, TypeOK, watchers, fate
  <2>2. CASE queue' = queue
    <3>1. \A u \in Task : request'[u] = request[u] \/ request'[u] = "refused"
      BY <2>1
    <3> QED
      BY <2>1, <2>2, <3>1, StayPlaced
  <2>3. CASE queue' = Append(queue, t)
    BY <2>1, <2>3, JoinPlaced
  <2> QED
    BY <1>2, <2>2, <2>3 DEF PushFails
<1>3. CASE EnqueueStep(t)
  <2>1. /\ request[t] \in {"pushed", "timed"} /\ request'[t] \in {"timed", "queued"}
        /\ \A u \in Task \ {t} : request'[u] = request[u]
        /\ UNCHANGED <<queue, items, runs, lost, expired>>
    BY <1>3 DEF EnqueueStep, Expire, ExpireFails, Watch, EnsureWatcher, TypeOK, valkey, watchers, fate
  <2>2. \A u \in Task : request'[u] = request[u] \/ (request[u] \in Taken /\ request'[u] \in Taken)
    BY <2>1 DEF Taken
  <2> QED
    BY <2>1, <2>2, StayPlaced
<1> QED
  BY <1>1, <1>2, <1>3

\* A pop that fails drops what the watcher holds, and what it may have taken.
LEMMA PopFailsPlaced ==
  ASSUME TypeOK, PlacesInv, NEW w \in Watcher, PopFails(w)
  PROVE  PlacesInv'
<1>1. PICK taken \in {0, 1} :
        /\ taken <= Len(queue)
        /\ queue' = SubSeq(queue, taken + 1, Len(queue))
        /\ lost' = lost \cup Members(items[w]) \cup Members(SubSeq(queue, 1, taken))
  BY DEF PopFails
<1> DEFINE held == Members(items[w])
           took == Members(SubSeq(queue, 1, taken))
           Gone == held \cup took
<1>2. /\ items' = [items EXCEPT ![w] = <<>>] /\ UNCHANGED <<runs, expired, request>>
      /\ queue \in Seq(Task) /\ Distinct(queue)
  BY DEF PopFails, TypeOK, PlacesInv
<1>3. /\ \A v \in Watcher : Distinct(items'[v])
      /\ held \in SUBSET Task
      /\ \A u \in held : Holds(w, u) /\ ~Waits(u)
      /\ \A u \in Task : \A v \in Watcher : Holds(v, u)' <=> Holds(v, u) /\ u \notin held
  BY <1>2, HandsEmptied
<1>4. /\ Distinct(queue') /\ took \in SUBSET Task
      /\ \A u \in took : Waits(u)
      /\ \A u \in Task : Waits(u)' <=> Waits(u) /\ u \notin took
  <2>1. CASE taken = 0
    <3>1. queue' = queue /\ SubSeq(queue, 1, taken) = <<>>
      BY <1>1, <1>2, <2>1
    <3> QED
      BY <1>2, <3>1, ListMembers DEF Waits
  <2>2. CASE taken = 1
    <3>1. queue # <<>> /\ queue' = Tail(queue)
      <4>1. queue # <<>>
        BY <1>1, <1>2, <2>2, EmptySeq
      <4> QED
        BY <1>1, <1>2, <2>2, <4>1
    <3>2. took = {Head(queue)}
      <4> DEFINE first == SubSeq(queue, 1, taken)
      <4>1. DOMAIN first = {1} /\ first[1] = Head(queue)
        BY <1>1, <1>2, <2>2
      <4> HIDE DEF first
      <4>2. Members(first) = {Head(queue)}
        BY <4>1 DEF Members
      <4> QED
        BY <4>2 DEF first
    <3> QED
      BY <1>2, <3>1, <3>2, TailMembers DEF Waits
  <2> QED
    BY <2>1, <2>2
<1> HIDE DEF held, took
<1>5. \A u \in took : \A v \in Watcher : ~Holds(v, u)
  BY <1>4 DEF PlacesInv, Placed, OnePlace
<1>6. /\ Gone \in SUBSET Task /\ lost' = lost \cup Gone
      /\ \A u \in Gone : Waits(u) \/ \E v \in Watcher : Holds(v, u)
      /\ \A u \in Task : Waits(u)' <=> Waits(u) /\ u \notin Gone
      /\ \A u \in Task : \A v \in Watcher : Holds(v, u)' <=> Holds(v, u) /\ u \notin Gone
  BY <1>1, <1>3, <1>4, <1>5 DEF held, took
<1> HIDE DEF Gone
<1> QED
  BY <1>2, <1>3, <1>4, <1>6, EndPlaced

\* A batch is run, or abandoned.
LEMMA BatchPlaced ==
  ASSUME TypeOK, PlacesInv, NEW w \in Watcher, RunBatch(w) \/ AbandonBatch(w)
  PROVE  PlacesInv'
<1> DEFINE held == Members(items[w])
<1>1. /\ items' = [items EXCEPT ![w] = <<>>] /\ UNCHANGED <<queue, request, expired>>
      /\ \/ /\ \A u \in Task : runs'[u] = IF u \in held THEN runs[u] + 1 ELSE runs[u]
            /\ lost' = lost
         \/ lost' = lost \cup held /\ runs' = runs
  BY DEF RunBatch, AbandonBatch, valkey
<1>2. /\ \A v \in Watcher : Distinct(items'[v])
      /\ held \in SUBSET Task
      /\ \A u \in held : Holds(w, u) /\ ~Waits(u)
      /\ \A u \in Task : \A v \in Watcher : Holds(v, u)' <=> Holds(v, u) /\ u \notin held
  BY <1>1, HandsEmptied
<1> HIDE DEF held
<1>3. /\ Distinct(queue') /\ \A u \in held : Waits(u) \/ \E v \in Watcher : Holds(v, u)
      /\ \A u \in Task : Waits(u)' <=> Waits(u) /\ u \notin held
  BY <1>1, <1>2 DEF PlacesInv, Waits
<1> QED
  BY <1>1, <1>2, <1>3, EndPlaced

\* The end of a process drops what its watchers hold, and cuts enqueues short.
LEMMA EndOfProcessPlaced ==
  ASSUME TypeOK, PlacesInv, ProcessEnds
  PROVE  PlacesInv'
<1> DEFINE Gone == UNION {Members(items[w]) : w \in Watcher}
<1>1. /\ lost' = lost \cup Gone /\ UNCHANGED <<queue, runs, expired>>
      /\ items' = [w \in Watcher |-> <<>>]
  BY DEF ProcessEnds, valkey
<1>2. \A u \in Task : request'[u] = request[u] \/ (request[u] \in Taken /\ request'[u] \in Taken)
  BY DEF ProcessEnds, Taken
<1>3. Gone \in SUBSET Task /\ \A u \in Gone : \E w \in Watcher : Holds(w, u)
  BY ListMembers DEF TypeOK, Holds
<1>4. \A u \in Task : \A w \in Watcher : Holds(w, u) => u \in Gone
  BY DEF Holds
<1> HIDE DEF Gone
<1>5. \A w \in Watcher : Distinct(items'[w]) /\ \A u : ~Holds(w, u)'
  BY <1>1, ListMembers DEF Holds
<1>6. Distinct(queue') /\ \A u \in Task : Waits(u)' <=> Waits(u) /\ u \notin Gone
  BY <1>1, <1>3 DEF PlacesInv, Placed, OnePlace, Waits
<1> QED
  BY <1>1, <1>2, <1>3, <1>4, <1>5, <1>6, EndPlaced

\* A queue expires as a whole.
LEMMA TickPlaced ==
  ASSUME TypeOK, PlacesInv, Tick
  PROVE  PlacesInv'
<1>1. UNCHANGED <<request, items, runs, lost>>
  BY DEF Tick
<1>2. CASE ttl = 1
  <2> DEFINE Gone == Members(queue)
  <2>1. queue' = <<>> /\ expired' = expired \cup Gone
    BY <1>2 DEF Tick
  <2>2. Gone \in SUBSET Task /\ (\A u \in Gone : Waits(u)) /\ (\A u : Waits(u) => u \in Gone)
    BY ListMembers DEF TypeOK, Waits
  <2> HIDE DEF Gone
  <2>3. Distinct(queue') /\ \A u : ~Waits(u)'
    BY <2>1, ListMembers DEF Waits
  <2>4. /\ \A w \in Watcher : Distinct(items'[w])
        /\ \A u \in Task : \A w \in Watcher : Holds(w, u)' <=> Holds(w, u) /\ u \notin Gone
    BY <1>1, <2>2 DEF PlacesInv, Placed, OnePlace, Holds
  <2> QED
    BY <1>1, <2>1, <2>2, <2>3, <2>4, EndPlaced
<1>3. CASE ttl # 1
  BY <1>1, <1>3, StayPlaced DEF Tick
<1> QED
  BY <1>2, <1>3

\* Every step keeps every task in one place.
LEMMA PlacesStep == TypeOK /\ PlacesInv /\ [Next]_vars => PlacesInv'
<1> SUFFICES ASSUME TypeOK, PlacesInv, [Next]_vars PROVE PlacesInv'
  OBVIOUS
<1>1. CASE UNCHANGED vars
  BY <1>1, StayPlaced DEF vars, valkey, watchers, fate
<1>2. ASSUME NEW t \in Task, Push(t) \/ PushFails(t) \/ EnqueueStep(t) PROVE PlacesInv'
  BY <1>2, EnqueuePlaced
<1>3. CASE Scan \/ ScanFails \/ Rearm \/ Stop \/ ProcessStarts
  <2>1. UNCHANGED <<queue, items, runs, lost, expired, request>>
    BY <1>3 DEF Scan, ScanFails, Rearm, EnsureWatcher, Stop, ProcessStarts, valkey, watchers, fate
  <2> QED
    BY <2>1, StayPlaced
<1>4. ASSUME NEW w \in Watcher, WatcherStep(w) PROVE PlacesInv'
  <2>1. CASE Pop(w)
    BY <2>1, PopPlaced
  <2>2. CASE PopFails(w)
    BY <2>2, PopFailsPlaced
  <2>3. CASE RunBatch(w) \/ AbandonBatch(w)
    BY <2>3, BatchPlaced
  <2>4. CASE \/ WaitEnds(w) \/ WaitCancelled(w) \/ PopNothing(w) \/ Retire(w)
             \/ Recheck(w) \/ RecheckFails(w) \/ RegisterSilent(w)
    <3>1. UNCHANGED <<queue, items, runs, lost, expired, request>>
      BY <2>4 DEF WaitEnds, WaitCancelled, PopNothing, Retire, Recheck, RecheckFails,
                  RegisterSilent, valkey, fate
    <3> QED
      BY <3>1, StayPlaced
  <2> QED
    BY <1>4, <2>1, <2>2, <2>3, <2>4 DEF WatcherStep
<1>5. CASE DrainEnds \/ Crash
  BY <1>5, EndOfProcessPlaced DEF DrainEnds, Crash
<1>6. CASE Tick
  BY <1>6, TickPlaced
<1> QED
  BY <1>1, <1>2, <1>3, <1>4, <1>5, <1>6 DEF Next

\* The inductive invariant of where tasks are: what was never pushed is
\* nowhere, and what was taken is in exactly one place.
THEOREM PlacesInvariant == Spec => []PlacesInv
<1>1. Init => PlacesInv
  <2> SUFFICES ASSUME Init PROVE PlacesInv
    OBVIOUS
  <2>1. /\ Distinct(queue) /\ \A w \in Watcher : Distinct(items[w])
        /\ \A t \in Task : ~Waits(t) /\ \A w \in Watcher : ~Holds(w, t)
    BY ListMembers DEF Init, Waits, Holds
  <2>2. \A t \in Task : request[t] = "new" /\ runs[t] = 0 /\ t \notin lost /\ t \notin expired
    BY DEF Init
  <2> QED
    BY <2>1, <2>2 DEF PlacesInv, Placed, OnePlace, Somewhere, Taken
<1> QED
  BY <1>1, PlacesStep, TypeCorrect, PTL DEF Spec

\* One element has one place in a list of distinct ones.
LEMMA PlacesInList ==
  ASSUME NEW list, Distinct(list), NEW t
  PROVE  /\ t \notin Members(list) => {i \in DOMAIN list : list[i] = t} = {}
         /\ t \in Members(list) =>
              \E k \in DOMAIN list : {i \in DOMAIN list : list[i] = t} = {k}
BY DEF Members, Distinct

\* However drains race, fail and die with their process, a task that was taken
\* is in one place: still queued, in one watcher's hands, run once, or dropped
\* where defer/ drops.
THEOREM AccountedForAlways == Spec => []AccountedFor
<1>1. TypeOK /\ PlacesInv => AccountedFor
  <2> SUFFICES ASSUME TypeOK, PlacesInv, NEW t \in Task, request[t] \in Taken
               PROVE  Cardinality(InQueue(t)) + Cardinality(InHand(t)) + runs[t]
                        + (IF t \in lost THEN 1 ELSE 0) + (IF t \in expired THEN 1 ELSE 0) = 1
    BY DEF AccountedFor, Taken
  <2> DEFINE Place(w) == {j \in DOMAIN items[w] : items[w][j] = t}
  <2>1. /\ OnePlace(t) /\ Somewhere(t) /\ runs[t] \in Nat
        /\ Distinct(queue) /\ \A w \in Watcher : Distinct(items[w])
    BY DEF PlacesInv, Placed, TypeOK
  <2>2. /\ Waits(t) => Cardinality(InQueue(t)) = 1
        /\ ~Waits(t) => Cardinality(InQueue(t)) = 0
    <3>1. Waits(t) => \E k \in DOMAIN queue : InQueue(t) = {k}
      BY <2>1, PlacesInList, Zenon DEF InQueue, Waits
    <3>2. ~Waits(t) => InQueue(t) = {}
      BY <2>1, PlacesInList, Zenon DEF InQueue, Waits
    <3>3. Cardinality({}) = 0 /\ \A k : Cardinality({k}) = 1
      BY FS_EmptySet, FS_Singleton
    <3> QED
      BY <3>1, <3>2, <3>3
  <2>3. \A w \in Watcher : ~Holds(w, t) => Place(w) = {}
    BY <2>1, PlacesInList DEF Holds
  <2>4. InHand(t) = UNION {{<<w, i>> : i \in Place(w)} : w \in Watcher}
    BY DEF InHand
  <2>5. ASSUME NEW w \in Watcher, Holds(w, t)
        PROVE  Cardinality(InHand(t)) = 1
    <3>1. PICK k : Place(w) = {k}
      BY <2>1, <2>5, PlacesInList DEF Holds
    <3>2. \A v \in Watcher \ {w} : Place(v) = {}
      BY <2>1, <2>3, <2>5 DEF OnePlace
    <3> HIDE DEF Place
    <3>3. InHand(t) = {<<w, k>>}
      BY <2>4, <3>1, <3>2
    <3> QED
      BY <3>3, FS_Singleton
  <2>6. (\A w \in Watcher : ~Holds(w, t)) => Cardinality(InHand(t)) = 0
    <3> SUFFICES ASSUME \A w \in Watcher : ~Holds(w, t)
                 PROVE  Cardinality(InHand(t)) = 0
      OBVIOUS
    <3>1. \A w \in Watcher : Place(w) = {}
      BY <2>3
    <3> HIDE DEF Place
    <3>2. InHand(t) = {}
      BY <2>4, <3>1
    <3> QED
      BY <3>2, FS_EmptySet
  <2> QED
    BY <2>1, <2>2, <2>5, <2>6 DEF OnePlace, Somewhere
<1> QED
  BY <1>1, PlacesInvariant, TypeCorrect, PTL
==============================================================================
