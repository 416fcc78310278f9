-------------------------------- MODULE Defer --------------------------------
(* The deferred-task queue of crates/bot/src/defer: Gary's run_when pushes a  *)
(* task on a Valkey list and sees to it that a watcher waits for the list's   *)
(* condition; the watcher drains the list, runs the batch and retires.  All   *)
(* state is per (server, condition), so one such key is modelled.  The list   *)
(* survives the bot, the watchers and their registry do not.                  *)
EXTENDS Integers, Sequences, FiniteSets

CONSTANTS
  Task,         \* run_when calls; each pushes its task once
  Reconciler,   \* the watcher reconcile() spawns at startup
  TTL,          \* QUEUE_TTL_SECONDS, in ticks
  Ceiling,      \* OCCUPANCY_CEILING or STARTUP_CEILING, in ticks
  MaxFaults,    \* bound: Valkey commands and cluster reads that fail
  MaxExits      \* bound: ends of the bot process

ASSUME DeferAssumption ==
  /\ Reconciler \notin Task
  /\ TTL \in Nat \ {0}
  /\ Ceiling \in Nat
  /\ MaxFaults \in Nat
  /\ MaxExits \in Nat

\* A watcher goes by whose ensure_watcher call spawned it: each call spawns at
\* most one in the life of a process, and pushes happen once.
Watcher == Task \cup {Reconciler}

VARIABLES
  \* Valkey
  queue,       \* the list, oldest first
  ttl,         \* ticks until the key expires, 0 for none
  \* the bot process
  bot,         \* "up", "stopping" (shutdown cancelled) or "down"
  reconcile,   \* "due", "found", "nothing", "done"
  request,     \* where each task's enqueue_and_watch is
  registered,  \* the key is in DeferRuntime.watchers
  pc, age,     \* each watcher's await, and how long it has been waiting
  items,       \* what it has drained
  \* what became of the tasks, and of the last failure
  runs, lost, expired,
  gaveUp,      \* someone gave up on a Valkey failure, and no watcher started since
  \* bounds on the environment
  faults, exits

valkey == <<queue, ttl>>
watchers == <<registered, pc, age, items>>
fate == <<runs, lost, expired>>
bounds == <<faults, exits>>
vars == <<valkey, bot, reconcile, request, watchers, fate, gaveUp, bounds>>

\* Awaits of a watcher that has not yet left the registry for the last time
\* and will look at the queue again ...
Watching == {"waiting", "draining", "retiring", "running"}
\* ... and of one that has, and is finding out whether it may leave.
Leaving == {"checking", "rearming"}
Live == Watching \cup Leaving

TypeOK ==
  /\ queue \in Seq(Task) /\ ttl \in 0..TTL
  /\ bot \in {"up", "stopping", "down"}
  /\ reconcile \in {"due", "found", "nothing", "done"}
  /\ request \in [Task -> {"new", "pushed", "timed", "queued", "refused", "cut"}]
  /\ registered \in BOOLEAN
  /\ pc \in [Watcher -> Live \cup {"none"}]
  /\ age \in [Watcher -> 0..Ceiling]
  /\ items \in [Watcher -> Seq(Task)]
  /\ runs \in [Task -> Nat] /\ lost \in SUBSET Task /\ expired \in SUBSET Task
  /\ gaveUp \in BOOLEAN
  /\ faults \in Nat /\ exits \in Nat

Members(list) == {list[i] : i \in DOMAIN list}

Init ==
  /\ queue = <<>> /\ ttl = 0
  /\ bot = "up" /\ reconcile = "due"
  /\ request = [t \in Task |-> "new"]
  /\ registered = FALSE
  /\ pc = [w \in Watcher |-> "none"] /\ age = [w \in Watcher |-> 0]
  /\ items = [w \in Watcher |-> <<>>]
  /\ runs = [t \in Task |-> 0] /\ lost = {} /\ expired = {}
  /\ gaveUp = FALSE
  /\ faults = MaxFaults /\ exits = MaxExits

Alive == bot # "down"
Fault == faults > 0 /\ faults' = faults - 1

\* A key whose list is empty does not exist, and takes its expiry with it.
TtlOf(list) == IF list = <<>> THEN 0 ELSE ttl

Await(w, point) == pc' = [pc EXCEPT ![w] = point]

------------------------------------------------------------------------------
(* Enqueueing.                                                                *)

\* ensure_watcher: register the key, and spawn a watcher if that was news.
EnsureWatcher(w) ==
  /\ registered' = TRUE
  /\ pc' = IF registered THEN pc ELSE [pc EXCEPT ![w] = "waiting"]
  /\ age' = IF registered THEN age ELSE [age EXCEPT ![w] = 0]
  /\ gaveUp' = (gaveUp /\ registered)
  /\ UNCHANGED items

\* enqueue_and_watch: RPUSH ...
Push(t) ==
  /\ Alive /\ request[t] = "new"
  /\ queue' = Append(queue, t)
  /\ request' = [request EXCEPT ![t] = "pushed"]
  /\ UNCHANGED <<ttl, bot, reconcile, watchers, fate, gaveUp, bounds>>

\* ... whose failure is reported to the model, and may have come too late ...
PushFails(t) ==
  /\ Alive /\ request[t] = "new" /\ Fault
  /\ queue' \in {queue, Append(queue, t)}
  /\ request' = [request EXCEPT ![t] = "refused"]
  /\ gaveUp' = TRUE
  /\ UNCHANGED <<ttl, bot, reconcile, watchers, fate, exits>>

\* ... EXPIRE ...
Expire(t) ==
  /\ Alive /\ request[t] = "pushed"
  /\ ttl' = IF queue = <<>> THEN 0 ELSE TTL
  /\ request' = [request EXCEPT ![t] = "timed"]
  /\ UNCHANGED <<queue, bot, reconcile, watchers, fate, gaveUp, bounds>>

\* ... whose failure is only logged ...
ExpireFails(t) ==
  /\ Alive /\ request[t] = "pushed" /\ Fault
  /\ request' = [request EXCEPT ![t] = "timed"]
  /\ UNCHANGED <<valkey, bot, reconcile, watchers, fate, gaveUp, exits>>

\* ... and ensure_watcher.
Watch(t) ==
  /\ Alive /\ request[t] = "timed"
  /\ request' = [request EXCEPT ![t] = "queued"]
  /\ EnsureWatcher(t)
  /\ UNCHANGED <<valkey, bot, reconcile, fate, bounds>>

------------------------------------------------------------------------------
(* reconcile(), at the first Ready of a process: scan, then re-arm.           *)

Scan ==
  /\ Alive /\ reconcile = "due"
  /\ reconcile' = IF queue = <<>> THEN "nothing" ELSE "found"
  /\ UNCHANGED <<valkey, bot, request, watchers, fate, gaveUp, bounds>>

ScanFails ==
  /\ Alive /\ reconcile = "due" /\ Fault
  /\ reconcile' = "done"
  /\ gaveUp' = TRUE
  /\ UNCHANGED <<valkey, bot, request, watchers, fate, exits>>

\* Fault: the scan's result is only logged.
RearmNothing ==
  /\ Alive /\ reconcile = "found"
  /\ reconcile' = "done"
  /\ UNCHANGED <<valkey, bot, request, watchers, fate, gaveUp, bounds>>

Rearm ==
  /\ Alive /\ reconcile = "found"
  /\ reconcile' = "done"
  /\ EnsureWatcher(Reconciler)
  /\ UNCHANGED <<valkey, bot, request, fate, bounds>>

------------------------------------------------------------------------------
(* run_watcher.                                                               *)

\* wait_for_condition returns: the condition holds, or the wait found out that
\* it never will, or reached its ceiling.
WaitEnds(w) ==
  /\ Alive /\ pc[w] = "waiting"
  /\ Await(w, "draining")
  /\ UNCHANGED <<valkey, bot, reconcile, request, registered, age, items, fate,
                 gaveUp, bounds>>

\* The shutdown branch: exit, registered or not.
WaitCancelled(w) ==
  /\ bot = "stopping" /\ pc[w] = "waiting"
  /\ Await(w, "none")
  /\ UNCHANGED <<valkey, bot, reconcile, request, registered, age, items, fate,
                 gaveUp, bounds>>

\* Fault: the list is read without being popped.
PopKeeping(w) ==
  /\ Alive /\ pc[w] = "draining" /\ queue # <<>> /\ Len(items[w]) < Len(queue)
  /\ items' = [items EXCEPT ![w] = Append(@, queue[Len(@) + 1])]
  /\ UNCHANGED <<valkey, bot, reconcile, request, registered, pc, age, fate,
                 gaveUp, bounds>>

\* drain: one LPOP after the other ...
Pop(w) ==
  /\ Alive /\ pc[w] = "draining" /\ queue # <<>>
  /\ items' = [items EXCEPT ![w] = Append(@, Head(queue))]
  /\ queue' = Tail(queue) /\ ttl' = TtlOf(queue')
  /\ UNCHANGED <<bot, reconcile, request, registered, pc, age, fate, gaveUp,
                 bounds>>

\* ... until the list is empty ...
PopNothing(w) ==
  /\ Alive /\ pc[w] = "draining" /\ queue = <<>>
  /\ Await(w, IF items[w] = <<>> THEN "retiring" ELSE "running")
  /\ UNCHANGED <<valkey, bot, reconcile, request, registered, age, items, fate,
                 gaveUp, bounds>>

\* ... or a pop fails: what was popped so far is dropped, the element the
\* failed pop may have taken included, and the watcher exits.
PopFails(w) ==
  /\ Alive /\ pc[w] = "draining" /\ Fault
  /\ \E taken \in {0, 1} :
       /\ taken <= Len(queue)
       /\ queue' = SubSeq(queue, taken + 1, Len(queue)) /\ ttl' = TtlOf(queue')
       /\ lost' = lost \cup Members(items[w]) \cup Members(SubSeq(queue, 1, taken))
  /\ items' = [items EXCEPT ![w] = <<>>]
  /\ registered' = FALSE
  /\ Await(w, "none")
  /\ gaveUp' = TRUE
  /\ UNCHANGED <<bot, reconcile, request, age, runs, expired, exits>>

\* run_batch to the end of the turn, then deregister.
RunBatch(w) ==
  /\ Alive /\ pc[w] = "running"
  /\ runs' = [t \in Task |-> IF t \in Members(items[w]) THEN runs[t] + 1 ELSE runs[t]]
  /\ items' = [items EXCEPT ![w] = <<>>]
  /\ registered' = FALSE
  /\ Await(w, "checking")
  /\ UNCHANGED <<valkey, bot, reconcile, request, age, lost, expired, gaveUp,
                 bounds>>

\* The owner cannot be read, or there is none: the batch is abandoned.
AbandonBatch(w) ==
  /\ Alive /\ pc[w] = "running" /\ Fault
  /\ lost' = lost \cup Members(items[w])
  /\ items' = [items EXCEPT ![w] = <<>>]
  /\ registered' = FALSE
  /\ Await(w, "checking")
  /\ UNCHANGED <<valkey, bot, reconcile, request, age, runs, expired, gaveUp,
                 exits>>

\* Nothing was drained: deregister at once.
Retire(w) ==
  /\ Alive /\ pc[w] = "retiring"
  /\ registered' = FALSE
  /\ Await(w, "checking")
  /\ UNCHANGED <<valkey, bot, reconcile, request, age, items, fate, gaveUp,
                 bounds>>

\* Fault: a retired watcher leaves without another look.
LeaveUnchecked(w) ==
  /\ Alive /\ pc[w] = "checking"
  /\ Await(w, "none")
  /\ UNCHANGED <<valkey, bot, reconcile, request, registered, age, items, fate,
                 gaveUp, bounds>>

\* The second look: is_empty.
Recheck(w) ==
  /\ Alive /\ pc[w] = "checking"
  /\ Await(w, IF queue = <<>> THEN "none" ELSE "rearming")
  /\ UNCHANGED <<valkey, bot, reconcile, request, registered, age, items, fate,
                 gaveUp, bounds>>

RecheckFails(w) ==
  /\ Alive /\ pc[w] = "checking" /\ Fault
  /\ Await(w, "none")
  /\ gaveUp' = TRUE
  /\ UNCHANGED <<valkey, bot, reconcile, request, registered, age, items, fate,
                 exits>>

\* register_silent, and round again.
RegisterSilent(w) ==
  /\ Alive /\ pc[w] = "rearming"
  /\ registered' = TRUE
  /\ Await(w, "waiting")
  /\ age' = [age EXCEPT ![w] = 0]
  /\ UNCHANGED <<valkey, bot, reconcile, request, items, fate, gaveUp, bounds>>

WatcherStep(w) ==
  \/ WaitEnds(w) \/ WaitCancelled(w)
  \/ Pop(w) \/ PopNothing(w) \/ PopFails(w)
  \/ RunBatch(w) \/ AbandonBatch(w) \/ Retire(w)
  \/ Recheck(w) \/ RecheckFails(w) \/ RegisterSilent(w)

------------------------------------------------------------------------------
(* The process, and time.                                                     *)

\* SIGTERM: shutdown is cancelled and the drain begins.
Stop ==
  /\ bot = "up" /\ exits > 0 /\ exits' = exits - 1
  /\ bot' = "stopping"
  /\ UNCHANGED <<valkey, reconcile, request, watchers, fate, gaveUp, faults>>

\* What the end of a process takes with it.
ProcessEnds ==
  /\ bot' = "down"
  /\ lost' = lost \cup UNION {Members(items[w]) : w \in Watcher}
  /\ request' = [t \in Task |-> IF request[t] \in {"pushed", "timed"}
                                THEN "cut" ELSE request[t]]
  /\ registered' = FALSE
  /\ pc' = [w \in Watcher |-> "none"] /\ age' = [w \in Watcher |-> 0]
  /\ items' = [w \in Watcher |-> <<>>]
  /\ UNCHANGED <<valkey, reconcile, runs, expired, gaveUp, faults>>

\* The drain is done, or ran out of time with work still in flight ...
DrainEnds == bot = "stopping" /\ ProcessEnds /\ UNCHANGED exits

\* ... or there was none.
Crash == bot = "up" /\ exits > 0 /\ exits' = exits - 1 /\ ProcessEnds

ProcessStarts ==
  /\ bot = "down"
  /\ bot' = "up" /\ reconcile' = "due" /\ gaveUp' = FALSE
  /\ UNCHANGED <<valkey, request, watchers, fate, bounds>>

\* A wait at its ceiling ends before more time passes; a key at the end of its
\* life is gone.
Tick ==
  /\ \A w \in Watcher : pc[w] = "waiting" => age[w] < Ceiling
  /\ age' = [w \in Watcher |-> IF pc[w] = "waiting" THEN age[w] + 1 ELSE age[w]]
  /\ ttl' = IF ttl > 0 THEN ttl - 1 ELSE 0
  /\ queue' = IF ttl = 1 THEN <<>> ELSE queue
  /\ expired' = IF ttl = 1 THEN expired \cup Members(queue) ELSE expired
  /\ UNCHANGED <<bot, reconcile, request, registered, pc, items, runs, lost,
                 gaveUp, bounds>>

EnqueueStep(t) == Expire(t) \/ ExpireFails(t) \/ Watch(t)

Next ==
  \/ \E t \in Task : Push(t) \/ PushFails(t) \/ EnqueueStep(t)
  \/ Scan \/ ScanFails \/ Rearm
  \/ \E w \in Watcher : WatcherStep(w)
  \/ Stop \/ DrainEnds \/ Crash \/ ProcessStarts \/ Tick

Spec == Init /\ [][Next]_vars

(* Fairness: a task of the runtime goes on, a wait ends (at its ceiling if    *)
(* nothing else), and the Deployment starts a bot that is down.               *)
Fairness ==
  /\ \A t \in Task : WF_vars(EnqueueStep(t))
  /\ WF_vars(Scan) /\ WF_vars(Rearm)
  /\ \A w \in Watcher : WF_vars(WatcherStep(w))
  /\ WF_vars(DrainEnds) /\ WF_vars(ProcessStarts)

FairSpec == Spec /\ Fairness

------------------------------------------------------------------------------
(* Properties.                                                                *)

\* ensure_watcher trusts the registry, so a registered key must have a watcher
\* that will still look at the queue: otherwise every later task would be taken
\* and never run.  (On the way down the list is kept for the next process.)
RegisteredMeansWatched ==
  bot = "up" /\ registered => \E w \in Watcher : pc[w] \in Watching

\* Tasks in the queue are attended to: by a live watcher, by the enqueue that
\* is about to ensure one, or by the reconcile of a fresh process; whatever
\* the order in which enqueues, retiring watchers and restarts interleave.
Attended ==
  \/ \E w \in Watcher : pc[w] \in Live
  \/ \E t \in Task : request[t] \in {"pushed", "timed"}
  \/ reconcile \in {"due", "found"}
NoTaskStranded == bot = "up" /\ queue # <<>> /\ ~gaveUp => Attended

\* Where a task is: its places in the queue and in the hands of watchers.
InQueue(t) == {i \in DOMAIN queue : queue[i] = t}
InHand(t) ==
  UNION {{<<w, i>> : i \in {j \in DOMAIN items[w] : items[w][j] = t}} : w \in Watcher}

\* A queued task is in one place, or has run once, or was dropped where the
\* code drops: racing drains neither lose a task nor run it twice.
AccountedFor ==
  \A t \in Task : request[t] \in {"pushed", "timed", "queued", "cut"} =>
    Cardinality(InQueue(t)) + Cardinality(InHand(t)) + runs[t]
      + (IF t \in lost THEN 1 ELSE 0) + (IF t \in expired THEN 1 ELSE 0) = 1

\* Every acknowledged task is settled, through restarts and duplicate watchers,
\* unless Valkey failed and nobody came by since.
TaskIsSettled ==
  \A t \in Task : request[t] = "queued" ~>
    (runs[t] = 1 \/ t \in lost \cup expired \/ gaveUp)

\* defer/mod.rs of the expiry: it "only reaps keys a watcher somehow never
\* drains"; watcher.rs of its ceiling: it "matches the queue TTL so the watcher
\* and the key retire together".  The expiry is set before the watcher starts.
ExpirySparesWatched ==
  [][ expired' # expired => \A w \in Watcher : pc[w] # "waiting" ]_vars
==============================================================================
