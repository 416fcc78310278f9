------------------------------ MODULE Watchdog ------------------------------
(***************************************************************************)
(* The proactive watchdog: the sampler's pass over the servers, the        *)
(* detector that folds each pass into per-server state and fires           *)
(* incidents, the bounded queue, and the one responder that disposes of    *)
(* incidents in turn (crates/bot/src/watchdog/, events/sampler.rs,         *)
(* events/resources.rs, spawn_sampler and forward_incident in lib.rs).     *)
(*                                                                         *)
(* Time passes in ticks of the sampler's interval.  A server's pod, its    *)
(* restart counter and its control API are the world the passes look at.   *)
(* recent, since, seen, turns and owed are history: no action's guard      *)
(* reads them.                                                             *)
(***************************************************************************)
EXTENDS Integers, Sequences, FiniteSets, Functions

CONSTANTS
  Servers,            \* the names of servers
  CrashWindow,        \* answered polls the crash rule sums over
  CrashThreshold,     \* exits among them that make a crash loop
  UnreachableTicks,   \* silent polls in a row that make a server wedged
  PressureTicks,      \* readings over the limit in a row that make pressure
  Cooldown,           \* ticks before a kind fires again for a server
  QueueDepth,         \* incidents the channel holds
  StormMax,           \* turns the storm guard lets begin ...
  StormWindow,        \* ... within so many ticks
  GatewayWait,        \* ticks the responder waits for the gateway
  MaxRestarts,        \* bound: what a pod's restart counter reaches
  MaxChanges,         \* bound: things that befall servers, settings, the bot
  None                \* no incident in hand

ASSUME WatchdogAssumption ==
  /\ {CrashWindow, CrashThreshold, UnreachableTicks, PressureTicks, Cooldown,
      QueueDepth, StormMax, StormWindow} \subseteq Nat \ {0}
  /\ {GatewayWait, MaxRestarts, MaxChanges} \subseteq Nat
  /\ GatewayWait <= StormWindow

VARIABLES
  life, restarts, gaveUp,         \* the servers, by name
  mode,                           \* the watchdog setting
  due,                            \* whom this tick's pass has yet to visit
  watch,                          \* DetectorState.instances; NoWatch: no entry
  queue,                          \* the channel
  pc, hand, stamp, starts,        \* the responder; ages of now, turn_starts
  recent, since, seen, turns, owed,
  changes

servers == <<life, restarts, gaveUp, mode>>
world == <<servers, changes>>
responder == <<pc, hand, stamp, starts, turns>>
vars == <<world, due, watch, queue, responder, recent, since, seen, owed>>

Kinds == {"crash", "wedged", "memory"}
Unread == -1
NoWatch == [last |-> Unread, deltas |-> <<>>, silent |-> 0, pressed |-> 0,
            latched |-> FALSE, fired |-> [k \in Kinds |-> 0]]
Incidents == [server : Servers, kind : Kinds]

Least(a, b) == IF a < b THEN a ELSE b
LastOf(s, n) == IF Len(s) > n THEN Tail(s) ELSE s

\* Ages, oldest first, from the first that is below the limit.
FromYoung(ages, limit) ==
  LET young == {i \in DOMAIN ages : ages[i] < limit}
  IN IF young = {} THEN <<>>
     ELSE SubSeq(ages, CHOOSE i \in young : \A j \in young : i <= j, Len(ages))

WatchOK ==
  watch \in [Servers -> [last : Unread..MaxRestarts,
                         deltas : Seq(0..MaxRestarts),
                         silent : 0..UnreachableTicks,
                         pressed : 0..PressureTicks,
                         latched : BOOLEAN,
                         fired : [Kinds -> 0..Cooldown]]]

WorldOK ==
  /\ life \in [Servers -> {"up", "wreck", "gone"}]
  /\ restarts \in [Servers -> 0..MaxRestarts]
  /\ gaveUp \in [Servers -> BOOLEAN]
  /\ mode \in {"on", "shadow", "off"}
  /\ due \subseteq Servers
  /\ changes \in 0..MaxChanges

ResponderOK ==
  /\ queue \in Seq(Incidents) /\ Len(queue) <= QueueDepth
  /\ pc \in {"idle", "gateway", "turn"}
  /\ hand \in Incidents \union {None}
  /\ stamp \in 0..GatewayWait
  /\ starts \in Seq(0..StormWindow) /\ Len(starts) <= StormMax

HistoryOK ==
  /\ recent \in [Servers -> Seq(0..MaxRestarts)]
  /\ since \in [Servers -> 0..MaxRestarts]
  /\ turns \in Seq(0..(StormWindow - 1))
  /\ seen \subseteq Servers
  /\ owed \subseteq Servers

RingsOK == \A s \in Servers : Len(watch[s].deltas) <= CrashWindow

TypeOK == WorldOK /\ WatchOK /\ RingsOK /\ ResponderOK /\ HistoryOK

Init ==
  /\ life \in [Servers -> {"up", "wreck"}]
  /\ restarts = [s \in Servers |-> 0]
  /\ gaveUp = [s \in Servers |-> FALSE]
  /\ mode \in {"on", "shadow", "off"}
  /\ due = {} /\ watch = [s \in Servers |-> NoWatch]
  /\ queue = <<>> /\ pc = "idle" /\ hand = None /\ stamp = 0
  /\ starts = <<>> /\ turns = <<>>
  /\ recent = [s \in Servers |-> <<>>] /\ since = [s \in Servers |-> 0]
  /\ seen = {} /\ owed = {s \in Servers : life[s] = "wreck"}
  /\ changes = 0

-----------------------------------------------------------------------------
(* What befalls servers, the setting and the bot, MaxChanges times in all. *)

Change == changes < MaxChanges /\ changes' = changes + 1

Elsewhere == UNCHANGED <<due, watch, queue, responder, recent, seen>>

\* The game exits unexpectedly; the supervisor counts it and may give up.
GameExits(s) ==
  /\ Change
  /\ life[s] = "up" /\ ~gaveUp[s] /\ restarts[s] < MaxRestarts
  /\ restarts' = [restarts EXCEPT ![s] = @ + 1]
  /\ \E b \in BOOLEAN : gaveUp' = [gaveUp EXCEPT ![s] = b]
  /\ since' = IF watch[s].last = Unread THEN since
              ELSE [since EXCEPT ![s] = Least(@ + 1, MaxRestarts)]
  /\ UNCHANGED <<life, mode, owed>> /\ Elsewhere

\* Somebody starts the process again; its restart counter goes on.
Repaired(s) ==
  /\ Change
  /\ life[s] = "up" /\ gaveUp[s]
  /\ gaveUp' = [gaveUp EXCEPT ![s] = FALSE]
  /\ UNCHANGED <<life, restarts, mode, since, owed>> /\ Elsewhere

\* The pod and its counter are gone, or a new one begins.
Fresh(s, state) ==
  /\ Change
  /\ life' = [life EXCEPT ![s] = state]
  /\ restarts' = [restarts EXCEPT ![s] = 0]
  /\ gaveUp' = [gaveUp EXCEPT ![s] = FALSE]
  /\ UNCHANGED <<mode, since>> /\ Elsewhere

\* Agones declares the GameServer unhealthy.  An announcement is owed, unless
\* a crash incident is cooling down or no pass has seen the end of the last
\* wreck: then this one passes for announced.
Condemned(s) ==
  /\ life[s] = "up"
  /\ Fresh(s, "wreck")
  /\ owed' = IF s \in seen \/ watch[s].fired["crash"] > 0 THEN owed
             ELSE owed \union {s}

\* A new pod under the same name, or a new server.
Recreated(s) == Fresh(s, "up") /\ owed' = owed \ {s}

\* Shut down or destroyed: no GameServer.
Removed(s) == life[s] # "gone" /\ Fresh(s, "gone") /\ owed' = owed \ {s}

ModeSet(m) ==
  /\ Change
  /\ mode' = m
  /\ UNCHANGED <<life, restarts, gaveUp, since, owed>> /\ Elsewhere

-----------------------------------------------------------------------------
(* The detector.                                                           *)

\* A plausible mistake: the ring is not trimmed.
FoldRestartDeltaUntrimmed(w, r) ==
  IF w.last = Unread THEN w.deltas
  ELSE IF r < w.last THEN <<>> ELSE Append(w.deltas, r - w.last)

\* fold_restart_delta: the ring after the counter reads r.
FoldRestartDelta(w, r) ==
  IF w.last = Unread THEN w.deltas
  ELSE IF r < w.last THEN <<>>
  ELSE LastOf(Append(w.deltas, r - w.last), CrashWindow)

WindowSum(deltas) == FoldFunction(LAMBDA a, b : a + b, 0, deltas)

\* The turns of the last window, for the history.
Young(ages) == FromYoung(ages, StormWindow - 1)

\* What a poll of a server can answer, and what a sample of its memory can
\* say.  "unseen": not in the listing, or no listing.
Polls(s) ==
  CASE life[s] = "up" -> {"ok", "unreachable", "unready", "failed", "unseen"}
    [] life[s] = "wreck" -> {"unhealthy", "unseen"}
    [] life[s] = "gone" -> {"unseen"}
Readings(s) == IF life[s] = "up" THEN {"over", "under", "unknown", "unseen"}
                                 ELSE {"unknown", "unseen"}

\* A plausible mistake: the latch is not released when the server is seen alive.
LatchForGood(w, poll) == w.latched \/ poll = "unhealthy"

\* unhealthy_latched after a poll.
Latch(w, poll) == poll = "unhealthy"

\* status_transition: the state after a poll, before anything fires.
AfterPoll(w, s, poll) ==
  IF poll = "unseen" THEN w
  ELSE LET v == [w EXCEPT !.latched = Latch(w, poll)]
       IN CASE poll = "ok" ->
                 [v EXCEPT !.silent = 0, !.last = restarts[s],
                           !.deltas = FoldRestartDelta(w, restarts[s])]
            [] poll = "unreachable" ->
                 [v EXCEPT !.silent = Least(@ + 1, UnreachableTicks)]
            [] OTHER -> v

\* memory_transition, likewise.
AfterReading(w, reading) ==
  CASE reading = "over" -> [w EXCEPT !.pressed = Least(@ + 1, PressureTicks)]
    [] reading = "under" -> [w EXCEPT !.pressed = 0]
    [] OTHER -> w

\* The kinds that a poll and a reading raise, w and v the state before and
\* after them.
Raised(w, v, s, poll, reading) ==
  {k \in Kinds :
    \/ /\ k = "crash"
       /\ \/ poll = "unhealthy" /\ ~w.latched
          \/ poll = "ok" /\ (gaveUp[s] \/ WindowSum(v.deltas) >= CrashThreshold)
    \/ k = "wedged" /\ poll = "unreachable" /\ v.silent >= UnreachableTicks
    \/ k = "memory" /\ reading = "over" /\ v.pressed >= PressureTicks}

\* fire: those of them that are not cooling down; status goes before memory.
Fire(w, v, s, poll, reading) ==
  {k \in Raised(w, v, s, poll, reading) : v.fired[k] = 0}

InOrder(s, kinds) ==
  LET One(k) == IF k \in kinds
                THEN <<[server |-> s, kind |-> k]>> ELSE <<>>
  IN One("crash") \o One("wedged") \o One("memory")

\* forward_incident: what finds no room is dropped.
Forwarded(q, new) ==
  IF Len(q \o new) <= QueueDepth THEN q \o new
  ELSE SubSeq(q \o new, 1, QueueDepth)

\* One server's part of a pass while detection is off: DetectorState is dropped.
ObserveOff(s) ==
  /\ s \in due /\ mode = "off"
  /\ due' = due \ {s}
  /\ watch' = [watch EXCEPT ![s] = NoWatch]
  /\ recent' = [recent EXCEPT ![s] = <<>>]
  /\ since' = [since EXCEPT ![s] = 0]
  /\ seen' = seen \ {s}
  /\ UNCHANGED <<world, queue, responder, owed>>

\* Seen in neither listing: prune forgets the server.
Prune(s) ==
  /\ s \in due /\ mode # "off"
  /\ due' = due \ {s}
  /\ watch' = [watch EXCEPT ![s] = NoWatch]
  /\ recent' = [recent EXCEPT ![s] = <<>>]
  /\ since' = [since EXCEPT ![s] = 0]
  /\ seen' = seen \ {s}
  /\ UNCHANGED <<world, queue, responder, owed>>

\* DetectorState::tick for one server, and the incidents it fires.
Observe(s, poll, reading) ==
  LET w == watch[s]
      v == AfterReading(AfterPoll(w, s, poll), reading)
      fires == Fire(w, v, s, poll, reading)
      new == InOrder(s, fires)
  IN /\ s \in due /\ mode # "off"
     /\ {poll, reading} # {"unseen"}
     /\ due' = due \ {s}
     /\ watch' = [watch EXCEPT ![s] =
          [v EXCEPT !.fired = [k \in Kinds |-> IF k \in fires THEN Cooldown
                                               ELSE v.fired[k]]]]
     /\ queue' = Forwarded(queue, new)
     /\ owed' = IF "crash" \in fires /\ Len(queue) = QueueDepth
                THEN owed \ {s} ELSE owed
     /\ IF poll # "ok" THEN UNCHANGED <<recent, since>>
        ELSE /\ recent' = [recent EXCEPT ![s] = IF w.last = Unread THEN <<>>
                 ELSE LastOf(Append(@, since[s]), CrashWindow)]
             /\ since' = [since EXCEPT ![s] = 0]
     /\ seen' = IF poll = "unhealthy" THEN seen \union {s}
                ELSE IF poll = "unseen" THEN seen ELSE seen \ {s}
     /\ UNCHANGED <<world, responder>>

Sampler(s) ==
  \/ ObserveOff(s)
  \/ Prune(s)
  \/ \E poll \in Polls(s), reading \in Readings(s) : Observe(s, poll, reading)

\* Time: the sampler's next pass begins, everything cools and ages.
Tick ==
  /\ due = {}
  /\ pc = "gateway" => stamp < GatewayWait
  /\ due' = Servers
  /\ watch' = [s \in Servers |->
       [watch[s] EXCEPT !.fired =
          [k \in Kinds |-> IF @[k] = 0 THEN 0 ELSE @[k] - 1]]]
  /\ stamp' = IF pc = "gateway" THEN stamp + 1 ELSE stamp
  /\ starts' = [i \in DOMAIN starts |-> Least(starts[i] + 1, StormWindow)]
  /\ turns' = [i \in DOMAIN Young(turns) |-> Young(turns)[i] + 1]
  /\ UNCHANGED <<world, queue, pc, hand, recent, since, seen, owed>>

-----------------------------------------------------------------------------
(* The responder.                                                          *)

Idle == pc' = "idle" /\ hand' = None /\ stamp' = 0

\* An incident is settled: a row is written, or it is lost.
Settled(incident) ==
  owed' = IF incident.kind = "crash" THEN owed \ {incident.server} ELSE owed

\* The next incident, with the mode as it is now; one that needs no turn is
\* settled with its row there and then.
Receive ==
  /\ pc = "idle" /\ queue # <<>>
  /\ queue' = Tail(queue)
  /\ UNCHANGED <<world, due, watch, recent, since, seen, turns>>

SettleAtOnce ==
  /\ Receive
  /\ Settled(Head(queue))
  /\ UNCHANGED <<pc, hand, stamp>>

RecordOnly == SettleAtOnce /\ mode # "on" /\ UNCHANGED starts

\* A crash of a server with an armed startup watcher is left to its batch.
LeftToBatch ==
  /\ SettleAtOnce
  /\ mode = "on" /\ Head(queue).kind = "crash"
  /\ UNCHANGED starts

\* A plausible mistake: a start leaves the window a tick early.
InWindowShort(ages) == FromYoung(ages, StormWindow - 1)

\* storm_suppressed drops from the front what has left the window, then counts.
InWindow(ages) == FromYoung(ages, StormWindow)

Suppressed ==
  /\ SettleAtOnce
  /\ mode = "on"
  /\ starts' = InWindow(starts)
  /\ Len(starts') >= StormMax

Proceed ==
  /\ Receive
  /\ mode = "on"
  /\ starts' = InWindow(starts)
  /\ Len(starts') < StormMax
  /\ hand' = Head(queue) /\ pc' = "gateway" /\ stamp' = 0
  /\ UNCHANGED owed

InTurn == UNCHANGED <<world, due, watch, queue, recent, since, seen>>

\* No gateway in time, or no channel to speak in.
Undeliverable ==
  /\ pc = "gateway"
  /\ Settled(hand) /\ Idle /\ InTurn
  /\ UNCHANGED <<starts, turns>>

\* The turn begins; its start is noted with the time before the wait.  Finding
\* the channel comes before the note and is taken to need no time.
TurnBegins ==
  /\ pc = "gateway"
  /\ starts' = Append(starts, stamp)
  /\ turns' = Append(turns, 0)
  /\ pc' = "turn" /\ stamp' = 0
  /\ UNCHANGED <<hand, owed>> /\ InTurn

\* Answered, escalated or failed, with one row; but a server without a guild
\* has no turn, and no row.
TurnEnds ==
  /\ pc = "turn"
  /\ Settled(hand) /\ Idle /\ InTurn
  /\ UNCHANGED <<starts, turns>>

Responder ==
  \/ RecordOnly \/ LeftToBatch \/ Suppressed \/ Proceed
  \/ Undeliverable \/ TurnBegins \/ TurnEnds

-----------------------------------------------------------------------------
(* Panics, caught by spawn_supervised, and the end of the process.         *)

\* A plausible mistake: the detector outlives the panic of its body.
SamplerPanicsKeeping ==
  /\ Change
  /\ due' = {} /\ UNCHANGED watch
  /\ recent' = [s \in Servers |-> <<>>] /\ since' = [s \in Servers |-> 0]
  /\ seen' = {}
  /\ UNCHANGED <<servers, queue, responder, owed>>

SamplerPanics ==
  /\ Change
  /\ due' = {} /\ watch' = [s \in Servers |-> NoWatch]
  /\ recent' = [s \in Servers |-> <<>>] /\ since' = [s \in Servers |-> 0]
  /\ seen' = {}
  /\ UNCHANGED <<servers, queue, responder, owed>>

\* The incident in hand is lost, and with turn_starts the storm guard's memory.
ResponderPanics ==
  /\ Change
  /\ pc # "idle"
  /\ Idle
  /\ starts' = <<>> /\ turns' = <<>>
  /\ Settled(hand)
  /\ UNCHANGED <<servers, due, watch, queue, recent, since, seen>>

\* Everything but the servers and the settings is gone; the detector starts
\* afresh and announces every wreck again.
BotRestarts ==
  /\ Change
  /\ due' = {} /\ watch' = [s \in Servers |-> NoWatch]
  /\ queue' = <<>> /\ Idle /\ starts' = <<>> /\ turns' = <<>>
  /\ recent' = [s \in Servers |-> <<>>] /\ since' = [s \in Servers |-> 0]
  /\ seen' = {}
  /\ UNCHANGED <<servers, owed>>

Next ==
  \/ \E s \in Servers :
       \/ GameExits(s) \/ Repaired(s) \/ Condemned(s) \/ Recreated(s)
       \/ Removed(s) \/ Sampler(s)
  \/ \E m \in {"on", "shadow", "off"} : ModeSet(m)
  \/ Tick \/ Responder
  \/ SamplerPanics \/ ResponderPanics \/ BotRestarts

Spec == Init /\ [][Next]_vars

\* The sampler's timer and its passes, and the responder with the turns it
\* runs, go on; and the listing of a condemned server does not fail for ever.
FairSpec ==
  /\ Spec
  /\ WF_vars(Tick) /\ WF_vars(Responder)
  /\ \A s \in Servers :
       /\ WF_vars(Sampler(s))
       /\ SF_vars(\E reading \in Readings(s) : Observe(s, "unhealthy", reading))

-----------------------------------------------------------------------------
(* What should hold.                                                       *)

\* A crash loop is never made up: what the ring says of two polls is at most
\* the number of unexpected exits that happened between them while detection
\* was on, through recreated pods, silent polls and gaps (fold_restart_delta,
\* and the detector dropped in spawn_sampler).
WindowIsHonest ==
  \A s \in Servers :
    LET deltas == watch[s].deltas
        skipped == Len(recent[s]) - Len(deltas)
    IN /\ skipped >= 0
       /\ \A i \in DOMAIN deltas : deltas[i] <= recent[s][i + skipped]

\* However incidents come, the storm guard lets no more than StormMax turns
\* begin within its window, less the wait for the gateway that lies between
\* the time it notes for a turn and the turn (storm_suppressed, respond).
StormGuard ==
  Cardinality({i \in DOMAIN turns : turns[i] < StormWindow - GatewayWait})
    <= StormMax

\* A server Agones has condemned is announced: unless the watchdog is off, a row
\* for a crash of it follows, or the incident was dropped at a full queue, lost
\* in a panic or refused for want of a guild (the latch and the cooldown of
\* status_transition, through forward_incident and respond to the row).
WreckIsHeardOf == \A s \in Servers : s \in owed ~> s \notin owed \/ mode = "off"
=============================================================================
