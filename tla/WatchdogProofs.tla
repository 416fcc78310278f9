---------------------------- MODULE WatchdogProofs ----------------------------
(***************************************************************************)
(* For any servers, windows, thresholds, cooldowns, counters and any       *)
(* number of changes: the detector's ring never claims more exits than     *)
(* there were, so a crash loop is never made up; and the responder takes   *)
(* no more turns within its window than the storm cap allows.              *)
(***************************************************************************)
EXTENDS Watchdog, SequenceTheorems, FiniteSetTheorems, WellFoundedInduction, TLAPS

Count == 0..MaxRestarts

-----------------------------------------------------------------------------
(* Rings.                                                                  *)

(* What the ring says, delta by delta from the newest, is at most what     *)
(* happened.                                                               *)
Bounds(claimed, happened) ==
  /\ Len(claimed) <= Len(happened)
  /\ \A i \in 1..Len(claimed) :
       claimed[i] <= happened[i + (Len(happened) - Len(claimed))]

(* How many a ring of n drops.                                             *)
Over(q, n) == IF Len(q) > n THEN 1 ELSE 0

(* The last n of a sequence that is at most one too long.                  *)
LEMMA LastOfProperties ==
  ASSUME NEW q \in Seq(Count), NEW n \in Nat \ {0}, Len(q) <= n + 1
  PROVE  /\ LastOf(q, n) \in Seq(Count)
         /\ Len(LastOf(q, n)) = Len(q) - Over(q, n)
         /\ Len(LastOf(q, n)) <= n
         /\ \A i \in 1..Len(LastOf(q, n)) : LastOf(q, n)[i] = q[i + Over(q, n)]
<1>1. CASE Len(q) > n
  <2>1. q # <<>>
    BY <1>1
  <2>2. /\ Tail(q) \in Seq(Count) /\ Len(Tail(q)) = Len(q) - 1
        /\ \A i \in 1..Len(Tail(q)) : Tail(q)[i] = q[i + 1]
    BY <2>1, HeadTailProperties
  <2>3. LastOf(q, n) = Tail(q)
    BY <1>1 DEF LastOf
  <2> QED
    BY <1>1, <2>2, <2>3 DEF Over
<1>2. CASE ~(Len(q) > n)
  <2>1. LastOf(q, n) = q
    BY <1>2 DEF LastOf
  <2> QED
    BY <1>2, <2>1 DEF Over
<1> QED
  BY <1>1, <1>2

(* One more of each keeps the bound, when what is claimed did happen.      *)
LEMMA BoundsGrow ==
  ASSUME NEW c \in Seq(Count), NEW h \in Seq(Count), NEW n \in Nat \ {0},
         Len(c) <= n, Len(h) <= n, Bounds(c, h),
         NEW x \in Count, NEW y \in Count, x <= y
  PROVE  Bounds(LastOf(Append(c, x), n), LastOf(Append(h, y), n))
<1> DEFINE cx == Append(c, x)
           hy == Append(h, y)
           lc == LastOf(cx, n)
           lh == LastOf(hy, n)
           dc == Over(cx, n)
           dh == Over(hy, n)
<1>1. /\ cx \in Seq(Count) /\ Len(cx) = Len(c) + 1 /\ cx[Len(c) + 1] = x
      /\ \A i \in 1..Len(c) : cx[i] = c[i]
  BY AppendProperties
<1>2. /\ hy \in Seq(Count) /\ Len(hy) = Len(h) + 1 /\ hy[Len(h) + 1] = y
      /\ \A i \in 1..Len(h) : hy[i] = h[i]
  BY AppendProperties
<1> HIDE DEF cx, hy
<1>3. Len(c) \in Nat /\ Len(h) \in Nat /\ Len(c) <= Len(h)
  BY DEF Bounds
<1>4. Len(lc) = Len(cx) - dc /\ \A i \in 1..Len(lc) : lc[i] = cx[i + dc]
  <2>1. Len(cx) <= n + 1
    BY <1>1, <1>3
  <2> QED
    BY <1>1, <2>1, LastOfProperties
<1>5. Len(lh) = Len(hy) - dh /\ \A i \in 1..Len(lh) : lh[i] = hy[i + dh]
  <2>1. Len(hy) <= n + 1
    BY <1>2, <1>3
  <2> QED
    BY <1>2, <2>1, LastOfProperties
<1> HIDE DEF lc, lh
<1>6. Len(lc) <= Len(lh) /\ dc \in {0, 1} /\ dh \in {0, 1} /\ (dc = 1 => dh = 1)
  <2>1. /\ dc = IF Len(c) + 1 > n THEN 1 ELSE 0
        /\ dh = IF Len(h) + 1 > n THEN 1 ELSE 0
    BY <1>1, <1>2 DEF Over
  <2> HIDE DEF dc, dh
  <2>2. Len(lc) = Len(c) + 1 - dc /\ Len(lh) = Len(h) + 1 - dh
    BY <1>1, <1>2, <1>3, <1>4, <1>5, <2>1
  <2> QED
    BY <1>3, <2>1, <2>2
<1>7. ASSUME NEW i \in 1..Len(lc)
      PROVE  lc[i] <= lh[i + (Len(lh) - Len(lc))]
  <2> DEFINE j == i + dc
             k == i + (Len(lh) - Len(lc))
  <2>1. /\ j \in 1..(Len(c) + 1) /\ k \in 1..Len(lh)
        /\ k + dh = j + (Len(h) - Len(c))
    <3> HIDE DEF dc, dh
    <3> QED
      BY <1>1, <1>2, <1>3, <1>4, <1>5, <1>6
  <2>2. lc[i] = cx[j] /\ lh[k] = hy[j + (Len(h) - Len(c))]
    BY <2>1, <1>4, <1>5
  <2> HIDE DEF k, j
  <2>3. CASE j = Len(c) + 1
    <3>1. j + (Len(h) - Len(c)) = Len(h) + 1
      BY <2>3, <1>3
    <3> QED
      BY <2>2, <2>3, <3>1, <1>1, <1>2 DEF k
  <2>4. CASE j \in 1..Len(c)
    <3>1. j + (Len(h) - Len(c)) \in 1..Len(h)
      BY <2>4, <1>3
    <3>2. c[j] <= h[j + (Len(h) - Len(c))]
      BY <2>4 DEF Bounds
    <3> QED
      BY <2>2, <2>4, <3>1, <3>2, <1>1, <1>2 DEF k
  <2> QED
    BY <2>1, <2>3, <2>4, <1>3
<1> QED
  BY <1>6, <1>7 DEF Bounds, lc, lh, cx, hy

-----------------------------------------------------------------------------
(* The inductive invariant.                                                *)

WatchType == [last : Unread..MaxRestarts,
              deltas : Seq(0..MaxRestarts),
              silent : 0..UnreachableTicks,
              pressed : 0..PressureTicks,
              latched : BOOLEAN,
              fired : [Kinds -> 0..Cooldown]]

CountersOK ==
  /\ watch \in [Servers -> WatchType]
  /\ restarts \in [Servers -> Count] /\ since \in [Servers -> Count]
  /\ recent \in [Servers -> Seq(Count)]

(* A counter that has been read has moved by no more than what has         *)
(* happened since; until it is read the ring is empty.                     *)
HonestAt(s) ==
  /\ watch[s].last = Unread => watch[s].deltas = <<>>
  /\ watch[s].last # Unread => restarts[s] - watch[s].last <= since[s]
  /\ Len(watch[s].deltas) <= CrashWindow /\ Len(recent[s]) <= CrashWindow
  /\ Bounds(watch[s].deltas, recent[s])

Inv == CountersOK /\ \A s \in Servers : HonestAt(s)

-----------------------------------------------------------------------------
(* Initially, and when the detector forgets.                               *)

LEMMA NoWatchTyped == NoWatch \in WatchType
<1>1. /\ Unread \in Unread..MaxRestarts /\ <<>> \in Seq(0..MaxRestarts)
      /\ 0 \in 0..UnreachableTicks /\ 0 \in 0..PressureTicks
      /\ [k \in Kinds |-> 0] \in [Kinds -> 0..Cooldown]
  BY WatchdogAssumption DEF Unread
<1> QED
  BY <1>1 DEF NoWatch, WatchType

(* Nothing claimed is honest, whatever happened.                           *)
LEMMA ForgottenIsHonest ==
  ASSUME NEW s \in Servers, watch'[s] = NoWatch, recent'[s] = <<>>
  PROVE  HonestAt(s)'
<1>1. /\ watch'[s].last = Unread /\ watch'[s].deltas = <<>>
      /\ Len(watch'[s].deltas) = 0 /\ Len(recent'[s]) = 0
  BY DEF NoWatch
<1> QED
  BY <1>1, WatchdogAssumption DEF HonestAt, Bounds

LEMMA InitInv == Init => Inv
<1> SUFFICES ASSUME Init
             PROVE  Inv
  OBVIOUS
<1>1. CountersOK
  <2>1. 0 \in Count /\ <<>> \in Seq(Count)
    BY WatchdogAssumption DEF Count
  <2> QED
    BY <2>1, NoWatchTyped DEF Init, CountersOK
<1>2. ASSUME NEW s \in Servers
      PROVE  HonestAt(s)
  <2>1. /\ watch[s].last = Unread /\ watch[s].deltas = <<>> /\ recent[s] = <<>>
        /\ Len(watch[s].deltas) = 0 /\ Len(recent[s]) = 0
    BY DEF Init, NoWatch
  <2> QED
    BY <2>1, WatchdogAssumption DEF HonestAt, Bounds
<1> QED
  BY <1>1, <1>2 DEF Inv

(* One server is forgotten: detection is off, or it is in no listing.      *)
LEMMA DropKeeps ==
  ASSUME Inv, NEW s \in Servers, restarts' = restarts,
         watch' = [watch EXCEPT ![s] = NoWatch],
         recent' = [recent EXCEPT ![s] = <<>>],
         since' = [since EXCEPT ![s] = 0]
  PROVE  Inv'
<1>1. CountersOK'
  <2>1. 0 \in Count /\ <<>> \in Seq(Count)
    BY WatchdogAssumption DEF Count
  <2> QED
    BY <2>1, NoWatchTyped DEF Inv, CountersOK
<1>2. ASSUME NEW q \in Servers
      PROVE  HonestAt(q)'
  <2>1. CASE q = s
    <3>1. watch'[q] = NoWatch /\ recent'[q] = <<>>
      BY <2>1 DEF Inv, CountersOK
    <3> QED
      BY <3>1, ForgottenIsHonest
  <2>2. CASE q # s
    <3>1. watch'[q] = watch[q] /\ recent'[q] = recent[q] /\ since'[q] = since[q]
      BY <2>2 DEF Inv, CountersOK
    <3> QED
      BY <3>1 DEF Inv, HonestAt
  <2> QED
    BY <2>1, <2>2
<1> QED
  BY <1>1, <1>2 DEF Inv

(* All are: the sampler's body, or the whole bot, begins again.            *)
LEMMA DropAllKeeps ==
  ASSUME Inv, restarts' = restarts,
         watch' = [s \in Servers |-> NoWatch],
         recent' = [s \in Servers |-> <<>>],
         since' = [s \in Servers |-> 0]
  PROVE  Inv'
<1>1. CountersOK'
  <2>1. 0 \in Count /\ <<>> \in Seq(Count)
    BY WatchdogAssumption DEF Count
  <2> QED
    BY <2>1, NoWatchTyped DEF Inv, CountersOK
<1>2. ASSUME NEW q \in Servers
      PROVE  HonestAt(q)'
  BY ForgottenIsHonest
<1> QED
  BY <1>1, <1>2 DEF Inv

-----------------------------------------------------------------------------
(* What befalls servers.                                                   *)

(* An exit is counted by the pod and, once the counter was read, by the    *)
(* history alike.                                                          *)
LEMMA GameExitsKeeps ==
  ASSUME Inv, NEW s \in Servers, GameExits(s)
  PROVE  Inv'
<1>1. /\ restarts[s] < MaxRestarts
      /\ restarts' = [restarts EXCEPT ![s] = restarts[s] + 1]
      /\ since' = IF watch[s].last = Unread THEN since
                  ELSE [since EXCEPT ![s] = Least(since[s] + 1, MaxRestarts)]
      /\ UNCHANGED <<watch, recent>>
  BY DEF GameExits, Elsewhere
<1>2. /\ restarts[s] \in Count /\ since[s] \in Count /\ MaxRestarts \in Nat
      /\ watch[s].last \in Unread..MaxRestarts
  BY WatchdogAssumption DEF Inv, CountersOK, WatchType
<1>3. restarts[s] + 1 \in Count /\ Least(since[s] + 1, MaxRestarts) \in Count
  BY <1>1, <1>2 DEF Count, Least
<1>4. CountersOK'
  BY <1>1, <1>3 DEF Inv, CountersOK
<1>5. ASSUME NEW q \in Servers
      PROVE  HonestAt(q)'
  <2>1. HonestAt(q) /\ watch'[q] = watch[q] /\ recent'[q] = recent[q]
    BY <1>1 DEF Inv
  <2>2. watch[q].last # Unread => restarts'[q] - watch[q].last <= since'[q]
    <3>1. CASE q # s
      <4>1. restarts'[q] = restarts[q] /\ since'[q] = since[q]
        BY <3>1, <1>1 DEF Inv, CountersOK
      <4> QED
        BY <4>1, <2>1 DEF HonestAt
    <3>2. CASE q = s
      <4> SUFFICES ASSUME watch[s].last # Unread
                   PROVE  restarts'[s] - watch[s].last <= since'[s]
        BY <3>2
      <4>1. restarts[s] - watch[s].last <= since[s]
        BY <2>1, <3>2 DEF HonestAt
      <4>2. /\ restarts'[s] = restarts[s] + 1
            /\ since'[s] = Least(since[s] + 1, MaxRestarts)
        BY <1>1 DEF Inv, CountersOK
      <4>3. watch[s].last >= 0
        BY <1>2 DEF Unread
      <4> QED
        BY <1>1, <1>2, <4>1, <4>2, <4>3 DEF Least, Count, Unread
    <3> QED
      BY <3>1, <3>2
  <2> QED
    BY <2>1, <2>2 DEF HonestAt
<1> QED
  BY <1>4, <1>5 DEF Inv

(* A new pod's counter is behind what was read of the old one.             *)
LEMMA FreshKeeps ==
  ASSUME Inv, NEW s \in Servers, NEW state, Fresh(s, state)
  PROVE  Inv'
<1>1. restarts' = [restarts EXCEPT ![s] = 0] /\ UNCHANGED <<watch, recent, since>>
  BY DEF Fresh, Elsewhere
<1>2. CountersOK'
  <2>1. 0 \in Count
    BY WatchdogAssumption DEF Count
  <2> QED
    BY <2>1, <1>1 DEF Inv, CountersOK
<1>3. ASSUME NEW q \in Servers
      PROVE  HonestAt(q)'
  <2>1. /\ HonestAt(q) /\ watch'[q] = watch[q] /\ recent'[q] = recent[q]
        /\ since'[q] = since[q] /\ since[q] \in Count /\ MaxRestarts \in Nat
        /\ watch[q].last \in Unread..MaxRestarts
    BY <1>1, WatchdogAssumption DEF Inv, CountersOK, WatchType
  <2>2. restarts'[q] = IF q = s THEN 0 ELSE restarts[q]
    BY <1>1 DEF Inv, CountersOK
  <2>3. watch[q].last # Unread => restarts'[q] - watch[q].last <= since[q]
    <3>1. CASE q = s
      BY <2>1, <2>2, <3>1 DEF Count, Unread
    <3>2. CASE q # s
      BY <2>1, <2>2, <3>2 DEF HonestAt
    <3> QED
      BY <3>1, <3>2
  <2> QED
    BY <2>1, <2>3 DEF HonestAt
<1> QED
  BY <1>2, <1>3 DEF Inv

(* Steps that leave counters, rings and history alone.                     *)
LEMMA ElsewhereKeeps ==
  ASSUME Inv, UNCHANGED <<watch, restarts, since, recent>>
  PROVE  Inv'
<1>1. CountersOK'
  BY DEF Inv, CountersOK
<1>2. ASSUME NEW q \in Servers
      PROVE  HonestAt(q)'
  BY DEF Inv, HonestAt
<1> QED
  BY <1>1, <1>2 DEF Inv

-----------------------------------------------------------------------------
(* The detector.                                                           *)

LEMMA FoldTyped ==
  ASSUME NEW w \in WatchType, Len(w.deltas) <= CrashWindow, NEW r \in Count
  PROVE  /\ FoldRestartDelta(w, r) \in Seq(Count)
         /\ Len(FoldRestartDelta(w, r)) <= CrashWindow
<1>1. w.deltas \in Seq(Count) /\ w.last \in Unread..MaxRestarts /\ MaxRestarts \in Nat
  BY WatchdogAssumption DEF WatchType, Count
<1>2. CASE w.last = Unread
  BY <1>1, <1>2 DEF FoldRestartDelta
<1>3. CASE w.last # Unread /\ r < w.last
  <2>1. FoldRestartDelta(w, r) = <<>>
    BY <1>3 DEF FoldRestartDelta
  <2> QED
    BY <2>1, WatchdogAssumption
<1>4. CASE w.last # Unread /\ ~(r < w.last)
  <2>1. r - w.last \in Count
    BY <1>1, <1>4 DEF Count, Unread
  <2>2. /\ Append(w.deltas, r - w.last) \in Seq(Count)
        /\ Len(Append(w.deltas, r - w.last)) <= CrashWindow + 1
    BY <1>1, <2>1, AppendProperties, WatchdogAssumption
  <2>3. FoldRestartDelta(w, r) = LastOf(Append(w.deltas, r - w.last), CrashWindow)
    BY <1>4 DEF FoldRestartDelta
  <2> QED
    BY <2>2, <2>3, LastOfProperties, WatchdogAssumption
<1> QED
  BY <1>2, <1>3, <1>4

(* Only an answer moves the ring and what was read last.                   *)
LEMMA PollShape ==
  ASSUME NEW w \in WatchType, Len(w.deltas) <= CrashWindow,
         NEW s \in Servers, restarts[s] \in Count, NEW poll
  PROVE  /\ AfterPoll(w, s, poll) \in WatchType
         /\ poll = "ok" => /\ AfterPoll(w, s, poll).last = restarts[s]
                           /\ AfterPoll(w, s, poll).deltas = FoldRestartDelta(w, restarts[s])
         /\ poll # "ok" => /\ AfterPoll(w, s, poll).last = w.last
                           /\ AfterPoll(w, s, poll).deltas = w.deltas
<1> DEFINE v == [w EXCEPT !.latched = Latch(w, poll)]
<1>1. /\ v \in WatchType /\ v.last = w.last /\ v.deltas = w.deltas
      /\ v.silent = w.silent /\ w.silent \in 0..UnreachableTicks
  BY DEF WatchType, Latch
<1>2. poll = "unseen" => AfterPoll(w, s, poll) = w
  BY DEF AfterPoll
<1>3. poll = "ok" => AfterPoll(w, s, poll) =
         [v EXCEPT !.silent = 0, !.last = restarts[s],
                   !.deltas = FoldRestartDelta(w, restarts[s])]
  BY Zenon DEF AfterPoll
<1>4. poll = "unreachable" => AfterPoll(w, s, poll) =
         [v EXCEPT !.silent = Least(v.silent + 1, UnreachableTicks)]
  BY Zenon DEF AfterPoll
<1>5. poll \notin {"unseen", "ok", "unreachable"} => AfterPoll(w, s, poll) = v
  BY Zenon DEF AfterPoll
<1> HIDE DEF v
<1>6. CASE poll = "ok"
  <2>1. /\ FoldRestartDelta(w, restarts[s]) \in Seq(0..MaxRestarts)
        /\ restarts[s] \in Unread..MaxRestarts /\ 0 \in 0..UnreachableTicks
    <3>1. FoldRestartDelta(w, restarts[s]) \in Seq(Count)
      BY FoldTyped
    <3> QED
      BY <3>1, WatchdogAssumption DEF Count, Unread
  <2> DEFINE x == [v EXCEPT !.silent = 0]
             y == [x EXCEPT !.last = restarts[s]]
             z == [y EXCEPT !.deltas = FoldRestartDelta(w, restarts[s])]
  <2>2. x \in WatchType
    BY <1>1, <2>1 DEF WatchType
  <2> HIDE DEF x
  <2>3. y \in WatchType /\ y.last = restarts[s]
    BY <2>1, <2>2 DEF WatchType
  <2> HIDE DEF y
  <2>4. /\ z \in WatchType /\ z.last = restarts[s]
        /\ z.deltas = FoldRestartDelta(w, restarts[s])
    BY <2>1, <2>3 DEF WatchType
  <2>5. AfterPoll(w, s, poll) = z
    BY <1>3, <1>6 DEF x, y
  <2> HIDE DEF z
  <2> QED
    BY <1>6, <2>4, <2>5
<1>7. CASE poll = "unreachable"
  <2>1. Least(v.silent + 1, UnreachableTicks) \in 0..UnreachableTicks
    <3> DEFINE n == v.silent
    <3>1. n \in 0..UnreachableTicks /\ UnreachableTicks \in Nat
      BY <1>1, WatchdogAssumption
    <3> HIDE DEF n
    <3>2. Least(n + 1, UnreachableTicks) \in 0..UnreachableTicks
      BY <3>1 DEF Least
    <3> QED
      BY <3>2 DEF n
  <2> QED
    BY <1>1, <1>4, <1>7, <2>1 DEF WatchType
<1> QED
  BY <1>1, <1>2, <1>5, <1>6, <1>7

LEMMA ReadingShape ==
  ASSUME NEW w \in WatchType, NEW reading
  PROVE  /\ AfterReading(w, reading) \in WatchType
         /\ AfterReading(w, reading).last = w.last
         /\ AfterReading(w, reading).deltas = w.deltas
<1>1. /\ w.pressed \in 0..PressureTicks /\ 0 \in 0..PressureTicks
      /\ Least(w.pressed + 1, PressureTicks) \in 0..PressureTicks
  BY WatchdogAssumption DEF WatchType, Least
<1>2. reading = "over" => AfterReading(w, reading) =
         [w EXCEPT !.pressed = Least(w.pressed + 1, PressureTicks)]
  BY Zenon DEF AfterReading
<1>3. reading = "under" => AfterReading(w, reading) = [w EXCEPT !.pressed = 0]
  BY Zenon DEF AfterReading
<1>4. reading \notin {"over", "under"} => AfterReading(w, reading) = w
  BY Zenon DEF AfterReading
<1>5. CASE reading = "over"
  BY <1>1, <1>2, <1>5 DEF WatchType
<1>6. CASE reading = "under"
  BY <1>1, <1>3, <1>6 DEF WatchType
<1> QED
  BY <1>4, <1>5, <1>6

(* A ring after an answer: an exit it has is one of the history.           *)
LEMMA AnswerIsHonest ==
  ASSUME Inv, NEW s \in Servers
  PROVE  LET deltas == FoldRestartDelta(watch[s], restarts[s])
             happened == IF watch[s].last = Unread THEN <<>>
                         ELSE LastOf(Append(recent[s], since[s]), CrashWindow)
         IN  /\ happened \in Seq(Count) /\ Len(happened) <= CrashWindow
             /\ Bounds(deltas, happened)
<1> DEFINE w == watch[s]
           rc == LastOf(Append(recent[s], since[s]), CrashWindow)
<1>1. /\ w \in WatchType /\ w.deltas \in Seq(Count) /\ w.last \in Unread..MaxRestarts
      /\ recent[s] \in Seq(Count) /\ since[s] \in Count /\ restarts[s] \in Count
      /\ MaxRestarts \in Nat /\ CrashWindow \in Nat \ {0}
  BY WatchdogAssumption DEF Inv, CountersOK, WatchType, Count
<1>2. /\ Bounds(w.deltas, recent[s])
      /\ Len(w.deltas) <= CrashWindow /\ Len(recent[s]) <= CrashWindow
      /\ w.last = Unread => w.deltas = <<>>
      /\ w.last # Unread => restarts[s] - w.last <= since[s]
  BY DEF Inv, HonestAt
<1>3. rc \in Seq(Count) /\ Len(rc) <= CrashWindow
  <2>1. /\ Append(recent[s], since[s]) \in Seq(Count)
        /\ Len(Append(recent[s], since[s])) <= CrashWindow + 1
    BY <1>1, <1>2, AppendProperties
  <2> QED
    BY <2>1, <1>1, LastOfProperties
<1>4. CASE w.last = Unread
  <2>1. FoldRestartDelta(w, restarts[s]) = <<>>
    BY <1>2, <1>4 DEF FoldRestartDelta
  <2> QED
    BY <2>1, <1>1, <1>4 DEF Bounds
<1> HIDE DEF w
<1>5. CASE w.last # Unread /\ restarts[s] < w.last
  <2>1. FoldRestartDelta(w, restarts[s]) = <<>>
    BY <1>5 DEF FoldRestartDelta
  <2>2. Len(rc) >= 0
    BY <1>3
  <2> QED
    BY <2>1, <2>2, <1>3, <1>5 DEF Bounds, w
<1>6. CASE w.last # Unread /\ ~(restarts[s] < w.last)
  <2>1. restarts[s] - w.last \in Count
    BY <1>1, <1>6 DEF Count, Unread
  <2>2. FoldRestartDelta(w, restarts[s]) =
           LastOf(Append(w.deltas, restarts[s] - w.last), CrashWindow)
    BY <1>6 DEF FoldRestartDelta
  <2>3. Bounds(FoldRestartDelta(w, restarts[s]), rc)
    BY <2>1, <2>2, <1>1, <1>2, <1>6, BoundsGrow
  <2> QED
    BY <2>3, <1>3, <1>6 DEF w
<1> QED
  BY <1>4, <1>5, <1>6 DEF w

LEMMA ObserveKeeps ==
  ASSUME Inv, NEW s \in Servers, NEW poll, NEW reading, Observe(s, poll, reading)
  PROVE  Inv'
<1> DEFINE w == watch[s]
           a == AfterPoll(w, s, poll)
           v == AfterReading(a, reading)
           fires == Fire(w, v, s, poll, reading)
           f == [k \in Kinds |-> IF k \in fires THEN Cooldown ELSE v.fired[k]]
           u == [v EXCEPT !.fired = f]
           happened == IF w.last = Unread THEN <<>>
                       ELSE LastOf(Append(recent[s], since[s]), CrashWindow)
<1>1. /\ watch' = [watch EXCEPT ![s] = u] /\ restarts' = restarts
      /\ IF poll # "ok" THEN UNCHANGED <<recent, since>>
         ELSE /\ recent' = [recent EXCEPT ![s] = happened]
              /\ since' = [since EXCEPT ![s] = 0]
  BY DEF Observe, world, servers
<1>2. /\ w \in WatchType /\ restarts[s] \in Count /\ Len(w.deltas) <= CrashWindow
      /\ CrashWindow \in Nat \ {0}
  BY WatchdogAssumption DEF Inv, CountersOK, HonestAt
<1> HIDE DEF w
<1>3. /\ a \in WatchType
      /\ poll = "ok" => a.last = restarts[s] /\ a.deltas = FoldRestartDelta(w, restarts[s])
      /\ poll # "ok" => a.last = w.last /\ a.deltas = w.deltas
  BY <1>2, PollShape
<1> HIDE DEF a
<1>4. v \in WatchType /\ v.last = a.last /\ v.deltas = a.deltas
  BY <1>3, ReadingShape
<1> HIDE DEF v, fires
<1>5. f \in [Kinds -> 0..Cooldown]
  BY <1>4, WatchdogAssumption DEF WatchType
<1> HIDE DEF f
<1>6. u \in WatchType /\ u.last = a.last /\ u.deltas = a.deltas
  BY <1>4, <1>5 DEF WatchType
<1> HIDE DEF u
<1>7. /\ happened \in Seq(Count) /\ Len(happened) <= CrashWindow
      /\ Bounds(FoldRestartDelta(w, restarts[s]), happened)
  BY AnswerIsHonest DEF w
<1> HIDE DEF happened
<1>8. CountersOK'
  <2>1. 0 \in Count
    BY WatchdogAssumption DEF Count
  <2>2. recent' \in [Servers -> Seq(Count)] /\ since' \in [Servers -> Count]
    BY <2>1, <1>1, <1>7 DEF Inv, CountersOK
  <2> QED
    BY <2>2, <1>1, <1>6 DEF Inv, CountersOK
<1>9. ASSUME NEW q \in Servers, q # s
      PROVE  HonestAt(q)'
  <2>1. watch'[q] = watch[q] /\ recent'[q] = recent[q] /\ since'[q] = since[q]
    BY <1>1, <1>9 DEF Inv, CountersOK
  <2> QED
    BY <2>1, <1>1 DEF Inv, HonestAt
<1>10. watch'[s] = u
  BY <1>1 DEF Inv, CountersOK
<1>11. ASSUME poll = "ok"
       PROVE  HonestAt(s)'
  <2>1. recent'[s] = happened /\ since'[s] = 0 /\ restarts'[s] = restarts[s]
    BY <1>1, <1>11 DEF Inv, CountersOK
  <2>2. /\ watch'[s].last = restarts[s]
        /\ watch'[s].deltas = FoldRestartDelta(w, restarts[s])
    BY <1>3, <1>6, <1>10, <1>11
  <2>3. restarts[s] # Unread /\ restarts[s] - restarts[s] <= 0
    BY <1>2, WatchdogAssumption DEF Count, Unread
  <2>4. Len(FoldRestartDelta(w, restarts[s])) <= CrashWindow
    BY <1>2, FoldTyped
  <2>5. Bounds(watch[s].deltas, recent[s])'
    BY <2>1, <2>2, <1>7 DEF Bounds
  <2>6. /\ watch'[s].last # Unread /\ restarts'[s] - watch'[s].last <= since'[s]
        /\ Len(watch'[s].deltas) <= CrashWindow /\ Len(recent'[s]) <= CrashWindow
    BY <2>1, <2>2, <2>3, <2>4, <1>7
  <2> QED
    BY <2>5, <2>6 DEF HonestAt
<1>12. ASSUME poll # "ok"
       PROVE  HonestAt(s)'
  <2>1. recent'[s] = recent[s] /\ since'[s] = since[s] /\ restarts'[s] = restarts[s]
    BY <1>1, <1>12
  <2>2. watch'[s].last = w.last /\ watch'[s].deltas = w.deltas
    BY <1>3, <1>6, <1>10, <1>12
  <2>3. HonestAt(s)
    BY DEF Inv
  <2>4. Bounds(watch[s].deltas, recent[s])'
    BY <2>1, <2>2, <2>3 DEF HonestAt, Bounds, w
  <2> QED
    BY <2>1, <2>2, <2>3, <2>4 DEF HonestAt, w
<1> QED
  BY <1>8, <1>9, <1>11, <1>12 DEF Inv

(* Cooling down is all a tick does to a ring.                              *)
LEMMA TickKeeps ==
  ASSUME Inv, Tick
  PROVE  Inv'
<1> DEFINE cooled(s) == [k \in Kinds |-> IF watch[s].fired[k] = 0 THEN 0
                                         ELSE watch[s].fired[k] - 1]
<1>1. /\ watch' = [s \in Servers |-> [watch[s] EXCEPT !.fired = cooled(s)]]
      /\ UNCHANGED <<restarts, recent, since>>
  BY DEF Tick, world, servers
<1>2. ASSUME NEW s \in Servers
      PROVE  /\ watch'[s] \in WatchType /\ watch'[s].last = watch[s].last
             /\ watch'[s].deltas = watch[s].deltas
  <2>1. watch[s] \in WatchType
    BY DEF Inv, CountersOK
  <2>2. cooled(s) \in [Kinds -> 0..Cooldown]
    <3>1. ASSUME NEW k \in Kinds
          PROVE  (IF watch[s].fired[k] = 0 THEN 0 ELSE watch[s].fired[k] - 1) \in 0..Cooldown
      <4>1. watch[s].fired[k] \in 0..Cooldown /\ Cooldown \in Nat
        BY <2>1, WatchdogAssumption DEF WatchType
      <4> QED
        BY <4>1
    <3> QED
      BY <3>1
  <2> HIDE DEF cooled
  <2>3. watch'[s] = [watch[s] EXCEPT !.fired = cooled(s)]
    BY <1>1
  <2> QED
    BY <2>1, <2>2, <2>3 DEF WatchType
<1>3. CountersOK'
  <2>1. watch' \in [Servers -> WatchType]
    BY <1>1, <1>2
  <2> QED
    BY <2>1, <1>1 DEF Inv, CountersOK
<1>4. ASSUME NEW q \in Servers
      PROVE  HonestAt(q)'
  BY <1>1, <1>2 DEF Inv, HonestAt
<1> QED
  BY <1>3, <1>4 DEF Inv

-----------------------------------------------------------------------------
(* The theorem.                                                            *)

LEMMA NextInv ==
  ASSUME Inv, [Next]_vars
  PROVE  Inv'
<1>1. ASSUME NEW s \in Servers, GameExits(s)
      PROVE  Inv'
  BY <1>1, GameExitsKeeps
<1>2. ASSUME NEW s \in Servers, Condemned(s) \/ Recreated(s) \/ Removed(s)
      PROVE  Inv'
  BY <1>2, FreshKeeps DEF Condemned, Recreated, Removed
<1>3. ASSUME NEW s \in Servers, Repaired(s)
      PROVE  Inv'
  BY <1>3, ElsewhereKeeps DEF Repaired, Elsewhere
<1>4. ASSUME NEW m \in {"on", "shadow", "off"}, ModeSet(m)
      PROVE  Inv'
  BY <1>4, ElsewhereKeeps DEF ModeSet, Elsewhere
<1>5. ASSUME NEW s \in Servers, Sampler(s)
      PROVE  Inv'
  <2>1. CASE ObserveOff(s) \/ Prune(s)
    BY <2>1, DropKeeps DEF ObserveOff, Prune, world, servers
  <2>2. ASSUME NEW poll \in Polls(s), NEW reading \in Readings(s),
               Observe(s, poll, reading)
        PROVE  Inv'
    BY <2>2, ObserveKeeps
  <2> QED
    BY <1>5, <2>1, <2>2 DEF Sampler
<1>6. CASE Tick
  BY <1>6, TickKeeps
<1>7. CASE Responder
  <2>1. UNCHANGED <<watch, restarts, since, recent>>
    BY <1>7 DEF Responder, RecordOnly, LeftToBatch, Suppressed, Proceed, SettleAtOnce,
       Receive, Undeliverable, TurnBegins, TurnEnds, InTurn, world, servers
  <2> QED
    BY <2>1, ElsewhereKeeps
<1>8. CASE SamplerPanics \/ BotRestarts
  BY <1>8, DropAllKeeps DEF SamplerPanics, BotRestarts, servers
<1>9. CASE ResponderPanics
  BY <1>9, ElsewhereKeeps DEF ResponderPanics, servers
<1>10. CASE UNCHANGED vars
  BY <1>10, ElsewhereKeeps DEF vars, world, servers
<1> QED
  BY <1>1, <1>2, <1>3, <1>4, <1>5, <1>6, <1>7, <1>8, <1>9, <1>10 DEF Next

(* The counters and rings keep their types, and every ring is bounded by   *)
(* what happened (fold_restart_delta, spawn_sampler).                      *)
THEOREM WatchdogInvariant == Spec => []Inv
<1>1. Init => Inv
  BY InitInv
<1>2. Inv /\ [Next]_vars => Inv'
  BY NextInv
<1> QED
  BY <1>1, <1>2, PTL DEF Spec

(* A crash loop is never made up.                                          *)
THEOREM WindowIsHonestAlways == Spec => []WindowIsHonest
<1>1. Inv => WindowIsHonest
  <2> SUFFICES ASSUME Inv, NEW s \in Servers
               PROVE  /\ Len(recent[s]) - Len(watch[s].deltas) >= 0
                      /\ \A i \in DOMAIN watch[s].deltas :
                           watch[s].deltas[i] <=
                             recent[s][i + (Len(recent[s]) - Len(watch[s].deltas))]
    BY DEF WindowIsHonest
  <2>1. /\ watch[s].deltas \in Seq(Count) /\ recent[s] \in Seq(Count)
        /\ Bounds(watch[s].deltas, recent[s])
    BY DEF Inv, CountersOK, WatchType, HonestAt, Count
  <2>2. DOMAIN watch[s].deltas = 1..Len(watch[s].deltas)
    BY <2>1
  <2>3. Len(watch[s].deltas) \in Nat /\ Len(recent[s]) \in Nat
    BY <2>1
  <2>4. Len(recent[s]) - Len(watch[s].deltas) >= 0
    BY <2>1, <2>3 DEF Bounds
  <2>5. ASSUME NEW i \in 1..Len(watch[s].deltas)
        PROVE  watch[s].deltas[i] <= recent[s][i + (Len(recent[s]) - Len(watch[s].deltas))]
    BY <2>1 DEF Bounds
  <2> QED
    BY <2>2, <2>4, <2>5
<1> QED
  BY <1>1, WatchdogInvariant, PTL

-----------------------------------------------------------------------------
(* The storm guard's ring.                                                 *)

(* A set of positions has a least one.                                     *)
LEMMA LeastExists ==
  ASSUME NEW P \in SUBSET Nat, P # {}
  PROVE  \E i \in P : \A j \in P : i <= j
<1>1. PICK x \in P : \A y \in P : <<y, x>> \notin OpToRel(<, Nat)
  BY NatLessThanWellFounded, WFMin
<1>2. ASSUME NEW y \in P
      PROVE  x <= y
  <2>1. ~(y < x)
    BY <1>1 DEF OpToRel
  <2> QED
    BY <2>1
<1> QED
  BY <1>2

(* What is left of a list of ages: all of it, less as many of the oldest   *)
(* as it is shorter, each of which had reached the limit.                  *)
Dropped(ages, limit) == Len(ages) - Len(FromYoung(ages, limit))

LEMMA FromYoungProperties ==
  ASSUME NEW N \in Nat, NEW ages \in Seq(0..N), NEW limit \in Int
  PROVE  /\ FromYoung(ages, limit) \in Seq(0..N)
         /\ Dropped(ages, limit) \in 0..Len(ages)
         /\ \A i \in 1..Len(FromYoung(ages, limit)) :
              FromYoung(ages, limit)[i] = ages[i + Dropped(ages, limit)]
         /\ \A i \in 1..Len(ages) :
              ages[i] < limit => i > Dropped(ages, limit)
         /\ FromYoung(ages, limit) # <<>> => FromYoung(ages, limit)[1] < limit
<1> DEFINE young == {i \in DOMAIN ages : ages[i] < limit}
           first == CHOOSE i \in young : \A j \in young : i <= j
<1>1. DOMAIN ages = 1..Len(ages) /\ Len(ages) \in Nat
  OBVIOUS
<1>2. CASE young = {}
  <2>1. FromYoung(ages, limit) = <<>>
    BY <1>2 DEF FromYoung
  <2>2. FromYoung(ages, limit) \in Seq(0..N) /\ Len(FromYoung(ages, limit)) = 0
    BY <2>1
  <2>3. \A i \in 1..Len(ages) : ~(ages[i] < limit)
    BY <1>1, <1>2
  <2>4. Dropped(ages, limit) = Len(ages)
    BY <1>1, <2>2 DEF Dropped
  <2> QED
    BY <1>1, <2>1, <2>2, <2>3, <2>4
<1>3. CASE young # {}
  <2>1. \E i \in young : \A j \in young : i <= j
    <3>1. young \in SUBSET Nat
      BY <1>1
    <3> QED
      BY <1>3, <3>1, LeastExists
  <2>2. first \in young /\ \A j \in young : first <= j
    BY <2>1
  <2>3. FromYoung(ages, limit) = SubSeq(ages, first, Len(ages))
    BY <1>3 DEF FromYoung
  <2>4. first \in 1..Len(ages) /\ ages[first] < limit
    BY <1>1, <2>2
  <2>5. \A i \in 1..Len(ages) : ages[i] < limit => first <= i
    BY <1>1, <2>2
  <2> HIDE DEF first, young
  <2>6. /\ FromYoung(ages, limit) \in Seq(0..N)
        /\ Len(FromYoung(ages, limit)) = Len(ages) - first + 1
        /\ \A i \in 1..Len(FromYoung(ages, limit)) :
             FromYoung(ages, limit)[i] = ages[first + i - 1]
    <3> DEFINE n == Len(ages)
               rest == SubSeq(ages, first, n)
    <3>1. \A i \in first..n : ages[i] \in 0..N
      BY <1>1, <2>4
    <3>2. first \in Int /\ n \in Int /\ first <= n /\ FromYoung(ages, limit) = rest
      BY <1>1, <2>3, <2>4
    <3>3. /\ rest \in Seq(0..N)
          /\ Len(rest) = IF first <= n THEN n - first + 1 ELSE 0
          /\ \A i \in 1..(n - first + 1) : rest[i] = ages[first + i - 1]
      <4> HIDE DEF n
      <4> QED
        BY <3>1, <3>2, SubSeqProperties
    <3> HIDE DEF n, rest
    <3>4. Len(rest) = n - first + 1
      BY <3>2, <3>3
    <3>5. \A i \in 1..Len(rest) : rest[i] = ages[first + i - 1]
      BY <3>3, <3>4
    <3> QED
      BY <3>2, <3>3, <3>4, <3>5 DEF n
  <2>7. Dropped(ages, limit) = first - 1
    <3>1. first \in Nat /\ Len(FromYoung(ages, limit)) = Len(ages) - first + 1
      BY <1>1, <2>4, <2>6
    <3> QED
      BY <1>1, <3>1 DEF Dropped
  <2>8. FromYoung(ages, limit)[1] < limit
    <3>1. 1 \in 1..Len(FromYoung(ages, limit)) /\ first + 1 - 1 = first
      BY <1>1, <2>4, <2>6
    <3>2. FromYoung(ages, limit)[1] = ages[first + 1 - 1]
      BY <2>6, <3>1, Zenon
    <3> QED
      BY <2>4, <3>1, <3>2
  <2>9. \A i \in 1..Len(FromYoung(ages, limit)) :
          FromYoung(ages, limit)[i] = ages[i + Dropped(ages, limit)]
    BY <1>1, <2>4, <2>6, <2>7
  <2> QED
    BY <1>1, <2>4, <2>5, <2>6, <2>7, <2>8, <2>9
<1> QED
  BY <1>2, <1>3

-----------------------------------------------------------------------------
(* The storm guard.                                                        *)

(* A turn that counts has its start in the ring: the two lists are aligned *)
(* from the newest, whatever either has dropped from the front.            *)
Covered ==
  \A i \in 1..Len(turns) : turns[i] < StormWindow - GatewayWait =>
    /\ i + (Len(starts) - Len(turns)) >= 1
    /\ starts[i + (Len(starts) - Len(turns))] <= turns[i] + GatewayWait

OldestFirst == \A i, j \in 1..Len(turns) : i < j => turns[j] <= turns[i]

StormOK ==
  /\ pc \in {"idle", "gateway", "turn"} /\ stamp \in 0..GatewayWait
  /\ starts \in Seq(0..StormWindow) /\ Len(starts) <= StormMax
  /\ turns \in Seq(0..(StormWindow - 1))
  /\ pc = "gateway" => Len(starts) < StormMax
  /\ OldestFirst /\ Covered

LEMMA StormConstants ==
  /\ StormWindow \in Nat \ {0} /\ StormMax \in Nat \ {0} /\ GatewayWait \in Nat
  /\ GatewayWait <= StormWindow
BY WatchdogAssumption

(* With no start and no turn in memory nothing is to be covered.           *)
LEMMA ForgottenStorm ==
  ASSUME pc' = "idle", stamp' = 0, starts' = <<>>, turns' = <<>>
  PROVE  StormOK'
<1>1. Len(starts') = 0 /\ Len(turns') = 0
  OBVIOUS
<1> QED
  BY <1>1, StormConstants DEF StormOK, OldestFirst, Covered

(* Neither list moves, and nobody comes to wait for the gateway.           *)
LEMMA QuietStorm ==
  ASSUME StormOK, UNCHANGED <<starts, turns>>,
         pc' \in {"idle", "turn", pc}, stamp' \in {0, stamp}
  PROVE  StormOK'
BY StormConstants DEF StormOK, OldestFirst, Covered

(* Dropping what has left the window drops no start of a turn that counts. *)
LEMMA WindowKeepsStorm ==
  ASSUME StormOK, starts' = InWindow(starts), UNCHANGED turns,
         \/ pc' = pc /\ pc # "gateway" /\ stamp' = stamp
         \/ pc' = "gateway" /\ stamp' = 0 /\ Len(starts') < StormMax
  PROVE  StormOK'
<1> DEFINE d == Dropped(starts, StormWindow)
<1>1. /\ starts' \in Seq(0..StormWindow) /\ d \in 0..Len(starts)
      /\ Len(starts') = Len(starts) - d
      /\ \A i \in 1..Len(starts') : starts'[i] = starts[i + d]
      /\ \A i \in 1..Len(starts) : starts[i] < StormWindow => i > d
  <2>1. starts \in Seq(0..StormWindow) /\ StormWindow \in Nat /\ StormWindow \in Int
    BY StormConstants DEF StormOK
  <2>2. starts' = FromYoung(starts, StormWindow)
    BY DEF InWindow
  <2>3. /\ FromYoung(starts, StormWindow) \in Seq(0..StormWindow) /\ d \in 0..Len(starts)
        /\ \A i \in 1..Len(FromYoung(starts, StormWindow)) :
             FromYoung(starts, StormWindow)[i] = starts[i + d]
        /\ \A i \in 1..Len(starts) : starts[i] < StormWindow => i > d
    BY <2>1, FromYoungProperties, Zenon
  <2>4. Len(starts') = Len(starts) - d
    <3>1. Len(starts) \in Nat /\ Len(starts') \in Nat
      BY <2>1, <2>2, <2>3
    <3> QED
      BY <2>2, <3>1 DEF Dropped
  <2> QED
    BY <2>2, <2>3, <2>4, Zenon
<1>2. /\ Len(starts) \in Nat /\ Len(turns) \in Nat /\ Len(starts') \in Nat
      /\ Len(starts) <= StormMax
  BY <1>1 DEF StormOK
<1> HIDE DEF d
<1>3. ASSUME NEW i \in 1..Len(turns), turns[i] < StormWindow - GatewayWait
      PROVE  /\ i + (Len(starts') - Len(turns)) >= 1
             /\ starts'[i + (Len(starts') - Len(turns))] <= turns[i] + GatewayWait
  <2> DEFINE j == i + (Len(starts) - Len(turns))
  <2>1. j >= 1 /\ starts[j] <= turns[i] + GatewayWait
    BY <1>3 DEF StormOK, Covered
  <2>2. j \in 1..Len(starts)
    BY <1>2, <2>1
  <2>3. starts[j] \in 0..StormWindow /\ turns[i] \in 0..(StormWindow - 1)
    BY <2>2, ElementOfSeq DEF StormOK
  <2>4. starts[j] < StormWindow
    BY <1>3, <2>1, <2>3, StormConstants
  <2>5. j > d
    BY <1>1, <2>2, <2>4
  <2>6. i + (Len(starts') - Len(turns)) = j - d /\ j - d \in 1..Len(starts')
    BY <1>1, <1>2, <2>2, <2>5
  <2>7. starts'[j - d] = starts[j]
    <3>1. starts'[j - d] = starts[(j - d) + d]
      BY <1>1, <2>6
    <3>2. (j - d) + d = j
      BY <1>1, <2>2
    <3> QED
      BY <3>1, <3>2
  <2> QED
    BY <2>1, <2>6, <2>7
<1>4. Covered'
  BY <1>3 DEF Covered
<1>5. OldestFirst'
  BY DEF StormOK, OldestFirst
<1>6. Len(starts') <= StormMax
  BY <1>1, <1>2, StormConstants
<1>7. pc' \in {"idle", "gateway", "turn"} /\ stamp' \in 0..GatewayWait
  BY StormConstants DEF StormOK
<1> QED
  BY <1>1, <1>4, <1>5, <1>6, <1>7 DEF StormOK

(* A turn begins with its start.                                           *)
LEMMA BeginKeepsStorm ==
  ASSUME StormOK, pc = "gateway", pc' = "turn", stamp' = 0,
         starts' = Append(starts, stamp), turns' = Append(turns, 0)
  PROVE  StormOK'
<1>1. /\ starts' \in Seq(0..StormWindow) /\ Len(starts') = Len(starts) + 1
      /\ \A i \in 1..Len(starts) : starts'[i] = starts[i]
      /\ starts'[Len(starts) + 1] = stamp
  <2>1. stamp \in 0..StormWindow /\ starts \in Seq(0..StormWindow)
    BY StormConstants DEF StormOK
  <2> QED
    BY <2>1, AppendProperties
<1>2. /\ turns' \in Seq(0..(StormWindow - 1)) /\ Len(turns') = Len(turns) + 1
      /\ \A i \in 1..Len(turns) : turns'[i] = turns[i]
      /\ turns'[Len(turns) + 1] = 0
  <2>1. 0 \in 0..(StormWindow - 1) /\ turns \in Seq(0..(StormWindow - 1))
    BY StormConstants DEF StormOK
  <2> QED
    BY <2>1, AppendProperties
<1>3. Len(starts) \in Nat /\ Len(turns) \in Nat /\ Len(starts) < StormMax
  BY DEF StormOK
<1>4. Len(starts') <= StormMax
  BY <1>1, <1>3, StormConstants
<1>5. OldestFirst'
  <2> SUFFICES ASSUME NEW i \in 1..(Len(turns) + 1), NEW j \in 1..(Len(turns) + 1), i < j
               PROVE  turns'[j] <= turns'[i]
    BY <1>2 DEF OldestFirst
  <2>1. i \in 1..Len(turns)
    BY <1>3
  <2>2. turns'[i] = turns[i] /\ turns[i] \in 0..(StormWindow - 1)
    BY <1>2, <2>1, ElementOfSeq DEF StormOK
  <2>3. CASE j = Len(turns) + 1
    BY <1>2, <2>2, <2>3
  <2>4. CASE j \in 1..Len(turns)
    BY <1>2, <2>1, <2>2, <2>4 DEF StormOK, OldestFirst
  <2> QED
    BY <1>3, <2>3, <2>4
<1>6. Covered'
  <2>1. Len(starts') - Len(turns') = Len(starts) - Len(turns)
    BY <1>1, <1>2, <1>3
  <2> SUFFICES ASSUME NEW i \in 1..(Len(turns) + 1),
                      turns'[i] < StormWindow - GatewayWait
               PROVE  /\ i + (Len(starts) - Len(turns)) >= 1
                      /\ starts'[i + (Len(starts) - Len(turns))] <= turns'[i] + GatewayWait
    BY <1>2, <2>1 DEF Covered
  <2>2. CASE i = Len(turns) + 1
    <3>1. i + (Len(starts) - Len(turns)) = Len(starts) + 1
      BY <1>3, <2>2
    <3>2. starts'[Len(starts) + 1] = stamp /\ turns'[i] = 0
      BY <1>1, <1>2, <2>2
    <3> QED
      BY <1>3, <3>1, <3>2, StormConstants DEF StormOK
  <2>3. CASE i \in 1..Len(turns)
    <3> DEFINE j == i + (Len(starts) - Len(turns))
    <3>1. turns'[i] = turns[i]
      BY <1>2, <2>3
    <3>2. j >= 1 /\ starts[j] <= turns[i] + GatewayWait
      BY <2>3, <3>1 DEF StormOK, Covered
    <3>3. j \in 1..Len(starts)
      BY <1>3, <2>3, <3>2
    <3>4. starts'[j] = starts[j]
      BY <1>1, <3>3
    <3> QED
      BY <3>1, <3>2, <3>4
  <2>4. i = Len(turns) + 1 \/ i \in 1..Len(turns)
    BY <1>3
  <2> QED
    BY <2>2, <2>3, <2>4, Zenon
<1> QED
  BY <1>1, <1>2, <1>4, <1>5, <1>6, StormConstants DEF StormOK

(* Time passes for both lists alike, and a turn is forgotten only once it  *)
(* is too old to count.                                                    *)
LEMMA TickKeepsStorm ==
  ASSUME StormOK, Tick
  PROVE  StormOK'
<1> DEFINE y == Young(turns)
           d == Dropped(turns, StormWindow - 1)
<1>1. /\ pc' = pc /\ stamp' = (IF pc = "gateway" THEN stamp + 1 ELSE stamp)
      /\ pc = "gateway" => stamp < GatewayWait
      /\ starts' = [i \in DOMAIN starts |-> Least(starts[i] + 1, StormWindow)]
      /\ turns' = [i \in DOMAIN y |-> y[i] + 1]
  BY DEF Tick
<1>2. /\ y \in Seq(0..(StormWindow - 1)) /\ d \in 0..Len(turns)
      /\ Len(y) = Len(turns) - d
      /\ \A i \in 1..Len(y) : y[i] = turns[i + d]
      /\ y # <<>> => y[1] < StormWindow - 1
  <2>1. /\ turns \in Seq(0..(StormWindow - 1))
        /\ StormWindow - 1 \in Nat /\ StormWindow - 1 \in Int
    BY StormConstants DEF StormOK
  <2>2. y = FromYoung(turns, StormWindow - 1)
    BY DEF Young
  <2>3. /\ FromYoung(turns, StormWindow - 1) \in Seq(0..(StormWindow - 1)) /\ d \in 0..Len(turns)
        /\ \A i \in 1..Len(FromYoung(turns, StormWindow - 1)) :
             FromYoung(turns, StormWindow - 1)[i] = turns[i + d]
        /\ FromYoung(turns, StormWindow - 1) # <<>> =>
             FromYoung(turns, StormWindow - 1)[1] < StormWindow - 1
    BY <2>1, FromYoungProperties, Zenon
  <2> HIDE DEF y
  <2>4. Len(y) = Len(turns) - d
    <3>1. Len(turns) \in Nat /\ Len(y) \in Nat
      BY <2>1, <2>2, <2>3
    <3> QED
      BY <2>2, <3>1 DEF Dropped
  <2> QED
    BY <2>2, <2>3, <2>4, Zenon
<1>3. Len(starts) \in Nat /\ Len(turns) \in Nat /\ Len(y) \in Nat
  BY <1>2 DEF StormOK
<1> HIDE DEF y, d
<1>4. /\ starts' \in Seq(0..StormWindow) /\ Len(starts') = Len(starts)
      /\ \A i \in 1..Len(starts) : starts'[i] = Least(starts[i] + 1, StormWindow)
  <2>1. starts \in Seq(0..StormWindow)
    BY DEF StormOK
  <2>2. \A i \in 1..Len(starts) : starts[i] \in 0..StormWindow
    BY <2>1, ElementOfSeq
  <2>3. \A i \in 1..Len(starts) : Least(starts[i] + 1, StormWindow) \in 0..StormWindow
    BY <2>2, StormConstants DEF Least
  <2>4. DOMAIN starts = 1..Len(starts)
    BY <2>1
  <2> QED
    BY <1>1, <1>3, <2>3, <2>4
<1>5. \A i \in 1..Len(y) : y[i] < StormWindow - 1
  <2> SUFFICES ASSUME NEW i \in 1..Len(y)
               PROVE  y[i] < StormWindow - 1
    OBVIOUS
  <2>1. y # <<>> /\ 1 \in 1..Len(y)
    BY <1>2, <1>3
  <2>2. y[1] < StormWindow - 1 /\ y[i] \in 0..(StormWindow - 1)
    BY <1>2, <2>1, ElementOfSeq
  <2>3. i = 1 \/ y[i] <= y[1]
    <3>1. 1 + d \in 1..Len(turns) /\ i + d \in 1..Len(turns)
      BY <1>2, <1>3, <2>1
    <3>2. y[1] = turns[1 + d] /\ y[i] = turns[i + d]
      BY <1>2, <2>1
    <3>3. i # 1 => 1 + d < i + d
      BY <1>2
    <3> QED
      BY <3>1, <3>2, <3>3 DEF StormOK, OldestFirst
  <2> QED
    BY <1>2, <2>1, <2>2, <2>3, StormConstants, ElementOfSeq
<1>6. /\ turns' \in Seq(0..(StormWindow - 1)) /\ Len(turns') = Len(y)
      /\ \A i \in 1..Len(y) : turns'[i] = y[i] + 1
  <2>1. DOMAIN y = 1..Len(y)
    BY <1>2
  <2>2. \A i \in 1..Len(y) : y[i] \in 0..(StormWindow - 1)
    BY <1>2, ElementOfSeq
  <2>3. \A i \in 1..Len(y) : y[i] + 1 \in 0..(StormWindow - 1)
    BY <1>5, <2>2, StormConstants
  <2> QED
    BY <1>1, <1>3, <2>1, <2>3
<1>7. \A i \in 1..Len(y) : turns'[i] = turns[i + d] + 1 /\ turns[i + d] \in Nat
                           /\ i + d \in 1..Len(turns)
  <2> SUFFICES ASSUME NEW i \in 1..Len(y)
               PROVE  /\ turns'[i] = turns[i + d] + 1 /\ turns[i + d] \in Nat
                      /\ i + d \in 1..Len(turns)
    OBVIOUS
  <2>1. i + d \in 1..Len(turns)
    BY <1>2, <1>3
  <2>2. turns[i + d] \in 0..(StormWindow - 1)
    BY <2>1, ElementOfSeq DEF StormOK
  <2> QED
    BY <1>2, <1>6, <2>1, <2>2
<1>8. OldestFirst'
  <2> SUFFICES ASSUME NEW i \in 1..Len(y), NEW j \in 1..Len(y), i < j
               PROVE  turns'[j] <= turns'[i]
    BY <1>6 DEF OldestFirst
  <2>1. i + d < j + d
    BY <1>2
  <2>2. turns[j + d] <= turns[i + d]
    BY <1>7, <2>1 DEF StormOK, OldestFirst
  <2> QED
    BY <1>7, <2>2
<1>9. Covered'
  <2> SUFFICES ASSUME NEW i \in 1..Len(y), turns'[i] < StormWindow - GatewayWait
               PROVE  /\ i + (Len(starts') - Len(turns')) >= 1
                      /\ starts'[i + (Len(starts') - Len(turns'))] <= turns'[i] + GatewayWait
    BY <1>6 DEF Covered
  <2> DEFINE j == (i + d) + (Len(starts) - Len(turns))
  <2>1. /\ i + d \in 1..Len(turns) /\ turns'[i] = turns[i + d] + 1
        /\ turns[i + d] \in Nat
    BY <1>7
  <2>2. turns[i + d] < StormWindow - GatewayWait
    BY <2>1, StormConstants
  <2>3. j >= 1 /\ starts[j] <= turns[i + d] + GatewayWait
    BY <2>1, <2>2 DEF StormOK, Covered
  <2>4. i + (Len(starts') - Len(turns')) = j /\ j \in 1..Len(starts)
    BY <1>2, <1>3, <1>4, <1>6, <2>1, <2>3
  <2>5. starts'[j] = Least(starts[j] + 1, StormWindow) /\ starts[j] \in 0..StormWindow
    BY <1>4, <2>4, ElementOfSeq DEF StormOK
  <2>6. starts'[j] <= starts[j] + 1
    BY <2>5, StormConstants DEF Least
  <2>7. starts'[j] <= turns'[i] + GatewayWait
    <3>1. starts'[j] \in Int
      BY <2>5, StormConstants DEF Least
    <3> HIDE DEF j
    <3> QED
      BY <2>1, <2>3, <2>5, <2>6, <3>1, StormConstants
  <2> QED
    BY <2>3, <2>4, <2>7
<1>10. stamp' \in 0..GatewayWait
  BY <1>1, StormConstants DEF StormOK
<1>11. /\ pc' \in {"idle", "gateway", "turn"}
       /\ Len(starts') <= StormMax /\ (pc' = "gateway" => Len(starts') < StormMax)
  BY <1>1, <1>4 DEF StormOK
<1> QED
  BY <1>4, <1>6, <1>8, <1>9, <1>10, <1>11 DEF StormOK

LEMMA NextStorm ==
  ASSUME StormOK, [Next]_vars
  PROVE  StormOK'
<1>1. ASSUME NEW s \in Servers,
             GameExits(s) \/ Repaired(s) \/ Condemned(s) \/ Recreated(s) \/ Removed(s)
      PROVE  StormOK'
  BY <1>1, QuietStorm DEF GameExits, Repaired, Condemned, Recreated, Removed, Fresh,
     Elsewhere, responder
<1>2. ASSUME NEW m \in {"on", "shadow", "off"}, ModeSet(m)
      PROVE  StormOK'
  BY <1>2, QuietStorm DEF ModeSet, Elsewhere, responder
<1>3. ASSUME NEW s \in Servers, Sampler(s)
      PROVE  StormOK'
  <2>1. UNCHANGED responder
    BY <1>3 DEF Sampler, ObserveOff, Prune, Observe
  <2> QED
    BY <2>1, QuietStorm DEF responder
<1>4. CASE Tick
  BY <1>4, TickKeepsStorm
<1>5. CASE RecordOnly \/ LeftToBatch
  BY <1>5, QuietStorm DEF RecordOnly, LeftToBatch, SettleAtOnce, Receive
<1>6. CASE Suppressed
  <2>1. /\ starts' = InWindow(starts) /\ UNCHANGED turns
        /\ pc' = pc /\ pc # "gateway" /\ stamp' = stamp
    BY <1>6 DEF Suppressed, SettleAtOnce, Receive
  <2> QED
    BY <2>1, WindowKeepsStorm
<1>7. CASE Proceed
  BY <1>7, WindowKeepsStorm DEF Proceed, Receive
<1>8. CASE TurnBegins
  BY <1>8, BeginKeepsStorm DEF TurnBegins
<1>9. CASE Undeliverable \/ TurnEnds
  BY <1>9, QuietStorm DEF Undeliverable, TurnEnds, Idle
<1>10. CASE SamplerPanics
  BY <1>10, QuietStorm DEF SamplerPanics, responder
<1>11. CASE ResponderPanics \/ BotRestarts
  BY <1>11, ForgottenStorm DEF ResponderPanics, BotRestarts, Idle
<1>12. CASE UNCHANGED vars
  BY <1>12, QuietStorm DEF vars, responder
<1> QED
  BY <1>1, <1>2, <1>3, <1>4, <1>5, <1>6, <1>7, <1>8, <1>9, <1>10, <1>11, <1>12
     DEF Next, Responder

(* The ring of starts covers the turns that count, and never overflows     *)
(* (storm_suppressed and respond, through panics and deploys).             *)
THEOREM StormInvariant == Spec => []StormOK
<1>1. Init => StormOK
  <2> SUFFICES ASSUME Init
               PROVE  StormOK
    OBVIOUS
  <2>1. pc = "idle" /\ stamp = 0 /\ starts = <<>> /\ turns = <<>>
    BY DEF Init
  <2>2. Len(starts) = 0 /\ Len(turns) = 0
    BY <2>1
  <2> QED
    BY <2>1, <2>2, StormConstants DEF StormOK, OldestFirst, Covered
<1>2. StormOK /\ [Next]_vars => StormOK'
  BY NextStorm
<1> QED
  BY <1>1, <1>2, PTL DEF Spec

(* However incidents come, no more than StormMax turns begin within the    *)
(* window, less the wait for the gateway.                                  *)
THEOREM StormGuardAlways == Spec => []StormGuard
<1>1. StormOK => StormGuard
  <2> SUFFICES ASSUME StormOK
               PROVE  StormGuard
    OBVIOUS
  <2> DEFINE counted == {i \in DOMAIN turns : turns[i] < StormWindow - GatewayWait}
             first == Len(turns) - Len(starts) + 1
  <2>1. /\ Len(turns) \in Nat /\ Len(starts) \in Nat /\ Len(starts) <= StormMax
        /\ DOMAIN turns = 1..Len(turns)
    BY DEF StormOK
  <2>2. counted \in SUBSET (first..Len(turns))
    <3> SUFFICES ASSUME NEW i \in 1..Len(turns), turns[i] < StormWindow - GatewayWait
                 PROVE  i >= first
      BY <2>1
    <3>1. i + (Len(starts) - Len(turns)) >= 1
      BY DEF StormOK, Covered
    <3> QED
      BY <2>1, <3>1
  <2>3. /\ IsFiniteSet(first..Len(turns))
        /\ Cardinality(first..Len(turns)) <= Len(starts)
    <3>1. first \in Int /\ Len(turns) \in Int
      BY <2>1
    <3> HIDE DEF first
    <3>2. /\ IsFiniteSet(first..Len(turns))
          /\ Cardinality(first..Len(turns)) =
               IF first > Len(turns) THEN 0 ELSE Len(turns) - first + 1
      BY <3>1, FS_Interval
    <3> QED
      BY <2>1, <3>2 DEF first
  <2>4. IsFiniteSet(counted) /\ Cardinality(counted) <= Cardinality(first..Len(turns))
    BY <2>2, <2>3, FS_Subset
  <2>5. Cardinality(counted) \in Nat /\ Cardinality(first..Len(turns)) \in Nat
    BY <2>3, <2>4, FS_CardinalityType
  <2>6. Cardinality(counted) <= StormMax
    <3> HIDE DEF counted, first
    <3> QED
      BY <2>1, <2>3, <2>4, <2>5, StormConstants
  <2> QED
    BY <2>6 DEF StormGuard
<1> QED
  BY <1>1, StormInvariant, PTL

-----------------------------------------------------------------------------
(* Types.                                                                  *)

(* What the two invariants above leave of the types.                       *)
RestOK ==
  /\ life \in [Servers -> {"up", "wreck", "gone"}]
  /\ gaveUp \in [Servers -> BOOLEAN]
  /\ mode \in {"on", "shadow", "off"}
  /\ due \subseteq Servers
  /\ changes \in 0..MaxChanges
  /\ queue \in Seq(Incidents) /\ Len(queue) <= QueueDepth
  /\ hand \in Incidents \union {None}
  /\ seen \subseteq Servers /\ owed \subseteq Servers

(* The channel never holds more than its depth, whatever is forwarded.     *)
LEMMA ForwardedProperties ==
  ASSUME NEW q \in Seq(Incidents), NEW new \in Seq(Incidents)
  PROVE  Forwarded(q, new) \in Seq(Incidents) /\ Len(Forwarded(q, new)) <= QueueDepth
<1> DEFINE all == q \o new
<1>1. all \in Seq(Incidents) /\ Len(all) \in Nat /\ QueueDepth \in Nat \ {0}
  BY ConcatProperties, WatchdogAssumption
<1> HIDE DEF all
<1>2. CASE Len(all) <= QueueDepth
  BY <1>1, <1>2 DEF Forwarded, all
<1>3. CASE ~(Len(all) <= QueueDepth)
  <2>1. Forwarded(q, new) = SubSeq(all, 1, QueueDepth)
    BY <1>3 DEF Forwarded, all
  <2>2. \A i \in 1..QueueDepth : all[i] \in Incidents
    BY <1>1, <1>3
  <2>3. /\ SubSeq(all, 1, QueueDepth) \in Seq(Incidents)
        /\ Len(SubSeq(all, 1, QueueDepth)) = QueueDepth
    BY <1>1, <2>2, SubSeqProperties
  <2> QED
    BY <1>1, <2>1, <2>3
<1> QED
  BY <1>2, <1>3

LEMMA InOrderTyped ==
  ASSUME NEW s \in Servers, NEW kinds
  PROVE  InOrder(s, kinds) \in Seq(Incidents)
<1> DEFINE One(k) == IF k \in kinds THEN <<[server |-> s, kind |-> k]>> ELSE <<>>
<1>1. ASSUME NEW k \in Kinds
      PROVE  One(k) \in Seq(Incidents)
  <2>1. [server |-> s, kind |-> k] \in Incidents
    BY DEF Incidents
  <2> QED
    BY <2>1
<1>2. "crash" \in Kinds /\ "wedged" \in Kinds /\ "memory" \in Kinds
  BY DEF Kinds
<1>3. InOrder(s, kinds) = One("crash") \o One("wedged") \o One("memory")
  BY DEF InOrder
<1> HIDE DEF One
<1>4. One("crash") \o One("wedged") \in Seq(Incidents)
  BY <1>1, <1>2, ConcatProperties
<1>5. (One("crash") \o One("wedged")) \o One("memory") \in Seq(Incidents)
  BY <1>1, <1>2, <1>4, ConcatProperties
<1> QED
  BY <1>3, <1>5

LEMMA NextRest ==
  ASSUME RestOK, [Next]_vars
  PROVE  RestOK'
<1> USE WatchdogAssumption
<1>1. ASSUME NEW s \in Servers, GameExits(s) \/ Repaired(s)
      PROVE  RestOK'
  <2>1. PICK b \in BOOLEAN : gaveUp' = [gaveUp EXCEPT ![s] = b]
    BY <1>1 DEF GameExits, Repaired
  <2>2. /\ changes' \in 0..MaxChanges
        /\ UNCHANGED <<life, mode, due, queue, hand, seen, owed>>
    BY <1>1 DEF RestOK, GameExits, Repaired, Change, Elsewhere, responder
  <2> QED
    BY <2>1, <2>2 DEF RestOK
<1>2. ASSUME NEW s \in Servers, Condemned(s) \/ Recreated(s) \/ Removed(s)
      PROVE  RestOK'
  <2>1. PICK state \in {"up", "wreck", "gone"} : Fresh(s, state)
    BY <1>2 DEF Condemned, Recreated, Removed
  <2>2. owed' \subseteq Servers
    BY <1>2 DEF RestOK, Condemned, Recreated, Removed
  <2> QED
    BY <2>1, <2>2 DEF RestOK, Fresh, Change, Elsewhere, responder
<1>3. ASSUME NEW m \in {"on", "shadow", "off"}, ModeSet(m)
      PROVE  RestOK'
  BY <1>3 DEF RestOK, ModeSet, Change, Elsewhere, responder
<1>4. ASSUME NEW s \in Servers, ObserveOff(s) \/ Prune(s)
      PROVE  RestOK'
  BY <1>4 DEF RestOK, ObserveOff, Prune, world, servers, responder
<1>5. ASSUME NEW s \in Servers, NEW poll, NEW reading, Observe(s, poll, reading)
      PROVE  RestOK'
  <2>1. PICK fires : /\ queue' = Forwarded(queue, InOrder(s, fires))
                     /\ owed' \subseteq owed
    BY <1>5 DEF Observe
  <2>2. queue' \in Seq(Incidents) /\ Len(queue') <= QueueDepth
    BY <2>1, InOrderTyped, ForwardedProperties DEF RestOK
  <2>3. /\ due' = due \ {s} /\ seen' \subseteq seen \union {s}
        /\ UNCHANGED <<life, gaveUp, mode, changes, hand>>
    BY <1>5 DEF Observe, world, servers, responder
  <2> QED
    BY <2>1, <2>2, <2>3 DEF RestOK
<1>6. CASE Tick
  BY <1>6 DEF RestOK, Tick, world, servers
<1>7. CASE RecordOnly \/ LeftToBatch \/ Suppressed \/ Proceed
  <2>1. /\ queue # <<>> /\ queue' = Tail(queue) /\ owed' \subseteq owed
        /\ hand' \in {hand, Head(queue)}
        /\ UNCHANGED <<life, gaveUp, mode, changes, due, seen>>
    BY <1>7 DEF RecordOnly, LeftToBatch, Suppressed, Proceed, SettleAtOnce, Receive,
       Settled, world, servers
  <2>2. /\ Tail(queue) \in Seq(Incidents) /\ Len(Tail(queue)) = Len(queue) - 1
        /\ Head(queue) \in Incidents
    BY <2>1, HeadTailProperties DEF RestOK
  <2>3. Len(queue') <= QueueDepth
    BY <2>1, <2>2 DEF RestOK
  <2> QED
    BY <2>1, <2>2, <2>3 DEF RestOK
<1>8. CASE Undeliverable \/ TurnBegins \/ TurnEnds
  <2>1. /\ owed' \subseteq owed /\ hand' \in {hand, None}
        /\ UNCHANGED <<life, gaveUp, mode, changes, due, queue, seen>>
    BY <1>8 DEF Undeliverable, TurnBegins, TurnEnds, Settled, Idle, InTurn, world, servers
  <2> QED
    BY <2>1 DEF RestOK
<1>9. CASE SamplerPanics
  BY <1>9 DEF RestOK, SamplerPanics, Change, servers, responder
<1>10. CASE ResponderPanics
  <2>1. owed' \subseteq owed
    BY <1>10 DEF ResponderPanics, Settled
  <2> QED
    BY <1>10, <2>1 DEF RestOK, ResponderPanics, Change, Idle, servers
<1>11. CASE BotRestarts
  <2>1. queue' \in Seq(Incidents) /\ Len(queue') <= QueueDepth
    BY <1>11 DEF BotRestarts
  <2> QED
    BY <1>11, <2>1 DEF RestOK, BotRestarts, Change, Idle, servers
<1>12. CASE UNCHANGED vars
  BY <1>12 DEF RestOK, vars, world, servers, responder
<1> QED
  BY <1>1, <1>2, <1>3, <1>4, <1>5, <1>6, <1>7, <1>8, <1>9, <1>10, <1>11, <1>12
     DEF Next, Sampler, Responder

(* Type correctness of the watchdog: no counter, ring or channel outgrows  *)
(* its limit.                                                              *)
THEOREM TypeCorrect == Spec => []TypeOK
<1>1. Init => RestOK
  <2> SUFFICES ASSUME Init
               PROVE  RestOK
    OBVIOUS
  <2>1. /\ queue \in Seq(Incidents) /\ Len(queue) = 0 /\ 0 <= QueueDepth
        /\ 0 \in 0..MaxChanges
    BY WatchdogAssumption DEF Init
  <2>2. life \in [Servers -> {"up", "wreck", "gone"}]
    BY DEF Init
  <2> QED
    BY <2>1, <2>2 DEF Init, RestOK
<1>2. RestOK /\ [Next]_vars => RestOK'
  BY NextRest
<1>3. Spec => []RestOK
  BY <1>1, <1>2, PTL DEF Spec
<1>4. Inv /\ StormOK /\ RestOK => TypeOK
  <2> SUFFICES ASSUME Inv, StormOK, RestOK
               PROVE  TypeOK
    OBVIOUS
  <2>1. WorldOK
    BY DEF Inv, CountersOK, Count, RestOK, WorldOK
  <2>2. WatchOK /\ RingsOK
    BY DEF Inv, CountersOK, HonestAt, WatchType, WatchOK, RingsOK
  <2>3. ResponderOK
    BY DEF StormOK, RestOK, ResponderOK
  <2>4. HistoryOK
    BY DEF Inv, CountersOK, Count, StormOK, RestOK, HistoryOK
  <2> QED
    BY <2>1, <2>2, <2>3, <2>4 DEF TypeOK
<1> QED
  BY <1>3, <1>4, WatchdogInvariant, StormInvariant, PTL

=============================================================================
