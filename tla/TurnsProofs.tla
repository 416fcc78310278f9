----------------------------- MODULE TurnsProofs -----------------------------
(***************************************************************************)
(* For any number of turns, of rounds and of calls in a round, and for any *)
(* sizes that set off a trim: the channel's transcript stays one a         *)
(* provider accepts, every commit extends the one it replaces, a stop      *)
(* reads as a stop, and the newest turn can be stopped.                    *)
(***************************************************************************)
EXTENDS Turns, SequenceTheorems, WellFoundedInduction, TLAPS

-----------------------------------------------------------------------------
(* Least and greatest positions of a transcript.                           *)

(* A set of positions has a least one, and Min finds it.                   *)
LEMMA LeastPosition ==
    ASSUME NEW P \in SUBSET Nat, P # {}
    PROVE  Min(P) \in P /\ \A y \in P : Min(P) <= y
<1>1. PICK x \in P : \A y \in P : <<y, x>> \notin OpToRel(<, Nat)
  BY NatLessThanWellFounded, WFMin
<1>2. \A y \in P : x <= y
  <2> SUFFICES ASSUME NEW y \in P
               PROVE  x <= y
    OBVIOUS
  <2>1. ~(y < x)
    BY <1>1 DEF OpToRel
  <2> QED
    BY <2>1
<1> QED
  BY <1>2 DEF Min

(* A bounded one has a greatest, which Max finds.                          *)
LEMMA GreatestPosition ==
    ASSUME NEW n \in Nat, NEW P \in SUBSET (0..n), P # {}
    PROVE  Max(P) \in P /\ \A y \in P : Max(P) >= y
<1> DEFINE Q == {i \in 0..n : n - i \in P}
<1>1. Q \in SUBSET Nat /\ Q # {}
  <2>1. PICK y \in P : TRUE
    OBVIOUS
  <2>2. n - y \in 0..n /\ n - (n - y) = y
    OBVIOUS
  <2>3. n - y \in Q
    BY <2>2
  <2>4. Q \in SUBSET Nat
    OBVIOUS
  <2> HIDE DEF Q
  <2> QED
    BY <2>3, <2>4
<1>2. Min(Q) \in Q /\ \A i \in Q : Min(Q) <= i
  BY <1>1, LeastPosition
<1> HIDE DEF Q
<1>3. n - Min(Q) \in P
  BY <1>2 DEF Q
<1>4. \A y \in P : n - Min(Q) >= y
  <2> SUFFICES ASSUME NEW y \in P
               PROVE  n - Min(Q) >= y
    OBVIOUS
  <2>1. n - y \in Q
    BY DEF Q
  <2>2. Min(Q) <= n - y /\ Min(Q) \in 0..n
    BY <2>1, <1>2 DEF Q
  <2> QED
    BY <2>2
<1> QED
  BY <1>3, <1>4 DEF Max

-----------------------------------------------------------------------------
(* Trimming.                                                               *)

(* Where the target puts the cut: behind the system prompt, and never past *)
(* the newest message.                                                     *)
LEMMA TargetInside ==
    ASSUME NEW s \in Seq(Message), Len(s) >= 2, NEW measured
    PROVE  TargetStart(s, measured) \in 2..Len(s)
<1> DEFINE budget == (Size(s) * Target) \div measured - 1
           Fits == {i \in 2..Len(s) : BytesFrom(s, i) <= budget}
<1>1. Len(s) \in Nat
  OBVIOUS
<1>2. {Len(s)} \cup Fits \in SUBSET (2..Len(s)) /\ {Len(s)} \cup Fits # {}
  BY <1>1
<1> HIDE DEF Fits
<1>3. {Len(s)} \cup Fits \in SUBSET Nat
  BY <1>1, <1>2
<1>4. Min({Len(s)} \cup Fits) \in {Len(s)} \cup Fits
  BY <1>2, <1>3, LeastPosition
<1> QED
  BY <1>2, <1>4 DEF TargetStart, Fits

(* Where the cut comes to lie: at a message that is no result.             *)
LEMMA SettledInside ==
    ASSUME NEW s \in Seq(Message), Accepted(s), Len(s) >= 2,
           NEW from \in 2..Len(s)
    PROVE  /\ Settled(s, from) \in 2..Len(s)
           /\ s[Settled(s, from)].role # "result"
<1> DEFINE next == {i \in from..Len(s) : ~IsResult(s, i)}
           back == {i \in 2..from : ~IsResult(s, i)}
<1>1. Len(s) \in Nat /\ from \in Nat
  OBVIOUS
<1>2. CASE next # {}
  <2>1. next \in SUBSET Nat
    BY <1>1
  <2>2. Min(next) \in next
    BY <2>1, <1>2, LeastPosition
  <2>3. Settled(s, from) = Min(next)
    BY <1>2 DEF Settled
  <2> QED
    BY <2>2, <2>3, <1>1 DEF IsResult
<1>3. CASE next = {}
  <2>1. IsResult(s, from)
    BY <1>3, <1>1
  <2>2. PICK j \in 2..(from - 1) : s[j].role = "call"
    <3>1. s # <<>>
      BY <1>1
    <3> QED
      BY <2>1, <3>1, <1>1 DEF Accepted, IsResult
  <2>3. j \in back /\ back \in SUBSET (0..from)
    BY <2>2, <1>1 DEF IsResult
  <2>4. Max(back) \in back
    BY <2>3, <1>1, GreatestPosition
  <2>5. Settled(s, from) = Max(back)
    BY <1>3, <2>3 DEF Settled
  <2> QED
    BY <2>4, <2>5, <1>1 DEF IsResult
<1> QED
  BY <1>2, <1>3

-----------------------------------------------------------------------------
(* Transcripts.                                                            *)

(* A transcript that begins with another one.                              *)
Extends(s, u) == Len(s) <= Len(u) /\ \A i \in 1..Len(s) : u[i] = s[i]

LEMMA ExtendsIsPrefix ==
    ASSUME NEW s \in Seq(Message), NEW u \in Seq(Message), Extends(s, u)
    PROVE  IsPrefix(s, u)
<1>1. Len(s) \in Nat /\ Len(u) \in Nat
  OBVIOUS
<1>2. SubSeq(s, 1, Len(s)) = s
  BY SubSeqFull
<1>3. /\ SubSeq(u, 1, Len(s)) \in Seq(Message)
      /\ Len(SubSeq(u, 1, Len(s))) = Len(s)
      /\ \A i \in 1..Len(s) : SubSeq(u, 1, Len(s))[i] = u[i]
  <2>1. \A i \in 1..Len(s) : u[i] \in Message
    BY <1>1 DEF Extends
  <2> HIDE DEF Message
  <2> QED
    BY <1>1, <2>1, SubSeqProperties
<1>4. SubSeq(u, 1, Len(s)) = s
  BY <1>3, SeqEqual DEF Extends
<1> QED
  BY <1>1, <1>2, <1>4 DEF IsPrefix, Extends

(* What a turn says leaves what was there.                                 *)
LEMMA SaidExtends ==
    ASSUME NEW s \in Seq(Message), NEW u \in Seq(Message), Extends(s, u),
           NEW words \in Seq(Message)
    PROVE  Extends(s, u \o words)
<1>1. /\ Len(u \o words) = Len(u) + Len(words)
      /\ \A i \in 1..Len(u) : (u \o words)[i] = u[i]
  BY ConcatProperties
<1> QED
  BY <1>1 DEF Extends

(* Words that are no result may follow anything.                           *)
LEMMA WordAccepted ==
    ASSUME NEW s \in Seq(Message), Accepted(s), s # <<>>,
           NEW w \in Message, w.role \notin {"system", "result"}
    PROVE  /\ s \o <<w>> \in Seq(Message)
           /\ Len(s \o <<w>>) = Len(s) + 1
           /\ (s \o <<w>>)[Len(s) + 1] = w
           /\ Accepted(s \o <<w>>)
<1> DEFINE u == s \o <<w>>
<1>1. /\ Len(s) \in Nat /\ Len(s) >= 1 /\ u \in Seq(Message) /\ Len(u) = Len(s) + 1
      /\ u[Len(s) + 1] = w
      /\ \A i \in 1..Len(s) : u[i] = s[i]
  OBVIOUS
<1> HIDE DEF u
<1>2. u[1] = System
  BY <1>1 DEF Accepted
<1>3. ASSUME NEW i \in 2..Len(u)
      PROVE  /\ u[i].role # "system"
             /\ u[i].role = "result" =>
                   \E j \in 2..(i - 1) :
                       /\ u[j].role = "call" /\ u[j].turn = u[i].turn
                       /\ \A l \in (j + 1)..i : u[l].role = "result"
  <2>1. CASE i = Len(s) + 1
    BY <2>1, <1>1
  <2>2. CASE i \in 2..Len(s)
    <3>1. u[i] = s[i] /\ s[i].role # "system"
      BY <2>2, <1>1 DEF Accepted
    <3>2. ASSUME s[i].role = "result"
          PROVE  \E j \in 2..(i - 1) :
                       /\ u[j].role = "call" /\ u[j].turn = u[i].turn
                       /\ \A l \in (j + 1)..i : u[l].role = "result"
      <4>1. PICK j \in 2..(i - 1) :
               /\ s[j].role = "call" /\ s[j].turn = s[i].turn
               /\ \A l \in (j + 1)..i : s[l].role = "result"
        BY <2>2, <3>2 DEF Accepted
      <4>2. u[j] = s[j] /\ \A l \in (j + 1)..i : u[l] = s[l]
        BY <2>2, <1>1
      <4> QED
        BY <4>1, <4>2, <3>1
    <3> QED
      BY <3>1, <3>2
  <2> QED
    BY <2>1, <2>2, <1>1
<1> QED
  BY <1>1, <1>2, <1>3 DEF Accepted, u

(* Nor is a call that is answered by any number of its results.            *)
LEMMA ResultsAccepted ==
    ASSUME NEW s \in Seq(Message), Accepted(s), Len(s) >= 2,
           NEW t \in Turns, s[Len(s)].role = "call", s[Len(s)].turn = t,
           NEW n \in Nat
    PROVE  LET results == [i \in 1..n |-> Line(t, "result")]
           IN  /\ results \in Seq(Message)
               /\ s \o results \in Seq(Message)
               /\ Len(s \o results) = Len(s) + n
               /\ Accepted(s \o results)
<1> DEFINE results == [i \in 1..n |-> Line(t, "result")]
           u == s \o results
<1>1. Line(t, "result") \in Message
  BY TurnsAssumption DEF Line, Message, Turns, Roles
<1>2. results \in Seq(Message) /\ Len(results) = n
  BY <1>1
<1>3. \A i \in 1..n : results[i].role = "result" /\ results[i].turn = t
  BY DEF Line
<1> HIDE DEF results
<1>4. Len(s) \in Nat /\ u \in Seq(Message) /\ Len(u) = Len(s) + n
  <2>1. Len(s) \in Nat
    OBVIOUS
  <2> HIDE DEF Message
  <2> QED
    BY <2>1, <1>2, ConcatProperties
<1>5. \A i \in 1..(Len(s) + n) : u[i] = IF i <= Len(s) THEN s[i] ELSE results[i - Len(s)]
  <2> HIDE DEF Message
  <2> QED
    BY <1>2, ConcatProperties
<1> HIDE DEF u
<1>6. \A i \in 1..Len(s) : u[i] = s[i]
  BY <1>5, <1>4
<1>7. \A i \in (Len(s) + 1)..(Len(s) + n) : u[i].role = "result" /\ u[i].turn = t
  <2> SUFFICES ASSUME NEW i \in (Len(s) + 1)..(Len(s) + n)
               PROVE  u[i].role = "result" /\ u[i].turn = t
    OBVIOUS
  <2>1. i - Len(s) \in 1..n /\ u[i] = results[i - Len(s)]
    BY <1>4, <1>5
  <2> QED
    BY <2>1, <1>3
<1>8. u[1] = System
  <2>1. s # <<>>
    OBVIOUS
  <2> QED
    BY <2>1, <1>6 DEF Accepted
<1>9. ASSUME NEW i \in 2..Len(u)
      PROVE  /\ u[i].role # "system"
             /\ u[i].role = "result" =>
                   \E j \in 2..(i - 1) :
                       /\ u[j].role = "call" /\ u[j].turn = u[i].turn
                       /\ \A l \in (j + 1)..i : u[l].role = "result"
  <2>1. CASE i > Len(s)
    <3>1. Len(s) \in 2..(i - 1) /\ i \in (Len(s) + 1)..Len(u)
      BY <2>1, <1>4
    <3>2. u[Len(s)].role = "call" /\ u[Len(s)].turn = t /\ u[i].turn = t /\ u[i].role = "result"
      BY <3>1, <1>4, <1>7, <1>6
    <3>3. \A l \in (Len(s) + 1)..i : u[l].role = "result"
      BY <1>4, <1>7
    <3> QED
      BY <3>1, <3>2, <3>3
  <2>2. CASE i \in 2..Len(s)
    <3>1. u[i] = s[i] /\ s[i].role # "system"
      BY <2>2, <1>4, <1>6 DEF Accepted
    <3>2. ASSUME s[i].role = "result"
          PROVE  \E j \in 2..(i - 1) :
                       /\ u[j].role = "call" /\ u[j].turn = u[i].turn
                       /\ \A l \in (j + 1)..i : u[l].role = "result"
      <4>1. PICK j \in 2..(i - 1) :
               /\ s[j].role = "call" /\ s[j].turn = s[i].turn
               /\ \A l \in (j + 1)..i : s[l].role = "result"
        BY <2>2, <3>2 DEF Accepted
      <4>2. u[j] = s[j] /\ \A l \in (j + 1)..i : u[l] = s[l]
        BY <2>2, <1>4, <1>6
      <4> QED
        BY <4>1, <4>2, <3>1
    <3> QED
      BY <3>1, <3>2
  <2>3. i > Len(s) \/ i \in 2..Len(s)
    BY <1>4
  <2> QED
    BY <2>1, <2>2, <2>3
<1>10. Accepted(u)
  BY <1>8, <1>9 DEF Accepted
<1> QED
  BY <1>2, <1>4, <1>10 DEF results, u

(* A trim leaves no result without its call.                               *)
LEMMA TrimAccepted ==
    ASSUME NEW s \in Seq(Message), Accepted(s), Len(s) >= 2, NEW measured
    PROVE  Trim(s, measured) \in Seq(Message) /\ Accepted(Trim(s, measured))
<1>1. CASE measured <= Trigger
  BY <1>1 DEF Trim
<1>2. CASE ~(measured <= Trigger)
  <2> DEFINE cut == Settled(s, TargetStart(s, measured))
             rest == SubSeq(s, cut, Len(s))
             u == <<System>> \o rest
  <2>1. cut \in 2..Len(s) /\ s[cut].role # "result"
    BY TargetInside, SettledInside
  <2>2. Trim(s, measured) = u
    BY <1>2 DEF Trim
  <2> HIDE DEF cut
  <2>3. \A i \in cut..Len(s) : s[i] \in Message
    BY <2>1
  <2>4. /\ rest \in Seq(Message) /\ Len(rest) = Len(s) - cut + 1
        /\ \A i \in 1..(Len(s) - cut + 1) : rest[i] = s[cut + i - 1]
    <3> HIDE DEF Message
    <3> QED
      BY <2>1, <2>3, SubSeqProperties
  <2> HIDE DEF rest
  <2>5. System \in Message
    BY TurnsAssumption DEF System, Message, Roles
  <2>6. /\ u \in Seq(Message) /\ Len(u) = Len(s) - cut + 2 /\ u[1] = System
        /\ \A i \in 2..Len(u) : u[i] = s[cut + i - 2]
    <3>1. <<System>> \in Seq(Message) /\ Len(<<System>>) = 1 /\ <<System>>[1] = System
      BY <2>5
    <3>2. /\ u \in Seq(Message) /\ Len(u) = 1 + Len(rest)
          /\ \A i \in 1..(1 + Len(rest)) :
                u[i] = IF i <= 1 THEN <<System>>[i] ELSE rest[i - 1]
      BY <3>1, <2>4, ConcatProperties
    <3> HIDE DEF u
    <3>3. ASSUME NEW i \in 2..Len(u)
          PROVE  u[i] = s[cut + i - 2]
      <4>1. u[i] = rest[i - 1] /\ i - 1 \in 1..(Len(s) - cut + 1)
        BY <3>2, <2>4, <2>1
      <4>2. cut + (i - 1) - 1 = cut + i - 2
        BY <2>1
      <4> QED
        BY <4>1, <4>2, <2>4
    <3> QED
      BY <3>1, <3>2, <3>3, <2>4, <2>1
  <2> HIDE DEF u
  <2>7. ASSUME NEW i \in 2..Len(u)
        PROVE  /\ u[i].role # "system"
               /\ u[i].role = "result" =>
                     \E j \in 2..(i - 1) :
                         /\ u[j].role = "call" /\ u[j].turn = u[i].turn
                         /\ \A l \in (j + 1)..i : u[l].role = "result"
    <3> DEFINE k == cut + i - 2
    <3>1. k \in cut..Len(s) /\ k \in 2..Len(s) /\ u[i] = s[k]
      BY <2>1, <2>6
    <3>2. s[k].role # "system"
      BY <3>1 DEF Accepted
    <3>3. ASSUME s[k].role = "result"
          PROVE  \E j \in 2..(i - 1) :
                     /\ u[j].role = "call" /\ u[j].turn = u[i].turn
                     /\ \A l \in (j + 1)..i : u[l].role = "result"
      <4>1. PICK j \in 2..(k - 1) :
               /\ s[j].role = "call" /\ s[j].turn = s[k].turn
               /\ \A l \in (j + 1)..k : s[l].role = "result"
        BY <3>1, <3>3 DEF Accepted
      <4>2. j >= cut
        <5> SUFFICES ASSUME j < cut
                     PROVE  FALSE
          BY <2>1, <4>1
        <5>1. cut \in (j + 1)..k
          BY <2>1, <3>1, <4>1
        <5> QED
          BY <5>1, <4>1, <2>1
      <4> DEFINE m == j - cut + 2
      <4>3. m \in 2..(i - 1) /\ cut + m - 2 = j
        BY <4>1, <4>2, <2>1
      <4>4. u[m] = s[j]
        BY <4>3, <2>6
      <4>5. ASSUME NEW l \in (m + 1)..i
            PROVE  u[l].role = "result"
        <5>1. cut + l - 2 \in (j + 1)..k /\ l \in 2..Len(u)
          BY <4>3, <2>1, <4>1
        <5> QED
          BY <5>1, <2>6, <4>1
      <4> HIDE DEF m
      <4> QED
        BY <4>1, <4>3, <4>4, <4>5, <3>1
    <3> QED
      BY <3>1, <3>2, <3>3
  <2> QED
    BY <2>2, <2>6, <2>7 DEF Accepted
<1> QED
  BY <1>1, <1>2

(* What a turn checks out.                                                 *)
LEMMA CheckedOutAccepted ==
    ASSUME NEW s \in Seq(Message), Accepted(s), NEW t \in Turns
    PROVE  /\ CheckedOut(t, s) \in Seq(Message)
           /\ Accepted(CheckedOut(t, s))
           /\ Len(CheckedOut(t, s)) >= 2
           /\ Extends(s, CheckedOut(t, s))
<1> DEFINE base == IF s = <<>> THEN <<System>> ELSE s
           w == [role |-> "user", turn |-> t]
<1>1. System \in Message /\ w \in Message
  BY TurnsAssumption DEF System, Message, Roles, Turns
<1>2. base \in Seq(Message) /\ base # <<>>
  BY <1>1
<1>3. Len(<<System>>) = 1 /\ <<System>>[1] = System
  OBVIOUS
<1>4. Accepted(base)
  <2>1. CASE s = <<>>
    BY <2>1, <1>3 DEF Accepted
  <2> QED
    BY <2>1
<1>5. Extends(s, base)
  BY DEF Extends
<1>6. w.role \notin {"system", "result"}
  OBVIOUS
<1>7. CheckedOut(t, s) = base \o <<w>>
  BY DEF CheckedOut
<1> HIDE DEF base, w
<1>8. /\ base \o <<w>> \in Seq(Message) /\ Accepted(base \o <<w>>)
      /\ Len(base \o <<w>>) = Len(base) + 1
  BY <1>1, <1>2, <1>4, <1>6, WordAccepted
<1>9. Len(base) >= 1
  <2> HIDE DEF Message
  <2> QED
    BY <1>2, EmptySeq
<1>10. Extends(s, base \o <<w>>)
  <2>1. <<w>> \in Seq(Message)
    BY <1>1
  <2> QED
    BY <2>1, <1>2, <1>5, SaidExtends
<1> QED
  BY <1>2, <1>7, <1>8, <1>9, <1>10

-----------------------------------------------------------------------------
(* The inductive invariant.                                                *)

(* A turn queues once, only the first in the queue is at work, and a turn  *)
(* that keeps what is said is at work only as the first.                   *)
QueueOK ==
    /\ \A i, j \in 1..Len(lock) : lock[i] = lock[j] => i = j
    /\ \A i \in 1..Len(lock) : Keeps(lock[i])
    /\ \A i \in 2..Len(lock) : pc[lock[i]] = "queued"
    /\ \A t \in Turns : Keeps(t) /\ AtWork(t) => Held(t)
    /\ \A t \in Turns : t > begun => pc[t] = "new"

(* A turn's copy is one a provider accepts, begins with what the channel   *)
(* has, and ends in the call whose tools are at work.                      *)
CopyOK(t) ==
    /\ Accepted(msgs[t]) /\ Len(msgs[t]) >= 2
    /\ Extends(store, msgs[t])
    /\ pc[t] = "tools" =>
          msgs[t][Len(msgs[t])].role = "call" /\ msgs[t][Len(msgs[t])].turn = t

CopiesOK == \A t \in Turns : Keeps(t) /\ AtWork(t) => CopyOK(t)

Inv == TypeOK /\ QueueOK /\ CopiesOK /\ WellFormed /\ NewestIsStoppable

(* No two turns that keep what is said are at work at a time.              *)
LEMMA OneKeeper ==
    ASSUME Inv, NEW t \in Turns, NEW u \in Turns,
           Keeps(t), Held(t), Keeps(u), AtWork(u)
    PROVE  u = t
<1>1. Held(u)
  BY DEF Inv, QueueOK
<1> QED
  BY <1>1 DEF Held

(* The queue behind a turn that goes.                                      *)
LEMMA ReleaseQueue ==
    ASSUME Inv, NEW t \in Turns, Keeps(t) => Held(t), Release(t)
    PROVE  /\ lock' \in Seq(Turns)
           /\ \A i, j \in 1..Len(lock') : lock'[i] = lock'[j] => i = j
           /\ \A i \in 1..Len(lock') :
                 /\ lock'[i] \in Turns \ {t} /\ Keeps(lock'[i])
                 /\ pc[lock'[i]] = "queued" \/ AtWork(lock'[i])
           /\ \A i \in 2..Len(lock') : pc[lock'[i]] = "queued"
           /\ ~Keeps(t) => lock' = lock
<1>1. lock \in Seq(Turns) /\ Len(lock) \in Nat
  BY DEF Inv, TypeOK, DoorOK
<1>2. CASE Held(t)
  <2>1. lock # <<>> /\ lock[1] = t /\ 1 \in 1..Len(lock)
    BY <1>1, <1>2 DEF Held
  <2>2. Keeps(t)
    BY <2>1 DEF Inv, QueueOK
  <2>3. /\ lock' \in Seq(Turns) /\ Len(lock') = Len(lock) - 1
        /\ \A i \in 1..Len(lock') : lock'[i] = lock[i + 1]
    BY <1>1, <1>2, <2>1, HeadTailProperties DEF Release
  <2>4. \A i \in 1..Len(lock') :
           /\ i + 1 \in 2..Len(lock) /\ lock'[i] = lock[i + 1] /\ lock[i + 1] \in Turns
           /\ i + 1 # 1
    BY <1>1, <2>3
  <2>5. \A i \in 1..Len(lock') :
           /\ lock'[i] # t /\ lock'[i] \in Turns
           /\ Keeps(lock'[i]) /\ pc[lock'[i]] = "queued"
    BY <2>1, <2>4 DEF Inv, QueueOK
  <2>6. ASSUME NEW i \in 1..Len(lock'), NEW j \in 1..Len(lock'), lock'[i] = lock'[j]
        PROVE  i = j
    <3>1. i + 1 = j + 1
      BY <2>4, <2>6 DEF Inv, QueueOK
    <3> QED
      BY <3>1, <2>3, <1>1
  <2> QED
    BY <2>2, <2>3, <2>5, <2>6
<1>3. CASE ~Held(t)
  <2>1. lock' = lock /\ ~Keeps(t)
    BY <1>3 DEF Release
  <2>2. \A i \in 1..Len(lock) : lock[i] # t /\ lock[i] \in Turns
    BY <1>1, <2>1 DEF Inv, QueueOK
  <2> QED
    BY <1>1, <2>1, <2>2 DEF Inv, QueueOK, TypeOK, GuardsOK
<1> QED
  BY <1>2, <1>3

-----------------------------------------------------------------------------
(* Initially.                                                              *)

LEMMA InitInv == Init => Inv
<1> SUFFICES ASSUME Init
             PROVE  Inv
  OBVIOUS
<1>1. \A t \in Turns : ~AtWork(t)
  BY DEF Init, Running, AtWork
<1>2. DoorOK /\ LoopOK /\ FlagsOK /\ GuardsOK
  BY TurnsAssumption DEF Init, DoorOK, LoopOK, FlagsOK, GuardsOK, Kinds, NoTurn, Turns
<1>3. TalkOK
  BY TurnsAssumption DEF Init, TalkOK, NoTurn
<1>4. QueueOK /\ CopiesOK
  BY <1>1 DEF Init, QueueOK, CopiesOK
<1>5. WellFormed /\ NewestIsStoppable
  BY DEF Init, WellFormed, Accepted, NewestIsStoppable
<1> QED
  BY <1>2, <1>3, <1>4, <1>5 DEF Inv, TypeOK

-----------------------------------------------------------------------------
(* The door.                                                               *)

LEMMA ArrivesKeeps ==
    ASSUME Inv, NEW t \in Turns, NEW k \in Kinds, Arrives(t, k)
    PROVE  Inv'
<1>1. /\ begun \in 0..MaxTurns /\ kind \in [Turns -> Kinds] /\ lock \in Seq(Turns)
      /\ pc \in [Turns -> {"new", "queued", "model", "tools", "posting", "committing", "over"}]
      /\ t = begun + 1 /\ begun' = t
      /\ kind' = [kind EXCEPT ![t] = k] /\ pc' = [pc EXCEPT ![t] = "queued"]
      /\ lock' = IF k = "unattended" THEN lock ELSE Append(lock, t)
      /\ UNCHANGED <<round, msgs, ending, stopped, slot, latest, store>>
  BY DEF Inv, TypeOK, DoorOK, LoopOK, Arrives, loopVars
<1>2. pc[t] = "new" /\ t \in 1..MaxTurns /\ Len(lock) \in Nat
  BY <1>1 DEF Inv, QueueOK, Turns
<1>3. \A u \in Turns : u # t => pc'[u] = pc[u] /\ kind'[u] = kind[u]
  BY <1>1
<1>4. pc'[t] = "queued" /\ kind'[t] = k
  BY <1>1
<1>5. /\ \A u \in Turns : Running(u)' => u # t /\ Running(u)
      /\ \A u \in Turns : AtWork(u)' => u # t /\ AtWork(u) /\ (Keeps(u)' <=> Keeps(u))
  BY <1>3, <1>4 DEF Running, AtWork, Keeps
<1>6. \A i \in 1..Len(lock) : /\ lock[i] \in Turns /\ lock[i] # t /\ Keeps(lock[i])
                              /\ pc[lock[i]] = "queued" \/ AtWork(lock[i])
  BY <1>1, <1>2 DEF Inv, QueueOK, TypeOK, GuardsOK, Running, AtWork
<1>7. /\ lock' \in Seq(Turns) /\ Len(lock') >= Len(lock)
      /\ \A i \in 1..Len(lock) : lock'[i] = lock[i]
      /\ \A i \in 1..Len(lock') : i > Len(lock) => i = Len(lock) + 1 /\ lock'[i] = t /\ k # "unattended"
  <2>1. CASE k = "unattended"
    BY <2>1, <1>1
  <2>2. CASE k # "unattended"
    <3>1. lock' = Append(lock, t)
      BY <2>2, <1>1
    <3>2. /\ lock' \in Seq(Turns) /\ Len(lock') = Len(lock) + 1
          /\ \A i \in 1..Len(lock) : lock'[i] = lock[i]
          /\ lock'[Len(lock) + 1] = t
      BY <3>1, <1>1, AppendProperties
    <3> QED
      BY <3>2, <2>2, <1>2
  <2> QED
    BY <2>1, <2>2
<1>8. \A i \in 1..Len(lock') :
         \/ i \in 1..Len(lock) /\ lock'[i] = lock[i]
         \/ i = Len(lock) + 1 /\ lock'[i] = t /\ k # "unattended"
  BY <1>7, <1>2
<1>9. DoorOK' /\ LoopOK' /\ FlagsOK' /\ TalkOK'
  <2>1. DoorOK'
    BY <1>1, <1>2, <1>7 DEF DoorOK
  <2>2. LoopOK'
    BY <1>1 DEF Inv, TypeOK, LoopOK
  <2> QED
    BY <2>1, <2>2, <1>1 DEF Inv, TypeOK, FlagsOK, TalkOK
<1>10. GuardsOK'
  <2>1. \A i \in 1..Len(lock') : pc'[lock'[i]] = "queued" \/ AtWork(lock[i])'
    BY <1>3, <1>4, <1>6, <1>8 DEF Running, AtWork
  <2>2. slot' # NoTurn => Running(slot)'
    <3>1. slot # NoTurn => slot \in Turns /\ Running(slot) /\ slot # t
      BY <1>2 DEF Inv, TypeOK, TalkOK, GuardsOK, Running, AtWork, Turns, NoTurn
    <3> QED
      BY <3>1, <1>1, <1>3 DEF Running, AtWork
  <2> QED
    BY <2>1, <2>2 DEF GuardsOK
<1>11. QueueOK'
  <2>1. ASSUME NEW i \in 1..Len(lock'), NEW j \in 1..Len(lock'), lock'[i] = lock'[j]
        PROVE  i = j
    BY <2>1, <1>6, <1>8 DEF Inv, QueueOK
  <2>2. \A i \in 1..Len(lock') : Keeps(lock[i])'
    BY <1>3, <1>4, <1>6, <1>8 DEF Keeps
  <2>3. ASSUME NEW i \in 2..Len(lock')
        PROVE  pc'[lock'[i]] = "queued"
    <3>1. i \in 1..Len(lock')
      BY <1>7
    <3>2. i \in 1..Len(lock) => pc[lock[i]] = "queued" /\ lock[i] \in Turns /\ lock[i] # t
      BY <1>2, <1>6 DEF Inv, QueueOK
    <3> QED
      BY <3>1, <3>2, <1>3, <1>4, <1>8
  <2>4. ASSUME NEW u \in Turns, Keeps(u)', AtWork(u)'
        PROVE  Held(u)'
    <3>1. Held(u)
      BY <2>4, <1>5 DEF Inv, QueueOK
    <3>2. lock # <<>> /\ lock[1] = u /\ 1 \in 1..Len(lock)
      BY <3>1, <1>1, <1>2 DEF Held
    <3>3. lock'[1] = u /\ Len(lock') >= 1
      BY <3>2, <1>7, <1>2
    <3>4. lock' # <<>> /\ Head(lock') = lock'[1]
      BY <3>3, <1>7
    <3> QED
      BY <3>3, <3>4 DEF Held
  <2>5. \A u \in Turns : u > begun' => pc'[u] = "new"
    BY <1>1, <1>3 DEF Inv, QueueOK, Turns
  <2> QED
    BY <2>1, <2>2, <2>3, <2>4, <2>5 DEF QueueOK
<1>12. CopiesOK'
  BY <1>1, <1>3, <1>5 DEF Inv, CopiesOK, CopyOK
<1>13. WellFormed' /\ NewestIsStoppable'
  <2>1. latest \in 0..MaxTurns
    BY DEF Inv, TypeOK, TalkOK
  <2>2. latest # NoTurn => latest \in Turns
    BY <2>1 DEF Turns, NoTurn
  <2> QED
    BY <2>2, <1>1, <1>5 DEF Inv, WellFormed, NewestIsStoppable
<1> QED
  BY <1>9, <1>10, <1>11, <1>12, <1>13 DEF Inv, TypeOK

(* What the properties of the newest turn and of the slot need of a step   *)
(* that makes no turn begin to work: at most t ends, and takes its own     *)
(* registration along.                                                     *)
LEMMA NoneBegins ==
    ASSUME Inv, NEW t \in Turns,
           \A u \in Turns : Running(u)' => Running(u),
           \A u \in Turns : u # t /\ Running(u) => Running(u)',
           \/ slot' = slot /\ (Running(t) => Running(t)')
           \/ Deregister(t) /\ ~Running(t)',
           latest' = latest
    PROVE  /\ slot' \in 0..MaxTurns /\ latest' \in 0..MaxTurns
           /\ slot' # NoTurn => Running(slot)' 
           /\ NewestIsStoppable'
<1>1. slot \in 0..MaxTurns /\ latest \in 0..MaxTurns
  BY DEF Inv, TypeOK, TalkOK
<1>2. /\ slot # NoTurn => slot \in Turns /\ Running(slot)
      /\ latest # NoTurn => latest \in Turns
  BY <1>1 DEF Inv, TypeOK, GuardsOK, Turns, NoTurn
<1>3. slot' \in {slot, NoTurn} /\ (slot' = NoTurn => slot \in {t, NoTurn})
  BY DEF Deregister
<1>4. slot' \in 0..MaxTurns
  BY <1>1, <1>3, TurnsAssumption DEF NoTurn
<1>5. ASSUME slot' # NoTurn
      PROVE  Running(slot)'
  <2>1. slot' = slot /\ slot \in Turns /\ Running(slot)
    BY <1>2, <1>3, <1>5
  <2>2. slot = t => Running(t)'
    BY <2>1, <1>5 DEF Deregister
  <2>3. \A u \in Turns : u = slot' => Running(u)'
    BY <2>1, <2>2
  <2> QED
    BY <2>1, <2>3 DEF Running, AtWork
<1>6. NewestIsStoppable'
  <2> SUFFICES ASSUME latest # NoTurn, pc'[latest] \in {"model", "tools", "posting"}
               PROVE  slot' = latest
    BY DEF NewestIsStoppable, Running, AtWork
  <2>1. latest \in Turns /\ Running(latest)'
    BY <1>2 DEF Running, AtWork
  <2>2. slot = latest
    BY <2>1 DEF Inv, NewestIsStoppable
  <2>3. latest = t => slot' = slot
    BY <2>1
  <2> QED
    BY <2>2, <2>3, <1>3
<1> QED
  BY <1>1, <1>4, <1>5, <1>6

(* A turn that leaves the channel as it is, or replaces its transcript and *)
(* is the only one that keeps what is said: what Busy, Fails and Committed *)
(* have in common.                                                         *)
LEMMA LeavesKeeps ==
    ASSUME Inv, NEW t \in Turns, pc[t] = "queued" \/ AtWork(t),
           pc' = [pc EXCEPT ![t] = "over"], Release(t), Keeps(t) => Held(t),
           UNCHANGED <<begun, kind, latest>>,
           stopped' \in [Turns -> BOOLEAN], round' \in [Turns -> 0..MaxRounds],
           ending' \in [Turns -> {"none", "answered", "handed", "spent", "cancelled"}],
           msgs' \in [Turns -> Seq(Message)],
           \A u \in Turns : u # t => msgs'[u] = msgs[u],
           \/ slot' = slot /\ pc[t] = "queued"
           \/ Deregister(t),
           store' \in Seq(Message), Accepted(store'), Keeps(t) \/ store' = store
    PROVE  Inv'
<1>1. /\ begun \in 0..MaxTurns /\ kind \in [Turns -> Kinds] /\ lock \in Seq(Turns)
      /\ pc \in [Turns -> {"new", "queued", "model", "tools", "posting", "committing", "over"}]
  BY DEF Inv, TypeOK, DoorOK, LoopOK
<1>2. /\ pc'[t] = "over" /\ \A u \in Turns : u # t => pc'[u] = pc[u]
      /\ ~Running(t)' /\ ~AtWork(t)' /\ (pc[t] = "queued" => ~Running(t))
      /\ \A u \in Turns : Running(u)' => u # t /\ Running(u)
      /\ \A u \in Turns : AtWork(u)' => u # t /\ AtWork(u)
      /\ \A u \in Turns : u # t /\ Running(u) => Running(u)'
      /\ \A u \in Turns : Keeps(u)' <=> Keeps(u)
  BY <1>1 DEF Running, AtWork, Keeps
<1>3. /\ lock' \in Seq(Turns)
      /\ \A i, j \in 1..Len(lock') : lock'[i] = lock'[j] => i = j
      /\ \A i \in 1..Len(lock') :
            /\ lock'[i] \in Turns \ {t} /\ Keeps(lock'[i])
            /\ pc[lock'[i]] = "queued" \/ AtWork(lock'[i])
      /\ \A i \in 2..Len(lock') : pc[lock'[i]] = "queued"
      /\ ~Keeps(t) => lock' = lock
  BY ReleaseQueue
<1>4. DoorOK' /\ LoopOK' /\ FlagsOK'
  BY <1>1, <1>3 DEF DoorOK, LoopOK, FlagsOK
<1>5. /\ slot' \in 0..MaxTurns /\ latest' \in 0..MaxTurns
      /\ slot' # NoTurn => Running(slot)' 
      /\ NewestIsStoppable'
  BY <1>2, NoneBegins
<1>6. TalkOK'
  BY <1>5 DEF TalkOK
<1>7. GuardsOK'
  <2>1. \A i \in 1..Len(lock') : pc'[lock'[i]] = "queued" \/ AtWork(lock[i])'
    BY <1>2, <1>3 DEF Running, AtWork
  <2> QED
    BY <2>1, <1>5 DEF GuardsOK
<1>8. ASSUME NEW u \in Turns, Keeps(u)', AtWork(u)'
      PROVE  /\ u # t /\ Keeps(u) /\ AtWork(u) /\ Held(u)
             /\ lock' = lock /\ store' = store
  <2>1. u # t /\ Keeps(u) /\ AtWork(u)
    BY <1>2, <1>8
  <2>2. ~Keeps(t)
    BY <2>1, OneKeeper
  <2>3. Held(u)
    BY <2>1 DEF Inv, QueueOK
  <2> QED
    BY <2>1, <2>2, <2>3, <1>3
<1>9. QueueOK'
  <2>1. \A i \in 1..Len(lock') : Keeps(lock[i])'
    BY <1>2, <1>3 DEF Keeps
  <2>2. \A i \in 2..Len(lock') : pc'[lock'[i]] = "queued"
    <3>1. \A i \in 2..Len(lock') : i \in 1..Len(lock')
      BY <1>3
    <3> QED
      BY <3>1, <1>2, <1>3
  <2>3. \A u \in Turns : Keeps(u)' /\ AtWork(u)' => Held(u)'
    BY <1>8 DEF Held
  <2>4. pc[t] # "new"
    BY DEF Running, AtWork
  <2>5. \A u \in Turns : u > begun' => pc'[u] = "new"
    BY <2>4, <1>2 DEF Inv, QueueOK
  <2> QED
    BY <1>3, <2>1, <2>2, <2>3, <2>5 DEF QueueOK
<1>10. CopiesOK'
  <2> SUFFICES ASSUME NEW u \in Turns, Keeps(u)', AtWork(u)'
               PROVE  CopyOK(u)'
    BY DEF CopiesOK
  <2>1. u # t /\ CopyOK(u) /\ store' = store /\ msgs'[u] = msgs[u] /\ pc'[u] = pc[u]
    BY <1>2, <1>8 DEF Inv, CopiesOK
  <2> QED
    BY <2>1 DEF CopyOK
<1>11. WellFormed'
  BY DEF WellFormed
<1> QED
  BY <1>4, <1>5, <1>6, <1>7, <1>9, <1>10, <1>11 DEF Inv, TypeOK

LEMMA BusyKeeps ==
    ASSUME Inv, NEW t \in Turns, Busy(t)
    PROVE  Inv'
<1>1. /\ pc[t] = "queued" /\ Held(t) /\ pc' = [pc EXCEPT ![t] = "over"] /\ Release(t)
      /\ UNCHANGED <<begun, kind, latest, stopped, round, ending, msgs, slot, store>>
      /\ Keeps(t)
  BY DEF Busy, loopVars, Keeps
<1>2. /\ stopped' \in [Turns -> BOOLEAN] /\ round' \in [Turns -> 0..MaxRounds]
      /\ ending' \in [Turns -> {"none", "answered", "handed", "spent", "cancelled"}]
      /\ msgs' \in [Turns -> Seq(Message)]
      /\ store' \in Seq(Message) /\ Accepted(store')
  BY <1>1 DEF Inv, TypeOK, FlagsOK, LoopOK, TalkOK, WellFormed
<1> QED
  BY <1>1, <1>2, LeavesKeeps

(* What Fails and Committed have in common.                                *)
LEMMA GoneKeeps ==
    ASSUME Inv, NEW t \in Turns, AtWork(t), Gone(t),
           store' \in Seq(Message), Accepted(store'), Keeps(t) \/ store' = store
    PROVE  Inv'
<1>1. /\ pc' = [pc EXCEPT ![t] = "over"] /\ Release(t) /\ Deregister(t)
      /\ UNCHANGED <<begun, kind, latest>>
  BY DEF Gone
<1>2. Keeps(t) => Held(t)
  BY DEF Inv, QueueOK
<1>3. stopped' \in [Turns -> BOOLEAN] /\ round' \in [Turns -> 0..MaxRounds]
  BY TurnsAssumption DEF Gone, Inv, TypeOK, FlagsOK, LoopOK
<1>4. ending' \in [Turns -> {"none", "answered", "handed", "spent", "cancelled"}]
  BY DEF Gone, Inv, TypeOK, LoopOK
<1>5. msgs' \in [Turns -> Seq(Message)] /\ \A u \in Turns : u # t => msgs'[u] = msgs[u]
  <2>1. msgs \in [Turns -> Seq(Message)] /\ <<>> \in Seq(Message)
    BY DEF Inv, TypeOK, TalkOK
  <2> QED
    BY <2>1 DEF Gone
<1> QED
  BY <1>1, <1>2, <1>3, <1>4, <1>5, LeavesKeeps

LEMMA FailsKeeps ==
    ASSUME Inv, NEW t \in Turns, Fails(t)
    PROVE  Inv'
<1>1. AtWork(t) /\ Gone(t) /\ store' = store
  BY DEF Fails, Running, AtWork
<1>2. store' \in Seq(Message) /\ Accepted(store')
  BY <1>1 DEF Inv, TypeOK, TalkOK, WellFormed
<1> QED
  BY <1>1, <1>2, GoneKeeps

LEMMA CommittedKeeps ==
    ASSUME Inv, NEW t \in Turns, Committed(t)
    PROVE  Inv'
<1>1. AtWork(t) /\ Gone(t)
  BY DEF Committed, AtWork
<1>2. CASE Keeps(t)
  <2>1. store' = Trim(msgs[t], Measured(t))
    BY <1>2 DEF Committed
  <2>2. msgs[t] \in Seq(Message) /\ Accepted(msgs[t]) /\ Len(msgs[t]) >= 2
    BY <1>1, <1>2 DEF Inv, TypeOK, TalkOK, CopiesOK, CopyOK
  <2>3. store' \in Seq(Message) /\ Accepted(store')
    BY <2>1, <2>2, TrimAccepted
  <2> QED
    BY <1>1, <1>2, <2>3, GoneKeeps
<1>3. CASE ~Keeps(t)
  <2>1. store' = store
    BY <1>3 DEF Committed
  <2>2. store' \in Seq(Message) /\ Accepted(store')
    BY <2>1 DEF Inv, TypeOK, TalkOK, WellFormed
  <2> QED
    BY <1>1, <2>1, <2>2, GoneKeeps
<1> QED
  BY <1>2, <1>3

(* A turn that only goes to its commit keeps its place and its copy.       *)
LEMMA PostedKeeps ==
    ASSUME Inv, NEW t \in Turns, Posted(t)
    PROVE  Inv'
<1>1. /\ pc[t] = "posting" /\ pc' = [pc EXCEPT ![t] = "committing"]
      /\ stopped' = [stopped EXCEPT ![t] = FALSE] /\ Deregister(t)
      /\ UNCHANGED <<begun, kind, round, msgs, ending, lock, latest, store>>
  BY DEF Posted, loopVars
<1>2. /\ pc \in [Turns -> {"new", "queued", "model", "tools", "posting", "committing", "over"}]
      /\ lock \in Seq(Turns)
  BY DEF Inv, TypeOK, LoopOK, DoorOK
<1>3. /\ pc'[t] = "committing" /\ ~Running(t)' /\ AtWork(t)' /\ AtWork(t)
      /\ \A u \in Turns : u # t => pc'[u] = pc[u]
      /\ \A u \in Turns : Running(u)' => Running(u)
      /\ \A u \in Turns : u # t /\ Running(u) => Running(u)'
      /\ \A u \in Turns : AtWork(u)' <=> AtWork(u)
      /\ \A u \in Turns : Keeps(u)' <=> Keeps(u)
      /\ \A u \in Turns : pc[u] = "queued" => pc'[u] = "queued"
      /\ \A u \in Turns : pc[u] = "new" => pc'[u] = "new"
  BY <1>1, <1>2 DEF Running, AtWork, Keeps
<1>4. /\ slot' \in 0..MaxTurns /\ latest' \in 0..MaxTurns
      /\ slot' # NoTurn => Running(slot)'
      /\ NewestIsStoppable'
  BY <1>1, <1>3, NoneBegins
<1>5. DoorOK' /\ LoopOK' /\ FlagsOK' /\ TalkOK'
  BY <1>1, <1>2, <1>4 DEF Inv, TypeOK, DoorOK, LoopOK, FlagsOK, TalkOK
<1>6. \A i \in 1..Len(lock) : lock[i] \in Turns
  BY <1>2
<1>7. GuardsOK'
  <2>1. \A i \in 1..Len(lock) : pc'[lock[i]] = "queued" \/ AtWork(lock[i])'
    BY <1>1, <1>3, <1>6 DEF Inv, TypeOK, GuardsOK, AtWork, Running
  <2> QED
    BY <2>1, <1>1, <1>4 DEF GuardsOK
<1>8. QueueOK'
  <2>1. \A i \in 2..Len(lock) : pc'[lock[i]] = "queued"
    <3>1. \A i \in 2..Len(lock) : i \in 1..Len(lock)
      BY <1>2
    <3> QED
      BY <3>1, <1>3, <1>6 DEF Inv, QueueOK
  <2>2. \A i \in 1..Len(lock) : Keeps(lock[i])'
    BY <1>1, <1>3, <1>6 DEF Inv, QueueOK, Keeps
  <2>3. \A u \in Turns : Keeps(u)' /\ AtWork(u)' => Held(u)'
    BY <1>1, <1>3 DEF Inv, QueueOK, Held
  <2>4. \A u \in Turns : u > begun' => pc'[u] = "new"
    BY <1>1, <1>3 DEF Inv, QueueOK
  <2> QED
    BY <2>1, <2>2, <2>3, <2>4, <1>1 DEF Inv, QueueOK
<1>9. CopiesOK'
  BY <1>1, <1>3 DEF Inv, CopiesOK, CopyOK
<1>10. WellFormed'
  BY <1>1 DEF Inv, WellFormed
<1> QED
  BY <1>4, <1>5, <1>7, <1>8, <1>9, <1>10 DEF Inv, TypeOK

-----------------------------------------------------------------------------
(* Beginning to work.                                                      *)

(* What the three kinds of turn have in common.                            *)
LEMMA StartsKeeps ==
    ASSUME Inv, NEW t \in Turns, pc[t] = "queued", Keeps(t) => Held(t),
           NEW transcript \in Seq(Message), Starts(t, transcript),
           store' \in Seq(Message), Accepted(store'),
           Keeps(t) \/ store' = store,
           Keeps(t) => /\ Accepted(transcript) /\ Len(transcript) >= 2
                       /\ Extends(store', transcript)
    PROVE  Inv'
<1>1. /\ pc' = [pc EXCEPT ![t] = "model"] /\ round' = [round EXCEPT ![t] = 1]
      /\ msgs' = [msgs EXCEPT ![t] = transcript]
      /\ slot' = t /\ latest' = t
      /\ UNCHANGED <<begun, kind, stopped, ending, lock>>
  BY DEF Starts, Register
<1>2. /\ pc \in [Turns -> {"new", "queued", "model", "tools", "posting", "committing", "over"}]
      /\ msgs \in [Turns -> Seq(Message)] /\ round \in [Turns -> 0..MaxRounds]
      /\ lock \in Seq(Turns)
  BY DEF Inv, TypeOK, LoopOK, TalkOK, DoorOK
<1>3. /\ pc'[t] = "model" /\ msgs'[t] = transcript /\ Running(t)' /\ AtWork(t)'
      /\ \A u \in Turns : u # t => pc'[u] = pc[u] /\ msgs'[u] = msgs[u]
      /\ \A u \in Turns : u # t => (Running(u)' <=> Running(u))
      /\ \A u \in Turns : u # t => (AtWork(u)' <=> AtWork(u))
      /\ \A u \in Turns : Keeps(u)' <=> Keeps(u)
  BY <1>1, <1>2 DEF Running, AtWork, Keeps
<1>4. \A i \in 1..Len(lock) : lock[i] \in Turns /\ Keeps(lock[i])
  BY <1>2 DEF Inv, QueueOK
<1>5. \A i \in 2..Len(lock) : lock[i] # t
  <2> SUFFICES ASSUME NEW i \in 2..Len(lock), lock[i] = t
               PROVE  FALSE
    OBVIOUS
  <2>1. i \in 1..Len(lock) /\ 1 \in 1..Len(lock) /\ i # 1
    BY <1>2
  <2>2. lock[1] = t
    BY <2>1, <1>4, <1>2 DEF Held
  <2> QED
    BY <2>1, <2>2 DEF Inv, QueueOK
<1>6. DoorOK' /\ FlagsOK'
  BY <1>1 DEF Inv, TypeOK, DoorOK, FlagsOK
<1>7. LoopOK'
  <2>1. 1 \in 0..MaxRounds
    BY TurnsAssumption
  <2> QED
    BY <2>1, <1>1, <1>2 DEF Inv, TypeOK, LoopOK
<1>8. TalkOK'
  <2>1. t \in 0..MaxTurns
    BY TurnsAssumption DEF Turns
  <2> QED
    BY <2>1, <1>1, <1>2 DEF TalkOK
<1>9. GuardsOK'
  <2>1. \A i \in 1..Len(lock) : pc'[lock[i]] = "queued" \/ AtWork(lock[i])'
    BY <1>1, <1>3, <1>4 DEF Inv, TypeOK, GuardsOK, Running, AtWork
  <2>2. Running(slot)'
    BY <1>1, <1>3 DEF Running, AtWork
  <2> QED
    BY <2>1, <2>2, <1>1 DEF GuardsOK
<1>10. QueueOK'
  <2>1. \A i \in 2..Len(lock) : pc'[lock[i]] = "queued"
    <3>1. \A i \in 2..Len(lock) : i \in 1..Len(lock)
      BY <1>2
    <3> QED
      BY <3>1, <1>3, <1>4, <1>5 DEF Inv, QueueOK
  <2>2. \A u \in Turns : Keeps(u)' /\ AtWork(u)' => Held(u)'
    BY <1>1, <1>3 DEF Inv, QueueOK, Held
  <2>3. \A u \in Turns : u > begun' => pc'[u] = "new"
    BY <1>1, <1>3 DEF Inv, QueueOK
  <2>4. \A i \in 1..Len(lock) : Keeps(lock[i])'
    BY <1>1, <1>3, <1>4 DEF Keeps
  <2> QED
    BY <2>1, <2>2, <2>3, <2>4, <1>1 DEF Inv, QueueOK
<1>11. CopiesOK'
  <2> SUFFICES ASSUME NEW u \in Turns, Keeps(u)', AtWork(u)'
               PROVE  CopyOK(u)'
    BY DEF CopiesOK
  <2>1. CASE u = t
    BY <2>1, <1>3 DEF CopyOK
  <2>2. CASE u # t
    <3>1. Keeps(u) /\ AtWork(u) /\ CopyOK(u)
      BY <2>2, <1>3 DEF Inv, CopiesOK
    <3>2. store' = store
      BY <3>1, <2>2, OneKeeper
    <3> QED
      BY <3>1, <3>2, <2>2, <1>3 DEF CopyOK
  <2> QED
    BY <2>1, <2>2
<1>12. WellFormed' /\ NewestIsStoppable'
  BY <1>1 DEF WellFormed, NewestIsStoppable
<1> QED
  BY <1>6, <1>7, <1>8, <1>9, <1>10, <1>11, <1>12 DEF Inv, TypeOK

LEMMA BeginKeeps ==
    ASSUME Inv, NEW t \in Turns, Begin(t)
    PROVE  Inv'
<1>1. /\ pc[t] = "queued" /\ (Keeps(t) => Held(t))
      /\ store \in Seq(Message) /\ Accepted(store)
  BY DEF Begin, HasTurn, Keeps, Inv, TypeOK, TalkOK, WellFormed
<1>2. CASE kind[t] = "message" /\ Starts(t, CheckedOut(t, store)) /\ UNCHANGED store
  BY <1>1, <1>2, CheckedOutAccepted, StartsKeeps DEF Keeps
<1>3. ASSUME kind[t] = "operator", NEW kept \in {store, <<>>},
             store' = kept, Starts(t, CheckedOut(t, kept))
      PROVE  Inv'
  <2>1. kept \in Seq(Message) /\ Accepted(kept)
    <3>1. Accepted(<<>>) /\ <<>> \in Seq(Message)
      BY DEF Accepted
    <3>2. CASE kept = store
      BY <1>1, <3>2
    <3>3. CASE kept = <<>>
      BY <3>1, <3>3
    <3> QED
      BY <3>2, <3>3
  <2> QED
    BY <1>1, <1>3, <2>1, CheckedOutAccepted, StartsKeeps DEF Keeps
<1>4. CASE kind[t] = "unattended" /\ Starts(t, <<>>) /\ UNCHANGED store
  <2>1. <<>> \in Seq(Message) /\ ~Keeps(t)
    BY <1>4 DEF Keeps
  <2> QED
    BY <1>1, <1>4, <2>1, StartsKeeps
<1> QED
  BY <1>2, <1>3, <1>4 DEF Begin

-----------------------------------------------------------------------------
(* The loop.                                                               *)

(* What a turn may say next, and where it may go with it.                  *)
Speaks(t, words, p) ==
    /\ words \in Seq(Message)
    /\ Keeps(t) =>
          /\ Accepted(msgs[t] \o words)
          /\ p = "tools" => LET u == msgs[t] \o words
                           IN  u[Len(u)].role = "call" /\ u[Len(u)].turn = t

(* What the steps of the loop have in common.                              *)
LEMMA LoopKeeps ==
    ASSUME Inv, NEW t \in Turns, Running(t), UNCHANGED outside,
           NEW p \in {"model", "tools", "posting"}, pc' = [pc EXCEPT ![t] = p],
           NEW words, Speaks(t, words, p), Says(t, words),
           round' \in [Turns -> 0..MaxRounds],
           ending' \in [Turns -> {"none", "answered", "handed", "spent", "cancelled"}]
    PROVE  Inv'
<1>1. UNCHANGED <<begun, kind, stopped, lock, slot, latest, store>>
  BY DEF outside
<1>2. /\ pc \in [Turns -> {"new", "queued", "model", "tools", "posting", "committing", "over"}]
      /\ msgs \in [Turns -> Seq(Message)] /\ lock \in Seq(Turns)
      /\ slot \in 0..MaxTurns /\ latest \in 0..MaxTurns
  BY DEF Inv, TypeOK, LoopOK, TalkOK, DoorOK
<1>3. /\ pc'[t] = p /\ Running(t)' /\ AtWork(t)'
      /\ \A u \in Turns : u # t => pc'[u] = pc[u]
      /\ \A u \in Turns : Running(u)' <=> Running(u)
      /\ \A u \in Turns : AtWork(u)' <=> AtWork(u)
      /\ \A u \in Turns : Keeps(u)' <=> Keeps(u)
      /\ \A u \in Turns : pc[u] = "queued" => pc'[u] = "queued"
      /\ \A u \in Turns : pc[u] = "new" => pc'[u] = "new"
  BY <1>1, <1>2 DEF Running, AtWork, Keeps
<1>4. /\ msgs' = [msgs EXCEPT ![t] = IF Keeps(t) THEN msgs[t] \o words ELSE msgs[t]]
      /\ words \in Seq(Message)
  BY DEF Says, Speaks
<1>5. msgs[t] \o words \in Seq(Message)
  <2>1. msgs[t] \in Seq(Message)
    BY <1>2
  <2> HIDE DEF Message
  <2> QED
    BY <2>1, <1>4, ConcatProperties
<1>6. /\ msgs' \in [Turns -> Seq(Message)]
      /\ Keeps(t) => msgs'[t] = msgs[t] \o words
      /\ \A u \in Turns : u # t => msgs'[u] = msgs[u]
  BY <1>2, <1>4, <1>5
<1>7. DoorOK' /\ LoopOK' /\ FlagsOK' /\ TalkOK'
  BY <1>1, <1>2, <1>6 DEF Inv, TypeOK, DoorOK, LoopOK, FlagsOK, TalkOK
<1>8. \A i \in 1..Len(lock) : lock[i] \in Turns
  BY <1>2
<1>9. GuardsOK'
  <2>1. \A i \in 1..Len(lock) : pc'[lock[i]] = "queued" \/ AtWork(lock[i])'
    BY <1>1, <1>3, <1>8 DEF Inv, TypeOK, GuardsOK, Running, AtWork
  <2>2. slot # NoTurn => Running(slot)'
    <3>1. slot # NoTurn => slot \in Turns /\ Running(slot)
      BY <1>2 DEF Inv, TypeOK, GuardsOK, Turns, NoTurn
    <3> QED
      BY <3>1, <1>1, <1>3 DEF Running, AtWork
  <2> QED
    BY <2>1, <2>2, <1>1 DEF GuardsOK
<1>10. QueueOK'
  <2>1. \A i \in 2..Len(lock) : pc'[lock[i]] = "queued"
    <3>1. \A i \in 2..Len(lock) : i \in 1..Len(lock)
      BY <1>2
    <3> QED
      BY <3>1, <1>3, <1>8 DEF Inv, QueueOK
  <2>2. \A i \in 1..Len(lock) : Keeps(lock[i])'
    BY <1>1, <1>3, <1>8 DEF Inv, QueueOK, Keeps
  <2>3. \A u \in Turns : Keeps(u)' /\ AtWork(u)' => Held(u)'
    BY <1>1, <1>3 DEF Inv, QueueOK, Held
  <2>4. \A u \in Turns : u > begun' => pc'[u] = "new"
    BY <1>1, <1>3 DEF Inv, QueueOK
  <2> QED
    BY <2>1, <2>2, <2>3, <2>4, <1>1 DEF Inv, QueueOK
<1>11. CopiesOK'
  <2> SUFFICES ASSUME NEW u \in Turns, Keeps(u)', AtWork(u)'
               PROVE  CopyOK(u)'
    BY DEF CopiesOK
  <2>1. Keeps(u) /\ CopyOK(u)
    BY <1>3 DEF Inv, CopiesOK
  <2>2. CASE u = t
    <3>1. /\ msgs[t] \in Seq(Message) /\ store \in Seq(Message)
          /\ Len(msgs[t]) >= 2 /\ Extends(store, msgs[t])
      BY <2>1, <2>2, <1>2 DEF CopyOK, Inv, TypeOK, TalkOK
    <3>2. Len(msgs[t] \o words) >= 2
      <4> HIDE DEF Message
      <4> QED
        BY <3>1, <1>4, ConcatProperties
    <3>3. Extends(store, msgs[t] \o words)
      BY <3>1, <1>4, SaidExtends
    <3>4. /\ Accepted(msgs[t] \o words)
          /\ p = "tools" => /\ (msgs[t] \o words)[Len(msgs[t] \o words)].role = "call"
                           /\ (msgs[t] \o words)[Len(msgs[t] \o words)].turn = t
      BY <2>1, <2>2 DEF Speaks
    <3>5. msgs'[t] = msgs[t] \o words /\ store' = store
      BY <2>1, <2>2, <1>1, <1>6
    <3> QED
      BY <2>2, <3>2, <3>3, <3>4, <3>5, <1>3 DEF CopyOK
  <2>3. CASE u # t
    BY <2>1, <2>3, <1>1, <1>3, <1>6 DEF CopyOK
  <2> QED
    BY <2>2, <2>3
<1>12. WellFormed' /\ NewestIsStoppable'
  <2>1. latest # NoTurn => latest \in Turns
    BY <1>2 DEF Turns, NoTurn
  <2>2. latest # NoTurn /\ Running(latest)' => slot = latest
    BY <2>1, <1>1, <1>3 DEF Inv, NewestIsStoppable, Running, AtWork
  <2> QED
    BY <2>2, <1>1 DEF Inv, WellFormed, NewestIsStoppable, Running, AtWork
<1> QED
  BY <1>7, <1>9, <1>10, <1>11, <1>12 DEF Inv, TypeOK

(* Of the words that are not results.                                      *)
LEMMA SpeaksWord ==
    ASSUME Inv, NEW t \in Turns, Running(t),
           NEW role \in {"call", "answer", "stopNote"},
           NEW p, p = "tools" => role = "call"
    PROVE  Speaks(t, <<Line(t, role)>>, p)
<1> DEFINE w == Line(t, role)
<1>1. w \in Message /\ w.role = role /\ w.turn = t
  BY TurnsAssumption DEF Line, Message, Roles, Turns
<1>2. <<w>> \in Seq(Message)
  BY <1>1
<1>3. ASSUME Keeps(t)
      PROVE  LET u == msgs[t] \o <<w>>
             IN  /\ Accepted(u)
                 /\ p = "tools" => u[Len(u)].role = "call" /\ u[Len(u)].turn = t
  <2>1. msgs[t] \in Seq(Message) /\ Accepted(msgs[t]) /\ Len(msgs[t]) >= 2
    BY <1>3 DEF Inv, TypeOK, TalkOK, CopiesOK, CopyOK, AtWork
  <2>2. msgs[t] # <<>> /\ w.role \notin {"system", "result"}
    BY <2>1, <1>1
  <2> HIDE DEF w
  <2> QED
    BY <2>1, <2>2, <1>1, WordAccepted
<1> QED
  BY <1>2, <1>3 DEF Speaks

LEMMA ModelAnswersKeeps ==
    ASSUME Inv, NEW t \in Turns, ModelAnswers(t)
    PROVE  Inv'
<1>1. Running(t) /\ Says(t, <<Line(t, "answer")>>) /\ UNCHANGED outside
  BY DEF ModelAnswers, ModelHeard, Running, AtWork
<1>2. /\ round' \in [Turns -> 0..MaxRounds]
      /\ ending' \in [Turns -> {"none", "answered", "handed", "spent", "cancelled"}]
  BY DEF ModelAnswers, Ends, Inv, TypeOK, LoopOK
<1>3. Speaks(t, <<Line(t, "answer")>>, "posting")
  BY <1>1, SpeaksWord
<1>4. pc' = [pc EXCEPT ![t] = "posting"]
  BY DEF ModelAnswers, Ends
<1> QED
  BY <1>1, <1>2, <1>3, <1>4, LoopKeeps

LEMMA ModelCallsKeeps ==
    ASSUME Inv, NEW t \in Turns, ModelCalls(t)
    PROVE  Inv'
<1>1. Running(t) /\ Says(t, <<Line(t, "call")>>) /\ UNCHANGED outside
  BY DEF ModelCalls, ModelHeard, Running, AtWork
<1>2. /\ round' \in [Turns -> 0..MaxRounds]
      /\ ending' \in [Turns -> {"none", "answered", "handed", "spent", "cancelled"}]
  BY DEF ModelCalls, Inv, TypeOK, LoopOK
<1>3. Speaks(t, <<Line(t, "call")>>, "tools")
  BY <1>1, SpeaksWord
<1>4. pc' = [pc EXCEPT ![t] = "tools"]
  BY DEF ModelCalls
<1> QED
  BY <1>1, <1>2, <1>3, <1>4, LoopKeeps

LEMMA StopLandsKeeps ==
    ASSUME Inv, NEW t \in Turns, StopLands(t)
    PROVE  Inv'
<1>1. Running(t) /\ Says(t, <<Line(t, "stopNote")>>) /\ UNCHANGED outside
  BY DEF StopLands, Running, AtWork
<1>2. /\ round' \in [Turns -> 0..MaxRounds]
      /\ ending' \in [Turns -> {"none", "answered", "handed", "spent", "cancelled"}]
  BY DEF StopLands, Ends, Inv, TypeOK, LoopOK
<1>3. Speaks(t, <<Line(t, "stopNote")>>, "posting")
  BY <1>1, SpeaksWord
<1>4. pc' = [pc EXCEPT ![t] = "posting"]
  BY DEF StopLands, Ends
<1> QED
  BY <1>1, <1>2, <1>3, <1>4, LoopKeeps

(* Every call of a round is answered before anybody looks.                 *)
LEMMA ToolsEndKeeps ==
    ASSUME Inv, NEW t \in Turns, NEW n \in Calls, NEW handed \in BOOLEAN,
           ToolsEnd(t, n, handed)
    PROVE  Inv'
<1> DEFINE verdict == Verdict(t, handed)
           results == [i \in 1..n |-> Line(t, "result")]
           note == Line(t, "stopNote")
           words == IF verdict = "cancelled" THEN Append(results, note) ELSE results
           p == IF verdict = "none" THEN "model" ELSE "posting"
<1>1. /\ pc[t] = "tools" /\ Running(t) /\ UNCHANGED outside /\ Says(t, words)
      /\ n \in Nat
  BY TurnsAssumption DEF ToolsEnd, Running, AtWork
<1>2. verdict \in {"handed", "cancelled", "spent", "none"}
  BY DEF Verdict
<1>3. verdict = "none" => round[t] < MaxRounds
  <2>1. round[t] \in 0..MaxRounds
    BY DEF Inv, TypeOK, LoopOK
  <2> QED
    BY <2>1, TurnsAssumption DEF Verdict
<1>4. IF verdict = "none"
      THEN /\ pc' = [pc EXCEPT ![t] = "model"]
           /\ round' = [round EXCEPT ![t] = round[t] + 1]
           /\ UNCHANGED ending
      ELSE Ends(t, verdict) /\ UNCHANGED round
  BY DEF ToolsEnd
<1> HIDE DEF verdict, words
<1>5. p \in {"model", "tools", "posting"} /\ p # "tools" /\ pc' = [pc EXCEPT ![t] = p]
  BY <1>4 DEF Ends
<1>6. round' \in [Turns -> 0..MaxRounds]
  <2>1. round \in [Turns -> 0..MaxRounds] /\ round[t] \in 0..MaxRounds
    BY DEF Inv, TypeOK, LoopOK
  <2>2. CASE verdict = "none"
    <3>1. round[t] + 1 \in 0..MaxRounds
      BY <2>1, <2>2, <1>3, TurnsAssumption
    <3> QED
      BY <2>1, <2>2, <3>1, <1>4
  <2> QED
    BY <2>1, <2>2, <1>4
<1>7. ending' \in [Turns -> {"none", "answered", "handed", "spent", "cancelled"}]
  BY <1>2, <1>4 DEF Ends, Inv, TypeOK, LoopOK
<1>8. note \in Message /\ note.role \notin {"system", "result"} /\ Line(t, "result") \in Message
  BY TurnsAssumption DEF Line, Message, Roles, Turns
<1>9. results \in Seq(Message)
  BY <1>1, <1>8
<1> HIDE DEF results, note
<1>10. words \in Seq(Message)
  <2>1. Append(results, note) \in Seq(Message)
    BY <1>8, <1>9
  <2> QED
    BY <2>1, <1>9 DEF words
<1>11. ASSUME Keeps(t)
       PROVE  Accepted(msgs[t] \o words)
  <2> DEFINE s == msgs[t]
  <2>1. /\ s \in Seq(Message) /\ Accepted(s) /\ Len(s) >= 2
        /\ s[Len(s)].role = "call" /\ s[Len(s)].turn = t
    BY <1>1, <1>11 DEF Inv, TypeOK, TalkOK, CopiesOK, CopyOK, AtWork
  <2> HIDE DEF s
  <2>2. /\ s \o results \in Seq(Message) /\ Len(s \o results) = Len(s) + n
        /\ Accepted(s \o results)
    BY <2>1, <1>1, ResultsAccepted DEF results
  <2>3. CASE verdict # "cancelled"
    BY <2>2, <2>3 DEF words, s
  <2>4. CASE verdict = "cancelled"
    <3>1. (s \o results) # <<>>
      BY <2>1, <2>2, <1>1
    <3>2. Accepted((s \o results) \o <<note>>)
      BY <2>2, <3>1, <1>8, WordAccepted
    <3>3. Append(results, note) = results \o <<note>>
      BY <1>8, <1>9, AppendIsConcat
    <3>4. <<note>> \in Seq(Message)
      BY <1>8
    <3>5. (s \o results) \o <<note>> = s \o (results \o <<note>>)
      <4> HIDE DEF Message
      <4> QED
        BY <2>1, <1>9, <3>4, ConcatAssociative
    <3> QED
      BY <2>4, <3>2, <3>3, <3>5 DEF words, s
  <2> QED
    BY <2>3, <2>4
<1>12. Speaks(t, words, p)
  BY <1>5, <1>10, <1>11 DEF Speaks
<1> QED
  BY <1>1, <1>5, <1>6, <1>7, <1>12, LoopKeeps

-----------------------------------------------------------------------------
(* The stop button, /new-session, and the conversation's lifetime.         *)

LEMMA StopKeeps ==
    ASSUME Inv, Stop
    PROVE  Inv'
<1>1. UNCHANGED <<begun, kind, pc, round, msgs, ending, lock, slot, latest, store>>
  BY DEF Stop, loopVars
<1>2. FlagsOK'
  BY DEF Stop, Inv, TypeOK, FlagsOK
<1>3. DoorOK' /\ LoopOK' /\ TalkOK' /\ GuardsOK'
  BY <1>1 DEF Inv, TypeOK, DoorOK, LoopOK, TalkOK, GuardsOK, Running, AtWork
<1>4. QueueOK' /\ CopiesOK'
  BY <1>1 DEF Inv, QueueOK, CopiesOK, CopyOK, Keeps, Running, AtWork, Held
<1>5. WellFormed' /\ NewestIsStoppable'
  BY <1>1 DEF Inv, WellFormed, NewestIsStoppable, Running, AtWork
<1> QED
  BY <1>2, <1>3, <1>4, <1>5 DEF Inv, TypeOK

LEMMA ForgottenKeeps ==
    ASSUME Inv, Forgotten
    PROVE  Inv'
<1>1. /\ store' = <<>>
      /\ UNCHANGED <<begun, kind, pc, round, msgs, ending, stopped, lock, slot, latest>>
  BY DEF Forgotten, loopVars
<1>2. DoorOK' /\ LoopOK' /\ FlagsOK' /\ GuardsOK'
  BY <1>1 DEF Inv, TypeOK, DoorOK, LoopOK, FlagsOK, GuardsOK, Running, AtWork
<1>3. TalkOK' /\ WellFormed'
  <2>1. store' \in Seq(Message)
    BY <1>1
  <2>2. Accepted(store')
    BY <1>1 DEF Accepted
  <2> QED
    BY <2>1, <2>2, <1>1 DEF Inv, TypeOK, TalkOK, WellFormed
<1>4. QueueOK' /\ NewestIsStoppable'
  BY <1>1 DEF Inv, QueueOK, NewestIsStoppable, Keeps, Running, AtWork, Held
<1>5. CopiesOK'
  <2> SUFFICES ASSUME NEW u \in Turns, Keeps(u)', AtWork(u)'
               PROVE  CopyOK(u)'
    BY DEF CopiesOK
  <2>1. CopyOK(u)
    BY <1>1 DEF Inv, CopiesOK, Keeps, Running, AtWork
  <2>2. Extends(<<>>, msgs[u])
    <3>1. msgs[u] \in Seq(Message)
      BY DEF Inv, TypeOK, TalkOK
    <3> QED
      BY <3>1 DEF Extends
  <2> QED
    BY <2>1, <2>2, <1>1 DEF CopyOK
<1> QED
  BY <1>2, <1>3, <1>4, <1>5 DEF Inv, TypeOK

-----------------------------------------------------------------------------
(* The theorems.                                                           *)

LEMMA StepKeeps ==
    ASSUME Inv, NEW t \in Turns, Step(t)
    PROVE  Inv'
BY BusyKeeps, BeginKeeps, ModelAnswersKeeps, ModelCallsKeeps, StopLandsKeeps,
   ToolsEndKeeps, FailsKeeps, PostedKeeps, CommittedKeeps DEF Step

LEMMA NextInv ==
    ASSUME Inv, [Next]_vars
    PROVE  Inv'
<1>1. CASE Next
  BY <1>1, StepKeeps, ArrivesKeeps, StopKeeps, ForgottenKeeps DEF Next
<1>2. CASE UNCHANGED vars
  <2>1. UNCHANGED <<begun, kind, pc, round, msgs, ending, stopped, lock, slot, latest, store>>
    BY <1>2 DEF vars, loopVars
  <2>2. DoorOK' /\ LoopOK' /\ FlagsOK' /\ TalkOK' /\ GuardsOK'
    BY <2>1 DEF Inv, TypeOK, DoorOK, LoopOK, FlagsOK, TalkOK, GuardsOK, Running, AtWork
  <2>3. QueueOK' /\ CopiesOK'
    BY <2>1 DEF Inv, QueueOK, CopiesOK, CopyOK, Keeps, Running, AtWork, Held
  <2>4. WellFormed' /\ NewestIsStoppable'
    BY <2>1 DEF Inv, WellFormed, NewestIsStoppable, Running, AtWork
  <2> QED
    BY <2>2, <2>3, <2>4 DEF Inv, TypeOK
<1> QED
  BY <1>1, <1>2

(* Whatever the turns of a channel do, the lock lets one keeper of its     *)
(* words in at a time, and each works on a copy that carries on from what  *)
(* the channel has (turn_lock, checkout, run_session).                     *)
THEOREM TurnsInvariant == Spec => []Inv
<1>1. Init => Inv
  BY InitInv
<1>2. Inv /\ [Next]_vars => Inv'
  BY NextInv
<1> QED
  BY <1>1, <1>2, PTL DEF Spec

(* The types of the state; nobody waits for a lock and nobody is           *)
(* registered to be stopped but the turns still there.                     *)
THEOREM TypeCorrect == Spec => []TypeOK
<1>1. Inv => TypeOK
  BY DEF Inv
<1> QED
  BY <1>1, TurnsInvariant, PTL

(* No trim, no stop among the tools and no failed turn ever leaves the     *)
(* channel a transcript a provider refuses (trim, cancelled_outcome).      *)
THEOREM WellFormedAlways == Spec => []WellFormed
<1>1. Inv => WellFormed
  BY DEF Inv
<1> QED
  BY <1>1, TurnsInvariant, PTL

(* The newest turn at work is the one in the slot (InterruptGuard).        *)
THEOREM NewestIsStoppableAlways == Spec => []NewestIsStoppable
<1>1. Inv => NewestIsStoppable
  BY DEF Inv
<1> QED
  BY <1>1, TurnsInvariant, PTL

(* Every commit extends the transcript it replaces: no two turns of a      *)
(* channel lose each other's words (turn_lock, commit).                    *)
THEOREM CommitExtendsAlways == Spec => CommitExtends
<1>1. ASSUME Inv, NEW t \in Turns, pc[t] = "committing", Keeps(t)
      PROVE  IsPrefix(store, msgs[t])
  <2>1. AtWork(t)
    BY <1>1 DEF AtWork
  <2>2. Extends(store, msgs[t]) /\ store \in Seq(Message) /\ msgs[t] \in Seq(Message)
    BY <2>1, <1>1 DEF Inv, TypeOK, TalkOK, CopiesOK, CopyOK
  <2> QED
    BY <2>2, ExtendsIsPrefix
<1>2. Inv => \A t \in Turns : (pc[t] = "committing" /\ pc'[t] = "over" /\ Keeps(t)) =>
                 IsPrefix(store, msgs[t])
  BY <1>1
<1>3. Inv /\ [Next]_vars =>
        [\A t \in Turns : (pc[t] = "committing" /\ pc'[t] = "over" /\ Keeps(t)) =>
             IsPrefix(store, msgs[t])]_vars
  BY <1>2
<1> QED
  BY <1>3, TurnsInvariant, PTL DEF Spec, CommitExtends

(* How the step ends a turn that was stopped.                              *)
LEMMA StoppedStep ==
    ASSUME Inv, Next, NEW t \in Turns,
           stopped[t], pc[t] \in {"model", "tools"}, pc'[t] = "posting"
    PROVE  ending'[t] \in {"cancelled", "handed"}
<1>1. /\ pc \in [Turns -> {"new", "queued", "model", "tools", "posting", "committing", "over"}]
      /\ ending \in [Turns -> {"none", "answered", "handed", "spent", "cancelled"}]
  BY DEF Inv, TypeOK, LoopOK
<1>2. ASSUME NEW u \in Turns, Step(u)
      PROVE  ending'[t] \in {"cancelled", "handed"}
  <2>1. u = t
    <3>1. \E p \in {"over", "model", "tools", "posting", "committing"} : pc' = [pc EXCEPT ![u] = p]
      BY <1>2, <1>1 DEF Step, Busy, Begin, Starts, ModelAnswers, ModelCalls, StopLands,
         ToolsEnd, Ends, Fails, Posted, Committed, Gone
    <3>2. u # t => pc'[t] = pc[t]
      BY <3>1, <1>1
    <3> QED
      BY <3>2
  <2>2. CASE Busy(t) \/ Begin(t) \/ Fails(t) \/ Posted(t) \/ Committed(t)
            \/ ModelCalls(t)
    <3>1. pc'[t] # "posting"
      BY <2>2, <1>1 DEF Busy, Begin, Starts, Fails, Posted, Committed, Gone, ModelCalls
    <3> QED
      BY <3>1
  <2>3. CASE ModelAnswers(t)
    BY <2>3 DEF ModelAnswers, ModelHeard
  <2>4. CASE StopLands(t)
    BY <2>4, <1>1 DEF StopLands, Ends
  <2>5. ASSUME NEW n \in Calls, NEW handed \in BOOLEAN, ToolsEnd(t, n, handed)
        PROVE  ending'[t] \in {"cancelled", "handed"}
    <3> DEFINE verdict == Verdict(t, handed)
    <3>1. verdict \in {"handed", "cancelled"}
      BY DEF Verdict
    <3>2. IF verdict = "none" THEN pc' = [pc EXCEPT ![t] = "model"] ELSE Ends(t, verdict)
      BY <2>5 DEF ToolsEnd
    <3> HIDE DEF verdict
    <3> QED
      BY <3>1, <3>2, <1>1 DEF Ends
  <2> QED
    BY <1>2, <2>1, <2>2, <2>3, <2>4, <2>5 DEF Step
<1>3. ASSUME NEW u \in Turns, NEW k \in Kinds, Arrives(u, k)
      PROVE  FALSE
  <2>1. pc'[t] # "posting"
    BY <1>1, <1>3 DEF Arrives
  <2> QED
    BY <2>1
<1>4. ~Stop /\ ~Forgotten
  BY DEF Stop, Forgotten
<1> QED
  BY <1>2, <1>3, <1>4 DEF Next

(* A stop that reached a turn at work is how the turn ends, unless it      *)
(* called for an operator in that same round (run_session).                *)
THEOREM StopReadsAsStopAlways == Spec => StopReadsAsStop
<1>1. Inv /\ Next => \A t \in Turns :
        (stopped[t] /\ pc[t] \in {"model", "tools"} /\ pc'[t] = "posting") =>
            ending'[t] \in {"cancelled", "handed"}
  BY StoppedStep
<1>2. Inv /\ [Next]_vars =>
        [\A t \in Turns :
            (stopped[t] /\ pc[t] \in {"model", "tools"} /\ pc'[t] = "posting") =>
                ending'[t] \in {"cancelled", "handed"}]_vars
  BY <1>1
<1> QED
  BY <1>2, TurnsInvariant, PTL DEF Spec, StopReadsAsStop

=============================================================================
