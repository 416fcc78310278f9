------------------------------- MODULE Turns -------------------------------
(***************************************************************************)
(* Gary's turns in one Discord channel: the door (throttle.rs), the one    *)
(* conversation the channel shares and its turn lock (agent/store.rs), the *)
(* tool-calling loop (agent/session.rs) and the stop button (interrupt.rs),*)
(* as the three shells drive them: a friend's message (gary/mod.rs), the   *)
(* operator harness (http/operator.rs), and the unattended turns of the    *)
(* deferred queue and of the watchdog, which do not take the lock and keep *)
(* no conversation.                                                        *)
(*                                                                         *)
(* Code that runs without an await in between is one step.  A message is   *)
(* its role and the turn that wrote it; a result weighs ResultSize, every  *)
(* other message 1, and tokens are bytes.  The system prompt, rebuilt for  *)
(* every speaker, is the one message of turn 0.  The buckets at the door   *)
(* are left out: a message stands for one whose writer had a token.  So is *)
(* a bot with no model: no turn gets as far as the lock then, and an       *)
(* unattended one ends before it registers.                                *)
(***************************************************************************)
EXTENDS Integers, FiniteSets, Sequences, SequencesExt, FiniteSetsExt

CONSTANTS
    MaxTurns,       \* bound: turns begun in a behaviour
    MaxRounds,      \* gary_max_rounds
    Calls,          \* how many tools a round may call
    Trigger, Target,\* transcript size that sets off a trim, and what it aims at
    ResultSize      \* what a tool result weighs

ASSUME TurnsAssumption ==
    /\ MaxTurns \in Nat \ {0} /\ MaxRounds \in Nat \ {0}
    /\ Calls \subseteq Nat \ {0}
    /\ Trigger \in Nat /\ Target \in Nat /\ ResultSize \in Nat \ {0}

Turns == 1..MaxTurns
Kinds == {"message", "operator", "unattended"}
NoTurn == 0
System == [role |-> "system", turn |-> 0]
Roles == {"system", "user", "call", "result", "answer", "stopNote"}
Message == [role : Roles, turn : 0..MaxTurns]

VARIABLES
    begun,      \* turns begun so far; turn t is the t-th
    kind,       \* [Turns -> Kinds]
    pc,         \* "new", "queued", "model", "tools", "posting", "committing", "over"
    round,      \* rounds of the loop a turn has started
    msgs,       \* a turn's own copy of the transcript
    stopped,    \* the cancellation token was tripped
    ending,     \* "none", "answered", "handed", "spent", "cancelled"
    lock,       \* the turns at the channel's lock, its holder first
    slot,       \* TurnInterrupts: the channel's registration
    latest,     \* the turn that registered last
    store       \* the channel's committed transcript; <<>> none

loopVars == <<round, msgs, ending>>
vars == <<begun, kind, pc, loopVars, stopped, lock, slot, latest, store>>

Init ==
    /\ begun = 0 /\ kind = [t \in Turns |-> "message"]
    /\ pc = [t \in Turns |-> "new"] /\ round = [t \in Turns |-> 0]
    /\ msgs = [t \in Turns |-> <<>>]
    /\ stopped = [t \in Turns |-> FALSE] /\ ending = [t \in Turns |-> "none"]
    /\ lock = <<>> /\ slot = NoTurn /\ latest = NoTurn /\ store = <<>>

-----------------------------------------------------------------------------
(* Trimming a transcript (store.rs).                                       *)

IsResult(s, i) == s[i].role = "result"
BytesFrom(s, i) ==
    Len(s) - i + 1 + (ResultSize - 1) * Cardinality({j \in i..Len(s) : IsResult(s, j)})
Size(s) == BytesFrom(s, 1)

(* The earliest message whose tail fits what the target leaves beside the  *)
(* system prompt; the newest message always does.                          *)
TargetStart(s, measured) ==
    LET budget == (Size(s) * Target) \div measured - 1
    IN  Min({Len(s)} \union {i \in 2..Len(s) : BytesFrom(s, i) <= budget})

(* As it would be without the walk past the results.                       *)
SettledNowhere(s, from) == from

(* Past the results that would dangle, and, should the newest message be   *)
(* one, back to the call it answers.                                       *)
Settled(s, from) ==
    LET next == {i \in from..Len(s) : ~IsResult(s, i)}
        back == {i \in 2..from : ~IsResult(s, i)}
    IN  IF next # {} THEN Min(next)
        ELSE IF back # {} THEN Max(back) ELSE 2

Trim(s, measured) ==
    IF measured <= Trigger THEN s
    ELSE <<System>> \o SubSeq(s, Settled(s, TargetStart(s, measured)), Len(s))

-----------------------------------------------------------------------------
(* The door, the lock and the stop button.                                 *)

(* In run_gary_turn, where it is registered to be stopped; and, until the  *)
(* handler returns, at work for its channel.                               *)
Running(t) == pc[t] \in {"model", "tools", "posting"}
AtWork(t) == Running(t) \/ pc[t] = "committing"
Held(t) == lock # <<>> /\ Head(lock) = t

(* A message past the door queues for the channel, and so does a request   *)
(* of the harness.                                                         *)
Arrives(t, k) ==
    /\ t = begun + 1
    /\ begun' = t
    /\ kind' = [kind EXCEPT ![t] = k]
    /\ pc' = [pc EXCEPT ![t] = "queued"]
    /\ lock' = IF k = "unattended" THEN lock ELSE Append(lock, t)
    /\ UNCHANGED <<loopVars, stopped, slot, latest, store>>

(* A guard that outlives its turn.                                         *)
ReleaseNever(t) == lock' = lock

(* The guard of the turn that has the lock hands it to the next in line.   *)
Release(t) == lock' = IF Held(t) THEN Tail(lock) ELSE lock

(* admit_now: every permit may be held by other channels and by players.   *)
Busy(t) ==
    /\ pc[t] = "queued" /\ kind[t] = "message" /\ Held(t)
    /\ pc' = [pc EXCEPT ![t] = "over"]
    /\ Release(t)
    /\ UNCHANGED <<begun, kind, loopVars, stopped, slot, latest, store>>

(* checkout, and the question appended.                                    *)
CheckedOut(t, from) ==
    (IF from = <<>> THEN <<System>> ELSE from) \o <<[role |-> "user", turn |-> t]>>

(* A stranger's registration displaces the one in the slot.                *)
Register(t) == slot' = t /\ latest' = t

Starts(t, transcript) ==
    /\ pc' = [pc EXCEPT ![t] = "model"]
    /\ round' = [round EXCEPT ![t] = 1]
    /\ msgs' = [msgs EXCEPT ![t] = transcript]
    /\ Register(t)
    /\ UNCHANGED <<begun, kind, stopped, ending, lock>>

(* The lock is not waited for.                                             *)
HasTurnUnlocked(t) == pc[t] = "queued"

(* The channel is the turn's, or it asks for none.                         *)
HasTurn(t) == pc[t] = "queued" /\ (kind[t] = "unattended" \/ Held(t))

Begin(t) ==
    /\ HasTurn(t)
    /\ \/ kind[t] = "message" /\ Starts(t, CheckedOut(t, store)) /\ UNCHANGED store
       \/ /\ kind[t] = "operator"
          /\ \E kept \in {store, <<>>} :
                store' = kept /\ Starts(t, CheckedOut(t, kept))
       \/ kind[t] = "unattended" /\ Starts(t, <<>>) /\ UNCHANGED store

(* The guard clearing the channel's slot whoever owns it.                  *)
DeregisterAny(t) == slot' = NoTurn

(* InterruptGuard: a turn takes only its own registration with it.         *)
Deregister(t) == slot' = IF slot = t THEN NoTurn ELSE slot

(* /gary-stop.                                                             *)
Stop ==
    /\ slot # NoTurn
    /\ stopped' = [stopped EXCEPT ![slot] = TRUE]
    /\ UNCHANGED <<begun, kind, pc, loopVars, lock, slot, latest, store>>

-----------------------------------------------------------------------------
(* The loop (run_session).                                                 *)

Line(t, role) == [role |-> role, turn |-> t]
Keeps(t) == kind[t] # "unattended"
(* What an unattended turn says is kept nowhere.                           *)
Says(t, words) == msgs' = [msgs EXCEPT ![t] = IF Keeps(t) THEN @ \o words ELSE @]
Ends(t, how) ==
    /\ pc' = [pc EXCEPT ![t] = "posting"]
    /\ ending' = [ending EXCEPT ![t] = how]

outside == <<begun, kind, stopped, lock, slot, latest, store>>

(* The select is biased: a tripped token wins over an answer.              *)
ModelHeard(t) == pc[t] = "model" /\ ~stopped[t]

ModelAnswers(t) ==
    /\ ModelHeard(t)
    /\ Says(t, <<Line(t, "answer")>>) /\ Ends(t, "answered")
    /\ UNCHANGED <<outside, round>>

ModelCalls(t) ==
    /\ ModelHeard(t)
    /\ Says(t, <<Line(t, "call")>>)
    /\ pc' = [pc EXCEPT ![t] = "tools"]
    /\ UNCHANGED <<outside, round, ending>>

(* cancelled_outcome: the stop closes the transcript.                      *)
StopLands(t) ==
    /\ pc[t] = "model" /\ stopped[t]
    /\ Says(t, <<Line(t, "stopNote")>>) /\ Ends(t, "cancelled")
    /\ UNCHANGED <<outside, round>>

(* Without the second look at the token.                                   *)
VerdictOnce(t, handed) ==
    IF handed THEN "handed" ELSE IF round[t] >= MaxRounds THEN "spent" ELSE "none"

(* What the loop finds once a round's tools are through, in its order: an  *)
(* escalation one of them asked for, a stop, the end of the budget.        *)
Verdict(t, handed) ==
    IF handed THEN "handed"
    ELSE IF stopped[t] THEN "cancelled"
    ELSE IF round[t] >= MaxRounds THEN "spent" ELSE "none"

(* run_tool_round: every call of the round runs to its end; the results    *)
(* are seen by nobody before the commit.                                   *)
ToolsEnd(t, n, handed) ==
    /\ pc[t] = "tools"
    /\ LET verdict == Verdict(t, handed)
           results == [i \in 1..n |-> Line(t, "result")]
       IN  /\ IF verdict = "none"
              THEN /\ pc' = [pc EXCEPT ![t] = "model"]
                   /\ round' = [round EXCEPT ![t] = @ + 1]
                   /\ UNCHANGED ending
              ELSE Ends(t, verdict) /\ UNCHANGED round
           /\ Says(t, IF verdict = "cancelled"
                      THEN Append(results, Line(t, "stopNote")) ELSE results)
    /\ UNCHANGED outside

(* The turn's guards and variables go with it.                             *)
Gone(t) ==
    /\ pc' = [pc EXCEPT ![t] = "over"]
    /\ stopped' = [stopped EXCEPT ![t] = FALSE]
    /\ round' = [round EXCEPT ![t] = 0]
    /\ msgs' = [msgs EXCEPT ![t] = <<>>]
    /\ ending' = [ending EXCEPT ![t] = "none"]
    /\ Release(t) /\ Deregister(t)
    /\ UNCHANGED <<begun, kind, latest>>

(* The model cannot be reached, or the task panics: nothing is committed.  *)
Fails(t) ==
    /\ pc[t] = "model"
    /\ Gone(t)
    /\ UNCHANGED store

(* The reply is posted, and run_gary_turn returns: its guard goes.         *)
Posted(t) ==
    /\ pc[t] = "posting"
    /\ pc' = [pc EXCEPT ![t] = "committing"]
    /\ stopped' = [stopped EXCEPT ![t] = FALSE]
    /\ Deregister(t)
    /\ UNCHANGED <<begun, kind, loopVars, lock, latest, store>>

(* The size of the last request the model was sent, 0 when there was none. *)
Measured(t) ==
    LET said == {i \in 1..Len(msgs[t]) : msgs[t][i].turn = t /\ msgs[t][i].role \in {"call", "answer"}}
    IN  IF said = {} THEN 0 ELSE Size(SubSeq(msgs[t], 1, Max(said) - 1))

(* Behind what the operators are told of an escalation, the transcript is  *)
(* committed, and the lock goes.                                           *)
Committed(t) ==
    /\ pc[t] = "committing"
    /\ Gone(t)
    /\ \E measured \in {Measured(t)} :
          store' = IF Keeps(t) THEN Trim(msgs[t], measured) ELSE store

-----------------------------------------------------------------------------
(* /new-session, which takes no lock; a conversation past its lifetime     *)
(* (forgotten at the next checkout or commit).                              *)

Forgotten ==
    /\ store # <<>> /\ store' = <<>>
    /\ UNCHANGED <<begun, kind, pc, loopVars, stopped, lock, slot, latest>>

Step(t) ==
    \/ Busy(t) \/ Begin(t)
    \/ ModelAnswers(t) \/ ModelCalls(t) \/ StopLands(t)
    \/ \E n \in Calls, handed \in BOOLEAN : ToolsEnd(t, n, handed)
    \/ Fails(t) \/ Posted(t) \/ Committed(t)

Next ==
    \/ \E t \in Turns : Step(t) \/ \E k \in Kinds : Arrives(t, k)
    \/ Stop \/ Forgotten

Spec == Init /\ [][Next]_vars

-----------------------------------------------------------------------------
(* Properties.                                                             *)

DoorOK ==
    /\ begun \in 0..MaxTurns /\ kind \in [Turns -> Kinds]
    /\ lock \in Seq(Turns)
LoopOK ==
    /\ pc \in [Turns -> {"new", "queued", "model", "tools", "posting", "committing", "over"}]
    /\ round \in [Turns -> 0..MaxRounds]
    /\ ending \in [Turns -> {"none", "answered", "handed", "spent", "cancelled"}]
FlagsOK == stopped \in [Turns -> BOOLEAN]
TalkOK ==
    /\ msgs \in [Turns -> Seq(Message)] /\ store \in Seq(Message)
    /\ slot \in 0..MaxTurns /\ latest \in 0..MaxTurns
GuardsOK ==
    /\ \A i \in 1..Len(lock) : pc[lock[i]] = "queued" \/ AtWork(lock[i])
    /\ slot # NoTurn => Running(slot)

(* The types of the state; only a turn still there waits for or holds the  *)
(* lock, and only one at work is registered to be stopped.                 *)
TypeOK == DoorOK /\ LoopOK /\ FlagsOK /\ TalkOK /\ GuardsOK

(* A transcript a provider accepts: it opens with the system prompt, and   *)
(* every tool result stands behind the call of its own turn, with nothing  *)
(* but results in between.                                                 *)
Accepted(s) ==
    s # <<>> =>
        /\ s[1] = System
        /\ \A i \in 2..Len(s) :
              /\ s[i].role # "system"
              /\ s[i].role = "result" =>
                    \E j \in 2..(i - 1) :
                        /\ s[j].role = "call" /\ s[j].turn = s[i].turn
                        /\ \A l \in (j + 1)..i : s[l].role = "result"

(* The transcript the next turn starts from is one a provider accepts,     *)
(* wherever a trim cut it (trim).                                          *)
WellFormed == Accepted(store)

(* "Two turns running against the same key" never lose each other's words: *)
(* a commit to the channel extends the transcript it replaces (turn_lock,  *)
(* commit), whoever else is talking, failing, being refused or stopped.    *)
CommitExtends ==
    [][\A t \in Turns :
          (pc[t] = "committing" /\ pc'[t] = "over" /\ Keeps(t)) =>
              IsPrefix(store, msgs[t])]_vars

(* A stop that reached a turn at work is how the turn ends, unless it      *)
(* called for an operator in that same round: never as an answer, nor as a *)
(* budget run out (run_session's two looks at the token).                  *)
StopReadsAsStop ==
    [][\A t \in Turns :
          (stopped[t] /\ pc[t] \in {"model", "tools"} /\ pc'[t] = "posting") =>
              ending'[t] \in {"cancelled", "handed"}]_vars

(* The turn that registered last can be stopped for as long as it runs,    *)
(* whichever earlier turn of the channel ends meanwhile (InterruptGuard).  *)
NewestIsStoppable == latest # NoTurn /\ Running(latest) => slot = latest

(* interrupt.rs says there is "exactly one turn to stop and no ambiguity   *)
(* about which": a turn at work is the one in its channel's slot.  It does *)
(* not hold: an unattended turn takes the slot of a friend's, which then   *)
(* no stop reaches.                                                        *)
OneTurnToStop == \A t \in Turns : Running(t) => slot = t

(* watchdog/respond.rs says a stop is "unreachable" for the turns nobody   *)
(* asked for.  It does not hold: they register in their channel's slot.    *)
UnattendedRunsOn == \A t \in Turns : kind[t] = "unattended" => ending[t] # "cancelled"
=============================================================================
