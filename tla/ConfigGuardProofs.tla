------------------------- MODULE ConfigGuardProofs -------------------------
(* For any number of turns, files, writes and failures, the guard keeps its   *)
(* types, what it says of an undisturbed change is true, and no turn is left  *)
(* alone with a change of its own that the game crashed on.  The phase the    *)
(* guard watches may be that of an earlier launch: what it says of a change   *)
(* whose watch was shown such a one is excused (mine = 0), and disproved of   *)
(* the code by HealthyMeansUp.                                                *)
EXTENDS ConfigGuard, TLAPS

AtWork == {"watching", "restoring", "relaunching"}

-----------------------------------------------------------------------------
(* The inductive invariant.                                                   *)

\* A content that is not written yet is nowhere.
Fresh ==
  /\ \A f \in Files : disk[f] <= writes /\ bak[f] <= writes /\ loaded[f] <= writes
  /\ \A t \in Turns : mine[t] <= writes

\* A game that is up came up with what it was launched with.
UpIsGood == game = "up" => \A f \in Files : loaded[f] \notin bad

\* The first watch of a change that is still undisturbed has not been shown a
\* readiness other than that of the launch it watches.
Honest ==
  \A t \in Turns : mine[t] # 0 /\ pc[t] = "watching" /\ ~spent[t] /\ phase = "running" => game = "up"

\* Only a watch that follows a roll-back has spent it, and a turn whose guard is
\* at work has no other change pending.
OneChange ==
  \A t \in Turns :
    /\ spent[t] => pc[t] = "watching"
    /\ pc[t] \in AtWork => pending[t] = NoFile

\* The turn's change is in file f alone, over a copy of what f held before it.
InPlace(t, f) ==
  /\ \A g \in Files : disk[g] = mine[t] <=> g = f
  /\ bak[f] = before[t]

Undone(t) ==
  /\ \A f \in Files : disk[f] # mine[t]
  /\ \E f \in Files : disk[f] = before[t] /\ bak[f] = before[t]

Owned(t) ==
  \/ pending[t] # NoFile
  \/ pc[t] \in AtWork
  \/ verdict[t] \in {"rollbackFailed", "inconclusive", "unverified"}

\* Where an undisturbed change is, at each point of its life.
Follows(t) ==
  /\ \A f \in Files : bak[f] # mine[t]
  /\ pending[t] # NoFile => InPlace(t, pending[t])
  /\ pc[t] = "watching" => loaded = disk
  /\ pc[t] = "restoring" => InPlace(t, change[t])
  /\ pc[t] = "watching" /\ ~spent[t] => InPlace(t, change[t])
  /\ pc[t] = "relaunching" => Undone(t)
  /\ pc[t] = "watching" /\ spent[t] => Undone(t)
  /\ verdict[t] = "healthy" => mine[t] \notin bad
  /\ verdict[t] = "rolledBack" => Undone(t)
  /\ mine[t] \in bad /\ (\E f \in Files : disk[f] = mine[t] \/ loaded[f] = mine[t]) => Owned(t)

Tracked == \A t \in Turns : mine[t] # 0 => Follows(t)

IInv == TypeOK /\ Fresh /\ UpIsGood /\ Honest /\ OneChange /\ Tracked

-----------------------------------------------------------------------------
(* The types, a group at a time.                                              *)

FilesOK ==
  /\ disk \in [Files -> Content \cup {Absent}] /\ bak \in [Files -> Content \cup {Absent}]
  /\ writes \in Content /\ bad \subseteq 1..writes
  /\ phase \in {"starting", "running", "crashed", "stopped", "gone"}
  /\ game \in {"booting", "up", "down"} /\ signal \in BOOLEAN
  /\ loaded \in [Files -> Content \cup {Absent}]
  /\ troubles \in 0..MaxTroubles

GuardOK ==
  /\ pc \in [Turns -> {"choosing", "watching", "restoring", "relaunching", "over"}]
  /\ pending \in [Turns -> Files \cup {NoFile}] /\ change \in [Turns -> Files \cup {NoFile}]

SpentOK == spent \in [Turns -> BOOLEAN]

HistoryOK ==
  /\ verdict \in [Turns -> Verdicts]
  /\ mine \in [Turns -> Content] /\ before \in [Turns -> Content]

CopiesOK ==
  \A t \in Turns :
    /\ pending[t] # NoFile => bak[pending[t]] # Absent
    /\ pc[t] \in {"watching", "restoring", "relaunching"} =>
         /\ change[t] # NoFile /\ bak[change[t]] # Absent

\* What happens without the bot.
OfTheGame == Boots \/ Settles \/ Exits \/ AutoUpdates \/ PodReplaced \/ Destroyed

LEMMA TypeParts == TypeOK <=> FilesOK /\ GuardOK /\ SpentOK /\ HistoryOK /\ CopiesOK
  BY DEF TypeOK, FilesOK, GuardOK, SpentOK, HistoryOK, CopiesOK

\* A write keeps the types of the files.
LEMMA WritesTyped ==
  ASSUME FilesOK, NEW f \in Files, NEW harm \in BOOLEAN, Writes(f, harm)
  PROVE  /\ disk' \in [Files -> Content \cup {Absent}] /\ bak' \in [Files -> Content \cup {Absent}]
         /\ writes' \in Content /\ bad' \subseteq 1..writes' /\ writes + 1 \in Content
<1> USE GuardAssumption
<1>1. writes + 1 \in Content /\ writes' = writes + 1
  BY DEF FilesOK, Writes, Content
<1>2. bad' \subseteq 1..writes'
  BY <1>1 DEF FilesOK, Writes, Content
<1> QED
  BY <1>1, <1>2 DEF FilesOK, Writes, Overwrite

LEMMA TearsTyped ==
  ASSUME FilesOK, NEW f \in Files, TornFile(f) \/ TornBackup(f)
  PROVE  /\ disk' \in [Files -> Content \cup {Absent}] /\ bak' \in [Files -> Content \cup {Absent}]
         /\ writes' \in Content /\ bad' \subseteq 1..writes'
<1> USE GuardAssumption
<1>1. writes + 1 \in Content /\ writes' = writes + 1 /\ bad' = bad \cup {writes + 1}
  BY DEF FilesOK, TornFile, TornBackup, Tears, Content
<1>2. bad' \subseteq 1..writes'
  BY <1>1 DEF FilesOK, Content
<1> QED
  BY <1>1, <1>2 DEF FilesOK, TornFile, TornBackup

LEMMA TroubleTyped ==
  ASSUME FilesOK, Trouble PROVE troubles' \in 0..MaxTroubles
  BY GuardAssumption DEF FilesOK, Trouble

LEMMA FilesStep ==
  ASSUME FilesOK, GuardOK, CopiesOK, [Next]_vars PROVE FilesOK'
<1> USE DEF diskVars, gameVars
<1>1. CASE UNCHANGED vars
  BY <1>1 DEF FilesOK, vars
<1>2. ASSUME NEW t \in Turns, NEW f \in Files, RestoreFile(t, f) PROVE FilesOK'
  BY <1>2 DEF FilesOK, RestoreFile, PutBack
<1>3. ASSUME NEW t \in Turns, NEW f \in Files, NEW harm \in BOOLEAN, WriteFile(t, f, harm)
      PROVE  FilesOK'
  BY <1>3, WritesTyped DEF FilesOK, WriteFile
<1>4. ASSUME NEW t \in Turns, NEW f \in Files, NEW harm \in BOOLEAN, WriteUnheard(t, f, harm)
      PROVE  FilesOK'
  BY <1>4, WritesTyped, TroubleTyped DEF FilesOK, WriteUnheard
<1>4a. ASSUME NEW t \in Turns, NEW f \in Files, CopyUnheard(t, f) PROVE FilesOK'
  BY <1>4a, TearsTyped, TroubleTyped DEF FilesOK, CopyUnheard, PutBack
<1>5. ASSUME NEW t \in Turns, Stop(t) \/ Start(t) \/ Ends(t) PROVE FilesOK'
  BY <1>5 DEF FilesOK, Stop, Start, Ends, Launch
<1>6. ASSUME NEW t \in Turns, NEW heard \in BOOLEAN, Restart(t, heard) PROVE FilesOK'
  BY <1>6, TroubleTyped DEF FilesOK, Restart, Launch
<1>7. ASSUME NEW t \in Turns, Watches(t) \/ WatchFails(t) PROVE FilesOK'
  BY <1>7, TroubleTyped DEF FilesOK, Watches, WatchFails
<1>8. ASSUME NEW t \in Turns, RollsBack(t) \/ RollBackFails(t) PROVE FilesOK'
  <2>1. change[t] \in Files
    BY <1>8 DEF GuardOK, CopiesOK, RollsBack, RollBackFails
  <2> QED
    BY <1>8, <2>1, TearsTyped, TroubleTyped DEF FilesOK, RollsBack, RollBackFails, PutBack
<1>9. ASSUME NEW t \in Turns, Relaunches(t) \/ RelaunchFails(t) PROVE FilesOK'
  BY <1>9, TroubleTyped DEF FilesOK, Relaunches, RelaunchFails, Launch
<1>10. CASE OfTheGame
  BY <1>10, TroubleTyped DEF FilesOK, OfTheGame, Boots, Settles, Exits, AutoUpdates, PodReplaced,
     Destroyed, Launch
<1> QED
  BY <1>1, <1>2, <1>3, <1>4, <1>4a, <1>5, <1>6, <1>7, <1>8, <1>9, <1>10
  DEF Next, OfTheGame, Calls, Guarding

LEMMA GuardStep ==
  ASSUME GuardOK, [Next]_vars PROVE GuardOK'
<1> USE DEF guardVars
<1>1. CASE UNCHANGED vars
  BY <1>1 DEF GuardOK, vars
<1>2. ASSUME NEW t \in Turns, NEW f \in Files, RestoreFile(t, f) PROVE GuardOK'
  BY <1>2 DEF GuardOK, RestoreFile, Drop
<1>3. ASSUME NEW t \in Turns, NEW f \in Files, NEW harm \in BOOLEAN, WriteFile(t, f, harm)
      PROVE  GuardOK'
  BY <1>3 DEF GuardOK, WriteFile, Note
<1>4. ASSUME NEW t \in Turns, NEW f \in Files, NEW harm \in BOOLEAN, WriteUnheard(t, f, harm)
      PROVE  GuardOK'
  BY <1>4 DEF GuardOK, WriteUnheard
<1>4a. ASSUME NEW t \in Turns, NEW f \in Files, CopyUnheard(t, f) PROVE GuardOK'
  BY <1>4a DEF GuardOK, CopyUnheard
<1>5. ASSUME NEW t \in Turns, Stop(t) \/ Start(t) \/ Ends(t) PROVE GuardOK'
  BY <1>5 DEF GuardOK, Stop, Start, Ends
<1>6. ASSUME NEW t \in Turns, NEW heard \in BOOLEAN, Restart(t, heard) PROVE GuardOK'
  BY <1>6 DEF GuardOK, Restart
<1>7. ASSUME NEW t \in Turns, Watches(t) \/ WatchFails(t) PROVE GuardOK'
  BY <1>7 DEF GuardOK, Watches, WatchFails, Concludes
<1>8. ASSUME NEW t \in Turns, RollsBack(t) \/ RollBackFails(t) PROVE GuardOK'
  BY <1>8 DEF GuardOK, RollsBack, RollBackFails, Concludes
<1>9. ASSUME NEW t \in Turns, Relaunches(t) \/ RelaunchFails(t) PROVE GuardOK'
  BY <1>9 DEF GuardOK, Relaunches, RelaunchFails, Concludes
<1>10. CASE OfTheGame
  BY <1>10 DEF GuardOK, OfTheGame, Boots, Settles, Exits, AutoUpdates, PodReplaced, Destroyed
<1> QED
  BY <1>1, <1>2, <1>3, <1>4, <1>4a, <1>5, <1>6, <1>7, <1>8, <1>9, <1>10
  DEF Next, OfTheGame, Calls, Guarding

LEMMA SpentStep ==
  ASSUME SpentOK, [Next]_vars PROVE SpentOK'
<1>1. ASSUME NEW t \in Turns, Calls(t) PROVE SpentOK'
  <2>1. spent' = spent
    BY <1>1 DEF Calls, RestoreFile, CopyUnheard, WriteFile, WriteUnheard, Stop, Start, Restart, Ends,
                guardVars
  <2> QED
    BY <2>1 DEF SpentOK
<1>2. ASSUME NEW t \in Turns, Guarding(t) \/ WatchFails(t) PROVE SpentOK'
  <2>1. \/ spent' = spent
        \/ \E b \in BOOLEAN : spent' = [spent EXCEPT ![t] = b]
    BY <1>2 DEF Guarding, Watches, WatchFails, RollsBack, RollBackFails, Relaunches,
                RelaunchFails, Concludes
  <2> QED
    BY <2>1 DEF SpentOK
<1>3. CASE OfTheGame \/ UNCHANGED vars
  BY <1>3 DEF SpentOK, OfTheGame, Boots, Settles, Exits, AutoUpdates, PodReplaced, Destroyed,
              guardVars, vars
<1> QED
  BY <1>1, <1>2, <1>3 DEF Next, OfTheGame

LEMMA ForgottenTyped ==
  ASSUME HistoryOK, NEW T, Forgotten(T) PROVE HistoryOK'
<1>1. 0 \in Content /\ "none" \in Verdicts
  BY GuardAssumption DEF Content, Verdicts
<1> QED
  BY <1>1 DEF HistoryOK, Forgotten

LEMMA ConcludesTyped ==
  ASSUME HistoryOK, NEW t \in Turns, NEW v \in Verdicts, NEW T, Concludes(t, v, T)
  PROVE  HistoryOK'
<1>1. 0 \in Content /\ "none" \in Verdicts
  BY GuardAssumption DEF Content, Verdicts
<1> QED
  BY <1>1 DEF HistoryOK, Concludes

LEMMA HistoryStep ==
  ASSUME FilesOK, HistoryOK, [Next]_vars PROVE HistoryOK'
<1> USE DEF historyVars
<1>1. CASE UNCHANGED vars
  BY <1>1 DEF HistoryOK, vars
<1>2. ASSUME NEW t \in Turns, NEW f \in Files, RestoreFile(t, f) PROVE HistoryOK'
  BY <1>2, ForgottenTyped DEF RestoreFile, Drop, Disturb, DisturbAll
<1>3. ASSUME NEW t \in Turns, NEW f \in Files, NEW harm \in BOOLEAN, WriteFile(t, f, harm)
      PROVE  HistoryOK'
  <2>1. CASE disk[f] = Absent
    BY <1>3, <2>1, ForgottenTyped DEF WriteFile, Note, Disturb
  <2>2. CASE disk[f] # Absent
    <3>1. disk[f] \in Content /\ writes + 1 \in Content
      BY <1>3, <2>2, WritesTyped DEF WriteFile, FilesOK
    <3>2. 0 \in Content /\ "none" \in Verdicts
      BY GuardAssumption DEF Content, Verdicts
    <3>3. /\ mine' = [u \in Turns |-> IF u = t THEN writes + 1 ELSE 0]
          /\ before' = [u \in Turns |-> IF u = t THEN disk[f] ELSE 0]
          /\ verdict' = [u \in Turns |-> "none"]
      BY <1>3, <2>2 DEF WriteFile, Note
    <3> QED
      BY <3>1, <3>2, <3>3 DEF HistoryOK
  <2> QED
    BY <2>1, <2>2
<1>4. ASSUME NEW t \in Turns, NEW f \in Files, NEW harm \in BOOLEAN, WriteUnheard(t, f, harm)
      PROVE  HistoryOK'
  BY <1>4, ForgottenTyped DEF WriteUnheard, DisturbAll
<1>4a. ASSUME NEW t \in Turns, NEW f \in Files, CopyUnheard(t, f) PROVE HistoryOK'
  BY <1>4a, ForgottenTyped DEF CopyUnheard, DisturbAll
<1>5. ASSUME NEW t \in Turns, Stop(t) \/ Start(t) \/ Ends(t) PROVE HistoryOK'
  BY <1>5, ForgottenTyped DEF Stop, Start, Ends, Disturb
<1>6. ASSUME NEW t \in Turns, NEW heard \in BOOLEAN, Restart(t, heard) PROVE HistoryOK'
  BY <1>6, ForgottenTyped DEF Restart, Disturb
<1>7. ASSUME NEW t \in Turns, Watches(t) \/ WatchFails(t) PROVE HistoryOK'
  <2>1. HistoryOK' \/ \E v \in Verdicts : Concludes(t, v, {})
    BY <1>7 DEF HistoryOK, Watches, WatchFails, Verdicts
  <2> QED
    BY <2>1, ConcludesTyped
<1>8. ASSUME NEW t \in Turns, RollsBack(t) \/ Relaunches(t) PROVE HistoryOK'
  BY <1>8, ForgottenTyped DEF RollsBack, Relaunches, Disturb
<1>9. ASSUME NEW t \in Turns, RollBackFails(t) \/ RelaunchFails(t) PROVE HistoryOK'
  BY <1>9, ConcludesTyped DEF RollBackFails, RelaunchFails, Verdicts
<1>10. CASE Boots \/ Exits \/ AutoUpdates \/ PodReplaced
  BY <1>10 DEF HistoryOK, Boots, Exits, AutoUpdates, PodReplaced
<1>11. CASE Settles \/ Destroyed
  <2>1. CASE UNCHANGED historyVars
    BY <2>1 DEF HistoryOK
  <2> QED
    BY <1>11, <2>1, ForgottenTyped DEF Settles, Destroyed, DisturbAll
<1> QED
  BY <1>1, <1>2, <1>3, <1>4, <1>4a, <1>5, <1>6, <1>7, <1>8, <1>9, <1>10, <1>11
  DEF Next, Calls, Guarding

\* A copy, once taken, is never lost.
LEMMA CopiesStay ==
  ASSUME FilesOK, [Next]_vars
  PROVE  \A f \in Files : bak[f] # Absent => bak'[f] # Absent
<1> USE DEF diskVars
<1>1. ASSUME NEW f \in Files, NEW c, Overwrite(f, c)
      PROVE  \A g \in Files : bak[g] # Absent => bak'[g] # Absent
  BY <1>1 DEF FilesOK, Overwrite
<1>2. \/ bak' = bak
      \/ \E f \in Files, c \in Nat : Overwrite(f, c) \/ bak' = [bak EXCEPT ![f] = c]
  <2>1. ASSUME NEW t \in Turns, NEW f \in Files, NEW harm \in BOOLEAN,
               WriteFile(t, f, harm) \/ WriteUnheard(t, f, harm)
        PROVE  \E c \in Nat : Overwrite(f, c)
    BY <2>1 DEF WriteFile, WriteUnheard, Writes, FilesOK, Content
  <2>2. ASSUME NEW t \in Turns, NEW f \in Files, RestoreFile(t, f) PROVE bak' = bak
    BY <2>2 DEF RestoreFile, PutBack
  <2>2a. ASSUME NEW t \in Turns, NEW f \in Files, CopyUnheard(t, f)
         PROVE  bak' = bak \/ \E c \in Nat : bak' = [bak EXCEPT ![f] = c]
    <3>1. writes + 1 \in Nat
      BY DEF FilesOK, Content
    <3> QED
      BY <2>2a, <3>1 DEF CopyUnheard, PutBack, TornFile, TornBackup
  <2>3. ASSUME NEW t \in Turns, NEW heard \in BOOLEAN, Restart(t, heard) PROVE bak' = bak
    BY <2>3 DEF Restart
  <2>4. ASSUME NEW t \in Turns, Stop(t) \/ Start(t) \/ Ends(t) PROVE bak' = bak
    BY <2>4 DEF Stop, Start, Ends
  <2>5. ASSUME NEW t \in Turns, Guarding(t) \/ WatchFails(t) PROVE bak' = bak
    BY <2>5 DEF Guarding, Watches, WatchFails, RollsBack, RollBackFails, Relaunches,
                RelaunchFails, PutBack, TornFile
  <2>6. CASE OfTheGame \/ UNCHANGED vars
    BY <2>6 DEF OfTheGame, Boots, Settles, Exits, AutoUpdates, PodReplaced, Destroyed, vars
  <2> QED
    BY <2>1, <2>2, <2>2a, <2>3, <2>4, <2>5, <2>6 DEF Next, OfTheGame, Calls
<1>3. ASSUME NEW f \in Files, NEW c \in Nat, bak' = [bak EXCEPT ![f] = c]
      PROVE  \A g \in Files : bak[g] # Absent => bak'[g] # Absent
  BY <1>3 DEF FilesOK, Absent
<1> QED
  BY <1>1, <1>2, <1>3

LEMMA CopiesStep ==
  ASSUME FilesOK, GuardOK, CopiesOK, [Next]_vars PROVE CopiesOK'
<1> USE DEF guardVars
<1>1. ASSUME UNCHANGED guardVars PROVE CopiesOK'
  BY <1>1, CopiesStay DEF CopiesOK, GuardOK
<1>2. ASSUME NEW t \in Turns, NEW f \in Files, RestoreFile(t, f) PROVE CopiesOK'
  BY <1>2, CopiesStay DEF CopiesOK, GuardOK, RestoreFile, Drop
<1>3. ASSUME NEW t \in Turns, NEW f \in Files, NEW harm \in BOOLEAN, WriteFile(t, f, harm)
      PROVE  CopiesOK'
  <2>1. CASE disk[f] = Absent
    BY <1>3, <2>1, CopiesStay DEF CopiesOK, GuardOK, WriteFile, Note
  <2>2. CASE disk[f] # Absent
    <3>1. bak'[f] # Absent
      BY <1>3, <2>2 DEF WriteFile, Writes, Overwrite, FilesOK
    <3> QED
      BY <1>3, <2>2, <3>1, CopiesStay DEF CopiesOK, GuardOK, WriteFile, Note
  <2> QED
    BY <2>1, <2>2
<1>4. ASSUME NEW t \in Turns, NEW heard \in BOOLEAN, Restart(t, heard) PROVE CopiesOK'
  BY <1>4, CopiesStay DEF CopiesOK, GuardOK, Restart, Takes
<1>5. ASSUME NEW t \in Turns, Ends(t) PROVE CopiesOK'
  BY <1>5, CopiesStay DEF CopiesOK, GuardOK, Ends
<1>6. ASSUME NEW t \in Turns, Guarding(t) \/ WatchFails(t) PROVE CopiesOK'
  <2>1. CASE pc' = [pc EXCEPT ![t] = "choosing"] /\ change' = [change EXCEPT ![t] = NoFile]
    BY <1>6, <2>1, CopiesStay DEF CopiesOK, GuardOK, Guarding, Watches, WatchFails, RollsBack,
         RollBackFails, Relaunches, RelaunchFails, Concludes
  <2>2. CASE /\ \E p \in {"watching", "restoring", "relaunching"} : pc' = [pc EXCEPT ![t] = p]
             /\ pc[t] \in {"watching", "restoring", "relaunching"}
             /\ UNCHANGED <<pending, change>>
    BY <2>2, CopiesStay DEF CopiesOK, GuardOK
  <2> QED
    BY <1>6, <2>1, <2>2 DEF Guarding, Watches, WatchFails, RollsBack, RollBackFails,
         Relaunches, RelaunchFails, Concludes
<1> QED
  <2>1. ASSUME NEW t \in Turns, NEW f \in Files, NEW harm \in BOOLEAN, WriteUnheard(t, f, harm)
        PROVE  UNCHANGED guardVars
    BY <2>1 DEF WriteUnheard
  <2>1a. ASSUME NEW t \in Turns, NEW f \in Files, CopyUnheard(t, f) PROVE UNCHANGED guardVars
    BY <2>1a DEF CopyUnheard
  <2>2. ASSUME NEW t \in Turns, Stop(t) \/ Start(t) PROVE UNCHANGED guardVars
    BY <2>2 DEF Stop, Start
  <2>3. CASE OfTheGame \/ UNCHANGED vars
    BY <2>3, <1>1 DEF OfTheGame, Boots, Settles, Exits, AutoUpdates, PodReplaced, Destroyed, vars
  <2> QED
    BY <1>1, <1>2, <1>3, <1>4, <1>5, <1>6, <2>1, <2>1a, <2>2, <2>3 DEF Next, OfTheGame, Calls

LEMMA TypeStep ==
  ASSUME TypeOK, [Next]_vars PROVE TypeOK'
<1>1. FilesOK /\ GuardOK /\ SpentOK /\ HistoryOK /\ CopiesOK
  BY TypeParts
<1>2. FilesOK' /\ GuardOK' /\ SpentOK' /\ HistoryOK' /\ CopiesOK'
  BY <1>1, FilesStep, GuardStep, SpentStep, HistoryStep, CopiesStep
<1> QED
  BY <1>2 DEF TypeOK, FilesOK, GuardOK, SpentOK, HistoryOK, CopiesOK

LEMMA TypeInit == Init => TypeOK
<1> SUFFICES ASSUME Init PROVE TypeOK
  OBVIOUS
<1>1. 0 \in Content
  BY GuardAssumption DEF Content
<1>2. FilesOK
  <2>1. disk \in [Files -> Content \cup {Absent}] /\ bak \in [Files -> Content \cup {Absent}]
    BY <1>1 DEF Init
  <2>2. phase = "running" /\ game = "up" /\ signal \in BOOLEAN
    BY DEF Init
  <2>3. writes \in Content /\ bad \subseteq 1..writes /\ loaded = disk /\ troubles \in 0..MaxTroubles
    BY <1>1, GuardAssumption DEF Init
  <2> QED
    BY <2>1, <2>2, <2>3 DEF FilesOK
<1>2a. GuardOK /\ HistoryOK
  BY <1>1, GuardAssumption DEF Init, GuardOK, HistoryOK, Verdicts
<1>3. SpentOK /\ CopiesOK
  BY DEF Init, SpentOK, CopiesOK
<1> QED
  BY <1>2, <1>2a, <1>3, TypeParts

\* Type correctness of the guard: every variable keeps its type, and what a turn
\* has pending or under verification is always a file with a copy to put back.
THEOREM TypeCorrect == Spec => []TypeOK
  BY TypeInit, TypeStep, PTL DEF Spec

-----------------------------------------------------------------------------
(* The invariant is kept, one conjunct after the other.                       *)

LEMMA FreshStep ==
  ASSUME TypeOK, Fresh, [Next]_vars PROVE Fresh'
<1> USE DEF diskVars, gameVars, historyVars
<1>a. /\ FilesOK /\ HistoryOK /\ GuardOK /\ CopiesOK
      /\ writes \in Nat /\ \A f \in Files : disk[f] \in Int /\ bak[f] \in Int /\ loaded[f] \in Int
  BY TypeParts DEF FilesOK, Content, Absent
<1>b. ASSUME NEW T, Forgotten(T) PROVE \A u \in Turns : mine'[u] \in {0, mine[u]}
  BY <1>b DEF Forgotten
<1>c. ASSUME NEW t \in Turns, NEW v, NEW T, Concludes(t, v, T)
      PROVE  \A u \in Turns : mine'[u] \in {0, mine[u]}
  BY <1>c DEF Concludes
<1>1. CASE UNCHANGED vars
  BY <1>1 DEF Fresh, vars
<1>2. ASSUME NEW t \in Turns, NEW f \in Files, RestoreFile(t, f) PROVE Fresh'
  <2>1. \A u \in Turns : mine'[u] \in {0, mine[u]}
    BY <1>2, <1>b DEF RestoreFile, Drop, Disturb, DisturbAll
  <2> QED
    BY <1>2, <1>a, <2>1 DEF Fresh, FilesOK, RestoreFile, PutBack
<1>3. ASSUME NEW t \in Turns, NEW f \in Files, NEW harm \in BOOLEAN,
             WriteFile(t, f, harm) \/ WriteUnheard(t, f, harm)
      PROVE  Fresh'
  <2>1. \A u \in Turns : mine'[u] \in {0, mine[u], writes + 1}
    BY <1>3, <1>b DEF WriteFile, WriteUnheard, Note, Disturb, DisturbAll
  <2>2. /\ writes' = writes + 1 /\ loaded' = loaded
        /\ disk' = [disk EXCEPT ![f] = writes + 1]
        /\ bak' = bak \/ bak' = [bak EXCEPT ![f] = disk[f]]
    BY <1>3 DEF WriteFile, WriteUnheard, Writes, Overwrite
  <2>3. \A u \in Turns : mine[u] \in Nat
    BY <1>a DEF HistoryOK, Content
  <2> QED
    BY <1>a, <2>1, <2>2, <2>3 DEF Fresh, FilesOK
<1>4. ASSUME NEW t \in Turns, Stop(t) \/ Start(t) \/ Ends(t) PROVE Fresh'
  <2>1. \A u \in Turns : mine'[u] \in {0, mine[u]}
    BY <1>4, <1>b DEF Stop, Start, Ends, Disturb
  <2> QED
    BY <1>4, <1>a, <2>1 DEF Fresh, Stop, Start, Ends, Launch
<1>5. ASSUME NEW t \in Turns, NEW heard \in BOOLEAN, Restart(t, heard) PROVE Fresh'
  <2>1. \A u \in Turns : mine'[u] \in {0, mine[u]}
    BY <1>5, <1>b DEF Restart, Disturb
  <2> QED
    BY <1>5, <1>a, <2>1 DEF Fresh, Restart, Launch
<1>6. ASSUME NEW t \in Turns, Guarding(t) \/ WatchFails(t) PROVE Fresh'
  <2>1. \A u \in Turns : mine'[u] \in {0, mine[u]}
    BY <1>6, <1>b, <1>c DEF Guarding, Watches, WatchFails, RollsBack, RollBackFails,
       Relaunches, RelaunchFails, Disturb
  <2>2. pc[t] \in AtWork => change[t] \in Files
    BY <1>a DEF GuardOK, CopiesOK, AtWork
  <2>3. /\ bak' = bak
        /\ \/ writes' = writes /\ disk' = disk
           \/ writes' = writes /\ \E f \in Files : disk' = [disk EXCEPT ![f] = bak[f]]
           \/ writes' = writes + 1 /\ \E f \in Files : disk' = [disk EXCEPT ![f] = writes + 1]
        /\ loaded' = loaded \/ loaded' = disk
    <3>1. CASE Watches(t) \/ WatchFails(t)
      BY <3>1 DEF Watches, WatchFails
    <3>2. CASE Relaunches(t) \/ RelaunchFails(t)
      BY <3>2 DEF Relaunches, RelaunchFails, Launch
    <3>3. CASE RollsBack(t) \/ RollBackFails(t)
      <4>1. change[t] \in Files /\ UNCHANGED loaded
        BY <2>2, <3>3 DEF RollsBack, RollBackFails, AtWork
      <4>2. CASE UNCHANGED diskVars
        BY <4>1, <4>2
      <4>3. CASE PutBack(change[t])
        BY <4>1, <4>3 DEF PutBack
      <4>4. CASE TornFile(change[t])
        BY <4>1, <4>4 DEF TornFile, Tears
      <4> QED
        BY <3>3, <4>2, <4>3, <4>4 DEF RollsBack, RollBackFails
    <3> QED
      BY <1>6, <3>1, <3>2, <3>3 DEF Guarding
  <2>4. \A u \in Turns : mine[u] \in Nat
    BY <1>a DEF HistoryOK, Content
  <2> QED
    BY <1>a, <2>1, <2>3, <2>4 DEF Fresh, FilesOK
<1>7. CASE OfTheGame
  <2>1. \A u \in Turns : mine'[u] \in {0, mine[u]}
    BY <1>7, <1>b DEF OfTheGame, Boots, Settles, Exits, AutoUpdates, PodReplaced, Destroyed, DisturbAll
  <2>2. UNCHANGED <<disk, bak, writes>> /\ loaded' \in {loaded, disk}
    BY <1>7 DEF OfTheGame, Boots, Settles, Exits, AutoUpdates, PodReplaced, Destroyed, Launch
  <2> QED
    BY <1>a, <2>1, <2>2 DEF Fresh
<1>8. ASSUME NEW t \in Turns, NEW f \in Files, CopyUnheard(t, f) PROVE Fresh'
  <2>1. \A u \in Turns : mine'[u] \in {0, mine[u]}
    BY <1>8, <1>b DEF CopyUnheard, DisturbAll
  <2>2. UNCHANGED loaded
    BY <1>8 DEF CopyUnheard
  <2>3. \A u \in Turns : mine[u] \in Nat
    BY <1>a DEF HistoryOK, Content
  <2>4. CASE PutBack(f)
    BY <1>a, <2>1, <2>2, <2>4 DEF Fresh, FilesOK, PutBack
  <2>5. CASE TornFile(f) \/ TornBackup(f)
    <3>1. /\ writes' = writes + 1
          /\ disk' \in {disk, [disk EXCEPT ![f] = writes + 1]}
          /\ bak' \in {bak, [bak EXCEPT ![f] = writes + 1]}
      BY <2>5 DEF TornFile, TornBackup, Tears
    <3> QED
      BY <1>a, <2>1, <2>2, <2>3, <3>1 DEF Fresh, FilesOK
  <2> QED
    BY <1>8, <2>4, <2>5 DEF CopyUnheard
<1> QED
  BY <1>1, <1>2, <1>3, <1>4, <1>5, <1>6, <1>7, <1>8 DEF Next, OfTheGame, Calls

LEMMA UpStep ==
  ASSUME TypeOK, Fresh, UpIsGood, [Next]_vars PROVE UpIsGood'
<1> USE DEF diskVars, gameVars
<1>1. CASE UNCHANGED <<game, loaded>> /\ bad' \subseteq bad \cup {writes + 1}
  <2>1. \A g \in Files : loaded[g] # writes + 1
    BY DEF Fresh, TypeOK, Content, Absent
  <2> QED
    BY <1>1, <2>1 DEF UpIsGood
<1>2. CASE game' # "up"
  BY <1>2 DEF UpIsGood
<1>3. CASE Boots
  BY <1>3 DEF UpIsGood, Boots, LoadedBad
<1>4. ASSUME NEW t \in Turns, Calls(t)
      PROVE  game' # "up" \/ (UNCHANGED <<game, loaded>> /\ bad' \subseteq bad \cup {writes + 1})
  BY <1>4 DEF Calls, RestoreFile, CopyUnheard, WriteFile, WriteUnheard, Writes, PutBack, TornFile,
              TornBackup, Tears, Stop, Start, Restart, Ends, Launch
<1>5. ASSUME NEW t \in Turns, Guarding(t) \/ WatchFails(t)
      PROVE  game' # "up" \/ (UNCHANGED <<game, loaded>> /\ bad' \subseteq bad \cup {writes + 1})
  BY <1>5 DEF Guarding, Watches, WatchFails, RollsBack, RollBackFails, Relaunches,
              RelaunchFails, PutBack, TornFile, Tears, Launch
<1>6. CASE Settles \/ Exits \/ AutoUpdates \/ PodReplaced \/ Destroyed
  BY <1>1, <1>2, <1>6 DEF Settles, Exits, AutoUpdates, PodReplaced, Destroyed, Launch
<1> QED
  BY <1>1, <1>2, <1>3, <1>4, <1>5, <1>6 DEF Next, vars

\* Only the loop itself reports a game as up, and it does so of one that is, or
\* with every watch that is shown it excused.
LEMMA HonestStep ==
  ASSUME TypeOK, Honest, [Next]_vars PROVE Honest'
<1> USE DEF gameVars, guardVars, historyVars
<1>1. CASE phase' # "running" \/ game' = "up"
  BY <1>1 DEF Honest
<1>2. CASE /\ UNCHANGED <<phase, game>>
           /\ \A u \in Turns : mine'[u] # 0 /\ pc'[u] = "watching" /\ ~spent'[u]
                => mine[u] # 0 /\ pc[u] = "watching" /\ ~spent[u]
  BY <1>2 DEF Honest
<1>3. CASE Settles
  <2>1. CASE game = "up" \/ phase = "stopped"
    BY <1>1, <1>3, <2>1 DEF Settles
  <2>2. CASE Forgotten({t \in Turns : pc[t] = "watching" /\ ~spent[t]})
    BY <1>3, <2>2 DEF Settles, Forgotten, TypeOK, Honest
  <2> QED
    BY <1>3, <2>1, <2>2 DEF Settles
<1>4. CASE Boots \/ Exits \/ AutoUpdates \/ PodReplaced \/ Destroyed
  BY <1>1, <1>4 DEF Boots, Exits, AutoUpdates, PodReplaced, Destroyed, Launch
<1>5. ASSUME NEW T, Forgotten(T), UNCHANGED <<phase, game>>,
             \A u \in Turns : pc'[u] = "watching" /\ ~spent'[u] => pc[u] = "watching" /\ ~spent[u]
      PROVE  Honest'
  BY <1>2, <1>5 DEF Forgotten, TypeOK
<1>6. ASSUME NEW t \in Turns, NEW v, NEW T, Concludes(t, v, T), UNCHANGED <<phase, game>>
      PROVE  Honest'
  BY <1>2, <1>6 DEF Concludes, TypeOK
<1>7. ASSUME NEW t \in Turns, Calls(t) PROVE Honest'
  <2>1. ASSUME NEW f \in Files, RestoreFile(t, f) \/ CopyUnheard(t, f) PROVE Honest'
    BY <1>5, <2>1 DEF RestoreFile, CopyUnheard, Drop, Disturb, DisturbAll
  <2>2. ASSUME NEW f \in Files, NEW harm \in BOOLEAN, WriteUnheard(t, f, harm) PROVE Honest'
    BY <1>5, <2>2 DEF WriteUnheard, DisturbAll
  <2>3. ASSUME NEW f \in Files, NEW harm \in BOOLEAN, WriteFile(t, f, harm) PROVE Honest'
    <3>1. CASE disk[f] = Absent
      BY <1>5, <2>3, <3>1 DEF WriteFile, Note, Disturb
    <3>2. CASE disk[f] # Absent
      BY <1>2, <2>3, <3>2 DEF WriteFile, Note, TypeOK
    <3> QED
      BY <3>1, <3>2
  <2>4. CASE Stop(t) \/ Start(t) \/ \E heard \in BOOLEAN : Restart(t, heard)
    BY <1>1, <2>4 DEF Stop, Start, Restart, Launch
  <2>5. CASE Ends(t)
    BY <1>5, <2>5 DEF Ends, TypeOK
  <2> QED
    BY <1>7, <2>1, <2>2, <2>3, <2>4, <2>5 DEF Calls
<1>8. ASSUME NEW t \in Turns, Guarding(t) \/ WatchFails(t) PROVE Honest'
  <2>1. CASE RollsBack(t)
    BY <1>5, <2>1 DEF RollsBack, Disturb, TypeOK
  <2>2. CASE Watches(t)
    <3>1. CASE pc' = [pc EXCEPT ![t] = "restoring"] /\ UNCHANGED <<spent, mine>>
      BY <1>2, <2>2, <3>1 DEF Watches, TypeOK
    <3> QED
      BY <1>6, <2>2, <3>1 DEF Watches
  <2>3. CASE WatchFails(t) \/ RollBackFails(t)
    BY <1>6, <2>3 DEF WatchFails, RollBackFails
  <2>4. CASE Relaunches(t)
    BY <1>1, <2>4 DEF Relaunches, Launch
  <2>5. CASE RelaunchFails(t)
    BY <1>1, <1>6, <2>5 DEF RelaunchFails, Launch
  <2> QED
    BY <1>8, <2>1, <2>2, <2>3, <2>4, <2>5 DEF Guarding
<1>9. CASE UNCHANGED vars
  BY <1>2, <1>9 DEF vars
<1> QED
  BY <1>3, <1>4, <1>7, <1>8, <1>9 DEF Next

LEMMA RollsBackOnce ==
  ASSUME NEW seen, NEW again \in BOOLEAN, NextStep(seen, again) = "rollBack"
  PROVE  seen = "crashed" /\ ~again
<1>1. CASE again = TRUE
  BY <1>1 DEF NextStep
<1>2. CASE again = FALSE
  BY <1>2 DEF NextStep
<1> QED
  BY <1>1, <1>2

LEMMA OneChangeStep ==
  ASSUME TypeOK, OneChange, [Next]_vars PROVE OneChange'
<1> USE DEF guardVars, AtWork
<1>1. CASE UNCHANGED guardVars
  BY <1>1 DEF OneChange
<1>2. ASSUME NEW t \in Turns, NEW f \in Files, RestoreFile(t, f) PROVE OneChange'
  BY <1>2 DEF TypeOK, OneChange, RestoreFile, Drop
<1>3. ASSUME NEW t \in Turns, NEW f \in Files, NEW harm \in BOOLEAN, WriteFile(t, f, harm)
      PROVE  OneChange'
  BY <1>3 DEF TypeOK, OneChange, WriteFile, Note
<1>4. ASSUME NEW t \in Turns, NEW heard \in BOOLEAN, Restart(t, heard) PROVE OneChange'
  BY <1>4 DEF TypeOK, OneChange, Restart
<1>5. ASSUME NEW t \in Turns, Ends(t) PROVE OneChange'
  BY <1>5 DEF TypeOK, OneChange, Ends
<1>6. ASSUME NEW t \in Turns, Watches(t) \/ WatchFails(t) PROVE OneChange'
  <2>1. CASE \E v, T : Concludes(t, v, T)
    BY <2>1 DEF TypeOK, OneChange, Concludes
  <2>2. CASE /\ NextStep(Waited, spent[t]) = "rollBack" /\ pc[t] = "watching"
             /\ pc' = [pc EXCEPT ![t] = "restoring"] /\ UNCHANGED <<pending, spent>>
    <3>1. ~spent[t]
      BY <2>2, RollsBackOnce DEF TypeOK
    <3> QED
      BY <2>2, <3>1 DEF TypeOK, OneChange
  <2> QED
    BY <1>6, <2>1, <2>2 DEF Watches, WatchFails
<1>7. ASSUME NEW t \in Turns, RollsBack(t) \/ RollBackFails(t) PROVE OneChange'
  BY <1>7 DEF TypeOK, OneChange, RollsBack, RollBackFails, Concludes
<1>8. ASSUME NEW t \in Turns, Relaunches(t) \/ RelaunchFails(t) PROVE OneChange'
  BY <1>8 DEF TypeOK, OneChange, Relaunches, RelaunchFails, Concludes
<1>9. ASSUME NEW t \in Turns, NEW f \in Files, NEW harm \in BOOLEAN, WriteUnheard(t, f, harm)
      PROVE  UNCHANGED guardVars
  BY <1>9 DEF WriteUnheard
<1>9a. ASSUME NEW t \in Turns, NEW f \in Files, CopyUnheard(t, f) PROVE UNCHANGED guardVars
  BY <1>9a DEF CopyUnheard
<1>10. ASSUME NEW t \in Turns, Stop(t) \/ Start(t) PROVE UNCHANGED guardVars
  BY <1>10 DEF Stop, Start
<1>11. CASE OfTheGame \/ UNCHANGED vars
  BY <1>1, <1>11 DEF OfTheGame, Boots, Settles, Exits, AutoUpdates, PodReplaced, Destroyed, vars
<1> QED
  BY <1>1, <1>2, <1>3, <1>4, <1>5, <1>6, <1>7, <1>8, <1>9, <1>9a, <1>10, <1>11
  DEF Next, OfTheGame, Calls, Guarding

-----------------------------------------------------------------------------
(* Where the changes are, a step of the server or of a turn at a time.        *)

\* A change that is still undisturbed after others had their step is as it was.
LEMMA Spared ==
  ASSUME TypeOK, NEW T, Forgotten(T), NEW u \in Turns, mine'[u] # 0
  PROVE  u \notin T /\ mine'[u] = mine[u] /\ before'[u] = before[u] /\ verdict'[u] = verdict[u]
  BY DEF TypeOK, Forgotten

LEMMA SparedByVerdict ==
  ASSUME TypeOK, NEW t \in Turns, NEW v, NEW T, Concludes(t, v, T), NEW u \in Turns, mine'[u] # 0
  PROVE  /\ u \notin T /\ mine'[u] = mine[u] /\ before'[u] = before[u]
         /\ u # t => verdict'[u] = verdict[u] /\ pc'[u] = pc[u] /\ spent'[u] = spent[u]
         /\ pending' = pending /\ change'[u] = IF u = t THEN NoFile ELSE change[u]
         /\ u = t => verdict'[u] = v /\ pc'[u] = "choosing"
  BY DEF TypeOK, Concludes

\* Nothing that a change hangs on has moved.
LEMMA StillFollows ==
  ASSUME NEW u \in Turns, Follows(u), UNCHANGED <<disk, bak, bad, loaded>>,
         mine'[u] = mine[u], before'[u] = before[u], verdict'[u] = verdict[u],
         pc'[u] = pc[u], pending'[u] = pending[u], change'[u] = change[u], spent'[u] = spent[u]
  PROVE  Follows(u)'
  BY DEF Follows, InPlace, Undone, Owned

LEMMA WriteFollows ==
  ASSUME IInv, NEW t \in Turns, NEW f \in Files, NEW harm \in BOOLEAN, WriteFile(t, f, harm)
  PROVE  Tracked'
<1> SUFFICES ASSUME NEW u \in Turns, mine'[u] # 0 PROVE Follows(u)'
  BY DEF Tracked
<1> USE DEF gameVars
<1>1. /\ disk' = [disk EXCEPT ![f] = writes + 1] /\ loaded' = loaded
      /\ bad' \subseteq bad \cup {writes + 1} /\ pc[t] = "choosing"
      /\ UNCHANGED <<pc, change, spent>>
      /\ bak' = IF disk[f] = Absent THEN bak ELSE [bak EXCEPT ![f] = disk[f]]
  BY DEF WriteFile, Writes, Overwrite
<1>2. /\ \A g \in Files : disk[g] # writes + 1 /\ bak[g] # writes + 1 /\ loaded[g] # writes + 1
      /\ \A w \in Turns : mine[w] # writes + 1
  BY DEF IInv, Fresh, TypeOK, Content, Absent
<1>3. CASE disk[f] = Absent
  <2>1. Forgotten(Turns \ {t}) /\ UNCHANGED pending
    BY <1>3 DEF WriteFile, Note, Disturb
  <2>2. u = t /\ mine'[u] = mine[u] /\ before'[u] = before[u] /\ verdict'[u] = verdict[u]
    BY <2>1, Spared DEF IInv
  <2>3. Follows(u)
    BY <2>2 DEF IInv, Tracked
  <2>4. before[u] # Absent /\ mine[u] # Absent
    BY GuardAssumption DEF IInv, TypeOK, Content, Absent
  <2>5. Undone(u) => Undone(u)'
    BY <1>1, <1>2, <1>3, <2>2, <2>4 DEF Undone, IInv, TypeOK
  <2>6. ASSUME NEW h \in Files, InPlace(u, h) PROVE InPlace(u, h)'
    BY <1>1, <1>2, <1>3, <2>2, <2>4, <2>6 DEF InPlace, IInv, TypeOK
  <2>7. pending[u] # NoFile => pending[u] \in Files
    BY DEF IInv, TypeOK
  <2>8. mine'[u] \in bad' => mine[u] \in bad
    BY <1>1, <1>2, <2>2
  <2>9. \A g \in Files : disk'[g] = mine'[u] => disk[g] = mine[u]
    BY <1>1, <1>2, <2>2 DEF IInv, TypeOK
  <2>10. (\A g \in Files : bak[g] # mine[u]) /\ (pending[u] # NoFile => InPlace(u, pending[u]))
         /\ (verdict[u] = "healthy" => mine[u] \notin bad)
         /\ (verdict[u] = "rolledBack" => Undone(u))
         /\ (mine[u] \in bad /\ (\E g \in Files : disk[g] = mine[u] \/ loaded[g] = mine[u]) => Owned(u))
    BY <2>3 DEF Follows
  <2>11. bak' = bak
    BY <1>1, <1>3
  <2>12. pc'[u] = "choosing"
    BY <1>1, <2>2
  <2>13. Owned(u) => Owned(u)'
    BY <1>1, <2>1, <2>2 DEF Owned
  <2> QED
    BY <1>1, <2>1, <2>2, <2>5, <2>6, <2>7, <2>8, <2>9, <2>10, <2>11, <2>12, <2>13 DEF Follows
<1>4. CASE disk[f] # Absent
  <2>1. /\ pending' = [pending EXCEPT ![t] = f]
        /\ mine' = [w \in Turns |-> IF w = t THEN writes + 1 ELSE 0]
        /\ before' = [w \in Turns |-> IF w = t THEN disk[f] ELSE 0]
        /\ verdict' = [w \in Turns |-> "none"]
    BY <1>4 DEF WriteFile, Note
  <2>2. u = t /\ mine'[u] = writes + 1 /\ before'[u] = disk[f] /\ verdict'[u] = "none"
    BY <2>1
  <2>3. pending'[u] = f /\ f # NoFile /\ pc'[u] = "choosing"
    BY <1>1, <2>1, <2>2, NoFileAssumption DEF IInv, TypeOK
  <2>4. \A g \in Files : bak'[g] # mine'[u]
    BY <1>1, <1>2, <1>4, <2>2 DEF IInv, TypeOK
  <2>5. InPlace(u, f)'
    BY <1>1, <1>2, <1>4, <2>2 DEF InPlace, IInv, TypeOK
  <2>6. Owned(u)'
    BY <2>3 DEF Owned
  <2> QED
    BY <2>2, <2>3, <2>4, <2>5, <2>6 DEF Follows
<1> QED
  BY <1>3, <1>4

LEMMA RestoreFollows ==
  ASSUME IInv, NEW t \in Turns, NEW f \in Files, RestoreFile(t, f)
  PROVE  Tracked'
<1> SUFFICES ASSUME NEW u \in Turns, mine'[u] # 0 PROVE Follows(u)'
  BY DEF Tracked
<1> USE DEF gameVars
<1>1. /\ disk' = [disk EXCEPT ![f] = bak[f]] /\ pc[t] = "choosing"
      /\ UNCHANGED <<bak, bad, loaded, pc, change, spent>>
  BY DEF RestoreFile, PutBack
<1>2. /\ u = t /\ pending[t] # f /\ pending'[t] = pending[t]
      /\ mine'[u] = mine[u] /\ before'[u] = before[u] /\ verdict'[u] = verdict[u]
  BY Spared DEF RestoreFile, Drop, Disturb, DisturbAll, IInv, TypeOK
<1>3. Follows(u)
  BY <1>2 DEF IInv, Tracked
<1>4. \A g \in Files : bak[g] # mine[u]
  BY <1>3 DEF Follows
<1>5. Undone(u) => Undone(u)'
  BY <1>1, <1>2, <1>4 DEF Undone, IInv, TypeOK
<1>6. ASSUME NEW h \in Files, h # f, InPlace(u, h) PROVE InPlace(u, h)'
  BY <1>1, <1>2, <1>4, <1>6 DEF InPlace, IInv, TypeOK
<1>7. pending[u] # NoFile => pending[u] \in Files /\ pending[u] # f
  BY <1>2 DEF IInv, TypeOK
<1>8. \A g \in Files : disk'[g] = mine'[u] => disk[g] = mine[u]
  BY <1>1, <1>2, <1>4 DEF IInv, TypeOK
<1>9. pc'[u] = "choosing" /\ pc[u] = "choosing" /\ pending'[u] = pending[u]
  BY <1>1, <1>2
<1>10. Owned(u) => Owned(u)'
  BY <1>2, <1>9 DEF Owned
<1> QED
  BY <1>1, <1>2, <1>3, <1>5, <1>6, <1>7, <1>8, <1>9, <1>10 DEF Follows

\* A launch: what the files hold is what is loaded.
LEMMA LaunchFollows ==
  ASSUME NEW u \in Turns, Follows(u), loaded' = disk, UNCHANGED <<disk, bak, bad>>,
         mine'[u] = mine[u], before'[u] = before[u], verdict'[u] = verdict[u],
         pc'[u] = pc[u], pending'[u] = pending[u], change'[u] = change[u], spent'[u] = spent[u]
  PROVE  Follows(u)'
  BY DEF Follows, InPlace, Undone, Owned

LEMMA ToolsFollow ==
  ASSUME IInv, NEW t \in Turns, Stop(t) \/ Start(t) \/ Ends(t)
  PROVE  Tracked'
<1> SUFFICES ASSUME NEW u \in Turns, mine'[u] # 0 PROVE Follows(u)'
  BY DEF Tracked
<1> USE DEF gameVars, diskVars, guardVars
<1>1. CASE Stop(t)
  BY <1>1, Spared, StillFollows DEF Stop, Disturb, IInv, Tracked
<1>2. CASE Start(t)
  BY <1>2, Spared, LaunchFollows DEF Start, Launch, Disturb, IInv, Tracked
<1>3. CASE Ends(t)
  <2>1. u # t /\ mine'[u] = mine[u] /\ before'[u] = before[u] /\ verdict'[u] = verdict[u]
    BY <1>3, Spared DEF Ends, IInv
  <2>2. pc'[u] = pc[u] /\ pending'[u] = pending[u]
    BY <1>3, <2>1 DEF Ends, IInv, TypeOK
  <2> QED
    BY <1>3, <2>1, <2>2, StillFollows DEF Ends, IInv, Tracked
<1> QED
  BY <1>1, <1>2, <1>3

\* A change that was pending is watched from the launch that loads it.
LEMMA RestartFollows ==
  ASSUME IInv, NEW t \in Turns, NEW heard \in BOOLEAN, Restart(t, heard)
  PROVE  Tracked'
<1> SUFFICES ASSUME NEW u \in Turns, mine'[u] # 0 PROVE Follows(u)'
  BY DEF Tracked
<1> USE DEF diskVars
<1>1. u = t /\ mine'[u] = mine[u] /\ before'[u] = before[u] /\ verdict'[u] = verdict[u]
  BY Spared DEF Restart, Disturb, IInv
<1>2. Follows(u) /\ Launch /\ UNCHANGED <<disk, bak, bad, writes, spent>> /\ pc[u] = "choosing"
  BY <1>1 DEF Restart, IInv, Tracked
<1>3. CASE UNCHANGED <<pc, pending, change>>
  BY <1>1, <1>2, <1>3, LaunchFollows DEF Launch
<1>4. CASE Takes(t, heard)
  <2>1. pc'[u] = "watching" /\ change'[u] = pending[u] /\ pending'[u] = NoFile /\ pending[u] # NoFile
    BY <1>1, <1>4 DEF Restart, Takes, IInv, TypeOK
  <2>2. InPlace(u, pending[u]) /\ loaded' = disk
    BY <1>2, <2>1 DEF Follows, Launch
  <2>3. InPlace(u, change[u])'
    BY <1>1, <1>2, <2>1, <2>2 DEF InPlace
  <2>4. spent'[u] = spent[u] /\ ~spent[u]
    <3>1. spent[u] => pc[u] = "watching"
      BY DEF IInv, OneChange
    <3> QED
      BY <1>2, <3>1
  <2>5. Owned(u)'
    BY <2>1 DEF Owned, AtWork
  <2>6. verdict'[u] = "rolledBack" => Undone(u)'
    BY <1>1, <1>2 DEF Follows, Undone
  <2>7. /\ \A g \in Files : bak'[g] # mine'[u]
        /\ verdict'[u] = "healthy" => mine'[u] \notin bad'
    BY <1>1, <1>2 DEF Follows
  <2>8. ~spent'[u]
    BY <2>4
  <2> QED
    BY <1>2, <2>1, <2>2, <2>3, <2>5, <2>6, <2>7, <2>8 DEF Follows
<1> QED
  BY <1>3, <1>4 DEF Restart

\* The verdict on a change is the truth about it.
LEMMA WatchFollows ==
  ASSUME IInv, NEW t \in Turns, Watches(t) \/ WatchFails(t)
  PROVE  Tracked'
<1> SUFFICES ASSUME NEW u \in Turns, mine'[u] # 0 PROVE Follows(u)'
  BY DEF Tracked
<1> USE DEF diskVars, gameVars, historyVars
<1>1. UNCHANGED <<disk, bak, writes, bad, phase, loaded>> /\ pc[t] = "watching"
  BY DEF Watches, WatchFails
<1>2. CASE /\ NextStep(Waited, spent[t]) = "rollBack"
           /\ pc' = [pc EXCEPT ![t] = "restoring"] /\ UNCHANGED <<pending, change, spent, historyVars>>
  <2>1. Follows(u)
    BY <1>2 DEF IInv, Tracked
  <2>2. CASE u # t
    <3>1. pc'[u] = pc[u]
      BY <1>2, <2>2 DEF IInv, TypeOK
    <3> QED
      BY <1>1, <1>2, <2>1, <3>1, StillFollows
  <2>3. CASE u = t
    <3>1. ~spent[u]
      BY <1>2, <2>3, RollsBackOnce DEF IInv, TypeOK
    <3>2. InPlace(u, change[u])
      BY <1>1, <2>1, <2>3, <3>1 DEF Follows
    <3>3. InPlace(u, change[u])'
      BY <1>1, <1>2, <3>2 DEF InPlace
    <3>4. pc'[u] = "restoring" /\ pending'[u] = NoFile
      BY <1>1, <1>2, <2>3 DEF IInv, TypeOK, OneChange, AtWork
    <3>5. Owned(u)'
      BY <3>4 DEF Owned, AtWork
    <3>6. Undone(u) => Undone(u)'
      BY <1>1, <1>2 DEF Undone
    <3> QED
      BY <1>1, <1>2, <2>1, <3>3, <3>4, <3>5, <3>6 DEF Follows
  <2> QED
    BY <2>2, <2>3
<1>3. ASSUME NEW v, Concludes(t, v, {}),
             v = "healthy" => NextStep(Waited, spent[t]) = "healthy" /\ ~spent[t],
             v = "rolledBack" => spent[t],
             v \in {"healthy", "rolledBack", "rollbackFailed", "inconclusive", "unverified"}
      PROVE  Follows(u)'
  <2>1. mine'[u] = mine[u] /\ before'[u] = before[u] /\ Follows(u)
    BY <1>3, SparedByVerdict DEF IInv, Tracked
  <2>2. CASE u # t
    <3>1. /\ verdict'[u] = verdict[u] /\ pc'[u] = pc[u] /\ spent'[u] = spent[u]
          /\ pending'[u] = pending[u] /\ change'[u] = change[u]
      BY <1>3, <2>2, SparedByVerdict DEF IInv
    <3> QED
      BY <1>1, <2>1, <3>1, StillFollows
  <2>3. CASE u = t
    <3>1. /\ verdict'[u] = v /\ pc'[u] = "choosing" /\ pending'[u] = NoFile
      BY <1>1, <1>3, <2>3, SparedByVerdict DEF IInv, OneChange, AtWork
    <3>2. loaded = disk
      BY <1>1, <2>1, <2>3 DEF Follows
    <3>3. ASSUME v = "healthy" PROVE mine[u] \notin bad
      <4>2. ~spent[u]
        BY <1>3, <2>3, <3>3
      <4>1. game = "up"
        <5>1. phase = "running"
          BY <1>3, <3>3 DEF NextStep, Waited
        <5> QED
          BY <1>1, <2>1, <2>3, <4>2, <5>1 DEF IInv, Honest
      <4>3. InPlace(u, change[u]) /\ change[u] \in Files
        BY <1>1, <2>1, <2>3, <4>2 DEF Follows, IInv, TypeOK
      <4>4. disk[change[u]] = mine[u]
        BY <4>3 DEF InPlace
      <4> QED
        BY <3>2, <4>1, <4>3, <4>4 DEF IInv, UpIsGood
    <3>4. ASSUME v = "rolledBack" PROVE Undone(u)
      <4>1. spent[u]
        BY <1>3, <2>3, <3>4
      <4> QED
        BY <1>1, <2>1, <2>3, <4>1 DEF Follows
    <3>5. Undone(u) => Undone(u)'
      BY <1>1, <2>1 DEF Undone
    <3>6. mine'[u] \in bad' /\ (\E g \in Files : disk'[g] = mine'[u] \/ loaded'[g] = mine'[u])
          => Owned(u)'
      BY <1>1, <1>3, <2>1, <3>1, <3>2, <3>3, <3>4 DEF Owned, Undone
    <3>7. \A g \in Files : bak'[g] # mine'[u]
      BY <1>1, <2>1 DEF Follows
    <3> QED
      BY <1>1, <2>1, <3>1, <3>3, <3>4, <3>5, <3>6, <3>7 DEF Follows
  <2> QED
    BY <2>2, <2>3
<1>4. CASE WatchFails(t)
  BY <1>3, <1>4 DEF WatchFails
<1>5. CASE Watches(t)
  <2>1. \/ /\ NextStep(Waited, spent[t]) = "rollBack"
           /\ pc' = [pc EXCEPT ![t] = "restoring"] /\ UNCHANGED <<pending, change, spent, historyVars>>
        \/ NextStep(Waited, spent[t]) = "healthy"
             /\ Concludes(t, IF spent[t] THEN "rolledBack" ELSE "healthy", {})
        \/ Concludes(t, "rollbackFailed", {}) \/ Concludes(t, "inconclusive", {})
    BY <1>5 DEF Watches
  <2>2. CASE spent[t]
    <3>1. (IF spent[t] THEN "rolledBack" ELSE "healthy") = "rolledBack"
      BY <2>2
    <3> QED
      BY <1>2, <1>3, <2>1, <2>2, <3>1
  <2>3. CASE ~spent[t]
    <3>1. (IF spent[t] THEN "rolledBack" ELSE "healthy") = "healthy"
      BY <2>3
    <3> QED
      BY <1>2, <1>3, <2>1, <2>3, <3>1
  <2> QED
    BY <2>2, <2>3
<1> QED
  BY <1>4, <1>5

\* The copy is put back, and the change is nowhere.
LEMMA RollsBackFollows ==
  ASSUME IInv, NEW t \in Turns, RollsBack(t)
  PROVE  Tracked'
<1> SUFFICES ASSUME NEW u \in Turns, mine'[u] # 0 PROVE Follows(u)'
  BY DEF Tracked
<1> USE DEF gameVars
<1>1. u = t /\ mine'[u] = mine[u] /\ before'[u] = before[u] /\ verdict'[u] = verdict[u]
  BY Spared DEF RollsBack, Disturb, IInv
<1>2. /\ Follows(u) /\ pc[u] = "restoring" /\ pc'[u] = "relaunching" /\ pending'[u] = NoFile
      /\ change[u] \in Files /\ InPlace(u, change[u])
  BY <1>1 DEF RollsBack, IInv, TypeOK, Tracked, OneChange, AtWork, Follows
<1>3. disk' = [disk EXCEPT ![change[u]] = bak[change[u]]] /\ UNCHANGED <<bak, bad>>
  BY <1>1 DEF RollsBack, PutBack
<1>4. \A g \in Files : bak[g] # mine[u]
  BY <1>2 DEF Follows
<1>5. Undone(u)'
  BY <1>1, <1>2, <1>3, <1>4 DEF Undone, InPlace, IInv, TypeOK
<1>6. Owned(u)'
  BY <1>2 DEF Owned, AtWork
<1>7. verdict[u] = "healthy" => mine[u] \notin bad
  BY <1>2 DEF Follows
<1> QED
  BY <1>1, <1>2, <1>3, <1>4, <1>5, <1>6, <1>7 DEF Follows

\* A guard that could not help has said so.
LEMMA FailFollows ==
  ASSUME IInv, NEW t \in Turns, RollBackFails(t) \/ RelaunchFails(t)
  PROVE  Tracked'
<1> SUFFICES ASSUME NEW u \in Turns, mine'[u] # 0 PROVE Follows(u)'
  BY DEF Tracked
<1>1. Concludes(t, "rollbackFailed", Turns \ {t}) /\ UNCHANGED bak /\ pc[t] \in AtWork
  BY DEF RollBackFails, RelaunchFails, PutBack, TornFile, diskVars, gameVars, AtWork
<1>2. /\ u = t /\ mine'[u] = mine[u] /\ before'[u] = before[u]
      /\ verdict'[u] = "rollbackFailed" /\ pc'[u] = "choosing" /\ pending'[u] = NoFile
  BY <1>1, SparedByVerdict DEF IInv, OneChange
<1>3. \A g \in Files : bak'[g] # mine'[u]
  BY <1>1, <1>2 DEF IInv, Tracked, Follows
<1> QED
  BY <1>2, <1>3 DEF Follows, Owned

LEMMA RelaunchFollows ==
  ASSUME IInv, NEW t \in Turns, Relaunches(t)
  PROVE  Tracked'
<1> SUFFICES ASSUME NEW u \in Turns, mine'[u] # 0 PROVE Follows(u)'
  BY DEF Tracked
<1> USE DEF diskVars
<1>1. u = t /\ mine'[u] = mine[u] /\ before'[u] = before[u] /\ verdict'[u] = verdict[u]
  BY Spared DEF Relaunches, Disturb, IInv
<1>2. /\ Follows(u) /\ pc[u] = "relaunching" /\ pc'[u] = "watching" /\ pending'[u] = NoFile
      /\ UNCHANGED <<disk, bak, bad>> /\ loaded' = disk
  BY <1>1 DEF Relaunches, Launch, IInv, TypeOK, Tracked, OneChange, AtWork
<1>3. spent'[u]
  BY <1>1 DEF Relaunches, IInv, TypeOK
<1>4. Undone(u)' /\ Owned(u)'
  BY <1>1, <1>2 DEF Undone, Owned, AtWork, Follows
<1>5. /\ verdict[u] = "healthy" => mine[u] \notin bad
      /\ \A g \in Files : bak[g] # mine[u]
  BY <1>2 DEF Follows
<1>6. ~(pc'[u] = "watching" /\ ~spent'[u])
  BY <1>3
<1> QED
  BY <1>1, <1>2, <1>4, <1>5, <1>6 DEF Follows

LEMMA TrackedStep ==
  ASSUME IInv, [Next]_vars PROVE Tracked'
<1> USE DEF historyVars, guardVars, diskVars, gameVars
<1>1. CASE Boots \/ Exits \/ AutoUpdates \/ PodReplaced \/ UNCHANGED vars
  <2>1. /\ UNCHANGED <<disk, bak, bad, pc, pending, change, spent, verdict, mine, before>>
        /\ loaded' = loaded \/ loaded' = disk
    BY <1>1 DEF Boots, Exits, AutoUpdates, PodReplaced, Launch, vars
  <2> QED
    BY <2>1, StillFollows, LaunchFollows DEF IInv, Tracked
<1>1a. CASE Settles
  <2>1. UNCHANGED <<disk, bak, bad, loaded, pc, pending, change, spent>>
    BY <1>1a DEF Settles
  <2>2. CASE UNCHANGED historyVars
    BY <2>1, <2>2, StillFollows DEF IInv, Tracked
  <2>3. ASSUME NEW T, Forgotten(T) PROVE Tracked'
    BY <2>1, <2>3, Spared, StillFollows DEF IInv, Tracked
  <2> QED
    BY <1>1a, <2>2, <2>3 DEF Settles
<1>2. ASSUME Forgotten(Turns) PROVE Tracked'
  BY <1>2, Spared DEF IInv, Tracked
<1>3. ASSUME NEW t \in Turns, NEW f \in Files, NEW harm \in BOOLEAN, WriteUnheard(t, f, harm)
      PROVE  Tracked'
  BY <1>2, <1>3 DEF WriteUnheard, DisturbAll
<1>3a. ASSUME NEW t \in Turns, NEW f \in Files, CopyUnheard(t, f) PROVE Tracked'
  BY <1>2, <1>3a DEF CopyUnheard, DisturbAll
<1>4. CASE Destroyed
  BY <1>2, <1>4 DEF Destroyed, DisturbAll
<1>5. ASSUME NEW t \in Turns, Calls(t) PROVE Tracked'
  BY <1>3, <1>3a, <1>5, WriteFollows, RestoreFollows, ToolsFollow, RestartFollows DEF Calls
<1>6. ASSUME NEW t \in Turns, Guarding(t) \/ WatchFails(t) PROVE Tracked'
  BY <1>6, WatchFollows, RollsBackFollows, FailFollows, RelaunchFollows DEF Guarding
<1> QED
  BY <1>1, <1>1a, <1>4, <1>5, <1>6 DEF Next

\* The invariant the two properties rest on: where each undisturbed change is,
\* from the write to the verdict, with what the guard is shown told from what the
\* game is.
THEOREM GuardInvariant == Spec => []IInv
<1>1. Init => IInv
  <2> SUFFICES ASSUME Init PROVE IInv
    OBVIOUS
  <2>1. TypeOK
    BY TypeInit
  <2>2. Fresh /\ UpIsGood /\ Honest
    BY DEF Init, Fresh, UpIsGood, Honest, Absent
  <2>3. OneChange /\ Tracked
    BY DEF Init, OneChange, Tracked, AtWork
  <2> QED
    BY <2>1, <2>2, <2>3 DEF IInv
<1>2. IInv /\ [Next]_vars => IInv'
  <2> SUFFICES ASSUME IInv, [Next]_vars PROVE IInv'
    OBVIOUS
  <2>1. TypeOK'
    BY TypeStep DEF IInv
  <2> QED
    BY <2>1, FreshStep, UpStep, HonestStep, OneChangeStep, TrackedStep DEF IInv
<1> QED
  BY <1>1, <1>2, PTL DEF Spec

\* A healthy verdict on an undisturbed change is not said of a content the game
\* cannot come up with, and rolled back only of a file that holds again what it
\* held before: whatever the failures, the lost answers and the launches nobody
\* asked for.  Undisturbed: nobody else has acted on the server since, and the
\* watch was shown no readiness of an earlier launch.
THEOREM VerdictIsTrueAlways == Spec => []VerdictIsTrue
<1>1. IInv => VerdictIsTrue
  BY DEF IInv, Tracked, Follows, Undone, VerdictIsTrue
<1> QED
  BY <1>1, GuardInvariant, PTL

\* A turn whose own undisturbed change the game crashed on, in a restart of its own
\* or in a launch of the supervisor's, has its guard armed or at work, or has been
\* told that it could not help.
THEOREM CrashIsOwnedAlways == Spec => []CrashIsOwned
<1>1. IInv => CrashIsOwned
  <2> SUFFICES ASSUME IInv, NEW t \in Turns, mine[t] \in bad,
                      \E f \in Files : loaded[f] = mine[t]
               PROVE  Owned(t)
    BY DEF CrashIsOwned, Owned, AtWork
  <2>1. mine[t] # 0
    BY DEF IInv, TypeOK, Content
  <2>2. Follows(t)
    BY <2>1 DEF IInv, Tracked
  <2> QED
    BY <2>2 DEF Follows
<1> QED
  BY <1>1, GuardInvariant, PTL
=============================================================================
