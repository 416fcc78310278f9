---------------------------- MODULE ConfigGuard ----------------------------
(***************************************************************************)
(* Config edits on one live server: the files under /data with their one   *)
(* .grizzly.bak each (supervisor fs.rs), the editing and lifecycle tools   *)
(* of a turn (gary/tools.rs), and the loop that watches the restart that   *)
(* applies a change and rolls a crash back (gary/recovery.rs).             *)
(*                                                                         *)
(* A turn calls its tools one after the other; turns of other channels, of *)
(* the deferred queue and of the watchdog work on the same server at the   *)
(* same time.  A file's content is a number, fresh for every write: 0 is   *)
(* what the game was installed with, and a bad one keeps it from coming    *)
(* up.  An answer that never reaches the bot leaves the work done.         *)
(*                                                                         *)
(* What the loop watches is the phase the supervisor reports.  It is not   *)
(* the game: readiness messages carry no launch, so that of an earlier     *)
(* launch is settled for the game that is booting now (see Supervisor),    *)
(* and a child that exits is launched again without the bot knowing.       *)
(***************************************************************************)
EXTENDS Integers

CONSTANTS
    Turns, Files,
    Missing,        \* the files that do not exist at first
    MaxWrites,      \* bound: writes in a behaviour
    MaxTroubles     \* bound: lost answers, torn writes, crashes of good files

ASSUME GuardAssumption ==
    /\ Missing \subseteq Files
    /\ MaxWrites \in Nat /\ MaxTroubles \in Nat

Absent == -1
NoFile == "none"
ASSUME NoFileAssumption == NoFile \notin Files
Content == 0..MaxWrites

VARIABLES
    disk,       \* [Files -> Content \union {Absent}]
    bak,        \* the .grizzly.bak beside each
    writes,     \* contents written so far
    bad,        \* the ones the game does not come up with
    phase,      \* reported: "starting", "running", "crashed", "stopped", "gone"
    game,       \* the process: "booting", "up", "down"
    loaded,     \* what the files held at the last launch
    signal,     \* a readiness seen, of whatever launch, is yet to be settled
    pc,         \* "choosing", "watching", "restoring", "relaunching", "over"
    pending,    \* ToolCtx.pending_change: the file, or NoFile
    change,     \* the change under verification
    spent,      \* rollback_spent
    verdict,    \* the verdict on the turn's last tracked change
    mine,       \* history: what that change wrote; 0 once another turn or a
                \* person has touched the server since, or once its watch has
                \* been shown the readiness of an earlier launch
    before,     \* history: what the file held before it
    troubles

diskVars == <<disk, bak, writes, bad>>
gameVars == <<phase, game, loaded, signal>>
guardVars == <<pc, pending, change, spent>>
historyVars == <<verdict, mine, before>>
vars == <<diskVars, gameVars, guardVars, historyVars, troubles>>

Init ==
    /\ disk = [f \in Files |-> IF f \in Missing THEN Absent ELSE 0]
    /\ bak = [f \in Files |-> Absent]
    /\ writes = 0 /\ bad = {}
    /\ phase = "running" /\ game = "up" /\ loaded = disk /\ signal = FALSE
    /\ pc = [t \in Turns |-> "choosing"] /\ pending = [t \in Turns |-> NoFile]
    /\ change = [t \in Turns |-> NoFile] /\ spent = [t \in Turns |-> FALSE]
    /\ verdict = [t \in Turns |-> "none"]
    /\ mine = [t \in Turns |-> 0] /\ before = [t \in Turns |-> 0]
    /\ troubles = 0

Trouble == troubles < MaxTroubles /\ troubles' = troubles + 1

(* What one turn does to the server disturbs the changes of the others.    *)
Forgotten(T) ==
    /\ mine' = [u \in Turns |-> IF u \in T THEN 0 ELSE mine[u]]
    /\ before' = [u \in Turns |-> IF u \in T THEN 0 ELSE before[u]]
    /\ verdict' = [u \in Turns |-> IF u \in T THEN "none" ELSE verdict[u]]
Disturb(t) == Forgotten(Turns \ {t})
DisturbAll == Forgotten(Turns)

-----------------------------------------------------------------------------
(* The files (fs.rs).                                                      *)

(* As it would be with the copy taken after the write.                     *)
OverwriteFirst(f, c) ==
    /\ disk' = [disk EXCEPT ![f] = c]
    /\ bak' = IF disk[f] = Absent THEN bak ELSE [bak EXCEPT ![f] = c]

(* The file goes to its .bak, if there is one; then it is written.         *)
Overwrite(f, c) ==
    /\ disk' = [disk EXCEPT ![f] = c]
    /\ bak' = IF disk[f] = Absent THEN bak ELSE [bak EXCEPT ![f] = disk[f]]

PutBack(f) ==
    /\ bak[f] # Absent
    /\ disk' = [disk EXCEPT ![f] = bak[f]]
    /\ UNCHANGED <<bak, writes, bad>>

(* Copies are made in place: one that a full disk breaks off leaves a torn *)
(* file, or a torn .bak before a write.                                    *)
Tears ==
    /\ writes < MaxWrites /\ writes' = writes + 1
    /\ bad' = bad \union {writes + 1}
TornFile(f) ==
    /\ bak[f] # Absent /\ Tears
    /\ disk' = [disk EXCEPT ![f] = writes + 1] /\ UNCHANGED bak
TornBackup(f) ==
    /\ disk[f] # Absent /\ Tears
    /\ bak' = [bak EXCEPT ![f] = writes + 1] /\ UNCHANGED disk

(* New content, good or bad.                                               *)
Writes(f, harm) ==
    /\ phase # "gone" /\ writes < MaxWrites
    /\ writes' = writes + 1
    /\ bad' = IF harm THEN bad \union {writes + 1} ELSE bad
    /\ Overwrite(f, writes + 1)

-----------------------------------------------------------------------------
(* The tools of a turn that change files.                                  *)

(* As it would be with a write noted that left no copy.                    *)
NoteAlways(t, f) ==
    /\ pending' = [pending EXCEPT ![t] = f]
    /\ Disturb(t)

(* note_pending_change, when the write left a copy: the last one counts.   *)
Note(t, f) ==
    IF disk[f] = Absent
    THEN UNCHANGED pending /\ Disturb(t)
    ELSE /\ pending' = [pending EXCEPT ![t] = f]
         /\ mine' = [u \in Turns |-> IF u = t THEN writes + 1 ELSE 0]
         /\ before' = [u \in Turns |-> IF u = t THEN disk[f] ELSE 0]
         /\ verdict' = [u \in Turns |-> "none"]

(* write_file, and edit_file of a file that holds the text just once: of   *)
(* any other it writes nothing.                                            *)
WriteFile(t, f, harm) ==
    /\ pc[t] = "choosing"
    /\ Writes(f, harm)
    /\ Note(t, f)
    /\ UNCHANGED <<gameVars, pc, change, spent, troubles>>

(* Written, or torn by a full disk, but answered with an error.            *)
WriteUnheard(t, f, harm) ==
    /\ pc[t] = "choosing" /\ Trouble
    /\ Writes(f, harm)
    /\ DisturbAll
    /\ UNCHANGED <<gameVars, guardVars>>

(* drop_pending_change, when it is this file's: nothing is left to verify. *)
Drop(t, f) ==
    /\ pending' = [pending EXCEPT ![t] = IF @ = f THEN NoFile ELSE @]
    /\ IF pending[t] = f THEN DisturbAll ELSE Disturb(t)

RestoreFile(t, f) ==
    /\ pc[t] = "choosing" /\ phase # "gone"
    /\ PutBack(f)
    /\ Drop(t, f)
    /\ UNCHANGED <<gameVars, pc, change, spent, troubles>>

(* A restore, or the copy before a write, that is answered with an error:  *)
(* done, or broken off half-way.                                           *)
CopyUnheard(t, f) ==
    /\ pc[t] = "choosing" /\ phase # "gone" /\ Trouble
    /\ PutBack(f) \/ TornFile(f) \/ TornBackup(f)
    /\ DisturbAll
    /\ UNCHANGED <<gameVars, guardVars>>

-----------------------------------------------------------------------------
(* The game, and the tools that start and stop it.                         *)

(* The probe of the launch before is not cancelled, nor its message taken  *)
(* out of the channel.                                                     *)
Launch == phase' = "starting" /\ game' = "booting" /\ loaded' = disk /\ UNCHANGED signal

LoadedBad == \E f \in Files : loaded[f] \in bad

(* A probe connects, or the log shows the marker.                          *)
Boots ==
    /\ game = "booting" /\ ~LoadedBad
    /\ game' = "up" /\ signal' = TRUE
    /\ UNCHANGED <<diskVars, phase, loaded, guardVars, historyVars, troubles>>

(* The loop takes a message, whichever launch it is of; that of a probe    *)
(* that has outlived its own launch may be behind it.                      *)
Settles ==
    /\ signal /\ signal' \in BOOLEAN
    /\ phase' = IF phase = "stopped" THEN phase ELSE "running"
    /\ IF game = "up" \/ phase = "stopped" THEN UNCHANGED historyVars
       ELSE Forgotten({t \in Turns : pc[t] = "watching" /\ ~spent[t]})
    /\ UNCHANGED <<diskVars, game, loaded, guardVars, troubles>>

(* The game exits, for its files or, once up, for none of the bot's doing: *)
(* the supervisor launches it again on what the files hold now, or has had *)
(* enough of it.  A launch that is refused for a file reads as crashed.    *)
Exits ==
    /\ game # "down"
    /\ IF LoadedBad THEN UNCHANGED troubles ELSE Trouble
    /\ \/ Launch
       \/ phase' = "crashed" /\ game' = "down" /\ UNCHANGED <<loaded, signal>>
    /\ UNCHANGED <<diskVars, guardVars, historyVars>>

(* Update on empty: a launch nobody asked for, of a game that reads as up. *)
AutoUpdates ==
    /\ phase = "running" /\ game # "down" /\ Launch
    /\ UNCHANGED <<diskVars, guardVars, historyVars, troubles>>

(* Agones replaces the pod of a game that was given up.                    *)
PodReplaced ==
    /\ phase = "crashed"
    /\ phase' = "starting" /\ game' = "booting" /\ loaded' = disk /\ signal' = FALSE
    /\ UNCHANGED <<diskVars, guardVars, historyVars, troubles>>

(* A server without a process is stopped, one with a process started,      *)
(* already: nothing changes.                                               *)
Stop(t) ==
    /\ pc[t] = "choosing" /\ game # "down"
    /\ phase' = "stopped" /\ game' = "down"
    /\ Disturb(t)
    /\ UNCHANGED <<diskVars, loaded, signal, guardVars, troubles>>

(* The pod is up: a start in place, which no one watches.                  *)
Start(t) ==
    /\ pc[t] = "choosing" /\ game = "down" /\ phase # "gone"
    /\ Launch
    /\ Disturb(t)
    /\ UNCHANGED <<diskVars, guardVars, troubles>>

(* A person destroys the server, or the pod is lost.                       *)
Destroyed ==
    /\ phase # "gone" /\ Trouble
    /\ phase' = "gone" /\ game' = "down" /\ signal' = FALSE
    /\ DisturbAll
    /\ UNCHANGED <<diskVars, loaded, guardVars>>

(* As it would be with the change taken whatever the answer.               *)
TakesAnyway(t, heard) == pending[t] # NoFile

(* take_pending_change, only of a restart that is known to have happened.  *)
Takes(t, heard) == heard /\ pending[t] # NoFile

(* Any phase will do.  The answer may be lost, and a restart that outlasts *)
(* the request is carried out all the same.                                *)
Restart(t, heard) ==
    /\ pc[t] = "choosing" /\ phase # "gone"
    /\ Launch
    /\ IF heard THEN UNCHANGED troubles ELSE Trouble
    /\ IF Takes(t, heard)
       THEN /\ change' = [change EXCEPT ![t] = pending[t]]
            /\ pending' = [pending EXCEPT ![t] = NoFile]
            /\ pc' = [pc EXCEPT ![t] = IF heard THEN "watching" ELSE "choosing"]
       ELSE UNCHANGED <<change, pending, pc>>
    /\ Disturb(t)
    /\ UNCHANGED <<diskVars, spent>>

-----------------------------------------------------------------------------
(* verify_change.                                                          *)

(* As it would be with no end to the roll-backs.                           *)
NextStepTireless(seen, again) ==
    CASE seen = "running" -> "healthy"
      [] seen = "crashed" -> "rollBack"
      [] OTHER -> "inconclusive"

(* next_step: one roll-back, then a human.                                 *)
NextStep(seen, again) ==
    IF seen = "running" THEN "healthy"
    ELSE IF seen # "crashed" THEN "inconclusive"
    ELSE IF again THEN "escalate" ELSE "rollBack"

(* A roll-back that failed has told the operators so.                      *)
Concludes(t, v, T) ==
    /\ pc' = [pc EXCEPT ![t] = "choosing"]
    /\ change' = [change EXCEPT ![t] = NoFile]
    /\ spent' = [spent EXCEPT ![t] = FALSE]
    /\ verdict' = [u \in Turns |-> IF u = t THEN v ELSE IF u \in T THEN "none" ELSE verdict[u]]
    /\ mine' = [u \in Turns |-> IF u \in T THEN 0 ELSE mine[u]]
    /\ before' = [u \in Turns |-> IF u \in T THEN 0 ELSE before[u]]
    /\ UNCHANGED pending

(* wait_for_ready: the phase once it is final, or the end of its patience. *)
Waited == IF phase = "starting" THEN "timedOut" ELSE phase

Watches(t) ==
    /\ pc[t] = "watching"
    /\ LET step == NextStep(Waited, spent[t]) IN
         \/ /\ step = "rollBack"
            /\ pc' = [pc EXCEPT ![t] = "restoring"]
            /\ UNCHANGED <<pending, change, spent, historyVars>>
         \/ step = "healthy" /\ Concludes(t, IF spent[t] THEN "rolledBack" ELSE "healthy", {})
         \/ step = "escalate" /\ Concludes(t, "rollbackFailed", {})
         \/ step = "inconclusive" /\ Concludes(t, "inconclusive", {})
    /\ UNCHANGED <<diskVars, gameVars, troubles>>

(* The cluster cannot be asked.                                            *)
WatchFails(t) ==
    /\ pc[t] = "watching" /\ Trouble
    /\ Concludes(t, "unverified", {})
    /\ UNCHANGED <<diskVars, gameVars>>

RollsBack(t) ==
    /\ pc[t] = "restoring" /\ phase # "gone"
    /\ PutBack(change[t])
    /\ pc' = [pc EXCEPT ![t] = "relaunching"]
    /\ Disturb(t)
    /\ UNCHANGED <<gameVars, pending, change, spent, troubles>>

(* Refused, or done and not heard of.                                      *)
RollBackFails(t) ==
    /\ pc[t] = "restoring"
    /\ \/ phase = "gone" /\ UNCHANGED <<diskVars, troubles>>
       \/ phase # "gone" /\ Trouble /\ (UNCHANGED diskVars \/ PutBack(change[t]) \/ TornFile(change[t]))
    /\ Concludes(t, "rollbackFailed", Turns \ {t})
    /\ UNCHANGED gameVars

Relaunches(t) ==
    /\ pc[t] = "relaunching" /\ phase # "gone"
    /\ Launch
    /\ pc' = [pc EXCEPT ![t] = "watching"]
    /\ spent' = [spent EXCEPT ![t] = TRUE]
    /\ Disturb(t)
    /\ UNCHANGED <<diskVars, pending, change, troubles>>

(* Anything but Restarted, the lost answer included.                       *)
RelaunchFails(t) ==
    /\ pc[t] = "relaunching"
    /\ \/ phase = "gone" /\ UNCHANGED <<gameVars, troubles>>
       \/ phase # "gone" /\ Trouble /\ (UNCHANGED gameVars \/ Launch)
    /\ Concludes(t, "rollbackFailed", Turns \ {t})
    /\ UNCHANGED diskVars

(* The turn ends, and what was pending with it.                            *)
Ends(t) ==
    /\ pc[t] = "choosing"
    /\ pc' = [pc EXCEPT ![t] = "over"]
    /\ pending' = [pending EXCEPT ![t] = NoFile]
    /\ Forgotten({t})
    /\ UNCHANGED <<diskVars, gameVars, change, spent, troubles>>

-----------------------------------------------------------------------------
Guarding(t) == Watches(t) \/ RollsBack(t) \/ RollBackFails(t) \/ Relaunches(t) \/ RelaunchFails(t)

Calls(t) ==
    \/ \E f \in Files : RestoreFile(t, f) \/ CopyUnheard(t, f)
    \/ \E f \in Files, harm \in BOOLEAN :
         WriteFile(t, f, harm) \/ WriteUnheard(t, f, harm)
    \/ Stop(t) \/ Start(t) \/ \E heard \in BOOLEAN : Restart(t, heard)
    \/ Ends(t)

Next ==
    \/ \E t \in Turns : Calls(t) \/ Guarding(t) \/ WatchFails(t)
    \/ Boots \/ Settles \/ Exits \/ AutoUpdates \/ PodReplaced \/ Destroyed

Spec == Init /\ [][Next]_vars

(* Every wait of the loop has an end (READY_WAIT_TIMEOUT, the client's     *)
(* request timeout).                                                       *)
FairSpec == Spec /\ \A t \in Turns : WF_vars(Guarding(t))

-----------------------------------------------------------------------------
Verdicts == {"none", "healthy", "rolledBack", "rollbackFailed", "inconclusive", "unverified"}

(* Types; a change under verification is a file whose write left a copy.   *)
TypeOK ==
    /\ disk \in [Files -> Content \union {Absent}] /\ bak \in [Files -> Content \union {Absent}]
    /\ writes \in Content /\ bad \subseteq 1..writes
    /\ phase \in {"starting", "running", "crashed", "stopped", "gone"}
    /\ game \in {"booting", "up", "down"} /\ signal \in BOOLEAN
    /\ loaded \in [Files -> Content \union {Absent}]
    /\ pc \in [Turns -> {"choosing", "watching", "restoring", "relaunching", "over"}]
    /\ pending \in [Turns -> Files \union {NoFile}] /\ change \in [Turns -> Files \union {NoFile}]
    /\ spent \in [Turns -> BOOLEAN]
    /\ verdict \in [Turns -> Verdicts]
    /\ mine \in [Turns -> Content] /\ before \in [Turns -> Content]
    /\ troubles \in 0..MaxTroubles
    /\ \A t \in Turns :
         /\ pending[t] # NoFile => bak[pending[t]] # Absent
         /\ pc[t] \in {"watching", "restoring", "relaunching"} =>
              /\ change[t] # NoFile /\ bak[change[t]] # Absent

(* What the guard says of a change is so: healthy is not said of a content *)
(* the game cannot come up with, and rolled back is said of a file that    *)
(* holds again what it held before the change.  Two cases are excused by   *)
(* mine = 0: another turn or a person has touched the server since, and    *)
(* the watch of the change was shown the readiness of an earlier launch,   *)
(* which HealthyMeansUp below is about.                                    *)
VerdictIsTrue ==
    \A t \in Turns : mine[t] # 0 =>
        /\ verdict[t] = "healthy" => mine[t] \notin bad
        /\ verdict[t] = "rolledBack" =>
             /\ \A f \in Files : disk[f] # mine[t]
             /\ \E f \in Files : disk[f] = before[t] /\ bak[f] = before[t]

(* A turn whose own change the game just crashed on, in a restart of its   *)
(* own or in a launch the supervisor made by itself, has not been left     *)
(* alone with it: its guard is armed for the next restart, at work, or has *)
(* said that it could not help.  Excused as VerdictIsTrue is; and the turn *)
(* that has ended, whose pending change nobody watches any more.           *)
CrashIsOwned ==
    \A t \in Turns :
        /\ mine[t] \in bad
        /\ phase = "crashed" /\ \E f \in Files : loaded[f] = mine[t]
        => \/ pending[t] # NoFile
           \/ pc[t] \in {"watching", "restoring", "relaunching"}
           \/ verdict[t] \in {"rollbackFailed", "inconclusive", "unverified"}

(* Every verification reaches its verdict, whatever becomes of the server. *)
VerificationEnds == \A t \in Turns : pc[t] = "watching" ~> pc[t] = "choosing"

-----------------------------------------------------------------------------
(* Said of the code, and not so: "`Running` means up *now* (a warm         *)
(* relaunch reads `Starting` until the new child re-binds)"                *)
(* (agones/supervisor.rs, wait_for_ready).  A change is called good, or    *)
(* undone, while the game that loaded it is booting or has crashed.        *)
HealthyMeansUp ==
    [][\A t \in Turns :
         pc[t] = "watching" /\ pc'[t] = "choosing" /\ verdict'[t] \in {"healthy", "rolledBack"}
         => game = "up"]_vars

=============================================================================
