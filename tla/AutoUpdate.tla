------------------------------ MODULE AutoUpdate ------------------------------
(* The decision of crates/supervisor/src/autoupdate.rs: fold one occupancy    *)
(* reading into the open empty streak and say whether the build is due for a  *)
(* refresh.  Pure, as in the source; the runner acts on the answer.           *)
EXTENDS Integers

CONSTANTS
  EmptyGrace,       \* empty_grace: how long a server must have been seen empty
  UpdateInterval,   \* update_interval: build age at which an idle one bounces
  MaxUptime         \* max_uptime: build age at which a busy one bounces too

\* config.rs would accept a zero interval; the defaults, and every catalog
\* entry, are positive, and the gate below leans on it (see Supervisor).
ASSUME AutoUpdateAssumption ==
  /\ EmptyGrace \in Nat
  /\ UpdateInterval \in Nat \ {0}
  /\ MaxUptime \in Nat \ {0}

\* What a poll brings back: Option<u32> up to what observe() tells apart.
Reading == {"unknown", "nobody", "players"}

\* empty_since as the streak's age, NoStreak for None.
NoStreak == -1
StreakType == NoStreak .. EmptyGrace

\* The streak after the reading: opened by the first "nobody", closed by the
\* first player, left alone by an unknown.
StreakAfter(streak, players) ==
  CASE players = "unknown" -> streak
    [] players = "nobody"  -> IF streak = NoStreak THEN 0 ELSE streak
    [] OTHER               -> NoStreak

\* observe() returns Some(RelaunchReason).
IdleDue(streak, players, versionAge) ==
  /\ players = "nobody"
  /\ StreakAfter(streak, players) >= EmptyGrace
  /\ versionAge >= UpdateInterval

BackstopDue(players, versionAge) ==
  /\ players = "players"
  /\ versionAge >= MaxUptime

RelaunchDue(streak, players, versionAge) ==
  IdleDue(streak, players, versionAge) \/ BackstopDue(players, versionAge)
==============================================================================
