------------------------------- MODULE GameSlot -------------------------------
(* What the supervisor promises about the one game process of its pod, with   *)
(* none of the machinery: a slot that is empty or holds one process, the      *)
(* operator's wish for it, and whether the pod has been given up.             *)
EXTENDS Naturals

VARIABLES
  up,         \* a game process runs
  wanted,     \* the operator wants one to
  condemned   \* the pod's heartbeat is withheld

slot == <<up, wanted, condemned>>

Init == up = FALSE /\ wanted \in BOOLEAN /\ condemned = FALSE

\* A process is started only into an empty slot, and only while one is wanted.
Start == ~up /\ wanted /\ up' = TRUE /\ UNCHANGED <<wanted, condemned>>

End == up /\ up' = FALSE /\ UNCHANGED <<wanted, condemned>>

\* The operator stops what is there, or asks for what is not.
Stop == wanted /\ wanted' = FALSE /\ UNCHANGED <<up, condemned>>
Ask == ~up /\ ~wanted /\ wanted' = TRUE /\ UNCHANGED <<up, condemned>>

\* Only an empty slot that should be full condemns the pod.
Condemn == ~up /\ wanted /\ ~condemned /\ condemned' = TRUE /\ UNCHANGED <<up, wanted>>
Pardon == condemned /\ condemned' = FALSE /\ UNCHANGED <<up, wanted>>

\* A condemned pod is replaced by a new one, and only a condemned one.
Replace == condemned /\ up' = FALSE /\ wanted' \in BOOLEAN /\ condemned' = FALSE

Next == Start \/ End \/ Stop \/ Ask \/ Condemn \/ Pardon \/ Replace

Spec == Init /\ [][Next]_slot
==============================================================================
