------------------------------ MODULE MCOutbox ------------------------------
(***************************************************************************)
(* Two events: a booking's, which owes a confirmation and a reminder, and  *)
(* an invitation, whose one message is built from the payload.             *)
(***************************************************************************)
EXTENDS Outbox, TLC

McSecrets == Events \cap {"invitation"}
McRows == [e \in Events |-> IF e = "invitation" THEN 1 ELSE 2]
McSymmetry == Permutations(Pollers)
=============================================================================
