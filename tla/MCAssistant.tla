---------------------------- MODULE MCAssistant ----------------------------
(***************************************************************************)
(* Two requests in one conversation, an allowance for two calls.           *)
(***************************************************************************)
EXTENDS Assistant, TLC

McCosts == {0, 1}
McSymmetry == Permutations(Clients) \cup Permutations(Actions) \cup Permutations(Reservations)

\* Bound: a reservation granted on stale sums is followed up while nothing is offered,
\* since offers and the month's books do not depend on each other.
McBound == missed' > 0 => action' = [a \in Actions |-> "NONE"]
McSpec == Init /\ [][Next /\ McBound]_vars
=============================================================================
