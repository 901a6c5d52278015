--------------------------- MODULE MCIdempotency ---------------------------
(***************************************************************************)
(* Three calls with two bodies, and a key that is claimed up to four    *)
(* times.                                                                  *)
(***************************************************************************)
EXTENDS Idempotency, TLC

McSymmetry == Permutations(Calls) \cup Permutations(Bodies) \cup Permutations(Claims)
=============================================================================
