---------------------------- MODULE MCMemberships ----------------------------
(***************************************************************************)
(* A small organization.                                                   *)
(***************************************************************************)
EXTENDS Memberships, TLC

McSymmetry == Permutations(Users) \cup Permutations(Diaries)
              \cup Permutations(Members) \cup Permutations(Clients)
=============================================================================
