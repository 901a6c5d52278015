--------------------------- MODULE MCCheckoutLinks ---------------------------
(***************************************************************************)
(* Three clicks on two plans.                                              *)
(***************************************************************************)
EXTENDS CheckoutLinks, TLC

McSymmetry == Permutations(Links) \cup Permutations(Clients) \cup Permutations(Plans)
=============================================================================
