------------------------------ MODULE MCBooking ------------------------------
(***************************************************************************)
(* Small diaries for TLC.  A visit takes two minutes, one more to clear up *)
(* after, and needs approval; a check takes one minute and one to prepare. *)
(***************************************************************************)
EXTENDS Booking, TLC

McSymmetry == Permutations(Clients) \cup Permutations(Holds) \cup Permutations(Bookings)

McDuration == [s \in Services |-> IF s = "visit" THEN 2 ELSE 1]
McBufferBefore == [s \in Services |-> IF s = "visit" THEN 0 ELSE 1]
McBufferAfter == [s \in Services |-> IF s = "visit" THEN 1 ELSE 0]
McNeedsApproval == Services \cap {"visit"}
=============================================================================
