--------------------------- MODULE MCNotifications ---------------------------
(***************************************************************************)
(* Notifications on a small instance.  One row meets everything: two       *)
(* senders, deaths, failures, a wiped queue and forgotten keys.  Two rows  *)
(* meet only what lets one of them keep the other from the sweep.          *)
(***************************************************************************)
EXTENDS Notifications, TLC

\* Rows are alike and so are senders: these come first.
FirstRow == CHOOSE n \in Notifications : TRUE
FirstSender == CHOOSE s \in Senders : TRUE

InPlay == {n \in Notifications : row[n] # NoRow}
Busy == {s \in Senders : sender[s] # Idle}
AtRest == Busy = {} /\ sweep = [w \in Sweeps |-> NewPass]

\* Bound: the second row is written earlier or later than a row that is not settled and
\* has no job under way, when nobody works and both are due; from then on nothing
\* fails, one sender works, the queue was not wiped and keys are kept.
Second ==
    /\ AtRest
    /\ ~Settled(row[FirstRow].status) /\ ~Live(job[FirstRow])
    /\ faults = MaxFaults
    /\ \A n \in InPlay' \ InPlay : row'[n].at # row[FirstRow].at

McBound ==
    /\ InPlay' # {} => FirstRow \in InPlay'
    /\ Busy = {} => Busy' \subseteq {FirstSender}
    /\ Cardinality(InPlay') > 1 =>
          /\ Cardinality(InPlay) = 1 => Second
          /\ UNCHANGED faults /\ wipes' = 0 /\ now' = Horizon
          /\ Cardinality(Busy') <= 1
          /\ \A n \in Notifications : accepted'[n] = IF key'[n] THEN 1 ELSE 0

McNext == PatientNext /\ McBound
McSpec == Init /\ [][McNext]_vars /\ Fairness
=============================================================================
