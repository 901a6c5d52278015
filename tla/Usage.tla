------------------------------- MODULE Usage -------------------------------
(***************************************************************************)
(* The metering of paid model calls: one tenant, one month, one category   *)
(* of tokens.  A call is authorised on an estimate, which a reservation    *)
(* holds against the month's allowance, and the figure is replaced by the  *)
(* real one when the call returns.  Assistant composes these operations    *)
(* into its turns.                                                         *)
(*                                                                         *)
(* The two categories the code meters have the same shape; output tokens   *)
(* are the ones the estimate really bounds, since the provider is given it *)
(* as a limit.  An unlimited plan reserves nothing and is left out.        *)
(***************************************************************************)
EXTENDS Naturals, FiniteSets

CONSTANTS
    Reservations,  \* rows of the reservation table
    Estimate,      \* what a call is assumed to cost
    Costs,         \* what a call may really cost
    Allowance      \* the plan's quota for the month

ASSUME UsageAssumption ==
    /\ IsFiniteSet(Reservations)
    /\ Estimate \in Nat
    /\ Costs \subseteq 0 .. Estimate
    /\ Allowance \in Nat

VARIABLES
    reservation,   \* the reservation rows
    spent,         \* the month's recorded quantity
    gate,          \* what the reservation being made under the lock has read
    missed         \* history: what the last one granted had not seen recorded

usageVars == <<reservation, spent, gate, missed>>

\* LAPSED is a row still RESERVED whose five minutes are over; CLOSED is one
\* settled, expired or released, which no statement tells apart.
ReservationStatuses == {"RESERVED", "LAPSED", "CLOSED"}
Standing == {"RESERVED", "LAPSED"}

Rows(statuses) == {r \in Reservations : reservation[r] \in statuses}

\* live and lapsed are the rows standing when the lock was taken; the lapsed
\* ones are expired by the transaction and locked by it until it ends.
Gate == [open : BOOLEAN, live : SUBSET Reservations, lapsed : SUBSET Reservations,
         recorded : Nat]
Shut == [open |-> FALSE, live |-> {}, lapsed |-> {}, recorded |-> 0]

UsageInit ==
    /\ reservation = [r \in Reservations |-> "CLOSED"]
    /\ spent = 0
    /\ gate = Shut
    /\ missed = 0

\* A reservation takes the tenant's advisory lock, expires the lapsed rows and
\* reads what is recorded.  Only other reservations wait for the lock: a call
\* under way may be recorded before the next statement adds up what is reserved.
LockAndRead ==
    /\ ~gate.open
    /\ gate' = [open |-> TRUE, live |-> Rows({"RESERVED"}), lapsed |-> Rows({"LAPSED"}),
                recorded |-> spent]
    /\ UNCHANGED <<reservation, spent, missed>>

\* What the two readings find; a row recorded between them is in neither.
Consumed == gate.recorded + Estimate * Cardinality(gate.live \cap Rows(Standing))
Room == Consumed + Estimate <= Allowance

\* A slip: the lapsed rows are not expired.
ReserveUnswept(r) ==
    /\ gate.open
    /\ reservation[r] = "CLOSED"
    /\ Room
    /\ reservation' = [reservation EXCEPT ![r] = "RESERVED"]
    /\ gate' = Shut
    /\ missed' = spent - gate.recorded
    /\ UNCHANGED spent

\* The rest of the transaction: it adds up what is reserved, and where there is
\* room it writes a row of its own (over a closed one) and commits.
Reserve(r) ==
    /\ gate.open
    /\ reservation[r] = "CLOSED"
    /\ Room
    /\ reservation' = [q \in Reservations |->
           IF q = r THEN "RESERVED"
           ELSE IF q \in gate.lapsed THEN "CLOSED" ELSE reservation[q]]
    /\ gate' = Shut
    /\ missed' = spent - gate.recorded
    /\ UNCHANGED spent

\* The transaction is rolled back, and the expiry of the lapsed rows with it.
RollBack ==
    /\ gate' = Shut
    /\ UNCHANGED <<reservation, spent, missed>>

\* USAGE_QUOTA_EXCEEDED is thrown inside the transaction.
OverQuota ==
    /\ gate.open
    /\ ~Room
    /\ RollBack

\* A slip: a call is not recorded once its reservation has run out of time.
ReconcileFresh(r, cost) ==
    /\ r \notin gate.lapsed
    /\ IF reservation[r] = "RESERVED"
       THEN /\ reservation' = [reservation EXCEPT ![r] = "CLOSED"]
            /\ spent' = spent + cost
       ELSE UNCHANGED <<reservation, spent>>
    /\ UNCHANGED <<gate, missed>>

\* Claims the reservation and records the real cost in one transaction, once no
\* other one has the row locked.  A reservation that is closed already records
\* nothing.
Reconcile(r, cost) ==
    /\ r \notin gate.lapsed
    /\ IF reservation[r] \in Standing
       THEN /\ reservation' = [reservation EXCEPT ![r] = "CLOSED"]
            /\ spent' = spent + cost
       ELSE UNCHANGED <<reservation, spent>>
    /\ UNCHANGED <<gate, missed>>

Release(r) ==
    /\ r \notin gate.lapsed
    /\ reservation' = [reservation EXCEPT ![r] = "CLOSED"]
    /\ UNCHANGED <<spent, gate, missed>>

AgeReservation(r) ==
    /\ reservation[r] = "RESERVED"
    /\ reservation' = [reservation EXCEPT ![r] = "LAPSED"]
    /\ UNCHANGED <<spent, gate, missed>>
=============================================================================
