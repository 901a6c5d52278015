--------------------------- MODULE AssistantProofs ---------------------------
(***************************************************************************)
(* Proofs about Assistant for any number of requests, offers and           *)
(* reservations, any allowance and any turn limit.                         *)
(*                                                                         *)
(* The invariant has one part per promise.  Each says what the requests in *)
(* flight still mean to do: a request that works has burnt its card, which *)
(* is nobody else's; one that is about to offer has withdrawn what was on  *)
(* offer; one that will count a turn has left room for it; one that is     *)
(* about to complete will remember the booking.  A second invariant, over  *)
(* the first, follows the provider's charges until they are recorded.      *)
(***************************************************************************)
EXTENDS Assistant, FiniteSetTheorems, TLAPS

\* A request confirms a card that exists, works on one it alone has burnt, and
\* what has been worked on is burnt and done once.
Confirming ==
    /\ \A c \in Clients :
          /\ request[c].at \in {"burn", "work", "complete"} => request[c].act \in Actions
          /\ request[c].at = "burn" => action[request[c].act] # "NONE"
          /\ request[c].at = "work" => /\ action[request[c].act] = "CONFIRMED"
                                       /\ runs[request[c].act] = 0
    /\ \A c, d \in Clients :
          /\ request[c].at = "work" /\ request[d].at = "work"
          /\ request[c].act = request[d].act
          => c = d
    /\ ConfirmedOnce

\* Until withdrawals overlap, one request at most is about to make an offer, and
\* then nothing is on offer.
Live(a) == action[a] \in Pending
Offers ==
    ~overlapped =>
        /\ \A a, b \in Actions : Live(a) /\ Live(b) => a = b
        /\ \A c \in Clients : request[c].at = "offer" => \A a \in Actions : ~Live(a)
        /\ \A c, d \in Clients : request[c].at = "offer" /\ request[d].at = "offer" => c = d

\* The requests that may still count a turn.
MayCount(q) == \/ q.at \in {"reserve", "sum", "call", "reconcile", "run",
                           "withdraw", "offer"}
               \/ q.at = "reply" /\ q.counted
Counting == {c \in Clients : MayCount(request[c])}
Turns ==
    /\ session.turns + Cardinality(Counting) <= MaxTurns + Cardinality(Clients)
    /\ \A c \in Clients : request[c].counted => request[c].at = "reply"

\* The month's books: what a reservation being made has read is not more than
\* what is recorded now, and no row but its own comes to stand meanwhile.
Ledger ==
    /\ reservation \in [Reservations -> ReservationStatuses]
    /\ spent \in Nat /\ gate \in Gate /\ missed \in Nat
    /\ gate.recorded <= spent
    /\ gate.open => Rows(Standing) \subseteq gate.live \cup gate.lapsed
    /\ WithinAllowance

\* A call in flight has its reservation, and the books are kept.
Metering ==
    /\ \A c \in Clients : request[c].at \in {"call", "reconcile"} =>
                              request[c].res \in Reservations
    /\ Ledger

\* Work that is done is remembered, or its request is about to see to it.
Remembering ==
    ~troubled /\ (\E a \in Actions : runs[a] > 0) =>
        session.booked \/ \E c \in Clients : request[c].at = "complete"

IInv == TypeOK /\ Confirming /\ Offers /\ Turns /\ Metering /\ Remembering

(***************************************************************************)
(* Sets and records.                                                       *)
(***************************************************************************)
LEMMA RowsFinite ==
    ASSUME NEW statuses
    PROVE  /\ IsFiniteSet(Rows(statuses)) /\ Cardinality(Rows(statuses)) \in Nat
<1>1. Rows(statuses) \subseteq Reservations
  BY DEF Rows
<1> QED  BY <1>1, UsageAssumption, FS_Subset, FS_CardinalityType

LEMMA CountingFinite ==
    /\ IsFiniteSet(Counting) /\ Cardinality(Counting) \in Nat
    /\ Cardinality(Clients) \in Nat /\ Cardinality(Counting) <= Cardinality(Clients)
<1>1. Counting \subseteq Clients
  BY DEF Counting
<1> QED  BY <1>1, AssistantAssumption, FS_Subset, FS_CardinalityType

\* One request moves, the others stay.
LEMMA Moves ==
    ASSUME TypeOK, NEW c \in Clients, NEW q \in Request,
           request' = [request EXCEPT ![c] = q]
    PROVE  /\ request' \in [Clients -> Request]
           /\ request'[c] = q
           /\ \A d \in Clients : d # c => request'[d] = request[d]
BY DEF TypeOK

\* The estimate times a sum.
LEMMA OneMore ==
    ASSUME NEW e \in Nat, NEW n \in Nat
    PROVE  e * (n + 1) = e * n + e /\ e * n \in Nat
OBVIOUS

LEMMA NoMore ==
    ASSUME NEW e \in Nat, NEW m \in Nat, NEW n \in Nat, m <= n
    PROVE  e * m <= e * n
<1>1. PICK k \in Nat : n = m + k
  <2> WITNESS n - m \in Nat
  <2> QED  OBVIOUS
<1>2. e * n = e * m + e * k
  BY <1>1
<1>3. e * k \in Nat /\ e * m \in Nat
  OBVIOUS
<1> QED  BY <1>2, <1>3

(***************************************************************************)
(* The metering operations keep the books.                                 *)
(***************************************************************************)
LEMMA ShutType == Shut \in Gate /\ ~Shut.open /\ Shut.recorded = 0
BY DEF Shut, Gate

LEMMA LockKeeps ==
    ASSUME Ledger, LockAndRead
    PROVE  Ledger'
<1>1. /\ gate' = [open |-> TRUE, live |-> Rows({"RESERVED"}), lapsed |-> Rows({"LAPSED"}),
                  recorded |-> spent]
      /\ UNCHANGED <<reservation, spent, missed>>
  BY DEF LockAndRead
<1>2. gate' \in Gate /\ gate'.recorded = spent
  BY <1>1 DEF Gate, Rows, Ledger
<1>3. Rows(Standing)' \subseteq gate'.live \cup gate'.lapsed
  BY <1>1 DEF Rows, Standing
<1>4. WithinAllowance'
  BY <1>1 DEF Ledger, WithinAllowance, Rows
<1> QED  BY <1>1, <1>2, <1>3, <1>4 DEF Ledger

LEMMA RollBackKeeps ==
    ASSUME Ledger, RollBack
    PROVE  Ledger'
<1>1. gate' = Shut /\ UNCHANGED <<reservation, spent, missed>>
  BY DEF RollBack
<1>2. WithinAllowance'
  BY <1>1 DEF Ledger, WithinAllowance, Rows
<1> QED  BY <1>1, <1>2, ShutType DEF Ledger

\* What stands after a reservation is its own row and those it has added up:
\* the rest it found when it took the lock has lapsed, or is recorded by now.
LEMMA ReserveKeeps ==
    ASSUME Ledger, NEW r \in Reservations, Reserve(r)
    PROVE  Ledger'
<1> DEFINE R == gate.live \cap Rows(Standing)
<1>1. /\ reservation' \in [Reservations -> ReservationStatuses] /\ spent' = spent
      /\ gate' = Shut /\ missed' = spent - gate.recorded /\ gate.open
  BY DEF Ledger, Reserve, ReservationStatuses
<1>2. Rows(Standing)' \subseteq R \cup {r}
  <2>1. Rows(Standing) \subseteq gate.live \cup gate.lapsed
    BY <1>1 DEF Ledger
  <2> QED  BY <2>1 DEF Ledger, Reserve, ReservationStatuses, Rows, Standing
<1>3. r \notin R
  BY DEF Reserve, Rows, Standing
<1>4. IsFiniteSet(R) /\ Cardinality(R) \in Nat
  <2>1. R \subseteq Rows(Standing)
    OBVIOUS
  <2> QED  BY <2>1, RowsFinite, FS_Subset, FS_CardinalityType
<1>5. Cardinality(R \cup {r}) = Cardinality(R) + 1 /\ IsFiniteSet(R \cup {r})
  BY <1>3, <1>4, FS_AddElement
<1>6. gate.recorded + Estimate * Cardinality(R) + Estimate <= Allowance
  BY DEF Reserve, Room, Consumed
<1>7. Estimate * (Cardinality(R) + 1) = Estimate * Cardinality(R) + Estimate
      /\ Estimate * Cardinality(R) \in Nat
  BY <1>4, OneMore, UsageAssumption
<1>8. /\ Cardinality(Rows(Standing)') \in Nat
      /\ Cardinality(Rows(Standing)') <= Cardinality(R) + 1
  BY <1>2, <1>5, FS_Subset, FS_CardinalityType
<1>9. Estimate * Cardinality(Rows(Standing)') <= Estimate * (Cardinality(R) + 1)
  <2>1. Cardinality(R) + 1 \in Nat
    BY <1>4
  <2> QED  BY <1>8, <2>1, NoMore, UsageAssumption
<1>10. Estimate * Cardinality(Rows(Standing)') \in Nat
  BY <1>8, OneMore, UsageAssumption
<1> HIDE DEF R
<1>11. spent \in Nat /\ gate.recorded \in Nat /\ gate.recorded <= spent
  BY DEF Ledger, Gate
<1>12. WithinAllowance' <=>
          spent' + Estimate * Cardinality(Rows(Standing)') <= Allowance + missed'
  BY DEF WithinAllowance
<1>13. WithinAllowance'
  BY <1>1, <1>4, <1>6, <1>7, <1>9, <1>10, <1>11, <1>12, UsageAssumption
<1>14. missed' \in Nat
  BY <1>1, <1>11
<1> QED  BY <1>1, <1>11, <1>13, <1>14, ShutType DEF Ledger

\* Closing, or not touching, rows keeps them as long as what is spent does not grow.
LEMMA CloseKeeps ==
    ASSUME Ledger, reservation' \in [Reservations -> ReservationStatuses],
           Rows(Standing)' \subseteq Rows(Standing), UNCHANGED <<spent, gate, missed>>
    PROVE  Ledger'
<1>1. /\ Cardinality(Rows(Standing)') \in Nat
      /\ Cardinality(Rows(Standing)') <= Cardinality(Rows(Standing))
  <2>1. IsFiniteSet(Rows(Standing))
    BY RowsFinite
  <2> QED  BY <2>1, FS_Subset, FS_CardinalityType
<1>2. Cardinality(Rows(Standing)) \in Nat
  BY RowsFinite
<1>3. Estimate * Cardinality(Rows(Standing)') <= Estimate * Cardinality(Rows(Standing))
  BY <1>1, <1>2, NoMore, UsageAssumption
<1>4. Estimate * Cardinality(Rows(Standing)') \in Nat /\ Estimate * Cardinality(Rows(Standing)) \in Nat
  BY <1>1, <1>2, OneMore, UsageAssumption
<1>5. WithinAllowance' <=>
         spent' + Estimate * Cardinality(Rows(Standing)') <= Allowance + missed'
  BY DEF WithinAllowance
<1>6. WithinAllowance'
  BY <1>3, <1>4, <1>5, UsageAssumption DEF Ledger, WithinAllowance
<1> QED  BY <1>6 DEF Ledger

LEMMA ReleaseKeeps ==
    ASSUME Ledger, NEW r \in Reservations, Release(r)
    PROVE  Ledger'
<1>1. reservation' \in [Reservations -> ReservationStatuses] /\ UNCHANGED <<spent, gate, missed>>
  BY DEF Ledger, Release, ReservationStatuses
<1>2. Rows(Standing)' \subseteq Rows(Standing)
  BY DEF Ledger, Release, Rows, Standing
<1> QED  BY <1>1, <1>2, CloseKeeps

LEMMA AgeKeeps ==
    ASSUME Ledger, NEW r \in Reservations, AgeReservation(r)
    PROVE  Ledger'
<1>1. reservation' \in [Reservations -> ReservationStatuses] /\ UNCHANGED <<spent, gate, missed>>
  BY DEF Ledger, AgeReservation, ReservationStatuses
<1>2. Rows(Standing)' \subseteq Rows(Standing)
  BY DEF Ledger, AgeReservation, Rows, Standing
<1> QED  BY <1>1, <1>2, CloseKeeps

\* A call that is recorded gives back its estimate, which its cost never exceeds.
LEMMA ReconcileKeeps ==
    ASSUME Ledger, NEW r \in Reservations, NEW cost \in Costs \cup {0},
           Reconcile(r, cost)
    PROVE  Ledger'
<1>1. CASE reservation[r] \notin Standing
  <2>1. UNCHANGED <<reservation, spent, gate, missed>>
    BY <1>1 DEF Reconcile
  <2> QED  BY <2>1 DEF Ledger, WithinAllowance, Rows
<1>2. CASE reservation[r] \in Standing
  <2> DEFINE S == Rows(Standing)
  <2>1. /\ reservation' = [reservation EXCEPT ![r] = "CLOSED"]
        /\ spent' = spent + cost /\ UNCHANGED <<gate, missed>>
    BY <1>2 DEF Reconcile
  <2>2. cost \in 0 .. Estimate
    BY UsageAssumption
  <2>3. reservation' \in [Reservations -> ReservationStatuses] /\ spent' \in Nat
    BY <2>1, <2>2, UsageAssumption DEF Ledger, ReservationStatuses
  <2>4. r \in S /\ Rows(Standing)' = S \ {r}
    BY <1>2, <2>1 DEF Ledger, Rows, Standing
  <2>5. IsFiniteSet(S) /\ Cardinality(S) \in Nat
    BY RowsFinite
  <2>6. Cardinality(S \ {r}) = Cardinality(S) - 1 /\ Cardinality(S \ {r}) \in Nat
    BY <2>4, <2>5, FS_RemoveElement, FS_CardinalityType
  <2>7. PICK n \in Nat : n = Cardinality(S \ {r}) /\ Cardinality(S) = n + 1
    BY <2>5, <2>6
  <2>8. Estimate * (n + 1) = Estimate * n + Estimate /\ Estimate * n \in Nat
    BY OneMore, UsageAssumption
  <2>9. Estimate * Cardinality(S) = Estimate * n + Estimate
    BY <2>7, <2>8
  <2>10. Cardinality(Rows(Standing)') = n
    BY <2>4, <2>7
  <2>11. spent + Estimate * Cardinality(S) <= Allowance + missed
    BY DEF Ledger, WithinAllowance
  <2>12. WithinAllowance' <=>
            spent' + Estimate * Cardinality(Rows(Standing)') <= Allowance + missed'
    BY DEF WithinAllowance
  <2>13. Rows(Standing)' \subseteq Rows(Standing)
    BY <2>4
  <2> HIDE DEF S
  <2>14. WithinAllowance'
    BY <2>1, <2>2, <2>8, <2>9, <2>10, <2>11, <2>12, UsageAssumption DEF Ledger
  <2>15. gate'.recorded <= spent'
    BY <2>1, <2>2, UsageAssumption DEF Ledger, Gate
  <2> QED  BY <2>1, <2>3, <2>13, <2>14, <2>15 DEF Ledger
<1> QED  BY <1>1, <1>2

(***************************************************************************)
(* What a step has to leave alone for each part to stand.                  *)
(***************************************************************************)
LEMMA ConfirmingKept ==
    ASSUME IInv, runs' = runs,
           \A a \in Actions : /\ action[a] = "CONFIRMED" => action'[a] = "CONFIRMED"
                              /\ action[a] # "NONE" => action'[a] # "NONE",
           \A d \in Clients : request'[d].at \in {"burn", "work", "complete"} =>
                                  request'[d] = request[d]
    PROVE  Confirming'
BY DEF IInv, Confirming, ConfirmedOnce

LEMMA OffersKept ==
    ASSUME IInv, overlapped' = overlapped,
           \A a \in Actions : Live(a)' => Live(a),
           \A d \in Clients : request'[d].at = "offer" => request[d].at = "offer"
    PROVE  Offers'
BY DEF IInv, Offers

LEMMA TurnsKept ==
    ASSUME IInv, TypeOK', session'.turns = session.turns,
           \A d \in Clients : /\ MayCount(request'[d]) => MayCount(request[d])
                              /\ request'[d].counted => request'[d].at = "reply"
    PROVE  Turns'
<1>1. Counting' \subseteq Counting
  BY DEF Counting
<1>2. IsFiniteSet(Counting) /\ Cardinality(Counting) \in Nat /\ Cardinality(Clients) \in Nat
  BY CountingFinite
<1>3. Cardinality(Counting') <= Cardinality(Counting) /\ Cardinality(Counting') \in Nat
  BY <1>1, <1>2, FS_Subset, FS_CardinalityType
<1>4. session.turns \in Nat
  BY <1>2, AssistantAssumption DEF IInv, TypeOK, Session
<1>5. session'.turns + Cardinality(Counting') <= MaxTurns + Cardinality(Clients)
  BY <1>2, <1>3, <1>4, AssistantAssumption DEF IInv, Turns
<1> QED  BY <1>5 DEF Turns

LEMMA MeteringKept ==
    ASSUME IInv, Ledger',
           \A d \in Clients : request'[d].at \in {"call", "reconcile"} =>
                                  request'[d].res \in Reservations
    PROVE  Metering'
BY DEF Metering

LEMMA RememberingKept ==
    ASSUME IInv, runs' = runs, session.booked => session'.booked,
           troubled => troubled',
           \A d \in Clients : request[d].at = "complete" =>
                                  troubled' \/ request'[d].at = "complete" \/ session'.booked
    PROVE  Remembering'
BY DEF IInv, Remembering

LEMMA LedgerKept ==
    ASSUME IInv, UNCHANGED <<reservation, spent, gate, missed>>
    PROVE  Ledger'
BY DEF IInv, Metering, Ledger, WithinAllowance, Rows

\* A request that takes a step without confirming, offering or beginning a turn,
\* and without touching the conversation's rows.
LEMMA QuietKeeps ==
    ASSUME IInv, NEW c \in Clients, NEW q \in Request,
           request' = [request EXCEPT ![c] = q],
           Ledger', UNCHANGED <<session, action, runs, overlapped>>,
           troubled' \in BOOLEAN, charged' \in Nat, troubled => troubled',
           q.at \notin {"burn", "work", "complete", "offer"},
           MayCount(q) => MayCount(request[c]),
           q.counted => q.at = "reply",
           q.at \in {"call", "reconcile"} => q.res \in Reservations,
           request[c].at = "complete" => troubled'
    PROVE  IInv'
<1>1. /\ request' \in [Clients -> Request] /\ request'[c] = q
      /\ \A d \in Clients : d # c => request'[d] = request[d]
  BY Moves DEF IInv
<1>2. TypeOK'
  BY <1>1 DEF IInv, TypeOK, Ledger
<1>3. Confirming'
  BY <1>1, ConfirmingKept
<1>4. Offers'
  BY <1>1, OffersKept DEF Live
<1>5. Turns'
  BY <1>1, <1>2, TurnsKept DEF IInv, Turns
<1>6. Metering'
  BY <1>1, MeteringKept DEF IInv, Metering
<1>7. Remembering'
  BY <1>1, RememberingKept
<1> QED  BY <1>2, <1>3, <1>4, <1>5, <1>6, <1>7 DEF IInv

(***************************************************************************)
(* The steps of a turn.                                                    *)
(***************************************************************************)
\* The copy every request starts from.
LEMMA OpenedType ==
    ASSUME IInv
    PROVE  /\ Opened \in Request
           /\ ~Opened.counted
BY AssistantAssumption DEF IInv, TypeOK, Opened, Idle, Request, Session, Steps, MachineStates

LEMMA RequestType ==
    ASSUME IInv, NEW c \in Clients
    PROVE  /\ request[c] \in Request
           /\ request[c].at # "reply" => ~request[c].counted
BY DEF IInv, TypeOK, Turns

LEMMA IdleType == Idle \in Request /\ ~Idle.counted /\ Idle.at = "idle"
BY DEF Idle, Request, Steps, MachineStates

LEMMA LockQuotaKeeps ==
    ASSUME IInv, NEW c \in Clients, LockQuota(c) PROVE IInv'
<1> DEFINE q == [request[c] EXCEPT !.at = "sum"]
<1>1. /\ request' = [request EXCEPT ![c] = q] /\ request[c].at = "reserve"
      /\ UNCHANGED <<session, action, runs, overlapped, troubled, charged>>
      /\ LockAndRead
  BY DEF LockQuota, Goes, talkVars, ghosts
<1>2. q \in Request /\ q.at = "sum" /\ ~q.counted
  BY <1>1, RequestType DEF Request, Steps
<1> HIDE DEF q
<1>3. Ledger'
  BY <1>1, LockKeeps DEF IInv, Metering
<1> QED  BY <1>1, <1>2, <1>3, QuietKeeps DEF IInv, TypeOK, MayCount

LEMMA QuotaExceededKeeps ==
    ASSUME IInv, NEW c \in Clients, QuotaExceeded(c) PROVE IInv'
<1>1. /\ request' = [request EXCEPT ![c] = Idle] /\ request[c].at # "complete"
      /\ UNCHANGED <<session, action, runs, overlapped, troubled, charged>>
      /\ RollBack
  BY DEF QuotaExceeded, Ends, OverQuota, talkVars, ghosts
<1>2. Ledger'
  BY <1>1, RollBackKeeps DEF IInv, Metering
<1> QED  BY <1>1, <1>2, IdleType, QuietKeeps DEF IInv, TypeOK, MayCount

LEMMA ToolFailsKeeps ==
    ASSUME IInv, NEW c \in Clients, ToolFails(c) PROVE IInv'
<1>1. /\ request' = [request EXCEPT ![c] = Idle] /\ request[c].at # "complete"
      /\ UNCHANGED <<session, action, runs, overlapped, reservation, spent, gate, missed, troubled, charged>>
  BY DEF ToolFails, Ends, OverQuota, usageVars, talkVars, ghosts
<1>2. Ledger'
  BY <1>1, LedgerKept
<1> QED  BY <1>1, <1>2, IdleType, QuietKeeps DEF IInv, TypeOK, MayCount

LEMMA WorkFailsKeeps ==
    ASSUME IInv, NEW c \in Clients, WorkFails(c) PROVE IInv'
<1>1. /\ request' = [request EXCEPT ![c] = Idle] /\ request[c].at # "complete"
      /\ UNCHANGED <<session, action, runs, overlapped, reservation, spent, gate, missed, troubled, charged>>
  BY DEF WorkFails, Ends, OverQuota, usageVars, talkVars, ghosts
<1>2. Ledger'
  BY <1>1, LedgerKept
<1> QED  BY <1>1, <1>2, IdleType, QuietKeeps DEF IInv, TypeOK, MayCount

LEMMA UnclearKeeps ==
    ASSUME IInv, NEW c \in Clients, Unclear(c) PROVE IInv'
<1> DEFINE q == [request[c] EXCEPT !.at = "reply"]
<1>1. /\ request' = [request EXCEPT ![c] = q] /\ request[c].at = "run"
      /\ UNCHANGED <<session, action, runs, overlapped, reservation, spent, gate, missed, troubled, charged>>
  BY DEF Unclear, Goes, usageVars, talkVars, ghosts
<1>2. q \in Request /\ q.at = "reply" /\ ~q.counted
  BY <1>1, RequestType DEF Request, Steps, MachineStates
<1> HIDE DEF q
<1>3. Ledger'
  BY <1>1, LedgerKept
<1> QED  BY <1>1, <1>2, <1>3, QuietKeeps DEF IInv, TypeOK, MayCount

LEMMA PrepareKeeps ==
    ASSUME IInv, NEW c \in Clients, Prepare(c) PROVE IInv'
<1> DEFINE q == [request[c] EXCEPT !.at = "withdraw"]
<1>1. /\ request' = [request EXCEPT ![c] = q] /\ request[c].at = "run"
      /\ UNCHANGED <<session, action, runs, overlapped, reservation, spent, gate, missed, troubled, charged>>
  BY DEF Prepare, Goes, usageVars, talkVars, ghosts
<1>2. q \in Request /\ q.at = "withdraw" /\ ~q.counted
  BY <1>1, RequestType DEF Request, Steps
<1> HIDE DEF q
<1>3. Ledger'
  BY <1>1, LedgerKept
<1> QED  BY <1>1, <1>2, <1>3, QuietKeeps DEF IInv, TypeOK, MayCount

LEMMA WorkRefusedKeeps ==
    ASSUME IInv, NEW c \in Clients, WorkRefused(c) PROVE IInv'
<1> DEFINE q == [request[c] EXCEPT !.at = "reply", !.state = "CHOOSING"]
<1>1. /\ request' = [request EXCEPT ![c] = q] /\ request[c].at = "work"
      /\ UNCHANGED <<session, action, runs, overlapped, reservation, spent, gate, missed, troubled, charged>>
  BY DEF WorkRefused, Goes, usageVars, talkVars, ghosts
<1>2. q \in Request /\ q.at = "reply" /\ ~q.counted
  <2>1. request[c] \in Request /\ ~request[c].counted
    BY <1>1, RequestType
  <2>2. "reply" \in Steps /\ "CHOOSING" \in MachineStates
    BY DEF Steps, MachineStates
  <2> QED  BY <2>1, <2>2 DEF Request
<1> HIDE DEF q
<1>3. Ledger'
  BY <1>1, LedgerKept
<1> QED  BY <1>1, <1>2, <1>3, QuietKeeps DEF IInv, TypeOK, MayCount

LEMMA AnswerKeeps ==
    ASSUME IInv, NEW c \in Clients, Answer(c) PROVE IInv'
<1>1. PICK state \in NextState(request[c].state) :
         request' = [request EXCEPT ![c] =
                        [@ EXCEPT !.at = "reply", !.state = state, !.counted = TRUE]]
  BY DEF Answer
<1> DEFINE q == [request[c] EXCEPT !.at = "reply", !.state = state, !.counted = TRUE]
<1>2. /\ request' = [request EXCEPT ![c] = q] /\ request[c].at = "run"
      /\ UNCHANGED <<session, action, runs, overlapped, reservation, spent, gate, missed, troubled, charged>>
  BY <1>1 DEF Answer, usageVars, talkVars, ghosts
<1>3. state \in MachineStates
  BY DEF IInv, TypeOK, Request, NextState, MachineStates, Final
<1>4. q \in Request /\ q.at = "reply"
  BY <1>3, RequestType DEF Request, Steps
<1> HIDE DEF q
<1>5. Ledger'
  BY <1>2, LedgerKept
<1> QED  BY <1>2, <1>4, <1>5, QuietKeeps DEF IInv, TypeOK, MayCount

LEMMA ReserveCallKeeps ==
    ASSUME IInv, NEW c \in Clients, ReserveCall(c) PROVE IInv'
<1>1. PICK r \in Reservations :
         /\ Reserve(r)
         /\ request' = [request EXCEPT ![c] = [@ EXCEPT !.at = "call", !.res = r]]
  BY DEF ReserveCall
<1> DEFINE q == [request[c] EXCEPT !.at = "call", !.res = r]
<1>2. /\ request' = [request EXCEPT ![c] = q] /\ request[c].at = "sum"
      /\ UNCHANGED <<session, action, runs, overlapped>>
      /\ Trouble \/ UNCHANGED <<troubled, charged>>
  BY <1>1 DEF ReserveCall, talkVars
<1>2a. troubled' \in BOOLEAN /\ charged' \in Nat /\ (troubled => troubled')
  <2>1. CASE Trouble
    BY <2>1 DEF Trouble
  <2>2. CASE UNCHANGED <<troubled, charged>>
    BY <2>2 DEF IInv, TypeOK
  <2> QED  BY <1>2, <2>1, <2>2
<1>3. q \in Request /\ q.at = "call" /\ q.res = r /\ ~q.counted
  BY <1>2, RequestType DEF Request, Steps
<1> HIDE DEF q
<1>4. Ledger'
  BY <1>1, ReserveKeeps DEF IInv, Metering
<1> QED  BY <1>2, <1>2a, <1>3, <1>4, QuietKeeps DEF IInv, TypeOK, MayCount

LEMMA InterpretKeeps ==
    ASSUME IInv, NEW c \in Clients, Interpret(c) PROVE IInv'
<1>1. PICK cost \in Costs :
         /\ charged' = IF troubled THEN charged ELSE charged + cost
         /\ request' = [request EXCEPT ![c] = [@ EXCEPT !.at = "reconcile", !.cost = cost]]
  BY DEF Interpret
<1> DEFINE q == [request[c] EXCEPT !.at = "reconcile", !.cost = cost]
<1>2. /\ request' = [request EXCEPT ![c] = q] /\ request[c].at = "call"
      /\ UNCHANGED <<session, action, runs, overlapped, reservation, spent, gate, missed, troubled>>
  BY <1>1 DEF Interpret, usageVars, talkVars
<1>3. charged' \in Nat
  BY <1>1, UsageAssumption DEF IInv, TypeOK
<1>4. q \in Request /\ q.at = "reconcile" /\ q.res = request[c].res /\ ~q.counted
  BY <1>2, RequestType DEF Request, Steps
<1> HIDE DEF q
<1>5. Ledger'
  BY <1>2, LedgerKept
<1>6. q.res \in Reservations
  BY <1>2, <1>4 DEF IInv, Metering
<1> QED  BY <1>2, <1>3, <1>4, <1>5, <1>6, QuietKeeps DEF IInv, TypeOK, MayCount

LEMMA InterpretFailsKeeps ==
    ASSUME IInv, NEW c \in Clients, InterpretFails(c) PROVE IInv'
<1>1. /\ request' = [request EXCEPT ![c] = Idle] /\ request[c].at = "call"
      /\ UNCHANGED <<session, action, runs, overlapped, troubled, charged>>
      /\ Release(request[c].res)
  BY DEF InterpretFails, Ends, talkVars, ghosts
<1>2. request[c].res \in Reservations
  BY <1>1 DEF IInv, Metering
<1>3. Ledger'
  BY <1>1, <1>2, ReleaseKeeps DEF IInv, Metering
<1> QED  BY <1>1, <1>3, IdleType, QuietKeeps DEF IInv, TypeOK, MayCount

LEMMA AnswerUnusableKeeps ==
    ASSUME IInv, NEW c \in Clients, AnswerUnusable(c) PROVE IInv'
<1>1. /\ request' = [request EXCEPT ![c] = Idle] /\ request[c].at = "call"
      /\ UNCHANGED <<session, action, runs, overlapped>>
      /\ troubled' = TRUE /\ charged' = 0
      /\ Release(request[c].res)
  BY DEF AnswerUnusable, Ends, talkVars, Trouble
<1>2. request[c].res \in Reservations
  BY <1>1 DEF IInv, Metering
<1>3. Ledger'
  BY <1>1, <1>2, ReleaseKeeps DEF IInv, Metering
<1> QED  BY <1>1, <1>3, IdleType, QuietKeeps DEF IInv, TypeOK, MayCount

LEMMA ReconcileCallKeeps ==
    ASSUME IInv, NEW c \in Clients, ReconcileCall(c) PROVE IInv'
<1> DEFINE q == [request[c] EXCEPT !.at = "run", !.res = None, !.cost = 0]
<1>1. /\ request' = [request EXCEPT ![c] = q] /\ request[c].at = "reconcile"
      /\ UNCHANGED <<session, action, runs, overlapped, troubled, charged>>
      /\ Reconcile(request[c].res, request[c].cost)
  BY DEF ReconcileCall, talkVars, ghosts
<1>2. request[c].res \in Reservations /\ request[c].cost \in Costs \cup {0}
  BY <1>1 DEF IInv, Metering, TypeOK, Request
<1>3. Ledger'
  BY <1>1, <1>2, ReconcileKeeps DEF IInv, Metering
<1>4. q \in Request /\ q.at = "run" /\ ~q.counted
  BY <1>1, RequestType DEF Request, Steps
<1> HIDE DEF q
<1> QED  BY <1>1, <1>3, <1>4, QuietKeeps DEF IInv, TypeOK, MayCount

LEMMA ReconcileFailsKeeps ==
    ASSUME IInv, NEW c \in Clients, ReconcileFails(c) PROVE IInv'
<1>1. /\ request' = [request EXCEPT ![c] = Idle] /\ request[c].at = "reconcile"
      /\ UNCHANGED <<session, action, runs, overlapped>>
      /\ troubled' = TRUE /\ charged' = 0
      /\ Release(request[c].res)
  BY DEF ReconcileFails, Ends, talkVars, Trouble
<1>2. request[c].res \in Reservations
  BY <1>1 DEF IInv, Metering
<1>3. Ledger'
  BY <1>1, <1>2, ReleaseKeeps DEF IInv, Metering
<1> QED  BY <1>1, <1>3, IdleType, QuietKeeps DEF IInv, TypeOK, MayCount

LEMMA DieKeeps ==
    ASSUME IInv, NEW c \in Clients, Die(c) PROVE IInv'
<1>1. /\ request' = [request EXCEPT ![c] = Idle]
      /\ UNCHANGED <<session, action, runs, overlapped>>
      /\ troubled' = TRUE /\ charged' = 0
      /\ RollBack \/ UNCHANGED <<reservation, spent, gate, missed>>
  BY DEF Die, Ends, usageVars, talkVars, Trouble
<1>2. Ledger'
  BY <1>1, LedgerKept, RollBackKeeps DEF IInv, Metering
<1> QED  BY <1>1, <1>2, IdleType, QuietKeeps DEF IInv, TypeOK, MayCount

LEMMA BeginTurnKeeps ==
    ASSUME IInv, NEW c \in Clients, BeginTurn(c) PROVE IInv'
<1> DEFINE q == [Opened EXCEPT !.at = IF TurnLimitReached THEN "reply" ELSE "reserve"]
<1>1. /\ request' = [request EXCEPT ![c] = q] /\ request[c].at = "idle"
      /\ UNCHANGED <<session, action, runs, overlapped, reservation, spent, gate, missed, troubled, charged>>
  BY DEF BeginTurn, usageVars, talkVars, ghosts
<1>2. /\ q \in Request /\ ~q.counted
      /\ q.at = (IF TurnLimitReached THEN "reply" ELSE "reserve")
  BY OpenedType DEF Request, Steps
<1> HIDE DEF q
<1>3. Ledger'
  BY <1>1, LedgerKept
<1>4. CASE TurnLimitReached
  BY <1>1, <1>2, <1>3, <1>4, QuietKeeps DEF IInv, TypeOK, MayCount
<1>5. CASE ~TurnLimitReached
  <2>1. /\ request' \in [Clients -> Request] /\ request'[c] = q
        /\ \A d \in Clients : d # c => request'[d] = request[d]
    BY <1>1, <1>2, Moves DEF IInv
  <2>2. TypeOK'
    BY <1>1, <2>1 DEF IInv, TypeOK
  <2>3. Confirming'
    BY <1>1, <1>2, <1>5, <2>1, ConfirmingKept
  <2>4. Offers'
    BY <1>1, <1>2, <1>5, <2>1, OffersKept DEF Live
  <2>5. Turns'
    <3>1. Counting' \subseteq Clients
      BY DEF Counting
    <3>2. /\ Cardinality(Counting') \in Nat /\ Cardinality(Clients) \in Nat
          /\ Cardinality(Counting') <= Cardinality(Clients)
      BY <3>1, AssistantAssumption, FS_Subset, FS_CardinalityType
    <3>3. session.turns < MaxTurns /\ session.turns \in Nat
      BY <1>5, <3>2, AssistantAssumption DEF TurnLimitReached, IInv, TypeOK, Session
    <3>4. session'.turns + Cardinality(Counting') <= MaxTurns + Cardinality(Clients)
      BY <1>1, <3>2, <3>3, AssistantAssumption
    <3>5. \A d \in Clients : request'[d].counted => request'[d].at = "reply"
      BY <1>2, <2>1 DEF IInv, Turns
    <3> QED  BY <3>4, <3>5 DEF Turns
  <2>6. Metering'
    BY <1>2, <1>3, <1>5, <2>1, MeteringKept DEF IInv, Metering
  <2>7. Remembering'
    BY <1>1, <2>1, RememberingKept
  <2> QED  BY <2>2, <2>3, <2>4, <2>5, <2>6, <2>7 DEF IInv
<1> QED  BY <1>4, <1>5

(***************************************************************************)
(* Steps that change the conversation's rows.                              *)
(***************************************************************************)
LEMMA RepliedType ==
    ASSUME IInv, NEW c \in Clients, request[c].at = "reply"
    PROVE  /\ Replied(request[c]).turns = (IF request[c].counted THEN session.turns + 1
                                                                 ELSE session.turns)
           /\ Replied(request[c]).booked = session.booked
           /\ Replied(request[c]).turns \in 0 .. MaxTurns + Cardinality(Clients)
                 => Replied(request[c]) \in Session
<1>1. request[c].state \in MachineStates
  BY DEF IInv, TypeOK, Request
<1> QED  BY <1>1 DEF IInv, TypeOK, Session, Replied

LEMMA ReplyKeeps ==
    ASSUME IInv, NEW c \in Clients, Reply(c) PROVE IInv'
<1>1. /\ request' = [request EXCEPT ![c] = Idle] /\ request[c].at = "reply"
      /\ session' = Replied(request[c])
      /\ UNCHANGED <<action, runs, overlapped, reservation, spent, gate, missed, troubled, charged>>
  BY DEF Reply, Ends, usageVars, ghosts
<1>2. /\ request' \in [Clients -> Request] /\ request'[c] = Idle
      /\ \A d \in Clients : d # c => request'[d] = request[d]
  BY <1>1, IdleType, Moves DEF IInv
<1>3. session'.booked = session.booked
  BY <1>1, RepliedType
<1>4. /\ IsFiniteSet(Counting) /\ Cardinality(Counting) \in Nat
      /\ Cardinality(Clients) \in Nat
  BY CountingFinite
<1>5. session.turns \in Nat /\ MaxTurns \in Nat
  BY <1>4, AssistantAssumption DEF IInv, TypeOK, Session
<1>6. /\ session'.turns + Cardinality(Counting') <= MaxTurns + Cardinality(Clients)
      /\ session'.turns \in 0 .. MaxTurns + Cardinality(Clients)
  <2>1. CASE request[c].counted
    <3>1. c \in Counting /\ Counting' = Counting \ {c}
      BY <1>1, <1>2, <2>1, IdleType DEF Counting, MayCount
    <3>2. Cardinality(Counting') = Cardinality(Counting) - 1 /\ Cardinality(Counting') \in Nat
      BY <1>4, <3>1, FS_RemoveElement, FS_CardinalityType
    <3>3. session'.turns = session.turns + 1
      BY <1>1, <2>1, RepliedType
    <3> QED  BY <1>4, <1>5, <3>2, <3>3 DEF IInv, Turns
  <2>2. CASE ~request[c].counted
    <3>1. Counting' = Counting
      BY <1>1, <1>2, <2>2, IdleType DEF Counting, MayCount
    <3>2. session'.turns = session.turns
      BY <1>1, <2>2, RepliedType
    <3> QED  BY <1>4, <1>5, <3>1, <3>2 DEF IInv, Turns
  <2> QED  BY <2>1, <2>2
<1>7. TypeOK'
  BY <1>1, <1>2, <1>6, RepliedType DEF IInv, TypeOK
<1>8. Confirming'
  BY <1>1, <1>2, IdleType, ConfirmingKept
<1>9. Offers'
  BY <1>1, <1>2, IdleType, OffersKept DEF Live
<1>10. Turns'
  BY <1>2, <1>6, IdleType DEF IInv, Turns
<1>11. Metering'
  BY <1>1, <1>2, IdleType, LedgerKept, MeteringKept DEF IInv, Metering
<1>12. Remembering'
  BY <1>1, <1>2, <1>3, RememberingKept
<1> QED  BY <1>7, <1>8, <1>9, <1>10, <1>11, <1>12 DEF IInv

\* A request is answered and the session's deadline or verdict changes with it.
LEMMA SessionStepKeeps ==
    ASSUME IInv, NEW c \in Clients, NEW q \in Request,
           request' = [request EXCEPT ![c] = q], q.at \in {"idle", "reply"}, ~q.counted,
           session' \in Session, session'.turns = session.turns,
           session.booked => session'.booked,
           request[c].at = "complete" => session'.booked,
           UNCHANGED <<action, runs, overlapped, reservation, spent, gate, missed, troubled, charged>>
    PROVE  IInv'
<1>1. /\ request' \in [Clients -> Request] /\ request'[c] = q
      /\ \A d \in Clients : d # c => request'[d] = request[d]
  BY Moves DEF IInv
<1>2. TypeOK'
  BY <1>1 DEF IInv, TypeOK
<1>3. Confirming'
  BY <1>1, ConfirmingKept
<1>4. Offers'
  BY <1>1, OffersKept DEF Live
<1>5. Turns'
  BY <1>1, <1>2, TurnsKept DEF IInv, Turns, MayCount
<1>6. Metering'
  BY <1>1, LedgerKept, MeteringKept DEF IInv, Metering
<1>7. Remembering'
  BY <1>1, RememberingKept
<1> QED  BY <1>2, <1>3, <1>4, <1>5, <1>6, <1>7 DEF IInv

LEMMA BeginTurnLateKeeps ==
    ASSUME IInv, NEW c \in Clients, BeginTurnLate(c) PROVE IInv'
<1> DEFINE q == [Opened EXCEPT !.at = "reply"]
<1>1. /\ request' = [request EXCEPT ![c] = q] /\ request[c].at = "idle"
      /\ session' = [session EXCEPT !.status = "EXPIRED", !.state = "EXPIRED", !.old = TRUE]
      /\ UNCHANGED <<action, runs, overlapped, reservation, spent, gate, missed, troubled, charged>>
  BY DEF BeginTurnLate, usageVars, ghosts
<1>2. q \in Request /\ ~q.counted /\ q.at = "reply"
  BY OpenedType DEF Request, Steps
<1> HIDE DEF q
<1>3. /\ session' \in Session /\ session'.turns = session.turns
      /\ session'.booked = session.booked
  BY <1>1 DEF IInv, TypeOK, Session, MachineStates
<1> QED  BY <1>1, <1>2, <1>3, SessionStepKeeps

LEMMA CompleteKeeps ==
    ASSUME IInv, NEW c \in Clients, Complete(c) PROVE IInv'
<1>1. /\ request' = [request EXCEPT ![c] = Idle]
      /\ session' = [session EXCEPT !.status = "COMPLETED", !.state = "COMPLETED", !.booked = TRUE]
      /\ UNCHANGED <<action, runs, overlapped, reservation, spent, gate, missed, troubled, charged>>
  BY DEF Complete, Ends, usageVars, ghosts
<1>2. /\ session' \in Session /\ session'.turns = session.turns /\ session'.booked
  BY <1>1 DEF IInv, TypeOK, Session, MachineStates
<1> QED  BY <1>1, <1>2, IdleType, SessionStepKeeps DEF MayCount

LEMMA WithdrawKeeps ==
    ASSUME IInv, NEW c \in Clients, Withdraw(c) PROVE IInv'
<1> DEFINE q == [request[c] EXCEPT !.at = "offer"]
<1>1. /\ request' = [request EXCEPT ![c] = q] /\ request[c].at = "withdraw"
      /\ action' = Withdrawn
      /\ overlapped' = (overlapped \/ \E d \in Clients : request[d].at = "offer")
      /\ UNCHANGED <<session, runs, reservation, spent, gate, missed, troubled, charged>>
  BY DEF Withdraw, Goes, usageVars
<1>2. q \in Request /\ q.at = "offer" /\ ~q.counted
  BY <1>1, RequestType DEF Request, Steps
<1> HIDE DEF q
<1>3. /\ request' \in [Clients -> Request] /\ request'[c] = q
      /\ \A d \in Clients : d # c => request'[d] = request[d]
  BY <1>1, <1>2, Moves DEF IInv
<1>4. action' \in [Actions -> ActionStatuses]
  BY <1>1 DEF IInv, TypeOK, Withdrawn, Pending, ActionStatuses
<1>5. \A a \in Actions : /\ ~Live(a)'
                         /\ action[a] = "CONFIRMED" => action'[a] = "CONFIRMED"
                         /\ action[a] # "NONE" => action'[a] # "NONE"
  BY <1>1 DEF Live, Withdrawn, Pending
<1>6. TypeOK'
  BY <1>1, <1>3, <1>4 DEF IInv, TypeOK
<1>7. Confirming'
  BY <1>1, <1>2, <1>3, <1>5, ConfirmingKept
<1>8. Offers'
  <2>1. ASSUME ~overlapped' PROVE \A d, e \in Clients :
           request'[d].at = "offer" /\ request'[e].at = "offer" => d = e
    BY <1>1, <1>3, <2>1
  <2> QED  BY <1>5, <2>1 DEF Offers
<1>9. Turns'
  BY <1>1, <1>2, <1>3, <1>6, TurnsKept DEF IInv, Turns, MayCount
<1>10. Metering'
  BY <1>1, <1>2, <1>3, LedgerKept, MeteringKept DEF IInv, Metering
<1>11. Remembering'
  BY <1>1, <1>3, RememberingKept
<1> QED  BY <1>6, <1>7, <1>8, <1>9, <1>10, <1>11 DEF IInv

LEMMA OfferKeeps ==
    ASSUME IInv, NEW c \in Clients, Offer(c) PROVE IInv'
<1> DEFINE q == [request[c] EXCEPT !.at = "reply", !.counted = TRUE,
                                   !.state = "AWAITING_CONFIRMATION"]
<1>1. /\ request' = [request EXCEPT ![c] = q] /\ request[c].at = "offer"
      /\ UNCHANGED <<session, runs, overlapped, reservation, spent, gate, missed, troubled, charged>>
  BY DEF Offer, usageVars, ghosts
<1>2. PICK a \in Actions : action[a] = "NONE" /\ action' = [action EXCEPT ![a] = "PENDING"]
  BY DEF Offer, Unwritten
<1>3. q \in Request /\ q.at = "reply"
  BY RequestType DEF Request, Steps, MachineStates
<1> HIDE DEF q
<1>4. /\ request' \in [Clients -> Request] /\ request'[c] = q
      /\ \A d \in Clients : d # c => request'[d] = request[d]
  BY <1>1, <1>3, Moves DEF IInv
<1>5. TypeOK'
  BY <1>1, <1>2, <1>4 DEF IInv, TypeOK, ActionStatuses
<1>6. Confirming'
  BY <1>1, <1>2, <1>3, <1>4, ConfirmingKept DEF IInv, TypeOK
<1>7. Offers'
  <2> SUFFICES ASSUME ~overlapped
               PROVE  /\ \A x, y \in Actions : Live(x)' /\ Live(y)' => x = y
                      /\ \A d \in Clients : request'[d].at # "offer"
    BY <1>1 DEF Offers
  <2>1. \A x \in Actions : ~Live(x)
    BY <1>1 DEF IInv, Offers
  <2>2. \A x \in Actions : x # a => ~Live(x)'
    BY <1>2, <2>1 DEF Live, IInv, TypeOK
  <2> QED  BY <1>1, <1>3, <1>4, <2>2 DEF IInv, Offers
<1>8. Turns'
  BY <1>1, <1>3, <1>4, <1>5, TurnsKept DEF IInv, Turns, MayCount
<1>9. Metering'
  BY <1>1, <1>3, <1>4, LedgerKept, MeteringKept DEF IInv, Metering
<1>10. Remembering'
  BY <1>1, <1>4, RememberingKept
<1> QED  BY <1>5, <1>6, <1>7, <1>8, <1>9, <1>10 DEF IInv

LEMMA BeginConfirmKeeps ==
    ASSUME IInv, NEW c \in Clients, NEW a \in Actions, BeginConfirm(c, a) PROVE IInv'
<1>1. /\ request[c].at = "idle" /\ action[a] # "NONE"
      /\ UNCHANGED <<session, action, runs, overlapped, reservation, spent, gate, missed, troubled, charged>>
  BY DEF BeginConfirm, usageVars, talkVars, ghosts
<1>2. CASE action[a] # "PENDING"
  <2> DEFINE q == [Opened EXCEPT !.at = "reply"]
  <2>1. request' = [request EXCEPT ![c] = q]
    BY <1>2 DEF BeginConfirm
  <2>2. q \in Request /\ ~q.counted /\ q.at = "reply"
    BY OpenedType DEF Request, Steps
  <2> HIDE DEF q
  <2>3. Ledger'
    BY <1>1, LedgerKept
  <2> QED  BY <1>1, <2>1, <2>2, <2>3, QuietKeeps DEF IInv, TypeOK, MayCount
<1>3. CASE action[a] = "PENDING"
  <2> DEFINE q == [Opened EXCEPT !.at = "burn", !.act = a]
  <2>1. request' = [request EXCEPT ![c] = q]
    BY <1>3 DEF BeginConfirm
  <2>2. q \in Request /\ ~q.counted /\ q.at = "burn" /\ q.act = a
    BY OpenedType DEF Request, Steps
  <2> HIDE DEF q
  <2>3. /\ request' \in [Clients -> Request] /\ request'[c] = q
        /\ \A d \in Clients : d # c => request'[d] = request[d]
    BY <2>1, <2>2, Moves DEF IInv
  <2>4. TypeOK'
    BY <1>1, <2>3 DEF IInv, TypeOK
  <2>5. Confirming'
    BY <1>1, <2>2, <2>3 DEF IInv, Confirming, ConfirmedOnce
  <2>6. Offers'
    BY <1>1, <2>2, <2>3, OffersKept DEF Live
  <2>7. Turns'
    BY <1>1, <2>2, <2>3, <2>4, TurnsKept DEF IInv, Turns, MayCount
  <2>8. Metering'
    BY <1>1, <2>2, <2>3, LedgerKept, MeteringKept DEF IInv, Metering
  <2>9. Remembering'
    BY <1>1, <2>3, RememberingKept
  <2> QED  BY <2>4, <2>5, <2>6, <2>7, <2>8, <2>9 DEF IInv
<1> QED  BY <1>2, <1>3

LEMMA BurnKeeps ==
    ASSUME IInv, NEW c \in Clients, Burn(c) PROVE IInv'
<1> DEFINE a == request[c].act
<1>1. /\ request[c].at = "burn"
      /\ UNCHANGED <<session, runs, overlapped, reservation, spent, gate, missed, troubled, charged>>
  BY DEF Burn, usageVars, ghosts
<1>2. a \in Actions /\ action[a] # "NONE"
  BY <1>1 DEF IInv, Confirming
<1>3. CASE ~Burnable(a)
  <2> DEFINE q == [request[c] EXCEPT !.at = "reply"]
  <2>1. request' = [request EXCEPT ![c] = q] /\ UNCHANGED action
    BY <1>3 DEF Burn, Goes
  <2>2. q \in Request /\ q.at = "reply" /\ ~q.counted
    BY <1>1, RequestType DEF Request, Steps
  <2> HIDE DEF q
  <2>3. Ledger'
    BY <1>1, LedgerKept
  <2> QED  BY <1>1, <2>1, <2>2, <2>3, QuietKeeps DEF IInv, TypeOK, MayCount
<1>4. CASE Burnable(a)
  <2> DEFINE q == [request[c] EXCEPT !.at = "work"]
  <2>1. /\ request' = [request EXCEPT ![c] = q]
        /\ action' = [action EXCEPT ![a] = "CONFIRMED"]
    BY <1>4 DEF Burn, Goes
  <2>2. q \in Request /\ q.at = "work" /\ q.act = a /\ ~q.counted
    BY <1>1, RequestType DEF Request, Steps
  <2>3. runs[a] = 0
    BY <1>2, <1>4 DEF Burnable, Pending, IInv, TypeOK, Confirming, ConfirmedOnce
  <2> HIDE DEF q, a
  <2>4. /\ request' \in [Clients -> Request] /\ request'[c] = q
        /\ \A d \in Clients : d # c => request'[d] = request[d]
    BY <2>1, <2>2, Moves DEF IInv
  <2>5. /\ action' \in [Actions -> ActionStatuses] /\ action'[a] = "CONFIRMED"
        /\ \A b \in Actions : b # a => action'[b] = action[b]
    BY <1>2, <2>1 DEF IInv, TypeOK, ActionStatuses
  <2>6. TypeOK'
    BY <1>1, <2>4, <2>5 DEF IInv, TypeOK
  <2>7. \A d \in Clients : request[d].at = "work" => request[d].act # a
    BY <1>4 DEF Burnable, Pending, IInv, Confirming
  <2>8. Confirming'
    <3>1. \A d \in Clients :
             /\ request'[d].at \in {"burn", "work", "complete"} => request'[d].act \in Actions
             /\ request'[d].at = "burn" => action'[request'[d].act] # "NONE"
             /\ request'[d].at = "work" => /\ action'[request'[d].act] = "CONFIRMED"
                                           /\ runs'[request'[d].act] = 0
      <4> TAKE d \in Clients
      <4>1. CASE d = c
        BY <4>1, <1>1, <1>2, <2>2, <2>3, <2>4, <2>5
      <4>2. CASE d # c
        BY <4>2, <1>1, <2>4, <2>5 DEF IInv, Confirming
      <4> QED  BY <4>1, <4>2
    <3>2. \A d, e \in Clients :
             /\ request'[d].at = "work" /\ request'[e].at = "work"
             /\ request'[d].act = request'[e].act
             => d = e
      BY <2>2, <2>4, <2>7 DEF IInv, Confirming
    <3>3. ConfirmedOnce'
      BY <1>1, <2>3, <2>5 DEF IInv, Confirming, ConfirmedOnce
    <3> QED  BY <3>1, <3>2, <3>3 DEF Confirming
  <2>9. Offers'
    BY <1>1, <2>2, <2>4, <2>5, OffersKept DEF Live, Pending
  <2>10. Turns'
    BY <1>1, <2>2, <2>4, <2>6, TurnsKept DEF IInv, Turns, MayCount
  <2>11. Metering'
    BY <1>1, <2>2, <2>4, LedgerKept, MeteringKept DEF IInv, Metering
  <2>12. Remembering'
    BY <1>1, <2>4, RememberingKept
  <2> QED  BY <2>6, <2>8, <2>9, <2>10, <2>11, <2>12 DEF IInv
<1> QED  BY <1>3, <1>4

LEMMA WorkKeeps ==
    ASSUME IInv, NEW c \in Clients, Work(c) PROVE IInv'
<1> DEFINE a == request[c].act
           q == [request[c] EXCEPT !.at = "complete"]
<1>1. /\ request[c].at = "work" /\ request' = [request EXCEPT ![c] = q]
      /\ runs' = [runs EXCEPT ![a] = @ + 1]
      /\ UNCHANGED <<session, action, overlapped, reservation, spent, gate, missed, troubled, charged>>
  BY DEF Work, Goes, usageVars, ghosts
<1>2. a \in Actions /\ action[a] = "CONFIRMED" /\ runs[a] = 0
  BY <1>1 DEF IInv, Confirming
<1>3. q \in Request /\ q.at = "complete" /\ q.act = a /\ ~q.counted
  BY <1>1, RequestType DEF Request, Steps
<1>4. \A d \in Clients : d # c /\ request[d].at = "work" => request[d].act # a
  BY <1>1 DEF IInv, Confirming
<1> HIDE DEF q, a
<1>5. /\ request' \in [Clients -> Request] /\ request'[c] = q
      /\ \A d \in Clients : d # c => request'[d] = request[d]
  BY <1>1, <1>3, Moves DEF IInv
<1>6. /\ runs' \in [Actions -> Nat] /\ runs'[a] = 1
      /\ \A b \in Actions : b # a => runs'[b] = runs[b]
  BY <1>1, <1>2 DEF IInv, TypeOK
<1>7. TypeOK'
  BY <1>1, <1>5, <1>6 DEF IInv, TypeOK
<1>8. Confirming'
  <2>1. \A d \in Clients :
           /\ request'[d].at \in {"burn", "work", "complete"} => request'[d].act \in Actions
           /\ request'[d].at = "burn" => action'[request'[d].act] # "NONE"
           /\ request'[d].at = "work" => /\ action'[request'[d].act] = "CONFIRMED"
                                         /\ runs'[request'[d].act] = 0
    <3> TAKE d \in Clients
    <3>1. CASE d = c
      BY <3>1, <1>2, <1>3, <1>5
    <3>2. CASE d # c
      BY <3>2, <1>1, <1>4, <1>5, <1>6 DEF IInv, Confirming
    <3> QED  BY <3>1, <3>2
  <2>2. \A d, e \in Clients :
           /\ request'[d].at = "work" /\ request'[e].at = "work"
           /\ request'[d].act = request'[e].act
           => d = e
    BY <1>3, <1>5 DEF IInv, Confirming
  <2>3. ConfirmedOnce'
    BY <1>1, <1>2, <1>6 DEF IInv, Confirming, ConfirmedOnce
  <2> QED  BY <2>1, <2>2, <2>3 DEF Confirming
<1>9. Offers'
  BY <1>1, <1>3, <1>5, OffersKept DEF Live
<1>10. Turns'
  BY <1>1, <1>3, <1>5, <1>7, TurnsKept DEF IInv, Turns, MayCount
<1>11. Metering'
  BY <1>1, <1>3, <1>5, LedgerKept, MeteringKept DEF IInv, Metering
<1>12. Remembering'
  BY <1>3, <1>5 DEF Remembering
<1> QED  BY <1>7, <1>8, <1>9, <1>10, <1>11, <1>12 DEF IInv

\* Offers are only ever settled: none is made, and none settled comes back.
LEMMA SettlingKeeps ==
    ASSUME IInv, action' \in [Actions -> ActionStatuses],
           \A a \in Actions : /\ Live(a)' => Live(a)
                              /\ action[a] = "CONFIRMED" => action'[a] = "CONFIRMED"
                              /\ action[a] # "NONE" => action'[a] # "NONE",
           request' = request \/
               \E c \in Clients, q \in Request :
                   /\ request' = [request EXCEPT ![c] = q]
                   /\ request[c].at = "idle" /\ q.at = "reply" /\ ~q.counted,
           UNCHANGED <<session, runs, overlapped, reservation, spent, gate, missed, troubled, charged>>
    PROVE  IInv'
<1>1. /\ request' \in [Clients -> Request]
      /\ \A d \in Clients : \/ request'[d] = request[d]
                            \/ /\ request'[d].at = "reply" /\ ~request'[d].counted
                               /\ request[d].at = "idle"
  <2>1. CASE request' = request
    BY <2>1 DEF IInv, TypeOK
  <2>2. CASE request' # request
    <3>1. PICK c \in Clients, q \in Request :
             /\ request' = [request EXCEPT ![c] = q]
             /\ request[c].at = "idle" /\ q.at = "reply" /\ ~q.counted
      BY <2>2
    <3> QED  BY <3>1, Moves DEF IInv
  <2> QED  BY <2>1, <2>2
<1>2. TypeOK'
  BY <1>1 DEF IInv, TypeOK
<1>3. Confirming'
  BY <1>1, ConfirmingKept
<1>4. Offers'
  BY <1>1, OffersKept
<1>5. Turns'
  BY <1>1, <1>2, TurnsKept DEF IInv, Turns, MayCount
<1>6. Metering'
  BY <1>1, LedgerKept, MeteringKept DEF IInv, Metering
<1>7. Remembering'
  BY <1>1, RememberingKept
<1> QED  BY <1>2, <1>3, <1>4, <1>5, <1>6, <1>7 DEF IInv

LEMMA CancelKeeps ==
    ASSUME IInv, NEW c \in Clients, NEW a \in Actions, Cancel(c, a) PROVE IInv'
<1> DEFINE q == [Opened EXCEPT !.at = "reply", !.state = "CHOOSING"]
<1>1. /\ request' = [request EXCEPT ![c] = q] /\ request[c].at = "idle"
      /\ action' = [action EXCEPT ![a] = IF @ \in Pending THEN "CANCELLED" ELSE @]
      /\ UNCHANGED <<session, runs, overlapped, reservation, spent, gate, missed, troubled, charged>>
  BY DEF Cancel, usageVars, ghosts
<1>2. q \in Request /\ q.at = "reply" /\ ~q.counted
  BY OpenedType DEF Request, Steps, MachineStates
<1> HIDE DEF q
<1>3. action' \in [Actions -> ActionStatuses]
  BY <1>1 DEF IInv, TypeOK, ActionStatuses
<1>4. \A b \in Actions : /\ Live(b)' => Live(b)
                         /\ action[b] = "CONFIRMED" => action'[b] = "CONFIRMED"
                         /\ action[b] # "NONE" => action'[b] # "NONE"
  BY <1>1 DEF IInv, TypeOK, Live, Pending
<1> QED  BY <1>1, <1>2, <1>3, <1>4, SettlingKeeps

LEMMA AgeActionKeeps ==
    ASSUME IInv, NEW a \in Actions, AgeAction(a) PROVE IInv'
<1>1. action' \in [Actions -> ActionStatuses]
  BY DEF AgeAction, IInv, TypeOK, ActionStatuses
<1>2. \A b \in Actions : /\ Live(b)' => Live(b)
                         /\ action[b] = "CONFIRMED" => action'[b] = "CONFIRMED"
                         /\ action[b] # "NONE" => action'[b] # "NONE"
  BY DEF AgeAction, IInv, TypeOK, Live, Pending
<1> QED  BY <1>1, <1>2, SettlingKeeps DEF AgeAction, usageVars, ghosts

LEMMA SweepActionsKeeps ==
    ASSUME IInv, SweepActions PROVE IInv'
<1>1. action' \in [Actions -> ActionStatuses]
  BY DEF SweepActions, Swept, IInv, TypeOK, ActionStatuses
<1>2. \A b \in Actions : /\ Live(b)' => Live(b)
                         /\ action[b] = "CONFIRMED" => action'[b] = "CONFIRMED"
                         /\ action[b] # "NONE" => action'[b] # "NONE"
  BY DEF SweepActions, Swept, Live, Pending
<1> QED  BY <1>1, <1>2, SettlingKeeps DEF SweepActions, usageVars, ghosts

(***************************************************************************)
(* Time and the session's end.                                             *)
(***************************************************************************)
LEMMA SurroundingsKeep ==
    ASSUME IInv, request' = request, UNCHANGED <<action, runs, ghosts>>,
           session' \in Session, session'.turns = session.turns,
           session'.booked = session.booked,
           Ledger'
    PROVE  IInv'
<1>1. UNCHANGED <<troubled, charged, overlapped>>
  BY DEF ghosts
<1>2. TypeOK'
  BY <1>1 DEF IInv, TypeOK, Ledger
<1>3. Confirming'
  BY ConfirmingKept
<1>4. Offers'
  BY <1>1, OffersKept DEF Live
<1>5. Turns'
  BY <1>2, TurnsKept DEF IInv, Turns
<1>6. Metering'
  BY MeteringKept DEF IInv, Metering
<1>7. Remembering'
  BY <1>1, RememberingKept
<1> QED  BY <1>2, <1>3, <1>4, <1>5, <1>6, <1>7 DEF IInv

LEMMA AgeSessionKeeps ==
    ASSUME IInv, AgeSession PROVE IInv'
<1>1. /\ session' \in Session /\ session'.turns = session.turns
      /\ session'.booked = session.booked
  BY DEF AgeSession, IInv, TypeOK, Session
<1>2. UNCHANGED <<action, runs, request, ghosts, reservation, spent, gate, missed>>
  BY DEF AgeSession, usageVars
<1> QED  BY <1>1, <1>2, LedgerKept, SurroundingsKeep DEF IInv, TypeOK

LEMMA SweepSessionsKeeps ==
    ASSUME IInv, SweepSessions PROVE IInv'
<1>1. /\ session' \in Session /\ session'.turns = session.turns
      /\ session'.booked = session.booked
  BY DEF SweepSessions, IInv, TypeOK, Session, MachineStates
<1>2. UNCHANGED <<action, runs, request, ghosts, reservation, spent, gate, missed>>
  BY DEF SweepSessions, usageVars
<1> QED  BY <1>1, <1>2, LedgerKept, SurroundingsKeep DEF IInv, TypeOK

LEMMA AgeCallKeeps ==
    ASSUME IInv, NEW r \in Reservations, AgeCall(r) PROVE IInv'
<1>1. UNCHANGED <<session, action, runs, request, ghosts>> /\ AgeReservation(r)
  BY DEF AgeCall, talkVars
<1>2. Ledger'
  BY <1>1, AgeKeeps DEF IInv, Metering
<1> QED  BY <1>1, <1>2, SurroundingsKeep DEF IInv, TypeOK

\* A new conversation begins with nothing offered, done or counted.
LEMMA NewSessionFits ==
    ASSUME NEW booked \in BOOLEAN
    PROVE  NewSession(booked) \in Session /\ NewSession(booked).turns = 0
<1>1. Cardinality(Clients) \in Nat
  BY CountingFinite
<1> QED  BY <1>1, AssistantAssumption DEF NewSession, Session, MachineStates

LEMMA StartKeeps ==
    ASSUME IInv, Start PROVE IInv'
<1>1. /\ \A c \in Clients : request[c].at = "idle"
      /\ action' = [a \in Actions |-> "NONE"] /\ runs' = [a \in Actions |-> 0]
      /\ UNCHANGED <<request, reservation, spent, gate, missed, troubled, charged, overlapped>>
  BY DEF Start, usageVars, ghosts
<1>2. session' \in Session /\ session'.turns = 0
  BY NewSessionFits DEF Start
<1>3. TypeOK'
  BY <1>1, <1>2 DEF IInv, TypeOK, ActionStatuses
<1>4. Confirming'
  BY <1>1 DEF Confirming, ConfirmedOnce
<1>5. Offers'
  BY <1>1 DEF Offers, Live, Pending
<1>6. Turns'
  <2>1. Counting' = Counting
    BY <1>1 DEF Counting
  <2> QED  BY <1>1, <1>2, <2>1, CountingFinite, AssistantAssumption DEF IInv, Turns
<1>7. Metering'
  BY <1>1, LedgerKept, MeteringKept
<1>8. Remembering'
  BY <1>1 DEF Remembering
<1> QED  BY <1>3, <1>4, <1>5, <1>6, <1>7, <1>8 DEF IInv

(***************************************************************************)
(* The invariant, and what follows from it.                                *)
(***************************************************************************)
LEMMA InitIsInductive == Init => IInv
<1> SUFFICES ASSUME Init PROVE IInv
  OBVIOUS
<1>1. request = [c \in Clients |-> Idle]
  BY DEF Init
<1>2. \A c \in Clients : request[c].at = "idle" /\ ~request[c].counted
  BY <1>1 DEF Idle
<1>3. session \in Session /\ session.turns = 0
  BY NewSessionFits DEF Init
<1>4. /\ reservation = [r \in Reservations |-> "CLOSED"] /\ spent = 0
      /\ gate = Shut /\ missed = 0
  BY DEF Init, UsageInit
<1>5. TypeOK
  BY <1>1, ShutType, <1>3, <1>4, IdleType DEF Init, TypeOK, ReservationStatuses, ActionStatuses
<1>6. Confirming
  BY <1>2 DEF Init, Confirming, ConfirmedOnce
<1>7. Offers
  BY <1>2 DEF Init, Offers, Live, Pending
<1>8. Turns
  <2>1. Counting = {}
    BY <1>2 DEF Counting, MayCount
  <2> QED  BY <1>2, <1>3, <2>1, FS_EmptySet, CountingFinite, AssistantAssumption DEF Turns
<1>9. Metering
  <2>1. Rows(Standing) = {}
    BY <1>4 DEF Rows, Standing
  <2>2. Estimate * Cardinality(Rows(Standing)) = 0
    BY <2>1, FS_EmptySet, UsageAssumption
  <2>3. WithinAllowance
    BY <1>4, <2>2, UsageAssumption DEF WithinAllowance
  <2> QED  BY <1>2, <1>4, <2>3, ShutType DEF Metering, Ledger, ReservationStatuses
<1>10. Remembering
  BY DEF Init, Remembering
<1> QED  BY <1>5, <1>6, <1>7, <1>8, <1>9, <1>10 DEF IInv

LEMMA TurnKeeps ==
    ASSUME IInv, NEW c \in Clients, Turn(c) PROVE IInv'
BY BeginTurnKeeps, BeginTurnLateKeeps, LockQuotaKeeps, ReserveCallKeeps, QuotaExceededKeeps,
   InterpretKeeps, InterpretFailsKeeps, AnswerUnusableKeeps, ReconcileCallKeeps,
   ReconcileFailsKeeps, UnclearKeeps, AnswerKeeps, ToolFailsKeeps, PrepareKeeps, WithdrawKeeps, OfferKeeps, ReplyKeeps DEF Turn

LEMMA ConfirmationKeeps ==
    ASSUME IInv, NEW c \in Clients, Confirmation(c) PROVE IInv'
BY BeginConfirmKeeps, CancelKeeps, BurnKeeps, WorkKeeps, WorkRefusedKeeps, WorkFailsKeeps,
   CompleteKeeps DEF Confirmation

LEMMA StepKeeps == IInv /\ [Next]_vars => IInv'
<1> SUFFICES ASSUME IInv, [Next]_vars PROVE IInv'
  OBVIOUS
<1>1. ASSUME NEW c \in Clients, Turn(c) PROVE IInv'
  BY <1>1, TurnKeeps
<1>2. ASSUME NEW c \in Clients, Confirmation(c) PROVE IInv'
  BY <1>2, ConfirmationKeeps
<1>3. ASSUME NEW c \in Clients, Die(c) PROVE IInv'
  BY <1>3, DieKeeps
<1>4. CASE Surroundings
  BY <1>4, StartKeeps, AgeSessionKeeps, SweepSessionsKeeps, SweepActionsKeeps,
     AgeActionKeeps, AgeCallKeeps DEF Surroundings
<1>5. CASE UNCHANGED vars
  <2>1. UNCHANGED <<session, action, runs, request, ghosts, reservation, spent, gate, missed>>
    BY <1>5 DEF vars, ghosts
  <2> QED  BY <2>1, LedgerKept, SurroundingsKeep DEF IInv, TypeOK
<1> QED  BY <1>1, <1>2, <1>3, <1>4, <1>5 DEF Next

\* Rows and requests stay well formed, and the turns a conversation counts
\* overrun its limit by the requests in flight at most (checkTurnAllowed).
THEOREM Typing == Spec => []TypeOK
<1>1. IInv => TypeOK
  BY DEF IInv
<1> QED  BY InitIsInductive, StepKeeps, <1>1, PTL DEF Spec

\* confirm: however many requests confirm a card, its work is done at most once.
THEOREM CardsWorkOnce == Spec => []ConfirmedOnce
<1>1. IInv => ConfirmedOnce
  BY DEF IInv, Confirming
<1> QED  BY InitIsInductive, StepKeeps, <1>1, PTL DEF Spec

\* createPendingAction: one offer is live, unless two turns made one at once.
THEOREM OffersAreSingle == Spec => []OneLiveOffer
<1>1. IInv => OneLiveOffer
  BY DEF IInv, Offers, Live, OneLiveOffer
<1> QED  BY InitIsInductive, StepKeeps, <1>1, PTL DEF Spec

\* reserveAiCall, reconcileAiCall and releaseAiReservation, whatever overlaps,
\* lapses or dies between them: what is spent and promised stays in the allowance,
\* but for what was recorded between the two readings of the last reservation
\* granted, which the advisory lock does not hold back.
THEOREM AllowanceIsKept == Spec => []WithinAllowance
<1>1. IInv => WithinAllowance
  BY DEF IInv, Metering, Ledger
<1> QED  BY InitIsInductive, StepKeeps, <1>1, PTL DEF Spec

\* confirm and reply: what was booked is not forgotten by a reply written from
\* an older copy of the session.
THEOREM BookingsAreRemembered == Spec => []BookedIsRemembered
<1>1. IInv => BookedIsRemembered
  BY DEF IInv, Remembering, BookedIsRemembered
<1> QED  BY InitIsInductive, StepKeeps, <1>1, PTL DEF Spec

(***************************************************************************)
(* What the provider has charged.                                          *)
(*                                                                         *)
(* While nothing has gone wrong, every call in flight has a reservation of *)
(* its own that still stands: recording it closes that row and no other,   *)
(* and always records.  The charges not recorded yet are the tokens of     *)
(* the calls at "reconcile", a set that a step changes at one request.     *)
(***************************************************************************)
InCall(c) == request[c].at \in {"call", "reconcile"}
OwedCost(c) == IF request[c].at = "reconcile" THEN request[c].cost ELSE 0

Recording ==
    ~troubled =>
        /\ \A c \in Clients : InCall(c) => reservation[request[c].res] \in Standing
        /\ \A c, d \in Clients :
              InCall(c) /\ InCall(d) /\ request[c].res = request[d].res => c = d
        /\ SpendIsRecorded

LEMMA TokensSize ==
    ASSUME NEW x, NEW k \in Nat
    PROVE  IsFiniteSet({x} \X (1 .. k)) /\ Cardinality({x} \X (1 .. k)) = k
<1> DEFINE S == {x}
           T == 1 .. k
<1>1. IsFiniteSet(S) /\ Cardinality(S) = 1
  BY FS_Singleton
<1>2. IsFiniteSet(T) /\ Cardinality(T) = k
  BY FS_Interval
<1> HIDE DEF S, T
<1>3. IsFiniteSet(S \X T) /\ Cardinality(S \X T) = Cardinality(S) * Cardinality(T)
  BY <1>1, <1>2, FS_Product
<1>4. Cardinality(S \X T) = k
  BY <1>1, <1>2, <1>3
<1> QED  BY <1>3, <1>4 DEF S, T

\* A call never costs more than the estimate.
LEMMA CostFits ==
    ASSUME TypeOK, NEW c \in Clients
    PROVE  request[c].cost \in 0 .. Estimate /\ request[c].cost \in Nat
<1>1. request[c] \in Request
  BY DEF TypeOK
<1>2. request[c].cost \in Costs \cup {0}
  BY <1>1 DEF Request
<1>3. Estimate \in Nat /\ \A x \in Costs : x \in 0 .. Estimate
  BY UsageAssumption
<1> QED  BY <1>2, <1>3

LEMMA OwedSize ==
    ASSUME TypeOK, NEW c \in Clients
    PROVE  /\ IsFiniteSet(Owed(c)) /\ Cardinality(Owed(c)) = OwedCost(c) /\ OwedCost(c) \in Nat
           /\ \A t \in Owed(c) : t[1] = c
<1>1. CASE request[c].at = "reconcile"
  BY <1>1, CostFits, TokensSize DEF Owed, OwedCost
<1>2. CASE request[c].at # "reconcile"
  BY <1>2, FS_EmptySet DEF Owed, OwedCost
<1> QED  BY <1>1, <1>2

\* What one request owes, beside what the others do.
OthersOwe(c) == UNION {Owed(d) : d \in Clients \ {c}}

Beside ==
    \A c \in Clients :
        /\ OwedCost(c) \in Nat
        /\ Cardinality(OthersOwe(c)) \in Nat
        /\ Cardinality(Unrecorded) = Cardinality(OthersOwe(c)) + OwedCost(c)

LEMMA OwedBeside == TypeOK => Beside
<1> SUFFICES ASSUME TypeOK, NEW c \in Clients
             PROVE  /\ OwedCost(c) \in Nat
                    /\ Cardinality(OthersOwe(c)) \in Nat
                    /\ Cardinality(Unrecorded) = Cardinality(OthersOwe(c)) + OwedCost(c)
  BY DEF Beside
<1> DEFINE T == 1 .. Estimate
<1>1. IsFiniteSet(Clients \X T)
  <2>1. IsFiniteSet(T)
    BY FS_Interval, UsageAssumption
  <2> HIDE DEF T
  <2> QED  BY <2>1, FS_Product, AssistantAssumption
<1>2. \A d \in Clients : Owed(d) \subseteq Clients \X T
  <2> TAKE d \in Clients
  <2>1. (1 .. request[d].cost) \subseteq T
    BY CostFits, UsageAssumption
  <2> QED  BY <2>1 DEF Owed
<1>3. OthersOwe(c) \in SUBSET (Clients \X T)
  BY <1>2 DEF OthersOwe
<1>4. IsFiniteSet(OthersOwe(c)) /\ Cardinality(OthersOwe(c)) \in Nat
  BY <1>1, <1>3, FS_Subset, FS_CardinalityType
<1>5. \A d \in Clients : \A t \in Owed(d) : t[1] = d
  BY OwedSize
<1>6. OthersOwe(c) \cap Owed(c) = {}
  BY <1>5 DEF OthersOwe
<1>7. Unrecorded = OthersOwe(c) \cup Owed(c)
  BY DEF Unrecorded, OthersOwe
<1>8. /\ IsFiniteSet(Owed(c)) /\ Cardinality(Owed(c)) = OwedCost(c) /\ OwedCost(c) \in Nat
  BY OwedSize
<1>9. Cardinality(OthersOwe(c) \cup Owed(c)) =
        Cardinality(OthersOwe(c)) + Cardinality(Owed(c)) - Cardinality(OthersOwe(c) \cap Owed(c))
  BY <1>4, <1>8, FS_Union
<1>10. Cardinality(OthersOwe(c) \cap Owed(c)) = 0
  BY <1>6, FS_EmptySet
<1> QED  BY <1>4, <1>7, <1>8, <1>9, <1>10

LEMMA OwedBesideNext == TypeOK' => Beside'
BY OwedBeside, PTL

\* A request moves: what it owes and what is recorded grow by what is charged.
LEMMA CallRecorded ==
    ASSUME TypeOK, TypeOK', Recording, NEW c \in Clients,
           \A d \in Clients : d # c => request'[d] = request[d],
           ~troubled' => /\ ~troubled
                         /\ charged' - charged = (spent' - spent) + (OwedCost(c)' - OwedCost(c)),
           \A d \in Clients : d # c /\ InCall(d) /\ ~troubled' =>
                                  reservation'[request[d].res] \in Standing,
           InCall(c)' /\ ~troubled' =>
               /\ reservation'[request'[c].res] \in Standing
               /\ \A d \in Clients : d # c /\ InCall(d) => request[d].res # request'[c].res
    PROVE  Recording'
<1> SUFFICES ASSUME ~troubled' PROVE Recording'
  BY DEF Recording
<1>1. /\ \A d \in Clients : InCall(d) => reservation[request[d].res] \in Standing
      /\ \A d, e \in Clients : InCall(d) /\ InCall(e) /\ request[d].res = request[e].res => d = e
      /\ charged = spent + Cardinality(Unrecorded)
  BY DEF Recording, SpendIsRecorded
<1>2. \A d \in Clients : d # c => (InCall(d)' <=> InCall(d))
  BY DEF InCall
<1>3. \A d \in Clients : InCall(d)' => reservation'[request'[d].res] \in Standing
  BY <1>2
<1>4. \A d, e \in Clients : InCall(d)' /\ InCall(e)' /\ request'[d].res = request'[e].res => d = e
  BY <1>1, <1>2
<1>5. OthersOwe(c)' = OthersOwe(c)
  BY DEF OthersOwe, Owed
<1>6. /\ Cardinality(OthersOwe(c)) \in Nat /\ OwedCost(c) \in Nat
      /\ Cardinality(Unrecorded) = Cardinality(OthersOwe(c)) + OwedCost(c)
  BY OwedBeside DEF Beside
<1>7. /\ OwedCost(c)' \in Nat
      /\ Cardinality(Unrecorded)' = Cardinality(OthersOwe(c)') + OwedCost(c)'
  BY OwedBesideNext DEF Beside
<1>8. charged' = spent' + Cardinality(Unrecorded)'
  BY <1>1, <1>5, <1>6, <1>7 DEF TypeOK
<1> QED  BY <1>3, <1>4, <1>8 DEF Recording, SpendIsRecorded

\* A step that leaves calls, reservations and charges alone.
LEMMA AsideRecorded ==
    ASSUME IInv, IInv', Recording, NEW c \in Clients,
           \A d \in Clients : d # c => request'[d] = request[d],
           ~InCall(c), ~InCall(c)',
           UNCHANGED <<reservation, spent, troubled, charged>>
    PROVE  Recording'
<1>1. OwedCost(c)' = OwedCost(c)
  BY DEF OwedCost, InCall
<1>2. charged' - charged = (spent' - spent) + (OwedCost(c)' - OwedCost(c))
  <2>1. OwedCost(c) \in Nat /\ charged \in Nat /\ spent \in Nat
    BY OwedBeside DEF Beside, IInv, TypeOK
  <2> QED  BY <1>1, <2>1
<1>3. ~troubled => \A d \in Clients : InCall(d) => reservation[request[d].res] \in Standing
  BY DEF Recording
<1> QED  BY <1>2, <1>3, CallRecorded DEF IInv

\* From the first trouble on nothing is said.
LEMMA TroubleRecorded ==
    ASSUME troubled' = TRUE PROVE Recording'
BY DEF Recording

LEMMA ReserveCallRecorded ==
    ASSUME IInv, IInv', Recording, NEW c \in Clients, ReserveCall(c)
    PROVE  Recording'
<1>1. PICK r \in Reservations \ Out :
         Reserve(r) /\ request' = [request EXCEPT ![c] = [@ EXCEPT !.at = "call", !.res = r]]
  BY DEF ReserveCall
<1>2. CASE troubled'
  BY <1>2 DEF Recording
<1>3. CASE ~troubled'
  <2>1. gate.lapsed \cap Out = {} /\ ~troubled /\ charged' = charged
    BY <1>3 DEF ReserveCall, Trouble
  <2>2. /\ request'[c].at = "call" /\ request'[c].res = r /\ request[c].at = "sum"
        /\ \A d \in Clients : d # c => request'[d] = request[d]
    BY <1>1 DEF ReserveCall, IInv, TypeOK, Request
  <2>3. \A d \in Clients : InCall(d) => request[d].res \in Out
    BY DEF InCall, Out, OutOn
  <2>4. /\ spent' = spent /\ reservation'[r] = "RESERVED"
        /\ \A q \in Reservations \ gate.lapsed : q # r => reservation'[q] = reservation[q]
    BY <1>1 DEF Reserve
  <2>5. \A d \in Clients : InCall(d) => reservation'[request[d].res] \in Standing
    <3> SUFFICES ASSUME NEW d \in Clients, InCall(d)
                 PROVE  reservation'[request[d].res] \in Standing
      OBVIOUS
    <3>1. request[d].res \in Reservations
      BY DEF InCall, IInv, Metering
    <3>2. reservation[request[d].res] \in Standing
      BY <2>1 DEF Recording
    <3>3. request[d].res \notin gate.lapsed /\ request[d].res # r
      BY <1>1, <2>1, <2>3
    <3> QED  BY <2>4, <3>1, <3>2, <3>3
  <2>6. OwedCost(c) = 0 /\ OwedCost(c)' = 0
    BY <2>2 DEF OwedCost
  <2>7. charged' - charged = (spent' - spent) + (OwedCost(c)' - OwedCost(c))
    BY <2>1, <2>4, <2>6 DEF IInv, TypeOK
  <2>8. \A d \in Clients : InCall(d) => request[d].res # r
    BY <1>1, <2>3
  <2> QED  BY <2>1, <2>2, <2>4, <2>5, <2>7, <2>8, CallRecorded DEF IInv, Standing
<1> QED  BY <1>2, <1>3

LEMMA InterpretRecorded ==
    ASSUME IInv, IInv', Recording, NEW c \in Clients, Interpret(c)
    PROVE  Recording'
<1>1. PICK cost \in Costs :
         /\ charged' = IF troubled THEN charged ELSE charged + cost
         /\ request' = [request EXCEPT ![c] = [@ EXCEPT !.at = "reconcile", !.cost = cost]]
  BY DEF Interpret
<1>2. /\ request[c].at = "call" /\ request'[c].at = "reconcile" /\ request'[c].cost = cost
      /\ request'[c].res = request[c].res
      /\ \A d \in Clients : d # c => request'[d] = request[d]
      /\ UNCHANGED <<reservation, spent, troubled>>
  BY <1>1 DEF Interpret, IInv, TypeOK, Request, usageVars
<1>3. OwedCost(c) = 0 /\ OwedCost(c)' = cost /\ cost \in Nat
  BY <1>2, UsageAssumption DEF OwedCost
<1>4. ~troubled => charged' - charged = (spent' - spent) + (OwedCost(c)' - OwedCost(c))
  BY <1>1, <1>2, <1>3 DEF IInv, TypeOK
<1>5. ~troubled =>
        /\ \A d \in Clients : InCall(d) => reservation[request[d].res] \in Standing
        /\ \A d, e \in Clients : InCall(d) /\ InCall(e) /\ request[d].res = request[e].res => d = e
  BY DEF Recording
<1>6. InCall(c)
  BY <1>2 DEF InCall
<1> QED  BY <1>2, <1>4, <1>5, <1>6, CallRecorded DEF IInv

\* Closing the row of one call closes nobody else's.
LEMMA OthersStand ==
    ASSUME IInv, Recording, NEW c \in Clients, InCall(c), ~troubled,
           reservation' = [reservation EXCEPT ![request[c].res] = "CLOSED"]
    PROVE  \A d \in Clients : d # c /\ InCall(d) => reservation'[request[d].res] \in Standing
<1> SUFFICES ASSUME NEW d \in Clients, d # c, InCall(d)
             PROVE  reservation'[request[d].res] \in Standing
  OBVIOUS
<1>1. request[d].res \in Reservations /\ reservation \in [Reservations -> ReservationStatuses]
  BY DEF IInv, TypeOK, Metering, InCall
<1>2. reservation[request[d].res] \in Standing /\ request[d].res # request[c].res
  BY DEF Recording
<1> QED  BY <1>1, <1>2

LEMMA InterpretFailsRecorded ==
    ASSUME IInv, IInv', Recording, NEW c \in Clients, InterpretFails(c)
    PROVE  Recording'
<1>1. /\ request[c].at = "call" /\ request'[c].at = "idle"
      /\ \A d \in Clients : d # c => request'[d] = request[d]
      /\ reservation' = [reservation EXCEPT ![request[c].res] = "CLOSED"]
      /\ UNCHANGED <<spent, troubled, charged>>
  BY DEF InterpretFails, Release, Ends, Idle, IInv, TypeOK, ghosts
<1>2. OwedCost(c) = 0 /\ OwedCost(c)' = 0 /\ InCall(c) /\ ~InCall(c)'
  BY <1>1 DEF OwedCost, InCall
<1>3. charged' - charged = (spent' - spent) + (OwedCost(c)' - OwedCost(c))
  BY <1>1, <1>2 DEF IInv, TypeOK
<1> QED  BY <1>1, <1>2, <1>3, OthersStand, CallRecorded DEF IInv

LEMMA ReconcileCallRecorded ==
    ASSUME IInv, IInv', Recording, NEW c \in Clients, ReconcileCall(c)
    PROVE  Recording'
<1>1. /\ request[c].at = "reconcile" /\ request'[c].at = "run"
      /\ \A d \in Clients : d # c => request'[d] = request[d]
      /\ Reconcile(request[c].res, request[c].cost)
      /\ UNCHANGED <<troubled, charged>>
  BY DEF ReconcileCall, IInv, TypeOK, ghosts
<1>2. OwedCost(c) = request[c].cost /\ OwedCost(c)' = 0 /\ InCall(c) /\ ~InCall(c)'
  BY <1>1 DEF OwedCost, InCall
<1>3. request[c].cost \in Nat /\ charged \in Nat /\ spent \in Nat
  BY CostFits DEF IInv, TypeOK
<1>4. CASE troubled'
  BY <1>4 DEF Recording
<1>5. CASE ~troubled'
  <2>1. reservation[request[c].res] \in Standing
    BY <1>1, <1>2, <1>5 DEF Recording
  <2>2. /\ reservation' = [reservation EXCEPT ![request[c].res] = "CLOSED"]
        /\ spent' = spent + request[c].cost
    BY <1>1, <2>1 DEF Reconcile
  <2>3. charged' - charged = (spent' - spent) + (OwedCost(c)' - OwedCost(c))
    BY <1>1, <1>2, <1>3, <2>2
  <2> QED  BY <1>1, <1>2, <1>5, <2>2, <2>3, OthersStand, CallRecorded DEF IInv
<1> QED  BY <1>4, <1>5

\* The other steps of a request neither make a call nor finish one.
LEMMA TurnRecorded ==
    ASSUME IInv, IInv', Recording, NEW c \in Clients, Turn(c)
    PROVE  Recording'
<1> DEFINE Quiet == /\ \A d \in Clients : d # c => request'[d] = request[d]
                    /\ ~InCall(c) /\ ~InCall(c)'
                    /\ UNCHANGED <<reservation, spent, troubled, charged>>
<1>1. CASE ReserveCall(c) \/ Interpret(c) \/ InterpretFails(c) \/ ReconcileCall(c)
  BY <1>1, ReserveCallRecorded, InterpretRecorded, InterpretFailsRecorded, ReconcileCallRecorded
<1>2. CASE ReconcileFails(c) \/ AnswerUnusable(c)
  BY <1>2, TroubleRecorded DEF ReconcileFails, AnswerUnusable, Trouble
<1>3. ASSUME BeginTurn(c) PROVE Quiet
  BY <1>3 DEF BeginTurn, InCall, Opened, Idle, IInv, TypeOK, usageVars, ghosts
<1>4. ASSUME BeginTurnLate(c) PROVE Quiet
  BY <1>4 DEF BeginTurnLate, InCall, Opened, Idle, IInv, TypeOK, usageVars, ghosts
<1>5. ASSUME QuotaExceeded(c) \/ ToolFails(c) PROVE Quiet
  BY <1>5 DEF QuotaExceeded, OverQuota, RollBack, ToolFails, Ends, InCall, Idle, IInv, TypeOK, usageVars, ghosts
<1>6. ASSUME LockQuota(c) \/ Unclear(c) \/ Prepare(c) \/ Withdraw(c) PROVE Quiet
  BY <1>6 DEF LockQuota, LockAndRead, Unclear, Prepare, Withdraw, Goes, InCall, IInv, TypeOK, Request, usageVars, ghosts
<1>7. ASSUME Answer(c) PROVE Quiet
  BY <1>7 DEF Answer, InCall, IInv, TypeOK, Request, usageVars, ghosts
<1>8. ASSUME Offer(c) PROVE Quiet
  BY <1>8 DEF Offer, InCall, IInv, TypeOK, Request, usageVars, ghosts
<1>9. ASSUME Reply(c) PROVE Quiet
  BY <1>9 DEF Reply, Ends, InCall, Idle, IInv, TypeOK, usageVars, ghosts
<1>10. Quiet => Recording'
  BY AsideRecorded
<1> HIDE DEF Quiet
<1> QED  BY <1>1, <1>2, <1>3, <1>4, <1>5, <1>6, <1>7, <1>8, <1>9, <1>10 DEF Turn

LEMMA ConfirmationRecorded ==
    ASSUME IInv, IInv', Recording, NEW c \in Clients, Confirmation(c)
    PROVE  Recording'
<1> DEFINE Quiet == /\ \A d \in Clients : d # c => request'[d] = request[d]
                    /\ ~InCall(c) /\ ~InCall(c)'
                    /\ UNCHANGED <<reservation, spent, troubled, charged>>
<1>1. ASSUME NEW a \in Actions, BeginConfirm(c, a) PROVE Quiet
  <2>1. /\ request[c].at = "idle"
        /\ UNCHANGED <<reservation, spent, troubled, charged>>
    BY <1>1 DEF BeginConfirm, usageVars, ghosts
  <2>2. CASE action[a] = "PENDING"
    BY <1>1, <2>1, <2>2 DEF BeginConfirm, InCall, Opened, Idle, IInv, TypeOK
  <2>3. CASE action[a] # "PENDING"
    BY <1>1, <2>1, <2>3 DEF BeginConfirm, InCall, Opened, Idle, IInv, TypeOK
  <2> QED  BY <2>2, <2>3
<1>2. ASSUME NEW a \in Actions, Cancel(c, a) PROVE Quiet
  BY <1>2 DEF Cancel, InCall, Opened, Idle, IInv, TypeOK, usageVars, ghosts
<1>3. ASSUME Burn(c) PROVE Quiet
  BY <1>3 DEF Burn, Goes, InCall, IInv, TypeOK, Request, usageVars, ghosts
<1>4. ASSUME Work(c) PROVE Quiet
  BY <1>4 DEF Work, Goes, InCall, IInv, TypeOK, Request, usageVars, ghosts
<1>5. ASSUME WorkRefused(c) PROVE Quiet
  BY <1>5 DEF WorkRefused, InCall, IInv, TypeOK, Request, usageVars, ghosts
<1>6. ASSUME WorkFails(c) \/ Complete(c) PROVE Quiet
  BY <1>6 DEF WorkFails, Complete, Ends, InCall, Idle, IInv, TypeOK, usageVars, ghosts
<1>7. Quiet => Recording'
  BY AsideRecorded
<1> HIDE DEF Quiet
<1> QED  BY <1>1, <1>2, <1>3, <1>4, <1>5, <1>6, <1>7 DEF Confirmation

\* Time closes no reservation, and moves no request.
LEMMA StillRecorded ==
    ASSUME IInv, Recording, UNCHANGED <<request, spent, troubled, charged>>,
           \A r \in Reservations : reservation[r] \in Standing => reservation'[r] \in Standing
    PROVE  Recording'
<1>1. \A c \in Clients : InCall(c)' <=> InCall(c)
  BY DEF InCall
<1>2. \A c \in Clients : InCall(c) => request[c].res \in Reservations
  BY DEF IInv, Metering, InCall
<1>3. Unrecorded' = Unrecorded
  BY DEF Unrecorded, Owed
<1> QED  BY <1>1, <1>2, <1>3 DEF Recording, SpendIsRecorded

LEMMA SurroundingsRecorded ==
    ASSUME IInv, Recording, Surroundings
    PROVE  Recording'
<1>1. CASE Start \/ AgeSession \/ SweepSessions \/ SweepActions
  BY <1>1, StillRecorded
     DEF Start, AgeSession, SweepSessions, SweepActions, usageVars, ghosts
<1>2. ASSUME NEW a \in Actions, AgeAction(a) PROVE Recording'
  BY <1>2, StillRecorded DEF AgeAction, usageVars, ghosts
<1>3. ASSUME NEW r \in Reservations, AgeCall(r) PROVE Recording'
  <2>1. \A q \in Reservations : reservation[q] \in Standing => reservation'[q] \in Standing
    BY <1>3 DEF AgeCall, AgeReservation, Standing, IInv, TypeOK
  <2> QED  BY <1>3, <2>1, StillRecorded DEF AgeCall, AgeReservation, ghosts
<1> QED  BY <1>1, <1>2, <1>3 DEF Surroundings

LEMMA RecordingStarts == Init => Recording
<1> SUFFICES ASSUME Init PROVE Recording
  OBVIOUS
<1>1. \A c \in Clients : request[c].at = "idle"
  BY DEF Init, Idle
<1>2. Unrecorded = {}
  BY <1>1 DEF Unrecorded, Owed
<1> QED  BY <1>1, <1>2, FS_EmptySet DEF Init, UsageInit, Recording, InCall, SpendIsRecorded

LEMMA RecordingGoesOn == IInv /\ Recording /\ [Next]_vars => Recording'
<1> SUFFICES ASSUME IInv, Recording, [Next]_vars PROVE Recording'
  OBVIOUS
<1>1. IInv'
  BY StepKeeps
<1>2. ASSUME NEW c \in Clients, Turn(c) \/ Confirmation(c) PROVE Recording'
  BY <1>1, <1>2, TurnRecorded, ConfirmationRecorded
<1>3. ASSUME NEW c \in Clients, Die(c) PROVE Recording'
  BY <1>3, TroubleRecorded DEF Die, Trouble
<1>4. CASE Surroundings
  BY <1>4, SurroundingsRecorded
<1>5. CASE UNCHANGED vars
  BY <1>5, StillRecorded DEF vars
<1> QED  BY <1>2, <1>3, <1>4, <1>5 DEF Next

\* reserveAiCall, the provider's call and reconcileAiCall: until a process dies,
\* an answer cannot be used, a record fails or a call outlives its reservation,
\* every token the provider charged is recorded, or is held by a request that is about to record it.
THEOREM SpendingIsRecorded == Spec => []SpendIsRecorded
<1>1. Recording => SpendIsRecorded
  BY DEF Recording, SpendIsRecorded
<1> QED  BY InitIsInductive, StepKeeps, RecordingStarts, RecordingGoesOn, <1>1, PTL DEF Spec
=============================================================================
