---------------------------- MODULE BookingProofs ----------------------------
(***************************************************************************)
(* Proofs about Booking for any number of clients, holds and bookings, any *)
(* catalogue and any clock: type correctness, the inductive invariant that *)
(* ties the three tables together, what calm behaviours add to it, the     *)
(* story the messages tell, and that the tables implement Diary.  Last,    *)
(* Idempotency, which every booking route is wrapped in.                   *)
(***************************************************************************)
EXTENDS Booking, Idempotency, TLAPS

(***************************************************************************)
(* The operators the transactions are made of, and their types.            *)
(***************************************************************************)
ReservationTable == [Keys -> ReservationRow \cup {NoRow}]
HoldTable == [Holds -> HoldRow \cup {NoRow, DeletedRow}]
Requests == {Idle} \cup ClaimRequest \cup ConfirmRequest
                \cup ReleaseRequest \cup MoveRequest \cup EditRequest

\* An occupied span has integer ends.
LEMMA OccupiedType ==
    ASSUME NEW s \in Services, NEW start \in Starts
    PROVE  Occupied(s, start) \in [from: Int, until: Int]
BY CatalogueAssumption DEF Occupied

\* A released row is still a row.
LEMMA ReleasedType ==
    ASSUME NEW row \in ReservationRow
    PROVE  /\ Released(row) \in ReservationRow
           /\ Released(row).status = "RELEASED"
           /\ Released(row).booking = row.booking
           /\ Released(row).expiresAt = row.expiresAt
BY DEF Released, ReservationRow

\* An active row is not an empty one.
LEMMA ActiveRow ==
    ASSUME NEW row \in ReservationRow \cup {NoRow}, row.status = "ACTIVE"
    PROVE  row \in ReservationRow
BY DEF NoRow

\* The same of a hold, which also stays a hold whatever status it is given.
LEMMA ActiveHold ==
    ASSUME NEW row \in HoldRow \cup {NoRow, DeletedRow}, row.status \in HoldStatuses
    PROVE  row \in HoldRow
BY DEF NoRow, DeletedRow, HoldStatuses

LEMMA HoldStatusType ==
    ASSUME NEW row \in HoldRow, NEW status \in HoldStatuses
    PROVE  [row EXCEPT !.status = status] \in HoldRow
BY DEF HoldRow

\* The sweep keeps both tables well formed.
LEMMA SweepType ==
    ASSUME TypeOK, NEW t
    PROVE  /\ SweptReservations(t) \in ReservationTable
           /\ SweptHolds(t) \in HoldTable
<1>1. \A k \in Keys : Lapsed(reservation[k], t) => Released(reservation[k]) \in ReservationRow
  BY ActiveRow, ReleasedType DEF TypeOK, Lapsed
<1>2. \A h \in Holds : Lapsed(hold[h], t) => [hold[h] EXCEPT !.status = "EXPIRED"] \in HoldRow
  <2> SUFFICES ASSUME NEW h \in Holds, Lapsed(hold[h], t)
               PROVE  [hold[h] EXCEPT !.status = "EXPIRED"] \in HoldRow
    OBVIOUS
  <2>1. hold[h].status \in HoldStatuses /\ "EXPIRED" \in HoldStatuses
    BY DEF Lapsed, HoldStatuses
  <2>2. hold[h] \in HoldRow
    BY <2>1, ActiveHold DEF TypeOK
  <2>3. QED
    BY <2>1, <2>2, HoldStatusType
<1>3. SweptReservations(t) \in ReservationTable
  BY <1>1 DEF TypeOK, SweptReservations, ReservationTable
<1>4. SweptHolds(t) \in HoldTable
  BY <1>2 DEF TypeOK, SweptHolds, HoldTable
<1>5. QED
  BY <1>3, <1>4

\* So do releasing and moving a booking's reservation.
LEMMA ReleasedReservationsType ==
    ASSUME TypeOK, NEW b \in Bookings
    PROVE  ReleasedReservations(b) \in ReservationTable
<1>1. \A k \in Keys : OwnedBy(reservation[k], b) => Released(reservation[k]) \in ReservationRow
  BY ActiveRow, ReleasedType DEF TypeOK, OwnedBy
<1>2. QED
  BY <1>1 DEF TypeOK, ReleasedReservations, ReservationTable

LEMMA MovedRowType ==
    ASSUME NEW row \in ReservationRow, NEW span \in [from: Int, until: Int]
    PROVE  /\ Respanned(row, span) \in ReservationRow
           /\ Respanned(row, span).status = row.status
           /\ Respanned(row, span).booking = row.booking
           /\ Respanned(row, span).expiresAt = row.expiresAt
           /\ Respanned(row, span).from = span.from
           /\ Respanned(row, span).until = span.until
BY DEF Respanned, ReservationRow

LEMMA MovedReservationsType ==
    ASSUME NEW rows \in ReservationTable, NEW b, NEW span \in [from: Int, until: Int]
    PROVE  MovedReservations(rows, b, span) \in ReservationTable
<1>1. \A k \in Keys : OwnedBy(rows[k], b) =>
          Respanned(rows[k], span) \in ReservationRow
  BY ActiveRow, MovedRowType DEF OwnedBy, ReservationTable
<1>2. QED
  BY <1>1 DEF MovedReservations, ReservationTable

\* Writing a message keeps the outbox well formed.
LEMMA AnnounceType ==
    ASSUME TypeOK, NEW b \in Bookings, NEW type \in EventTypes,
           NEW previous \in Starts \cup {None}, Announce(b, type, previous)
    PROVE  outbox' \in [Bookings -> Seq(Event)]
<1>1. [type |-> type, previousStart |-> previous] \in Event
  BY DEF Event
<1>2. Append(outbox[b], [type |-> type, previousStart |-> previous]) \in Seq(Event)
  BY <1>1 DEF TypeOK
<1>3. QED
  BY <1>2 DEF TypeOK, Announce
(***************************************************************************)
(* Type correctness.                                                       *)
(***************************************************************************)
\* A request that starts is one of the requests the handlers make.
LEMMA StartType ==
    ASSUME TypeOK, NEW c \in Clients, NEW r \in Requests, Start(c, r)
    PROVE  TypeOK'
BY DEF TypeOK, Start, Requests, tables

LEMMA FinishType ==
    ASSUME TypeOK, NEW c \in Clients, Finish(c)
    PROVE  now' \in Nat /\ request' \in [Clients -> Requests] /\ sweeping' \subseteq Holds
BY DEF TypeOK, Finish, Requests

\* A request in flight has the fields its operation needs.
LEMMA RequestType ==
    ASSUME TypeOK, NEW c \in Clients
    PROVE  /\ request[c].op \in {"createHold", "createBooking"} => request[c] \in ClaimRequest
           /\ request[c].op = "confirm" => request[c] \in ConfirmRequest
           /\ request[c].op = "releaseHold" => request[c] \in ReleaseRequest
           /\ request[c].op = "reschedule" => request[c] \in MoveRequest
           /\ request[c].op \in {"cancel", "update"} => request[c] \in EditRequest
BY DEF TypeOK, Idle, ClaimRequest, ConfirmRequest, ReleaseRequest, MoveRequest, EditRequest

\* What the handlers read is what their requests may carry.
LEMMA BeginType ==
    ASSUME TypeOK, NEW c \in Clients, Begin(c)
    PROVE  TypeOK'
<1>1. CASE \E s \in Services, start \in Starts :
              BeginHold(c, s, start) \/ BeginDirectBooking(c, s, start)
  BY <1>1, StartType
  DEF TypeOK, BeginHold, BeginDirectBooking, Requests, ClaimRequest
<1>2. CASE \E h \in Holds : BeginRelease(c, h) \/ BeginConfirm(c, h)
  BY <1>2, StartType
  DEF TypeOK, BeginRelease, BeginConfirm, Requests, ReleaseRequest, ConfirmRequest
<1>3. CASE \E b \in Bookings, start \in Starts : BeginReschedule(c, b, start)
  <2>1. PICK b \in Bookings, start \in Starts : BeginReschedule(c, b, start)
    BY <1>3
  <2>2. booking[b] \in BookingRow
    BY <2>1 DEF TypeOK, BeginReschedule
  <2>3. QED
    BY <2>1, <2>2, StartType DEF TypeOK, BeginReschedule, Requests, MoveRequest, BookingRow
<1>4. ASSUME NEW op \in {"cancel", "update"}, NEW b \in Bookings,
             NEW to \in BookingStatuses \cup {None}, booking[b] # NoRow,
             BeginEdit(c, op, b, to)
      PROVE  TypeOK'
  <2>1. booking[b] \in BookingRow
    BY <1>4 DEF TypeOK
  <2>2. QED
    BY <1>4, <2>1, StartType DEF BeginEdit, Requests, EditRequest, BookingRow
<1>5. CASE \E b \in Bookings : BeginCancellation(c, b)
  BY <1>4, <1>5 DEF BeginCancellation, BookingStatuses
<1>6. CASE \E b \in Bookings, to \in PatchStatuses : BeginUpdate(c, b, to)
  BY <1>4, <1>6 DEF BeginUpdate, PatchStatuses, BookingStatuses
<1>7. QED
  BY <1>1, <1>2, <1>3, <1>5, <1>6 DEF Begin
\* A new reservation and a new booking are well formed.
LEMMA NewRowTypes ==
    ASSUME NEW owner \in Bookings \cup {None}, NEW s \in Services, NEW start \in Starts,
           NEW expiry \in Nat \cup {None}, NEW h \in Holds \cup {None},
           NEW status \in BookingStatuses
    PROVE  /\ NewReservation(owner, Occupied(s, start), expiry) \in ReservationRow
           /\ NewBooking(status, s, start, h) \in BookingRow
BY OccupiedType DEF NewReservation, NewBooking, ReservationRow, BookingRow

LEMMA CommitHoldType ==
    ASSUME TypeOK, NEW c \in Clients, NEW h \in Holds, CommitHold(c, h)
    PROVE  TypeOK'
<1> DEFINE r == request[c]
           expiry == r.now + HoldTtl
<1>1. r \in ClaimRequest
  BY RequestType DEF CommitHold
<1>2. expiry \in Nat /\ r.service \in Services /\ r.start \in Starts
  BY <1>1, PolicyAssumption DEF ClaimRequest
<1>3. NewReservation(None, Occupied(r.service, r.start), expiry) \in ReservationRow
  <2>1. "PENDING" \in BookingStatuses /\ None \in Holds \cup {None}
    BY DEF BookingStatuses
  <2>2. QED
    BY <1>2, <2>1, NewRowTypes
<1>4. [status |-> "ACTIVE", service |-> r.service, start |-> r.start, expiresAt |-> expiry]
          \in HoldRow
  BY <1>2 DEF HoldRow, HoldStatuses
<1>5. reservation' \in ReservationTable
  BY <1>3, SweepType DEF CommitHold, ReservationTable
<1>6. hold' \in HoldTable
  BY <1>4, SweepType DEF CommitHold, HoldTable
<1>7. QED
  BY <1>5, <1>6, FinishType
  DEF TypeOK, CommitHold, ReservationTable, HoldTable, Requests

LEMMA CommitDirectBookingType ==
    ASSUME TypeOK, NEW c \in Clients, NEW b \in Bookings, CommitDirectBooking(c, b)
    PROVE  TypeOK'
<1> DEFINE r == request[c]
<1>1. r.service \in Services /\ r.start \in Starts
  BY RequestType DEF CommitDirectBooking, ClaimRequest
<1>2. /\ NewReservation(b, Occupied(r.service, r.start), None) \in ReservationRow
      /\ NewBooking("CONFIRMED", r.service, r.start, None) \in BookingRow
  BY <1>1, NewRowTypes DEF BookingStatuses
<1>3. reservation' \in ReservationTable /\ hold' \in HoldTable
  BY <1>2, SweepType DEF CommitDirectBooking, ReservationTable
<1>4. booking' \in [Bookings -> BookingRow \cup {NoRow}]
  BY <1>2 DEF TypeOK, CommitDirectBooking
<1>5. outbox' \in [Bookings -> Seq(Event)]
  BY AnnounceType DEF CommitDirectBooking, EventTypes
<1>6. QED
  BY <1>3, <1>4, <1>5, FinishType
  DEF TypeOK, CommitDirectBooking, ReservationTable, HoldTable, Requests

LEMMA CommitReleaseType ==
    ASSUME TypeOK, NEW c \in Clients, CommitRelease(c)
    PROVE  TypeOK'
<1> DEFINE h == request[c].hold
<1>1. h \in Holds
  BY RequestType DEF CommitRelease, ReleaseRequest
<1>2. CASE hold[h] \notin HoldRow
  BY <1>2, FinishType DEF TypeOK, CommitRelease, Requests
<1>3. CASE hold[h] \in HoldRow
  <2>1. hold' \in HoldTable
    BY <1>1, <1>3, HoldStatusType DEF TypeOK, CommitRelease, HoldTable, HoldStatuses
  <2>2. reservation' \in ReservationTable
    BY <1>1, <1>3, ActiveRow, ReleasedType DEF TypeOK, CommitRelease, ReservationTable
  <2>3. QED
    BY <2>1, <2>2, FinishType
    DEF TypeOK, CommitRelease, ReservationTable, HoldTable, Requests
<1>4. QED
  BY <1>2, <1>3
LEMMA CommitConfirmType ==
    ASSUME TypeOK, NEW c \in Clients, NEW b \in Bookings, CommitConfirm(c, b)
    PROVE  TypeOK'
<1> DEFINE h == request[c].hold
           status == InitialStatus(hold[h].service)
<1>1. h \in Holds /\ hold[h] \in HoldRow
  BY RequestType DEF CommitConfirm, ConfirmRequest
<1>2. status \in {"PENDING", "CONFIRMED"}
  BY DEF InitialStatus
<1>3. NewBooking(status, hold[h].service, hold[h].start, h) \in BookingRow
  BY <1>1, <1>2, NewRowTypes DEF HoldRow, BookingStatuses
<1>4. booking' \in [Bookings -> BookingRow \cup {NoRow}]
  BY <1>3 DEF TypeOK, CommitConfirm
<1>5. Adopted(reservation[h], b) \in ReservationRow
  <2>1. reservation[h] \in ReservationRow
    BY <1>1, ActiveRow DEF TypeOK, CommitConfirm, Keys
  <2>2. QED
    BY <2>1 DEF Adopted, ReservationRow
<1>6. reservation' \in ReservationTable
  BY <1>5 DEF TypeOK, CommitConfirm, ReservationTable
<1>7. hold' \in HoldTable
  BY <1>1, HoldStatusType DEF TypeOK, CommitConfirm, HoldTable, HoldStatuses
<1>8. outbox' \in [Bookings -> Seq(Event)]
  BY <1>2, AnnounceType DEF CommitConfirm, EventTypes
<1>9. QED
  BY <1>4, <1>6, <1>7, <1>8, FinishType
  DEF TypeOK, CommitConfirm, ReservationTable, HoldTable, Requests

\* A booking that was moved or given a status: its fields and its new version.
LEMMA RescheduledType ==
    ASSUME NEW row \in BookingRow, NEW start \in Starts
    PROVE  /\ Rescheduled(row, start) \in BookingRow
           /\ Rescheduled(row, start).version > row.version
           /\ Rescheduled(row, start).start = start
           /\ Rescheduled(row, start).status = row.status
           /\ Rescheduled(row, start).service = row.service
           /\ Rescheduled(row, start).hold = row.hold
<1>1. PICK version \in Nat : version = row.version + 1
  BY DEF BookingRow
<1>2. version > row.version
  BY <1>1 DEF BookingRow
<1>3. Rescheduled(row, start) = [row EXCEPT !.start = start, !.version = version]
  BY <1>1 DEF Rescheduled
<1>4. QED
  BY <1>2, <1>3 DEF BookingRow

LEMMA WithStatusType ==
    ASSUME NEW row \in BookingRow, NEW status \in BookingStatuses
    PROVE  /\ WithStatus(row, status) \in BookingRow
           /\ WithStatus(row, status).version > row.version
           /\ WithStatus(row, status).start = row.start
           /\ WithStatus(row, status).status = status
           /\ WithStatus(row, status).service = row.service
           /\ WithStatus(row, status).hold = row.hold
<1>1. PICK version \in Nat : version = row.version + 1
  BY DEF BookingRow
<1>2. version > row.version
  BY <1>1 DEF BookingRow
<1>3. WithStatus(row, status) = [row EXCEPT !.status = status, !.version = version]
  BY <1>1 DEF WithStatus
<1>4. QED
  BY <1>2, <1>3 DEF BookingRow

LEMMA CommitRescheduleType ==
    ASSUME TypeOK, NEW c \in Clients, CommitReschedule(c)
    PROVE  TypeOK'
<1> DEFINE r == request[c]
           b == r.booking
<1>1. r \in MoveRequest
  BY RequestType DEF CommitReschedule
<1>2. b \in Bookings /\ r.start \in Starts /\ r.previousStart \in Starts
  BY <1>1 DEF MoveRequest
<1>3. booking[b] \in BookingRow
  BY <1>2 DEF TypeOK, CommitReschedule, VersionMatches
<1>4. reservation' \in ReservationTable
  <2>1. Occupied(booking[b].service, r.start) \in [from: Int, until: Int]
    BY <1>2, <1>3, OccupiedType DEF BookingRow
  <2>2. QED
    BY <2>1, SweepType, MovedReservationsType DEF CommitReschedule
<1>5. hold' \in HoldTable
  BY SweepType DEF CommitReschedule
<1>6. booking' \in [Bookings -> BookingRow \cup {NoRow}]
  BY <1>2, <1>3, RescheduledType DEF TypeOK, CommitReschedule
<1>7. outbox' \in [Bookings -> Seq(Event)]
  BY <1>2, AnnounceType DEF CommitReschedule, EventTypes
<1>8. QED
  BY <1>4, <1>5, <1>6, <1>7, FinishType
  DEF TypeOK, CommitReschedule, ReservationTable, HoldTable, Requests

LEMMA CommitEditType ==
    ASSUME TypeOK, NEW c \in Clients, CommitCancellation(c) \/ CommitUpdate(c)
    PROVE  TypeOK'
<1> DEFINE r == request[c]
           b == r.booking
<1>1. r \in EditRequest
  BY RequestType DEF CommitCancellation, CommitUpdate
<1>2. b \in Bookings /\ r.to \in BookingStatuses \cup {None}
  BY <1>1 DEF EditRequest
<1>3. booking[b] \in BookingRow
  BY <1>2 DEF TypeOK, CommitCancellation, CommitUpdate, VersionMatches
<1>4. booking' \in [Bookings -> BookingRow \cup {NoRow}]
  <2>1. PICK status \in BookingStatuses :
            booking' = [booking EXCEPT ![b] = WithStatus(booking[b], status)]
    BY <1>2, <1>3 DEF CommitCancellation, CommitUpdate, BookingRow, BookingStatuses
  <2>2. QED
    BY <1>2, <1>3, <2>1, WithStatusType DEF TypeOK
<1>5. reservation' \in ReservationTable
  BY <1>2, ReleasedReservationsType
  DEF TypeOK, CommitCancellation, CommitUpdate, ReservationTable
<1>6. outbox' \in [Bookings -> Seq(Event)]
  BY <1>2, AnnounceType DEF TypeOK, CommitCancellation, CommitUpdate, EventTypes
<1>7. hold' = hold
  BY DEF CommitCancellation, CommitUpdate
<1>8. QED
  BY <1>4, <1>5, <1>6, <1>7, FinishType
  DEF TypeOK, CommitCancellation, CommitUpdate, ReservationTable, Requests

LEMMA WorkerType ==
    ASSUME TypeOK, Worker
    PROVE  TypeOK'
<1>1. CASE \E h \in Holds : SweepHold(h)
  <2>1. PICK h \in Holds : SweepHold(h)
    BY <1>1
  <2>2. hold[h] \in HoldRow
    BY <2>1, ActiveHold DEF TypeOK, SweepHold, HoldStatuses
  <2>3. [hold[h] EXCEPT !.status = "RELEASED"] \in HoldRow
    BY <2>2, HoldStatusType DEF HoldStatuses
  <2>4. QED
    BY <2>1, <2>3 DEF TypeOK, SweepHold
<1>2. CASE \E h \in Holds : SweepReservation(h)
  BY <1>2, ActiveRow, ReleasedType DEF TypeOK, SweepReservation, Keys
<1>3. CASE \E h \in Holds : SweeperCrash(h)
  BY <1>3 DEF TypeOK, SweeperCrash, tables
<1>4. CASE RetentionBatch
  <2>1. \A b \in Bookings : booking[b] # NoRow =>
            [booking[b] EXCEPT !.hold = None] \in BookingRow
    BY DEF TypeOK, BookingRow
  <2>2. booking' \in [Bookings -> BookingRow \cup {NoRow}]
    BY <1>4, <2>1 DEF TypeOK, RetentionBatch
  <2>3. QED
    BY <1>4, <2>2 DEF TypeOK, RetentionBatch
<1>5. QED
  BY <1>1, <1>2, <1>3, <1>4 DEF Worker

LEMMA TypeStep ==
    ASSUME TypeOK, [Next]_vars
    PROVE  TypeOK'
<1>1. ASSUME NEW c \in Clients, Commit(c)
      PROVE  TypeOK'
  BY <1>1, CommitHoldType, CommitDirectBookingType, CommitReleaseType, CommitConfirmType,
     CommitRescheduleType, CommitEditType DEF Commit
<1>2. ASSUME NEW c \in Clients, Abandon(c)
      PROVE  TypeOK'
  BY <1>2, FinishType DEF TypeOK, Abandon, tables, Requests
<1>3. CASE Tick
  BY <1>3 DEF TypeOK, Tick, tables
<1>4. CASE UNCHANGED vars
  BY <1>4 DEF TypeOK, vars
<1>5. QED
  BY <1>1, <1>2, <1>3, <1>4, BeginType, WorkerType DEF Next

\* Every row and every request always has the shape its table gives it.
THEOREM TypeCorrect == Spec => []TypeOK
<1>1. Init => TypeOK
  BY DEF Init, TypeOK
<1>2. TypeOK /\ [Next]_vars => TypeOK'
  BY TypeStep
<1>3. QED
  BY <1>1, <1>2, PTL DEF Spec
(***************************************************************************)
(* The inductive invariant.  The properties speak of one table at a time;  *)
(* what makes them last is how the rows of the three tables, and the       *)
(* copies the requests in flight still carry, refer to each other.         *)
(***************************************************************************)
\* A reservation outlives neither of the rows it can have been made with.
ReservationsHaveOrigins ==
    /\ \A h \in Holds : reservation[h] # NoRow => hold[h] # NoRow
    /\ \A b \in Bookings : reservation[b] # NoRow => booking[b] # NoRow

\* An active reservation no booking owns is its hold's: same span, same expiry.
UnbookedReservationIsAHolds ==
    \A k \in Keys :
        reservation[k].status = "ACTIVE" /\ reservation[k].booking = None =>
            k \in Holds /\ hold[k] \in HoldRow /\ Backed(k)

\* A reservation that names a booking names one that exists, and never expires.
BookedReservationStays ==
    \A k \in Keys :
        reservation[k] # NoRow /\ reservation[k].booking # None =>
            /\ booking[reservation[k].booking] \in BookingRow
            /\ reservation[k].expiresAt = None

OneReservationPerBooking ==
    \A j, k \in Keys :
        /\ reservation[j] # NoRow /\ reservation[k] # NoRow
        /\ reservation[j].booking # None
        /\ reservation[j].booking = reservation[k].booking
        => j = k

\* A hold still ACTIVE has not been adopted.
ActiveHoldIsUnadopted ==
    \A h \in Holds :
        hold[h].status = "ACTIVE" =>
            /\ reservation[h] \in ReservationRow
            /\ reservation[h].booking = None
            /\ reservation[h].expiresAt = hold[h].expiresAt

\* A booking that remembers its hold owns that hold's reservation.
BookingOwnsItsHoldsReservation ==
    \A b \in Bookings :
        booking[b] \in BookingRow /\ booking[b].hold # None =>
            /\ hold[booking[b].hold] \in HoldRow
            /\ reservation[booking[b].hold] \in ReservationRow
            /\ reservation[booking[b].hold].booking = b

HoldsExpireSoon ==
    \A h \in Holds : hold[h] \in HoldRow => hold[h].expiresAt <= now + HoldTtl

\* A hold the sweeper is between its two statements with is not ACTIVE again.
SweptHoldsAreReleased ==
    \A h \in sweeping : hold[h].status \in {"RELEASED", "deleted"}

\* A request carries a clock that is past, and a copy of its booking that is
\* true as long as the version it read is the current one.
CopyIsTrue(r, row) ==
    /\ row \in BookingRow
    /\ r.version <= row.version
    /\ r.version = row.version =>
          CASE r.op = "reschedule" -> r.previousStart = row.start /\ ~Terminal(row.status)
            [] r.op = "cancel"     -> ~Terminal(row.status)
            [] r.op = "update"     -> /\ r.seen = row.status
                                      /\ r.to # None => r.to \in LegalTransitions(row.status)

RequestsAreTrue ==
    \A c \in Clients :
        /\ request[c].op \in {"createHold", "createBooking", "confirm", "reschedule"}
              => request[c].now <= now
        /\ request[c].op \in {"reschedule", "cancel", "update"}
              => CopyIsTrue(request[c], booking[request[c].booking])

Inv ==
    /\ TypeOK
    /\ ReservationsDisjoint(reservation)
    /\ ReservationsHaveOrigins
    /\ UnbookedReservationIsAHolds
    /\ BookedReservationStays
    /\ OneReservationPerBooking
    /\ ReservationFollowsBooking
    /\ ActiveHoldIsUnadopted
    /\ BookingOwnsItsHoldsReservation
    /\ UsableHoldIsBacked
    /\ HoldsExpireSoon
    /\ SweptHoldsAreReleased
    /\ RequestsAreTrue

(***************************************************************************)
(* What sweeping, releasing and moving do to a single row.                 *)
(***************************************************************************)
\* new is the reservation old, released or not; a hold likewise, ended or not.
Weakened(old, new) ==
    /\ new = NoRow <=> old = NoRow
    /\ new.status = "ACTIVE" => new = old
    /\ old # NoRow => new.booking = old.booking /\ new.expiresAt = old.expiresAt

HoldWeakened(old, new) ==
    /\ new = NoRow <=> old = NoRow
    /\ new \in HoldRow <=> old \in HoldRow
    /\ old \in HoldRow => /\ new.service = old.service /\ new.start = old.start
                          /\ new.expiresAt = old.expiresAt
    /\ new.status = "ACTIVE" => new = old
    /\ old.status \in {"RELEASED", "deleted"} => new.status = old.status

LEMMA ReleasedIsWeakened ==
    ASSUME NEW row \in ReservationRow
    PROVE  Weakened(row, Released(row)) /\ Weakened(row, row)
<1>1. row # NoRow /\ Released(row) # NoRow
  <2>1. \A r \in ReservationRow : r.status \in {"ACTIVE", "RELEASED"}
    BY DEF ReservationRow
  <2>2. QED
    BY <2>1, ReleasedType DEF NoRow
<1>2. QED
  BY <1>1, ReleasedType DEF Weakened

LEMMA SameIsWeakened ==
    ASSUME NEW row
    PROVE  Weakened(row, row) /\ HoldWeakened(row, row)
BY DEF Weakened, HoldWeakened

LEMMA EndedIsWeakened ==
    ASSUME NEW row \in HoldRow, NEW status \in {"RELEASED", "EXPIRED"},
           row.status # "RELEASED" \/ status = "RELEASED"
    PROVE  HoldWeakened(row, [row EXCEPT !.status = status])
<1>1. [row EXCEPT !.status = status] \in HoldRow
  BY HoldStatusType DEF HoldStatuses
<1>2. \A r \in HoldRow : r # NoRow
  BY DEF HoldRow, NoRow, HoldStatuses
<1>3. /\ [row EXCEPT !.status = status].status = status
      /\ [row EXCEPT !.status = status].service = row.service
      /\ [row EXCEPT !.status = status].start = row.start
      /\ [row EXCEPT !.status = status].expiresAt = row.expiresAt
      /\ row.status # "deleted"
  BY DEF HoldRow, HoldStatuses
<1>4. QED
  BY <1>1, <1>2, <1>3 DEF HoldWeakened

\* The sweep only weakens, and it releases only what has expired by its clock.
LEMMA SweepWeakens ==
    ASSUME TypeOK, NEW t
    PROVE  /\ \A k \in Keys :
                 /\ Weakened(reservation[k], SweptReservations(t)[k])
                 /\ SweptReservations(t)[k] = reservation[k] \/ Lapsed(reservation[k], t)
           /\ \A h \in Holds : HoldWeakened(hold[h], SweptHolds(t)[h])
<1>1. ASSUME NEW k \in Keys
      PROVE  /\ Weakened(reservation[k], SweptReservations(t)[k])
             /\ SweptReservations(t)[k] = reservation[k] \/ Lapsed(reservation[k], t)
  <2>1. CASE Lapsed(reservation[k], t)
    <3>1. reservation[k] \in ReservationRow
      BY <2>1, ActiveRow DEF TypeOK, Lapsed
    <3>2. QED
      BY <2>1, <3>1, ReleasedIsWeakened DEF SweptReservations
  <2>2. CASE ~Lapsed(reservation[k], t)
    BY <2>2, SameIsWeakened DEF SweptReservations
  <2>3. QED
    BY <2>1, <2>2
<1>2. ASSUME NEW h \in Holds
      PROVE  HoldWeakened(hold[h], SweptHolds(t)[h])
  <2>1. CASE SweptHolds(t)[h] = hold[h]
    BY <2>1, SameIsWeakened
  <2>2. CASE SweptHolds(t)[h] # hold[h]
    <3>1. /\ Lapsed(hold[h], t)
          /\ SweptHolds(t)[h] = [hold[h] EXCEPT !.status = "EXPIRED"]
      BY <2>2 DEF SweptHolds
    <3>2. hold[h] \in HoldRow
      BY <3>1, ActiveHold DEF TypeOK, Lapsed, HoldStatuses
    <3>3. QED
      BY <3>1, <3>2, EndedIsWeakened DEF Lapsed
  <2>3. QED
    BY <2>1, <2>2
<1>3. QED
  BY <1>1, <1>2
(***************************************************************************)
(* Each transaction preserves the invariant.                               *)
(***************************************************************************)
\* A sweep whose clock is past leaves a hold that has not expired its slot.
LEMMA SweepSparesUsableHolds ==
    ASSUME Inv, NEW g \in Holds, NEW t \in Nat, t <= now, now' = now,
           HoldWeakened(hold[g], hold'[g]),
           reservation'[g] = reservation[g] \/ Lapsed(reservation[g], t),
           hold'[g].status = "ACTIVE", now < hold'[g].expiresAt
    PROVE  Backed(g)'
<1>1. hold'[g] = hold[g] /\ Backed(g) /\ now \in Nat
  BY DEF Inv, TypeOK, HoldWeakened, UsableHoldIsBacked
<1>2. hold[g].expiresAt \in Nat
  BY <1>1, ActiveHold DEF Inv, TypeOK, HoldStatuses, HoldRow
<1>3. ~Lapsed(reservation[g], t)
  BY <1>1, <1>2 DEF Lapsed, Backed
<1>4. QED
  BY <1>1, <1>3 DEF Backed

\* A hold still ACTIVE after a weakening has still not been adopted.
LEMMA UnadoptedSurvives ==
    ASSUME Inv, TypeOK', NEW h \in Holds, hold'[h].status = "ACTIVE",
           HoldWeakened(hold[h], hold'[h]), Weakened(reservation[h], reservation'[h])
    PROVE  /\ reservation'[h] \in ReservationRow
           /\ reservation'[h].booking = None
           /\ reservation'[h].expiresAt = hold'[h].expiresAt
<1>1. hold'[h] = hold[h]
  BY DEF HoldWeakened
<1>2. /\ reservation[h] \in ReservationRow /\ reservation[h].booking = None
      /\ reservation[h].expiresAt = hold[h].expiresAt
  BY <1>1 DEF Inv, ActiveHoldIsUnadopted
<1>3. reservation[h] # NoRow
  BY <1>2 DEF ReservationRow, NoRow
<1>4. reservation'[h] # NoRow /\ reservation'[h].booking = None
      /\ reservation'[h].expiresAt = hold'[h].expiresAt
  BY <1>1, <1>2, <1>3 DEF Weakened
<1>5. QED
  BY <1>4 DEF TypeOK, Keys

\* A booking's lineage survives whatever only weakens its hold's rows.
LEMMA LineageSurvives ==
    ASSUME Inv, TypeOK', NEW b \in Bookings, booking[b] \in BookingRow,
           booking[b].hold # None,
           HoldWeakened(hold[booking[b].hold], hold'[booking[b].hold]),
           Weakened(reservation[booking[b].hold], reservation'[booking[b].hold])
    PROVE  /\ hold'[booking[b].hold] \in HoldRow
           /\ reservation'[booking[b].hold] \in ReservationRow
           /\ reservation'[booking[b].hold].booking = b
<1> DEFINE g == booking[b].hold
<1>1. g \in Holds /\ g \in Keys
  BY DEF BookingRow, Keys
<1>2. hold[g] \in HoldRow /\ reservation[g] \in ReservationRow /\ reservation[g].booking = b
  BY DEF Inv, BookingOwnsItsHoldsReservation
<1>3. reservation[g] # NoRow
  BY <1>2 DEF ReservationRow, NoRow
<1>4. reservation'[g] # NoRow /\ reservation'[g].booking = b
  BY <1>2, <1>3 DEF Weakened
<1>5. QED
  BY <1>1, <1>2, <1>4 DEF TypeOK, HoldWeakened

LEMMA CommitHoldPreserves ==
    ASSUME Inv, NEW c \in Clients, NEW h \in Holds, CommitHold(c, h)
    PROVE  Inv'
<1> DEFINE r == request[c]
           expiry == r.now + HoldTtl
           occupied == Occupied(r.service, r.start)
<1>1. TypeOK /\ TypeOK'
  BY CommitHoldType DEF Inv
<1>2. r \in ClaimRequest /\ r.now <= now /\ now' = now /\ r.now \in Nat /\ now \in Nat
  BY <1>1, RequestType DEF CommitHold, Inv, RequestsAreTrue, Finish, ClaimRequest, TypeOK
<1>3. /\ reservation'[h].status = "ACTIVE" /\ reservation'[h].booking = None
      /\ reservation'[h].from = occupied.from /\ reservation'[h].until = occupied.until
      /\ reservation'[h].expiresAt = expiry
      /\ hold'[h].status = "ACTIVE" /\ hold'[h].expiresAt = expiry
      /\ hold'[h].service = r.service /\ hold'[h].start = r.start
  <2>1. h \in DOMAIN SweptReservations(r.now) /\ h \in DOMAIN SweptHolds(r.now)
    BY <1>1, SweepType DEF ReservationTable, HoldTable, Keys
  <2>2. QED
    BY <2>1 DEF CommitHold, NewReservation
<1>4. /\ hold'[h] \in HoldRow /\ hold'[h] # NoRow
      /\ reservation'[h] \in ReservationRow /\ reservation'[h] # NoRow
  BY <1>1, <1>3, ActiveHold, ActiveRow DEF TypeOK, HoldStatuses, NoRow, Keys
<1>5. /\ \A k \in Keys \ {h} :
            /\ Weakened(reservation[k], reservation'[k])
            /\ reservation'[k] = reservation[k] \/ Lapsed(reservation[k], r.now)
      /\ \A g \in Holds \ {h} : HoldWeakened(hold[g], hold'[g])
  <2>1. /\ SweptReservations(r.now) \in ReservationTable
        /\ SweptHolds(r.now) \in HoldTable
    BY <1>1, SweepType
  <2>2. /\ \A k \in Keys \ {h} : reservation'[k] = SweptReservations(r.now)[k]
        /\ \A g \in Holds \ {h} : hold'[g] = SweptHolds(r.now)[g]
    BY <2>1 DEF CommitHold, ReservationTable, HoldTable
  <2>3. QED
    BY <1>1, <2>2, SweepWeakens
<1>6. booking' = booking /\ hold[h] = NoRow /\ reservation[h] = NoRow
  BY DEF CommitHold, Inv, ReservationsHaveOrigins
<1>7. h \notin Bookings /\ Keys = Holds \cup Bookings
  BY IdentifierAssumption DEF Keys
<1>10. ReservationsDisjoint(reservation)'
  BY DEF CommitHold
<1>11. ReservationsHaveOrigins'
  BY <1>3, <1>4, <1>5, <1>6, <1>7
  DEF Inv, ReservationsHaveOrigins, Weakened, HoldWeakened
<1>12. UnbookedReservationIsAHolds'
  BY <1>3, <1>4, <1>5, <1>6, <1>7
  DEF Inv, UnbookedReservationIsAHolds, Backed, Weakened, HoldWeakened
<1>13. BookedReservationStays'
  BY <1>3, <1>5, <1>6 DEF Inv, BookedReservationStays, Weakened
<1>14. OneReservationPerBooking'
  BY <1>3, <1>5, <1>6 DEF Inv, OneReservationPerBooking, Weakened
<1>15. ReservationFollowsBooking'
  <2>1. \A k \in Keys : reservation'[k].status = "ACTIVE" /\ reservation'[k].booking # None
            => reservation'[k] = reservation[k]
    BY <1>3, <1>5 DEF Weakened
  <2>2. QED
    BY <2>1, <1>6 DEF Inv, ReservationFollowsBooking, Follows
<1>16. ActiveHoldIsUnadopted'
  BY <1>1, <1>3, <1>4, <1>5, <1>6, <1>7
  DEF Inv, ActiveHoldIsUnadopted, Weakened, HoldWeakened, TypeOK
<1>17. BookingOwnsItsHoldsReservation'
  <2>1. ASSUME NEW b \in Bookings, booking[b] \in BookingRow, booking[b].hold # None
        PROVE  booking[b].hold \in Holds \ {h}
    BY <2>1, <1>6
    DEF Inv, BookingOwnsItsHoldsReservation, BookingRow, HoldRow, NoRow, HoldStatuses
  <2>2. QED
    BY <2>1, <1>1, <1>5, <1>6, <1>7, LineageSurvives DEF BookingOwnsItsHoldsReservation
<1>18. UsableHoldIsBacked'
  <2>1. \A g \in Holds \ {h} : hold'[g].status = "ACTIVE" /\ now' < hold'[g].expiresAt
            => Backed(g)'
    BY <1>2, <1>5, <1>7, SweepSparesUsableHolds
  <2>2. Backed(h)'
    BY <1>3 DEF Backed
  <2>3. QED
    BY <2>1, <2>2 DEF UsableHoldIsBacked
<1>19. HoldsExpireSoon'
  BY <1>2, <1>3, <1>5, PolicyAssumption DEF Inv, HoldsExpireSoon, HoldWeakened
<1>20. RequestsAreTrue'
  BY <1>1, <1>2, <1>6 DEF Inv, RequestsAreTrue, CommitHold, Finish, Idle, TypeOK
<1>22. SweptHoldsAreReleased'
  BY <1>1, <1>5, <1>6
  DEF Inv, SweptHoldsAreReleased, CommitHold, Finish, HoldWeakened, TypeOK, NoRow
<1>23. QED
  BY <1>1, <1>10, <1>11, <1>12, <1>13, <1>14, <1>15, <1>16, <1>17, <1>18, <1>19, <1>20,
     <1>22 DEF Inv
\* Requests stay true while their bookings only get new versions.
LEMMA RequestsStayTrue ==
    ASSUME Inv, NEW c \in Clients, Finish(c),
           \A b \in Bookings : booking[b] \in BookingRow =>
               /\ booking'[b] \in BookingRow
               /\ \/ /\ booking'[b].version = booking[b].version
                     /\ booking'[b].status = booking[b].status
                     /\ booking'[b].start = booking[b].start
                  \/ booking'[b].version > booking[b].version
    PROVE  RequestsAreTrue'
<1>1. now' = now /\ request' = [request EXCEPT ![c] = Idle]
  BY DEF Finish
<1>2. SUFFICES ASSUME NEW d \in Clients, d # c
               PROVE  /\ request[d].op \in {"createHold", "createBooking", "confirm", "reschedule"}
                             => request[d].now <= now
                      /\ request[d].op \in {"reschedule", "cancel", "update"}
                             => CopyIsTrue(request[d], booking'[request[d].booking])
  BY <1>1 DEF Inv, TypeOK, RequestsAreTrue, Idle, CopyIsTrue
<1>3. ASSUME request[d].op \in {"reschedule", "cancel", "update"}
      PROVE  CopyIsTrue(request[d], booking'[request[d].booking])
  <2> DEFINE r == request[d]
             b == r.booking
  <2>1. b \in Bookings /\ r.version \in Nat
    BY <1>3, RequestType DEF Inv, MoveRequest, EditRequest
  <2>2. CopyIsTrue(r, booking[b])
    BY <1>3 DEF Inv, RequestsAreTrue
  <2>3. booking[b] \in BookingRow /\ booking[b].version \in Nat /\ r.version <= booking[b].version
    BY <2>2 DEF CopyIsTrue, BookingRow
  <2>4. booking'[b] \in BookingRow /\ booking'[b].version \in Nat
    BY <2>1, <2>3 DEF BookingRow
  <2>5. CASE booking'[b].version > booking[b].version
    <3>1. r.version <= booking'[b].version /\ r.version # booking'[b].version
      BY <2>1, <2>3, <2>4, <2>5
    <3>2. QED
      BY <2>4, <3>1 DEF CopyIsTrue
  <2>6. CASE ~(booking'[b].version > booking[b].version)
    BY <2>1, <2>2, <2>3, <2>4, <2>6 DEF CopyIsTrue
  <2>7. QED
    BY <2>5, <2>6
<1>4. QED
  BY <1>2, <1>3 DEF Inv, RequestsAreTrue

LEMMA CommitDirectBookingPreserves ==
    ASSUME Inv, NEW c \in Clients, NEW b \in Bookings, CommitDirectBooking(c, b)
    PROVE  Inv'
<1> DEFINE r == request[c]
           occupied == Occupied(r.service, r.start)
<1>1. TypeOK /\ TypeOK'
  BY CommitDirectBookingType DEF Inv
<1>2. r \in ClaimRequest /\ r.now <= now /\ now' = now /\ r.now \in Nat /\ now \in Nat
  BY <1>1, RequestType
  DEF CommitDirectBooking, Inv, RequestsAreTrue, Finish, ClaimRequest, TypeOK
<1>3. b \notin Holds /\ b # None /\ Keys = Holds \cup Bookings
  BY IdentifierAssumption DEF Keys
<1>4. /\ reservation'[b].status = "ACTIVE" /\ reservation'[b].booking = b
      /\ reservation'[b].from = occupied.from /\ reservation'[b].until = occupied.until
      /\ reservation'[b].expiresAt = None
  <2>1. b \in DOMAIN SweptReservations(r.now)
    BY <1>1, <1>3, SweepType DEF ReservationTable
  <2>2. QED
    BY <2>1 DEF CommitDirectBooking, NewReservation
<1>5. /\ \A k \in Keys \ {b} :
            /\ Weakened(reservation[k], reservation'[k])
            /\ reservation'[k] = reservation[k] \/ Lapsed(reservation[k], r.now)
      /\ \A g \in Holds : HoldWeakened(hold[g], hold'[g])
  <2>1. SweptReservations(r.now) \in ReservationTable
    BY <1>1, SweepType
  <2>2. \A k \in Keys \ {b} : reservation'[k] = SweptReservations(r.now)[k]
    BY <2>1 DEF CommitDirectBooking, ReservationTable
  <2>3. QED
    BY <1>1, <2>2, SweepWeakens DEF CommitDirectBooking
<1>6. /\ booking[b] = NoRow /\ reservation[b] = NoRow
      /\ \A a \in Bookings \ {b} : booking'[a] = booking[a]
      /\ booking'[b].hold = None /\ booking'[b].status = "CONFIRMED"
      /\ booking'[b].service = r.service /\ booking'[b].start = r.start
      /\ booking'[b] # NoRow /\ booking'[b] \in BookingRow
  <2>1. booking'[b] = NewBooking("CONFIRMED", r.service, r.start, None)
    BY <1>1 DEF CommitDirectBooking, TypeOK
  <2>2. booking'[b] # NoRow
    BY <2>1 DEF NewBooking, NoRow
  <2>3. QED
    BY <1>1, <2>1, <2>2
    DEF CommitDirectBooking, Inv, ReservationsHaveOrigins, TypeOK, NewBooking
<1>7. \A a \in Bookings : booking[a] \in BookingRow => a # b /\ booking'[a] = booking[a]
  BY <1>6 DEF BookingRow, NoRow, BookingStatuses
<1>8. \A k \in Keys : reservation[k] # NoRow => reservation[k].booking # b
  BY <1>3, <1>7 DEF Inv, BookedReservationStays
<1>10. ReservationsDisjoint(reservation)'
  BY DEF CommitDirectBooking
<1>11. ReservationsHaveOrigins'
  BY <1>3, <1>5, <1>6 DEF Inv, ReservationsHaveOrigins, Weakened, HoldWeakened
<1>12. UnbookedReservationIsAHolds'
  BY <1>3, <1>4, <1>5 DEF Inv, UnbookedReservationIsAHolds, Backed, Weakened, HoldWeakened
<1>13. BookedReservationStays'
  <2>1. ASSUME NEW k \in Keys \ {b}, reservation'[k] # NoRow, reservation'[k].booking # None
        PROVE  booking'[reservation'[k].booking] \in BookingRow /\ reservation'[k].expiresAt = None
    <3>1. /\ reservation[k] # NoRow /\ reservation'[k].booking = reservation[k].booking
          /\ reservation'[k].expiresAt = reservation[k].expiresAt
      BY <1>5, <2>1 DEF Weakened
    <3>2. reservation[k] \in ReservationRow /\ reservation[k].booking \in Bookings
      BY <1>1, <2>1, <3>1 DEF TypeOK, ReservationRow
    <3>3. booking[reservation[k].booking] \in BookingRow /\ reservation[k].expiresAt = None
      BY <2>1, <3>1 DEF Inv, BookedReservationStays
    <3>4. QED
      BY <1>7, <3>1, <3>2, <3>3
  <2>2. QED
    BY <2>1, <1>4, <1>6 DEF BookedReservationStays
<1>14. OneReservationPerBooking'
  BY <1>4, <1>5, <1>8 DEF Inv, OneReservationPerBooking, Weakened
<1>15. ReservationFollowsBooking'
  <2>1. ASSUME NEW k \in Keys \ {b}, reservation'[k].status = "ACTIVE",
               reservation'[k].booking # None
        PROVE  Follows(k)'
    <3>1. reservation'[k] = reservation[k]
      BY <1>5, <2>1 DEF Weakened
    <3>2. Follows(k) /\ reservation[k].booking \in Bookings
      BY <1>1, <2>1, <3>1, ActiveRow
      DEF Inv, ReservationFollowsBooking, TypeOK, ReservationRow
    <3>3. booking'[reservation[k].booking] = booking[reservation[k].booking]
      BY <1>7, <3>2 DEF Follows
    <3>4. QED
      BY <3>1, <3>2, <3>3 DEF Follows
  <2>2. Follows(b)'
    BY <1>4, <1>6 DEF Follows, ReleasesCapacity
  <2>3. QED
    BY <2>1, <2>2 DEF ReservationFollowsBooking
<1>16. ActiveHoldIsUnadopted'
  <2>1. ASSUME NEW h \in Holds, hold'[h].status = "ACTIVE"
        PROVE  /\ reservation'[h] \in ReservationRow
               /\ reservation'[h].booking = None
               /\ reservation'[h].expiresAt = hold'[h].expiresAt
    BY <2>1, <1>1, <1>3, <1>5, UnadoptedSurvives
  <2>2. QED
    BY <2>1 DEF ActiveHoldIsUnadopted
<1>17. BookingOwnsItsHoldsReservation'
  <2>1. ASSUME NEW a \in Bookings, booking[a] \in BookingRow, booking[a].hold # None
        PROVE  booking[a].hold \in Holds \cap (Keys \ {b})
    BY <1>3, <2>1 DEF BookingRow
  <2>2. QED
    BY <2>1, <1>1, <1>5, <1>6, LineageSurvives DEF BookingOwnsItsHoldsReservation
<1>18. UsableHoldIsBacked'
  <2>1. \A g \in Holds : hold'[g].status = "ACTIVE" /\ now' < hold'[g].expiresAt => Backed(g)'
    BY <1>2, <1>3, <1>5, SweepSparesUsableHolds
  <2>2. QED
    BY <2>1 DEF UsableHoldIsBacked
<1>19. HoldsExpireSoon'
  BY <1>2, <1>5 DEF Inv, HoldsExpireSoon, HoldWeakened
<1>20. RequestsAreTrue'
  BY <1>7, RequestsStayTrue DEF CommitDirectBooking
<1>22. SweptHoldsAreReleased'
  BY <1>1, <1>5
  DEF Inv, SweptHoldsAreReleased, CommitDirectBooking, Finish, HoldWeakened, TypeOK
<1>23. QED
  BY <1>1, <1>10, <1>11, <1>12, <1>13, <1>14, <1>15, <1>16, <1>17, <1>18, <1>19, <1>20,
     <1>22 DEF Inv
\* Ending holds and releasing reservations, and nothing else, keeps the tables
\* consistent as long as the holds that stay usable stay backed.
LEMMA WeakeningPreserves ==
    ASSUME Inv, TypeOK', now' = now, booking' = booking, request' = request \/ RequestsAreTrue',
           \A k \in Keys : Weakened(reservation[k], reservation'[k]),
           \A h \in Holds : HoldWeakened(hold[h], hold'[h]),
           UsableHoldIsBacked', SweptHoldsAreReleased'
    PROVE  Inv'
<1>1. ReservationsDisjoint(reservation)'
  BY DEF Inv, ReservationsDisjoint, Weakened
<1>2. ReservationsHaveOrigins'
  BY DEF Inv, ReservationsHaveOrigins, Weakened, HoldWeakened, Keys
<1>3. UnbookedReservationIsAHolds'
  BY DEF Inv, UnbookedReservationIsAHolds, Backed, Weakened, HoldWeakened
<1>4. BookedReservationStays'
  BY DEF Inv, BookedReservationStays, Weakened
<1>5. OneReservationPerBooking'
  BY DEF Inv, OneReservationPerBooking, Weakened
<1>6. ReservationFollowsBooking'
  BY DEF Inv, ReservationFollowsBooking, Follows, Weakened
<1>7. ActiveHoldIsUnadopted'
  BY UnadoptedSurvives DEF ActiveHoldIsUnadopted, Keys
<1>8. BookingOwnsItsHoldsReservation'
  <2>1. \A b \in Bookings : booking[b] \in BookingRow /\ booking[b].hold # None
            => booking[b].hold \in Holds /\ booking[b].hold \in Keys
    BY DEF BookingRow, Keys
  <2>2. QED
    BY <2>1, LineageSurvives DEF BookingOwnsItsHoldsReservation
<1>9. HoldsExpireSoon'
  BY DEF Inv, HoldsExpireSoon, HoldWeakened
<1>10. RequestsAreTrue'
  BY DEF Inv, RequestsAreTrue
<1>11. QED
  BY <1>1, <1>2, <1>3, <1>4, <1>5, <1>6, <1>7, <1>8, <1>9, <1>10 DEF Inv

LEMMA CommitReleasePreserves ==
    ASSUME Inv, NEW c \in Clients, CommitRelease(c)
    PROVE  Inv'
<1> DEFINE h == request[c].hold
<1>1. TypeOK /\ TypeOK'
  BY CommitReleaseType DEF Inv
<1>2. h \in Holds /\ h \in Keys /\ now' = now /\ booking' = booking
  BY <1>1, RequestType DEF CommitRelease, Finish, ReleaseRequest, Keys
<1>3. RequestsAreTrue'
  BY <1>2, RequestsStayTrue DEF CommitRelease
<1>4. CASE hold[h] \notin HoldRow
  <2>1. reservation' = reservation /\ hold' = hold
    BY <1>4 DEF CommitRelease
  <2>2. UsableHoldIsBacked'
    BY <1>2, <2>1 DEF Inv, UsableHoldIsBacked, Backed
  <2>3. SweptHoldsAreReleased'
    BY <2>1 DEF Inv, SweptHoldsAreReleased, CommitRelease, Finish
  <2>4. QED
    BY <1>1, <1>2, <1>3, <2>1, <2>2, <2>3, SameIsWeakened, WeakeningPreserves
<1>5. CASE hold[h] \in HoldRow
  <2>1. /\ \A k \in Keys \ {h} : reservation'[k] = reservation[k]
        /\ \A g \in Holds \ {h} : hold'[g] = hold[g]
        /\ hold'[h] = [hold[h] EXCEPT !.status = "RELEASED"]
        /\ reservation'[h] = IF reservation[h].status = "ACTIVE"
                             THEN Released(reservation[h]) ELSE reservation[h]
    BY <1>1, <1>2, <1>5 DEF CommitRelease, TypeOK
  <2>2. Weakened(reservation[h], reservation'[h])
    BY <1>1, <1>2, <2>1, ActiveRow, ReleasedIsWeakened, SameIsWeakened DEF TypeOK
  <2>3. HoldWeakened(hold[h], hold'[h])
    BY <1>5, <2>1, EndedIsWeakened
  <2>4. hold'[h].status # "ACTIVE"
    BY <1>5, <2>1 DEF HoldRow
  <2>5. UsableHoldIsBacked'
    <3>1. \A g \in Holds : hold'[g].status = "ACTIVE" =>
              g # h /\ hold'[g] = hold[g] /\ reservation'[g] = reservation[g]
      BY <2>1, <2>4 DEF Keys
    <3>2. UsableHoldIsBacked
      BY DEF Inv
    <3>3. QED
      BY <1>2, <3>1, <3>2 DEF UsableHoldIsBacked, Backed
  <2>6. SweptHoldsAreReleased'
    BY <1>1, <2>1, <2>3
    DEF Inv, SweptHoldsAreReleased, CommitRelease, Finish, HoldWeakened, TypeOK
  <2>7. QED
    BY <1>1, <1>2, <1>3, <2>1, <2>2, <2>3, <2>5, <2>6, SameIsWeakened, WeakeningPreserves
<1>6. QED
  BY <1>4, <1>5

LEMMA SweeperPreserves ==
    ASSUME Inv, NEW h \in Holds, SweepHold(h) \/ SweepReservation(h)
    PROVE  Inv'
<1>1. TypeOK /\ TypeOK'
  BY WorkerType DEF Inv, Worker
<1>2. h \in Keys /\ now' = now /\ booking' = booking /\ request' = request
  BY DEF SweepHold, SweepReservation, Keys
<1>3. CASE SweepHold(h)
  <2>1. hold[h] \in HoldRow
    BY <1>1, <1>3, ActiveHold DEF TypeOK, SweepHold, HoldStatuses
  <2>2. /\ reservation' = reservation
        /\ \A g \in Holds \ {h} : hold'[g] = hold[g]
        /\ hold'[h] = [hold[h] EXCEPT !.status = "RELEASED"]
    BY <1>1, <1>3 DEF SweepHold, TypeOK
  <2>3. HoldWeakened(hold[h], hold'[h]) /\ hold'[h].status = "RELEASED"
    BY <2>1, <2>2, EndedIsWeakened DEF HoldRow
  <2>4. UsableHoldIsBacked'
    <3>1. \A g \in Holds : hold'[g].status = "ACTIVE" => g # h /\ hold'[g] = hold[g]
      BY <2>2, <2>3
    <3>2. UsableHoldIsBacked
      BY DEF Inv
    <3>3. QED
      BY <1>2, <2>2, <3>1, <3>2 DEF UsableHoldIsBacked, Backed
  <2>5. SweptHoldsAreReleased'
    BY <1>1, <1>3, <2>2, <2>3 DEF Inv, SweptHoldsAreReleased, SweepHold, TypeOK
  <2>6. QED
    BY <1>1, <1>2, <2>2, <2>3, <2>4, <2>5, SameIsWeakened, WeakeningPreserves
<1>4. CASE SweepReservation(h)
  <2>1. /\ hold' = hold /\ hold[h].status # "ACTIVE"
        /\ \A k \in Keys \ {h} : reservation'[k] = reservation[k]
        /\ \/ reservation'[h] = reservation[h]
           \/ reservation[h].status = "ACTIVE" /\ reservation'[h] = Released(reservation[h])
    BY <1>1, <1>2, <1>4 DEF Inv, SweepReservation, SweptHoldsAreReleased, TypeOK
  <2>2. Weakened(reservation[h], reservation'[h])
    BY <1>1, <1>2, <2>1, ActiveRow, ReleasedIsWeakened, SameIsWeakened DEF TypeOK
  <2>3. UsableHoldIsBacked'
    BY <1>2, <2>1 DEF Inv, UsableHoldIsBacked, Backed, Keys
  <2>4. SweptHoldsAreReleased'
    BY <1>4, <2>1 DEF Inv, SweptHoldsAreReleased, SweepReservation
  <2>5. QED
    BY <1>1, <1>2, <2>1, <2>2, <2>3, <2>4, SameIsWeakened, WeakeningPreserves
<1>5. QED
  BY <1>3, <1>4
LEMMA CommitConfirmPreserves ==
    ASSUME Inv, NEW c \in Clients, NEW b \in Bookings, CommitConfirm(c, b)
    PROVE  Inv'
<1> DEFINE h == request[c].hold
           status == InitialStatus(hold[h].service)
<1>1. TypeOK /\ TypeOK'
  BY CommitConfirmType DEF Inv
<1>2. /\ h \in Holds /\ h \in Keys /\ h \notin Bookings /\ b # None /\ now' = now
      /\ sweeping' = sweeping
  BY <1>1, RequestType, IdentifierAssumption DEF CommitConfirm, ConfirmRequest, Keys, Finish
<1>3. hold[h] \in HoldRow /\ hold[h].status = "ACTIVE" /\ reservation[h].status = "ACTIVE"
  BY DEF CommitConfirm, HoldUsable
<1>4. /\ reservation[h] \in ReservationRow /\ reservation[h].booking = None
      /\ Backed(h)
  BY <1>2, <1>3 DEF Inv, ActiveHoldIsUnadopted, UnbookedReservationIsAHolds
<1>5. /\ \A k \in Keys \ {h} : reservation'[k] = reservation[k]
      /\ reservation'[h].status = "ACTIVE" /\ reservation'[h].booking = b
      /\ reservation'[h].expiresAt = None
      /\ reservation'[h].from = reservation[h].from
      /\ reservation'[h].until = reservation[h].until
      /\ reservation'[h] # NoRow /\ reservation'[h] \in ReservationRow
  <2>1. reservation' = [reservation EXCEPT ![h] = Adopted(reservation[h], b)]
    BY DEF CommitConfirm
  <2>2. /\ reservation'[h] = Adopted(reservation[h], b)
        /\ \A k \in Keys \ {h} : reservation'[k] = reservation[k]
    BY <1>1, <1>2, <2>1 DEF TypeOK
  <2>3. /\ Adopted(reservation[h], b).status = "ACTIVE"
        /\ Adopted(reservation[h], b).booking = b
        /\ Adopted(reservation[h], b).expiresAt = None
        /\ Adopted(reservation[h], b).from = reservation[h].from
        /\ Adopted(reservation[h], b).until = reservation[h].until
    BY <1>3, <1>4 DEF Adopted, ReservationRow
  <2>4. reservation'[h] # NoRow /\ reservation'[h] \in ReservationRow
    BY <1>1, <1>2, <2>2, <2>3, ActiveRow DEF TypeOK, NoRow
  <2>5. QED
    BY <2>2, <2>3, <2>4
<1>6. /\ \A g \in Holds \ {h} : hold'[g] = hold[g]
      /\ hold'[h] = [hold[h] EXCEPT !.status = "CONFIRMED"]
      /\ hold'[h] \in HoldRow /\ hold'[h].status = "CONFIRMED"
      /\ hold'[h].expiresAt = hold[h].expiresAt /\ hold'[h] # NoRow
  <2>1. /\ \A g \in Holds \ {h} : hold'[g] = hold[g]
        /\ hold'[h] = [hold[h] EXCEPT !.status = "CONFIRMED"]
    BY <1>1, <1>2 DEF CommitConfirm, TypeOK
  <2>2. /\ hold'[h] \in HoldRow /\ hold'[h].status = "CONFIRMED"
        /\ hold'[h].expiresAt = hold[h].expiresAt
    BY <1>3, <2>1, HoldStatusType DEF HoldRow, HoldStatuses
  <2>3. QED
    BY <2>1, <2>2 DEF NoRow
<1>7. /\ booking[b] = NoRow
      /\ \A a \in Bookings \ {b} : booking'[a] = booking[a]
      /\ booking'[b] \in BookingRow /\ booking'[b] # NoRow
      /\ booking'[b].hold = h /\ ~ReleasesCapacity(booking'[b].status)
      /\ booking'[b].service = hold[h].service /\ booking'[b].start = hold[h].start
  <2>1. booking'[b] = NewBooking(status, hold[h].service, hold[h].start, h)
    BY <1>1 DEF CommitConfirm, TypeOK
  <2>2. status \in {"PENDING", "CONFIRMED"}
    BY DEF InitialStatus
  <2>3. booking'[b] # NoRow
    BY <2>1 DEF NewBooking, NoRow
  <2>4. QED
    BY <1>1, <2>1, <2>2, <2>3 DEF CommitConfirm, TypeOK, NewBooking, ReleasesCapacity
<1>8. \A a \in Bookings : booking[a] \in BookingRow => a # b /\ booking'[a] = booking[a]
  BY <1>7 DEF BookingRow, NoRow, BookingStatuses
<1>9. \A k \in Keys : reservation[k] # NoRow => reservation[k].booking # b
  BY <1>2, <1>8 DEF Inv, BookedReservationStays
<1>10. ReservationsDisjoint(reservation)'
  <2>1. \A k \in Keys : /\ reservation'[k].status = "ACTIVE" => reservation[k].status = "ACTIVE"
                        /\ reservation'[k].from = reservation[k].from
                        /\ reservation'[k].until = reservation[k].until
    BY <1>3, <1>5
  <2>2. QED
    BY <2>1 DEF Inv, ReservationsDisjoint, Overlap
<1>11. ReservationsHaveOrigins'
  BY <1>2, <1>5, <1>6, <1>7 DEF Inv, ReservationsHaveOrigins, Keys
<1>12. UnbookedReservationIsAHolds'
  BY <1>2, <1>5, <1>6 DEF Inv, UnbookedReservationIsAHolds, Backed
<1>13. BookedReservationStays'
  <2>1. \A k \in Keys \ {h} : reservation[k] # NoRow /\ reservation[k].booking # None
            => reservation[k].booking \in Bookings
    BY <1>1 DEF TypeOK, ReservationRow
  <2>2. BookedReservationStays
    BY DEF Inv
  <2>3. QED
    BY <1>5, <1>7, <1>8, <2>1, <2>2 DEF BookedReservationStays
<1>14. OneReservationPerBooking'
  BY <1>5, <1>9 DEF Inv, OneReservationPerBooking
<1>15. ReservationFollowsBooking'
  <2>1. ASSUME NEW k \in Keys \ {h}, reservation'[k].status = "ACTIVE",
               reservation'[k].booking # None
        PROVE  Follows(k)'
    <3>1. Follows(k) /\ reservation[k].booking \in Bookings
      BY <1>1, <1>5, <2>1, ActiveRow DEF Inv, ReservationFollowsBooking, TypeOK, ReservationRow
    <3>2. booking'[reservation[k].booking] = booking[reservation[k].booking]
      BY <1>8, <3>1 DEF Follows
    <3>3. QED
      BY <1>5, <3>1, <3>2 DEF Follows
  <2>2. ASSUME NEW k \in Keys, k = h
        PROVE  Follows(k)'
    BY <1>4, <1>5, <1>7, <2>2 DEF Follows, Backed
  <2>3. QED
    BY <2>1, <2>2 DEF ReservationFollowsBooking
<1>16. ActiveHoldIsUnadopted'
  <2>1. \A g \in Holds : hold'[g].status = "ACTIVE" =>
            g # h /\ hold'[g] = hold[g] /\ reservation'[g] = reservation[g]
    BY <1>5, <1>6 DEF Keys
  <2>2. ActiveHoldIsUnadopted
    BY DEF Inv
  <2>3. QED
    BY <2>1, <2>2 DEF ActiveHoldIsUnadopted
<1>17. BookingOwnsItsHoldsReservation'
  <2>1. ASSUME NEW a \in Bookings, booking[a] \in BookingRow, booking[a].hold # None
        PROVE  booking[a].hold \in Holds \ {h} /\ booking[a].hold \in Keys
    <3>1. booking[a].hold \in Holds /\ booking[a].hold \in Keys
      BY <2>1 DEF BookingRow, Keys
    <3>2. reservation[booking[a].hold].booking = a /\ a # None
      BY <2>1, IdentifierAssumption DEF Inv, BookingOwnsItsHoldsReservation
    <3>3. QED
      BY <1>4, <3>1, <3>2
  <2>2. BookingOwnsItsHoldsReservation
    BY DEF Inv
  <2>3. QED
    BY <1>2, <1>5, <1>6, <1>7, <1>8, <2>1, <2>2 DEF BookingOwnsItsHoldsReservation
<1>18. UsableHoldIsBacked'
  <2>1. \A g \in Holds : hold'[g].status = "ACTIVE" =>
            g # h /\ hold'[g] = hold[g] /\ reservation'[g] = reservation[g]
    BY <1>5, <1>6 DEF Keys
  <2>2. UsableHoldIsBacked
    BY DEF Inv
  <2>3. QED
    BY <1>2, <2>1, <2>2 DEF UsableHoldIsBacked, Backed
<1>19. HoldsExpireSoon'
  <2>1. \A g \in Holds : hold'[g] \in HoldRow =>
            hold[g] \in HoldRow /\ hold'[g].expiresAt = hold[g].expiresAt
    BY <1>3, <1>6
  <2>2. HoldsExpireSoon
    BY DEF Inv
  <2>3. QED
    BY <1>2, <2>1, <2>2 DEF HoldsExpireSoon
<1>20. RequestsAreTrue'
  BY <1>8, RequestsStayTrue DEF CommitConfirm
<1>21. SweptHoldsAreReleased'
  BY <1>1, <1>2, <1>3, <1>6 DEF Inv, SweptHoldsAreReleased, TypeOK
<1>22. QED
  BY <1>1, <1>10, <1>11, <1>12, <1>13, <1>14, <1>15, <1>16, <1>17, <1>18, <1>19, <1>20,
     <1>21 DEF Inv

\* A reservation row that is still about the same booking and the same expiry,
\* and is ACTIVE only if it was.
Kept(old, new) ==
    /\ new = NoRow <=> old = NoRow
    /\ new.status = "ACTIVE" => old.status = "ACTIVE"
    /\ old # NoRow => new.booking = old.booking /\ new.expiresAt = old.expiresAt

\* What moving, cancelling and editing have in common: one booking gets a new
\* version, its own reservation is moved or released, others at most weakened.
LEMMA RevisionPreserves ==
    ASSUME Inv, TypeOK', NEW c \in Clients, NEW b \in Bookings, Finish(c),
           booking[b] \in BookingRow, booking'[b] \in BookingRow,
           booking'[b].hold = booking[b].hold, booking'[b].version > booking[b].version,
           \A a \in Bookings \ {b} : booking'[a] = booking[a],
           \A h \in Holds : HoldWeakened(hold[h], hold'[h]),
           \A k \in Keys : Kept(reservation[k], reservation'[k]),
           \A k \in Keys : reservation'[k].status = "ACTIVE" =>
               \/ reservation'[k] = reservation[k] /\ reservation[k].booking # b
               \/ reservation[k].booking = b /\ Follows(k)',
           ReservationsDisjoint(reservation)',
           UsableHoldIsBacked'
    PROVE  Inv'
<1>1. TypeOK /\ b # None /\ now' = now /\ sweeping' = sweeping
  BY IdentifierAssumption DEF Inv, Finish
<1>2. \A a \in Bookings : booking[a] \in BookingRow <=> booking'[a] \in BookingRow
  OBVIOUS
<1>3. \A a \in Bookings : booking[a] # NoRow => booking'[a] # NoRow
  BY DEF BookingRow, NoRow, BookingStatuses
<1>4. ReservationsHaveOrigins'
  <2>1. ReservationsHaveOrigins
    BY DEF Inv
  <2>2. QED
    BY <1>3, <2>1 DEF ReservationsHaveOrigins, Kept, HoldWeakened, Keys
<1>5. UnbookedReservationIsAHolds'
  <2>1. ASSUME NEW k \in Keys, reservation'[k].status = "ACTIVE", reservation'[k].booking = None
        PROVE  k \in Holds /\ hold'[k] \in HoldRow /\ Backed(k)'
    <3>1. reservation'[k] \in ReservationRow /\ reservation[k].status = "ACTIVE"
      BY <2>1, ActiveRow DEF TypeOK, Kept
    <3>2. reservation[k] # NoRow /\ reservation[k].booking = None
      BY <2>1, <3>1 DEF NoRow, Kept
    <3>3. reservation'[k] = reservation[k]
      BY <1>1, <2>1, <3>2
    <3>4. k \in Holds /\ hold[k] \in HoldRow /\ Backed(k)
      BY <3>1, <3>2 DEF Inv, UnbookedReservationIsAHolds
    <3>5. QED
      BY <3>3, <3>4 DEF Backed, HoldWeakened
  <2>2. QED
    BY <2>1 DEF UnbookedReservationIsAHolds
<1>6. BookedReservationStays'
  <2>1. ASSUME NEW k \in Keys, reservation'[k] # NoRow, reservation'[k].booking # None
        PROVE  booking'[reservation'[k].booking] \in BookingRow /\ reservation'[k].expiresAt = None
    <3>1. /\ reservation[k] # NoRow /\ reservation'[k].booking = reservation[k].booking
          /\ reservation'[k].expiresAt = reservation[k].expiresAt
      BY <2>1 DEF Kept
    <3>2. reservation[k].booking \in Bookings
      BY <1>1, <2>1, <3>1 DEF TypeOK, ReservationRow
    <3>3. booking[reservation[k].booking] \in BookingRow /\ reservation[k].expiresAt = None
      BY <2>1, <3>1 DEF Inv, BookedReservationStays
    <3>4. QED
      BY <1>2, <3>1, <3>2, <3>3
  <2>2. QED
    BY <2>1 DEF BookedReservationStays
<1>7. OneReservationPerBooking'
  <2>1. OneReservationPerBooking
    BY DEF Inv
  <2>2. QED
    BY <2>1 DEF OneReservationPerBooking, Kept
<1>8. ReservationFollowsBooking'
  <2>1. ASSUME NEW k \in Keys, reservation'[k].status = "ACTIVE",
               reservation'[k].booking # None
        PROVE  Follows(k)'
    <3>1. CASE reservation'[k] = reservation[k] /\ reservation[k].booking # b
      <4>1. Follows(k) /\ reservation[k].booking \in Bookings \ {b}
        BY <1>1, <2>1, <3>1, ActiveRow
        DEF Inv, ReservationFollowsBooking, TypeOK, ReservationRow
      <4>2. booking'[reservation[k].booking] = booking[reservation[k].booking]
        BY <4>1
      <4>3. QED
        BY <3>1, <4>1, <4>2 DEF Follows
    <3>2. QED
      BY <2>1, <3>1
  <2>2. QED
    BY <2>1 DEF ReservationFollowsBooking
<1>9. ActiveHoldIsUnadopted'
  <2>1. ASSUME NEW h \in Holds, hold'[h].status = "ACTIVE"
        PROVE  /\ reservation'[h] \in ReservationRow
               /\ reservation'[h].booking = None
               /\ reservation'[h].expiresAt = hold'[h].expiresAt
    <3>1. hold'[h] = hold[h] /\ h \in Keys
      BY <2>1 DEF HoldWeakened, Keys
    <3>2. /\ reservation[h] \in ReservationRow /\ reservation[h].booking = None
          /\ reservation[h].expiresAt = hold[h].expiresAt
      BY <2>1, <3>1 DEF Inv, ActiveHoldIsUnadopted
    <3>3. reservation[h] # NoRow
      BY <3>2 DEF ReservationRow, NoRow
    <3>4. QED
      BY <3>1, <3>2, <3>3 DEF Kept, TypeOK
  <2>2. QED
    BY <2>1 DEF ActiveHoldIsUnadopted
<1>10. BookingOwnsItsHoldsReservation'
  <2>1. ASSUME NEW a \in Bookings, booking'[a] \in BookingRow, booking'[a].hold # None
        PROVE  /\ hold'[booking'[a].hold] \in HoldRow
               /\ reservation'[booking'[a].hold] \in ReservationRow
               /\ reservation'[booking'[a].hold].booking = a
    <3>1. booking'[a].hold = booking[a].hold /\ booking[a] \in BookingRow
      BY <1>2, <2>1
    <3>2. /\ hold[booking[a].hold] \in HoldRow
          /\ reservation[booking[a].hold] \in ReservationRow
          /\ reservation[booking[a].hold].booking = a
      BY <2>1, <3>1 DEF Inv, BookingOwnsItsHoldsReservation
    <3>3. booking[a].hold \in Holds /\ booking[a].hold \in Keys
      BY <2>1, <3>1 DEF BookingRow, Keys
    <3>4. reservation[booking[a].hold] # NoRow
      BY <3>2 DEF ReservationRow, NoRow
    <3>5. QED
      BY <3>1, <3>2, <3>3, <3>4 DEF Kept, HoldWeakened, TypeOK
  <2>2. QED
    BY <2>1 DEF BookingOwnsItsHoldsReservation
<1>11. HoldsExpireSoon'
  BY <1>1 DEF Inv, HoldsExpireSoon, HoldWeakened
<1>12. SweptHoldsAreReleased'
  <2>1. SweptHoldsAreReleased
    BY DEF Inv
  <2>2. QED
    BY <1>1, <2>1 DEF SweptHoldsAreReleased, HoldWeakened, TypeOK
<1>13. RequestsAreTrue'
  BY RequestsStayTrue
<1>14. QED
  BY <1>4, <1>5, <1>6, <1>7, <1>8, <1>9, <1>10, <1>11, <1>12, <1>13 DEF Inv

LEMMA CommitReschedulePreserves ==
    ASSUME Inv, NEW c \in Clients, CommitReschedule(c)
    PROVE  Inv'
<1> DEFINE r == request[c]
           swept == SweptReservations(r.now)
           span == Occupied(booking[r.booking].service, r.start)
<1>1. TypeOK /\ TypeOK'
  BY CommitRescheduleType DEF Inv
<1>2. r \in MoveRequest /\ r.now \in Nat /\ r.now <= now /\ now' = now /\ now \in Nat
  BY <1>1, RequestType
  DEF CommitReschedule, Inv, RequestsAreTrue, Finish, MoveRequest, TypeOK
<1>3. PICK b \in Bookings : b = r.booking
  BY <1>2 DEF MoveRequest
<1>4. b # None /\ booking[b] \in BookingRow /\ r.start \in Starts
  BY <1>1, <1>2, <1>3, IdentifierAssumption
  DEF CommitReschedule, VersionMatches, TypeOK, MoveRequest
<1>5. /\ \A a \in Bookings \ {b} : booking'[a] = booking[a]
      /\ booking'[b] = Rescheduled(booking[b], r.start)
  BY <1>1, <1>3 DEF CommitReschedule, TypeOK
<1>6. /\ booking'[b] \in BookingRow /\ booking'[b].hold = booking[b].hold
      /\ booking'[b].status = booking[b].status /\ booking'[b].service = booking[b].service
      /\ booking'[b].start = r.start /\ booking'[b].version > booking[b].version
  BY <1>4, <1>5, RescheduledType
<1>7. /\ \A k \in Keys :
            /\ Weakened(reservation[k], swept[k])
            /\ swept[k] = reservation[k] \/ Lapsed(reservation[k], r.now)
      /\ \A h \in Holds : HoldWeakened(hold[h], hold'[h])
  BY <1>1, SweepWeakens DEF CommitReschedule
<1>8. span \in [from: Int, until: Int]
  BY <1>3, <1>4, OccupiedType DEF BookingRow
<1>9. \A k \in Keys :
          reservation'[k] = IF OwnedBy(swept[k], b) THEN Respanned(swept[k], span)
                                                    ELSE swept[k]
  <2>1. reservation' = MovedReservations(swept, b, span)
    BY <1>3 DEF CommitReschedule
  <2>2. QED
    BY <2>1 DEF MovedReservations
\* The booking's own reservation is where the booking now is.
<1>10. ASSUME NEW k \in Keys, OwnedBy(swept[k], b)
       PROVE  /\ Kept(reservation[k], reservation'[k])
              /\ reservation[k].booking = b /\ Follows(k)'
  <2>1. /\ swept[k] = reservation[k] /\ reservation[k].status = "ACTIVE"
        /\ reservation[k].booking = b
    BY <1>7, <1>10 DEF OwnedBy, Weakened
  <2>2. reservation[k] \in ReservationRow
    BY <1>1, <2>1, ActiveRow DEF TypeOK
  <2>3. /\ reservation'[k].status = "ACTIVE" /\ reservation'[k].booking = b
        /\ reservation'[k].expiresAt = reservation[k].expiresAt
        /\ reservation'[k].from = span.from /\ reservation'[k].until = span.until
    BY <1>8, <1>9, <1>10, <2>1, <2>2, MovedRowType
  <2>4. reservation[k] # NoRow /\ reservation'[k] # NoRow
    BY <2>1, <2>3 DEF NoRow
  <2>5. ~ReleasesCapacity(booking[b].status) /\ reservation[k].expiresAt = None
    BY <1>4, <2>1 DEF Inv, ReservationFollowsBooking, Follows
  <2>6. Follows(k)'
    BY <1>3, <1>6, <2>3, <2>5 DEF Follows
  <2>7. QED
    BY <2>1, <2>3, <2>4, <2>6 DEF Kept
\* The others are as the sweep left them.
<1>11. ASSUME NEW k \in Keys, ~OwnedBy(swept[k], b)
       PROVE  /\ Weakened(reservation[k], reservation'[k])
              /\ reservation'[k] = reservation[k] \/ Lapsed(reservation[k], r.now)
              /\ Kept(reservation[k], reservation'[k])
              /\ reservation'[k].status = "ACTIVE" =>
                     reservation'[k] = reservation[k] /\ reservation[k].booking # b
  <2>1. reservation'[k] = swept[k]
    BY <1>9, <1>11
  <2>2. QED
    BY <1>7, <1>11, <2>1 DEF Weakened, Kept, OwnedBy
<1>12. UsableHoldIsBacked'
  <2>1. ASSUME NEW h \in Holds, hold'[h].status = "ACTIVE", now' < hold'[h].expiresAt
        PROVE  Backed(h)'
    <3>1. hold[h].status = "ACTIVE" /\ h \in Keys
      BY <1>7, <2>1 DEF HoldWeakened, Keys
    <3>2. reservation[h].booking = None
      BY <3>1 DEF Inv, ActiveHoldIsUnadopted
    <3>3. ~OwnedBy(swept[h], b)
      BY <1>4, <1>10, <3>1, <3>2
    <3>4. QED
      BY <1>2, <1>7, <1>11, <2>1, <3>1, <3>3, SweepSparesUsableHolds
  <2>2. QED
    BY <2>1 DEF UsableHoldIsBacked
<1>13. ReservationsDisjoint(reservation)' /\ Finish(c)
  BY DEF CommitReschedule
<1>14. QED
  BY <1>1, <1>4, <1>5, <1>6, <1>7, <1>10, <1>11, <1>12, <1>13, RevisionPreserves

\* Cancelling or editing a booking that is still at the version that was read.
LEMMA CommitEditPreserves ==
    ASSUME Inv, NEW c \in Clients, CommitCancellation(c) \/ CommitUpdate(c)
    PROVE  Inv'
<1> DEFINE r == request[c]
<1>1. TypeOK /\ TypeOK' /\ Finish(c)
  BY CommitEditType DEF Inv, CommitCancellation, CommitUpdate
<1>2. r \in EditRequest /\ now' = now /\ hold' = hold
  BY <1>1, RequestType DEF CommitCancellation, CommitUpdate, Finish
<1>3. PICK b \in Bookings : b = r.booking
  BY <1>2 DEF EditRequest
<1>4. booking[b] \in BookingRow /\ r.to \in BookingStatuses \cup {None}
  BY <1>1, <1>2, <1>3
  DEF CommitCancellation, CommitUpdate, VersionMatches, TypeOK, EditRequest
<1>5. PICK status \in BookingStatuses :
          /\ \A a \in Bookings \ {b} : booking'[a] = booking[a]
          /\ booking'[b] = WithStatus(booking[b], status)
          /\ \/ reservation' = ReleasedReservations(b)
             \/ reservation' = reservation
          /\ ReleasesCapacity(status) => \/ reservation' = ReleasedReservations(b)
                                         \/ status = booking[b].status
  <2>1. CASE CommitCancellation(c)
    <3>1. "CANCELLED" \in BookingStatuses
      BY DEF BookingStatuses
    <3>2. /\ booking' = [booking EXCEPT ![b] = WithStatus(booking[b], "CANCELLED")]
          /\ reservation' = ReleasedReservations(b)
      BY <1>3, <2>1 DEF CommitCancellation
    <3>3. QED
      BY <1>1, <3>1, <3>2 DEF TypeOK
  <2>2. CASE CommitUpdate(c) /\ r.to = None
    <3>1. booking[b].status \in BookingStatuses
      BY <1>4 DEF BookingRow
    <3>2. ~ReleasesCapacity(None)
      BY IdentifierAssumption DEF ReleasesCapacity
    <3>3. /\ booking' = [booking EXCEPT ![b] = WithStatus(booking[b], booking[b].status)]
          /\ reservation' = reservation
      BY <1>3, <2>2, <3>2 DEF CommitUpdate
    <3>4. QED
      BY <1>1, <3>1, <3>3 DEF TypeOK
  <2>3. CASE CommitUpdate(c) /\ r.to # None
    <3>1. r.to \in BookingStatuses
      BY <1>4, <2>3
    <3>2. /\ booking' = [booking EXCEPT ![b] = WithStatus(booking[b], r.to)]
          /\ reservation' = IF ReleasesCapacity(r.to) THEN ReleasedReservations(b)
                                                      ELSE reservation
      BY <1>3, <2>3 DEF CommitUpdate
    <3>3. QED
      BY <1>1, <3>1, <3>2 DEF TypeOK
  <2>4. QED
    BY <2>1, <2>2, <2>3
<1>6. /\ booking'[b] \in BookingRow /\ booking'[b].hold = booking[b].hold
      /\ booking'[b].status = status /\ booking'[b].service = booking[b].service
      /\ booking'[b].start = booking[b].start /\ booking'[b].version > booking[b].version
  BY <1>4, <1>5, WithStatusType
<1>7. \A k \in Keys :
          /\ Weakened(reservation[k], reservation'[k])
          /\ reservation'[k] = reservation[k] \/ OwnedBy(reservation[k], b)
          /\ reservation' = ReleasedReservations(b) => ~OwnedBy(reservation'[k], b)
  <2> SUFFICES ASSUME NEW k \in Keys
               PROVE  /\ Weakened(reservation[k], reservation'[k])
                      /\ reservation'[k] = reservation[k] \/ OwnedBy(reservation[k], b)
                      /\ reservation' = ReleasedReservations(b) => ~OwnedBy(reservation'[k], b)
    OBVIOUS
  <2>1. CASE reservation' = ReleasedReservations(b) /\ OwnedBy(reservation[k], b)
    <3>1. reservation[k] \in ReservationRow /\ reservation'[k] = Released(reservation[k])
      BY <1>1, <2>1, ActiveRow DEF TypeOK, OwnedBy, ReleasedReservations
    <3>2. QED
      BY <2>1, <3>1, ReleasedIsWeakened, ReleasedType DEF OwnedBy
  <2>2. CASE reservation' = ReleasedReservations(b) /\ ~OwnedBy(reservation[k], b)
    BY <2>2, SameIsWeakened DEF ReleasedReservations
  <2>3. CASE reservation' = reservation /\ reservation' # ReleasedReservations(b)
    BY <2>3, SameIsWeakened
  <2>4. QED
    BY <1>5, <2>1, <2>2, <2>3
<1>8. ASSUME NEW k \in Keys, reservation'[k].status = "ACTIVE", reservation[k].booking = b
      PROVE  Follows(k)'
  <2>1. reservation'[k] = reservation[k] /\ reservation[k].status = "ACTIVE"
    BY <1>7, <1>8 DEF Weakened
  <2>2. Follows(k)
    BY <1>3, <1>8, <2>1, IdentifierAssumption DEF Inv, ReservationFollowsBooking
  <2>3. ~ReleasesCapacity(status)
    BY <1>5, <1>7, <1>8, <2>1, <2>2 DEF Follows, OwnedBy
  <2>4. QED
    BY <1>6, <1>8, <2>1, <2>2, <2>3 DEF Follows
<1>9. \A k \in Keys : /\ Kept(reservation[k], reservation'[k])
                      /\ reservation'[k].status = "ACTIVE" =>
                             \/ reservation'[k] = reservation[k] /\ reservation[k].booking # b
                             \/ reservation[k].booking = b /\ Follows(k)'
  BY <1>7, <1>8 DEF Weakened, Kept
<1>10. ReservationsDisjoint(reservation)'
  BY <1>7 DEF Inv, ReservationsDisjoint, Weakened
<1>11. UsableHoldIsBacked'
  <2>1. ASSUME NEW h \in Holds, hold[h].status = "ACTIVE", now < hold[h].expiresAt
        PROVE  Backed(h)'
    <3>1. Backed(h) /\ h \in Keys /\ b # None
      BY <2>1, IdentifierAssumption DEF Inv, UsableHoldIsBacked, Keys
    <3>2. reservation'[h] = reservation[h]
      BY <1>7, <3>1 DEF OwnedBy, Backed
    <3>3. QED
      BY <1>2, <3>1, <3>2 DEF Backed
  <2>2. QED
    BY <1>2, <2>1 DEF UsableHoldIsBacked
<1>12. \A h \in Holds : HoldWeakened(hold[h], hold'[h])
  BY <1>2, SameIsWeakened
<1>13. QED
  BY <1>1, <1>4, <1>5, <1>6, <1>9, <1>10, <1>11, <1>12, RevisionPreserves

\* Forgetting the hold a booking came from changes nothing else about it.
LEMMA UnlinkedType ==
    ASSUME NEW row \in BookingRow
    PROVE  LET unlinked == [row EXCEPT !.hold = None]
           IN  /\ unlinked \in BookingRow /\ unlinked.hold = None
               /\ unlinked.status = row.status /\ unlinked.version = row.version
               /\ unlinked.service = row.service /\ unlinked.start = row.start
BY DEF BookingRow

LEMMA RetentionBatchPreserves ==
    ASSUME Inv, RetentionBatch
    PROVE  Inv'
<1>1. TypeOK /\ TypeOK'
  BY WorkerType DEF Inv, Worker
<1>2. /\ now' = now /\ reservation' = reservation /\ request' = request
      /\ sweeping' = sweeping
  BY DEF RetentionBatch
<1>3. \A h \in Holds : /\ Stale(h) => hold'[h] = DeletedRow /\ hold[h] # NoRow
                       /\ ~Stale(h) => hold'[h] = hold[h]
  BY DEF RetentionBatch, Stale, HoldRow, NoRow, HoldStatuses
<1>4. \A h \in Holds : /\ hold'[h] \in HoldRow \/ hold'[h].status = "ACTIVE" =>
                              ~Stale(h) /\ hold'[h] = hold[h]
                       /\ hold'[h] = NoRow <=> hold[h] = NoRow
  BY <1>3 DEF HoldRow, HoldStatuses, DeletedRow, NoRow
<1>5. ASSUME NEW b \in Bookings, booking[b] \in BookingRow
      PROVE  /\ booking'[b] \in BookingRow
             /\ booking'[b].status = booking[b].status
             /\ booking'[b].version = booking[b].version
             /\ booking'[b].service = booking[b].service
             /\ booking'[b].start = booking[b].start
             /\ booking'[b].hold # None =>
                    booking'[b].hold = booking[b].hold /\ ~Stale(booking[b].hold)
  <2>1. CASE \E h \in Holds : Stale(h) /\ booking[b] # NoRow /\ booking[b].hold = h
    <3>1. booking'[b] = [booking[b] EXCEPT !.hold = None]
      BY <2>1 DEF RetentionBatch
    <3>2. QED
      BY <1>5, <3>1, UnlinkedType
  <2>2. CASE ~\E h \in Holds : Stale(h) /\ booking[b] # NoRow /\ booking[b].hold = h
    <3>1. booking'[b] = booking[b]
      BY <2>2 DEF RetentionBatch
    <3>2. booking[b] # NoRow /\ booking[b].hold \in Holds \cup {None}
      BY <1>5 DEF BookingRow, NoRow, BookingStatuses
    <3>3. QED
      BY <1>5, <2>2, <3>1, <3>2
  <2>3. QED
    BY <2>1, <2>2
<1>6. \A b \in Bookings : /\ booking[b] = NoRow => booking'[b] = NoRow
                          /\ booking'[b] \in BookingRow => booking[b] \in BookingRow
                          /\ booking[b] # NoRow => booking'[b] # NoRow
  <2>1. \A b \in Bookings : booking[b] = NoRow => booking'[b] = NoRow
    BY DEF RetentionBatch
  <2>2. NoRow \notin BookingRow
    BY DEF NoRow, BookingRow, BookingStatuses
  <2>3. QED
    BY <1>1, <1>5, <2>1, <2>2 DEF TypeOK
<1>7. ReservationsDisjoint(reservation)'
  BY <1>2 DEF Inv, ReservationsDisjoint
<1>8. ReservationsHaveOrigins'
  BY <1>2, <1>4, <1>6 DEF Inv, ReservationsHaveOrigins
<1>9. UnbookedReservationIsAHolds'
  <2>1. ASSUME NEW k \in Keys, reservation[k].status = "ACTIVE", reservation[k].booking = None
        PROVE  k \in Holds /\ hold'[k] \in HoldRow /\ Backed(k)'
    <3>1. k \in Holds /\ hold[k] \in HoldRow /\ Backed(k)
      BY <2>1 DEF Inv, UnbookedReservationIsAHolds
    <3>2. ~Stale(k)
      BY <2>1, <3>1 DEF RetentionBatch, Orphaning
    <3>3. QED
      BY <1>2, <1>3, <3>1, <3>2 DEF Backed
  <2>2. QED
    BY <1>2, <2>1 DEF UnbookedReservationIsAHolds
<1>10. BookedReservationStays'
  <2>1. \A k \in Keys : reservation[k] # NoRow /\ reservation[k].booking # None
            => reservation[k].booking \in Bookings
    BY <1>1 DEF TypeOK, ReservationRow
  <2>2. QED
    BY <1>2, <1>5, <2>1 DEF Inv, BookedReservationStays
<1>11. OneReservationPerBooking'
  BY <1>2 DEF Inv, OneReservationPerBooking
<1>12. ReservationFollowsBooking'
  <2>1. ASSUME NEW k \in Keys, reservation[k].status = "ACTIVE", reservation[k].booking # None
        PROVE  Follows(k)'
    <3>1. Follows(k) /\ reservation[k].booking \in Bookings
      BY <1>1, <2>1, ActiveRow DEF Inv, ReservationFollowsBooking, TypeOK, ReservationRow
    <3>2. QED
      BY <1>2, <1>5, <3>1 DEF Follows
  <2>2. QED
    BY <1>2, <2>1 DEF ReservationFollowsBooking
<1>13. ActiveHoldIsUnadopted'
  BY <1>2, <1>4 DEF Inv, ActiveHoldIsUnadopted
<1>14. BookingOwnsItsHoldsReservation'
  <2>1. ASSUME NEW b \in Bookings, booking'[b] \in BookingRow, booking'[b].hold # None
        PROVE  /\ hold'[booking'[b].hold] \in HoldRow
               /\ reservation[booking'[b].hold] \in ReservationRow
               /\ reservation[booking'[b].hold].booking = b
    <3>1. /\ booking[b] \in BookingRow /\ booking'[b].hold = booking[b].hold
          /\ ~Stale(booking[b].hold)
      BY <1>5, <1>6, <2>1
    <3>2. booking[b].hold \in Holds
      BY <2>1, <3>1 DEF BookingRow
    <3>3. QED
      BY <1>3, <2>1, <3>1, <3>2 DEF Inv, BookingOwnsItsHoldsReservation
  <2>2. QED
    BY <1>2, <2>1 DEF BookingOwnsItsHoldsReservation
<1>15. UsableHoldIsBacked'
  <2>1. UsableHoldIsBacked
    BY DEF Inv
  <2>2. QED
    BY <1>2, <1>4, <2>1 DEF UsableHoldIsBacked, Backed
<1>16. HoldsExpireSoon'
  BY <1>2, <1>4 DEF Inv, HoldsExpireSoon
<1>17. SweptHoldsAreReleased'
  BY <1>1, <1>2, <1>3 DEF Inv, SweptHoldsAreReleased, TypeOK, DeletedRow
<1>18. RequestsAreTrue'
  <2>1. ASSUME NEW c \in Clients, request[c].op \in {"reschedule", "cancel", "update"}
        PROVE  CopyIsTrue(request[c], booking'[request[c].booking])
    <3>1. request[c].booking \in Bookings
      BY <1>1, <2>1, RequestType DEF MoveRequest, EditRequest
    <3>2. CopyIsTrue(request[c], booking[request[c].booking])
      BY <2>1 DEF Inv, RequestsAreTrue
    <3>3. QED
      BY <1>5, <3>1, <3>2 DEF CopyIsTrue
  <2>2. QED
    BY <1>2, <2>1 DEF Inv, RequestsAreTrue
<1>19. QED
  BY <1>1, <1>7, <1>8, <1>9, <1>10, <1>11, <1>12, <1>13, <1>14, <1>15, <1>16, <1>17,
     <1>18 DEF Inv

\* Reading, giving up and the passing of time leave the tables alone.
LEMMA TablesUnchangedPreserves ==
    ASSUME Inv, TypeOK', UNCHANGED tables, now <= now', sweeping' \subseteq sweeping,
           RequestsAreTrue'
    PROVE  Inv'
<1>1. /\ hold' = hold /\ booking' = booking /\ reservation' = reservation
      /\ now \in Nat /\ now' \in Nat
  BY DEF tables, Inv, TypeOK
<1>2. UsableHoldIsBacked'
  <2>1. \A h \in Holds : hold[h].status = "ACTIVE" => hold[h].expiresAt \in Nat
    BY ActiveHold DEF Inv, TypeOK, HoldStatuses, HoldRow
  <2>2. UsableHoldIsBacked
    BY DEF Inv
  <2>3. QED
    BY <1>1, <2>1, <2>2 DEF UsableHoldIsBacked, Backed
<1>3. HoldsExpireSoon'
  <2>1. \A h \in Holds : hold[h] \in HoldRow => hold[h].expiresAt \in Nat
    BY DEF HoldRow
  <2>2. HoldsExpireSoon
    BY DEF Inv
  <2>3. QED
    BY <1>1, <2>1, <2>2, PolicyAssumption DEF HoldsExpireSoon
<1>4. /\ ReservationsDisjoint(reservation)' /\ ReservationsHaveOrigins'
      /\ OneReservationPerBooking' /\ BookedReservationStays'
  BY <1>1 DEF Inv, ReservationsDisjoint, ReservationsHaveOrigins, OneReservationPerBooking,
              BookedReservationStays
<1>5. UnbookedReservationIsAHolds' /\ ReservationFollowsBooking'
  BY <1>1 DEF Inv, UnbookedReservationIsAHolds, ReservationFollowsBooking, Backed, Follows
<1>6. ActiveHoldIsUnadopted' /\ BookingOwnsItsHoldsReservation' /\ SweptHoldsAreReleased'
  BY <1>1 DEF Inv, ActiveHoldIsUnadopted, BookingOwnsItsHoldsReservation, SweptHoldsAreReleased
<1>7. QED
  BY <1>2, <1>3, <1>4, <1>5, <1>6 DEF Inv

\* A handler that starts remembers the clock and the booking as they are.
LEMMA BeginPreserves ==
    ASSUME Inv, NEW c \in Clients, Begin(c)
    PROVE  Inv'
<1>1. TypeOK /\ TypeOK' /\ now \in Nat
  BY BeginType DEF Inv, TypeOK
<1>2. PICK r : /\ Start(c, r)
               /\ r.op \in {"createHold", "createBooking", "confirm", "reschedule"}
                      => r.now = now
               /\ r.op \in {"reschedule", "cancel", "update"}
                      => CopyIsTrue(r, booking[r.booking])
  <2>1. CASE \E s \in Services, start \in Starts :
                BeginHold(c, s, start) \/ BeginDirectBooking(c, s, start)
    BY <2>1 DEF BeginHold, BeginDirectBooking
  <2>2. CASE \E h \in Holds : BeginRelease(c, h) \/ BeginConfirm(c, h)
    BY <2>2 DEF BeginRelease, BeginConfirm
  <2>3. CASE \E b \in Bookings, start \in Starts : BeginReschedule(c, b, start)
    <3>1. PICK b \in Bookings, start \in Starts : BeginReschedule(c, b, start)
      BY <2>3
    <3>2. booking[b] \in BookingRow
      BY <1>1, <3>1 DEF TypeOK, BeginReschedule
    <3>3. ~Terminal(booking[b].status)
      BY <3>1 DEF BeginReschedule, Reschedulable, Cancellable
    <3>4. booking[b].version \in Nat
      BY <3>2 DEF BookingRow
    <3> DEFINE copy == [op |-> "reschedule", booking |-> b, version |-> booking[b].version,
                        previousStart |-> booking[b].start, start |-> start, now |-> now]
    <3>5. CopyIsTrue(copy, booking[copy.booking])
      BY <3>2, <3>3, <3>4 DEF CopyIsTrue
    <3>6. Start(c, copy)
      BY <3>1 DEF BeginReschedule
    <3>7. copy.op = "reschedule" /\ copy.now = now
      OBVIOUS
    <3>8. QED
      BY <3>5, <3>6, <3>7
  <2>4. CASE \E b \in Bookings : BeginCancellation(c, b)
    <3>1. PICK b \in Bookings : BeginCancellation(c, b)
      BY <2>4
    <3>2. booking[b] \in BookingRow /\ ~Terminal(booking[b].status)
      BY <1>1, <3>1 DEF TypeOK, BeginCancellation, Cancellable
    <3>3. booking[b].version \in Nat
      BY <3>2 DEF BookingRow
    <3> DEFINE copy == [op |-> "cancel", booking |-> b, version |-> booking[b].version,
                        seen |-> booking[b].status, to |-> "CANCELLED"]
    <3>4. CopyIsTrue(copy, booking[copy.booking])
      BY <3>2, <3>3 DEF CopyIsTrue
    <3>5. Start(c, copy) /\ copy.op = "cancel"
      BY <3>1 DEF BeginCancellation, BeginEdit
    <3>6. QED
      BY <3>4, <3>5
  <2>5. CASE \E b \in Bookings, to \in PatchStatuses : BeginUpdate(c, b, to)
    <3>1. PICK b \in Bookings, to \in PatchStatuses : BeginUpdate(c, b, to)
      BY <2>5
    <3>2. booking[b] \in BookingRow
      BY <1>1, <3>1 DEF TypeOK, BeginUpdate
    <3>3. booking[b].version \in Nat
      BY <3>2 DEF BookingRow
    <3> DEFINE copy == [op |-> "update", booking |-> b, version |-> booking[b].version,
                        seen |-> booking[b].status, to |-> to]
    <3>4. CopyIsTrue(copy, booking[copy.booking])
      BY <3>1, <3>2, <3>3 DEF BeginUpdate, CopyIsTrue
    <3>5. Start(c, copy) /\ copy.op = "update"
      BY <3>1 DEF BeginUpdate, BeginEdit
    <3>6. QED
      BY <3>4, <3>5
  <2>6. QED
    BY <2>1, <2>2, <2>3, <2>4, <2>5 DEF Begin
<1>3. /\ UNCHANGED tables /\ now' = now /\ sweeping' = sweeping /\ booking' = booking
      /\ request' = [request EXCEPT ![c] = r]
  BY <1>2 DEF Start, tables
<1>4. RequestsAreTrue'
  <2>1. ASSUME NEW d \in Clients
        PROVE  /\ request'[d].op \in {"createHold", "createBooking", "confirm", "reschedule"}
                      => request'[d].now <= now
               /\ request'[d].op \in {"reschedule", "cancel", "update"}
                      => CopyIsTrue(request'[d], booking[request'[d].booking])
    <3>1. CASE d = c
      BY <1>1, <1>2, <1>3, <3>1 DEF TypeOK
    <3>2. CASE d # c
      BY <1>1, <1>3, <3>2 DEF Inv, RequestsAreTrue, TypeOK
    <3>3. QED
      BY <3>1, <3>2
  <2>2. QED
    BY <1>3, <2>1 DEF RequestsAreTrue
<1>5. QED
  BY <1>1, <1>3, <1>4, TablesUnchangedPreserves

LEMMA TickPreserves ==
    ASSUME Inv, Tick
    PROVE  Inv'
<1>1. /\ TypeOK' /\ now \in Nat /\ now' = now + 1 /\ UNCHANGED tables
      /\ request' = request /\ sweeping' = sweeping /\ booking' = booking
  BY TypeStep DEF Inv, TypeOK, Tick, Next, tables
<1>2. \A c \in Clients :
          request[c].op \in {"createHold", "createBooking", "confirm", "reschedule"}
              => request[c].now \in Nat
  BY RequestType DEF Inv, ClaimRequest, ConfirmRequest, MoveRequest
<1>3. RequestsAreTrue'
  BY <1>1, <1>2 DEF Inv, RequestsAreTrue
<1>4. QED
  BY <1>1, <1>3, TablesUnchangedPreserves

LEMMA GiveUpPreserves ==
    ASSUME Inv, \/ \E c \in Clients : Abandon(c)
                \/ \E h \in Holds : SweeperCrash(h)
                \/ UNCHANGED vars
    PROVE  Inv'
<1>1. TypeOK' /\ now \in Nat
  BY TypeStep DEF Inv, TypeOK, Next, Worker
<1>2. /\ UNCHANGED tables /\ now' = now /\ booking' = booking /\ sweeping' \subseteq sweeping
  BY DEF Abandon, SweeperCrash, Finish, vars, tables
<1>3. CASE \E c \in Clients : Abandon(c)
  <2>1. RequestsAreTrue'
    BY <1>2, <1>3, RequestsStayTrue DEF Abandon
  <2>2. QED
    BY <1>1, <1>2, <2>1, TablesUnchangedPreserves
<1>4. CASE request' = request
  <2>1. RequestsAreTrue'
    BY <1>2, <1>4 DEF Inv, RequestsAreTrue
  <2>2. QED
    BY <1>1, <1>2, <2>1, TablesUnchangedPreserves
<1>5. QED
  BY <1>3, <1>4 DEF SweeperCrash, vars

LEMMA InvStep ==
    ASSUME Inv, [Next]_vars
    PROVE  Inv'
<1>1. ASSUME NEW c \in Clients, Commit(c)
      PROVE  Inv'
  BY <1>1, CommitHoldPreserves, CommitDirectBookingPreserves, CommitReleasePreserves,
     CommitConfirmPreserves, CommitReschedulePreserves, CommitEditPreserves DEF Commit
<1>2. CASE Worker
  BY <1>2, SweeperPreserves, RetentionBatchPreserves, GiveUpPreserves DEF Worker
<1>3. QED
  BY <1>1, <1>2, BeginPreserves, TickPreserves, GiveUpPreserves DEF Next

LEMMA InvInit ==
    ASSUME Init
    PROVE  Inv
<1>1. TypeOK
  BY DEF Init, TypeOK
<1>2. /\ \A k \in Keys : reservation[k] = NoRow
      /\ \A h \in Holds : hold[h] = NoRow
      /\ \A b \in Bookings : booking[b] = NoRow
      /\ \A c \in Clients : request[c] = Idle
  BY DEF Init
<1>3. /\ NoRow.status = "none" /\ NoRow \notin HoldRow /\ NoRow \notin BookingRow
      /\ Idle.op = "idle"
  BY DEF NoRow, HoldRow, BookingRow, HoldStatuses, BookingStatuses, Idle
<1>4. ReservationsDisjoint(reservation) /\ UnbookedReservationIsAHolds
      /\ ReservationFollowsBooking
  BY <1>2, <1>3 DEF ReservationsDisjoint, UnbookedReservationIsAHolds, ReservationFollowsBooking
<1>5. ReservationsHaveOrigins /\ BookedReservationStays /\ OneReservationPerBooking
  BY <1>2 DEF ReservationsHaveOrigins, BookedReservationStays, OneReservationPerBooking, Keys
<1>6. /\ ActiveHoldIsUnadopted /\ BookingOwnsItsHoldsReservation /\ UsableHoldIsBacked
      /\ HoldsExpireSoon
  BY <1>2, <1>3
  DEF ActiveHoldIsUnadopted, BookingOwnsItsHoldsReservation, UsableHoldIsBacked, HoldsExpireSoon
<1>7. SweptHoldsAreReleased /\ RequestsAreTrue
  BY <1>2, <1>3 DEF Init, SweptHoldsAreReleased, RequestsAreTrue
<1>8. QED
  BY <1>1, <1>4, <1>5, <1>6, <1>7 DEF Inv

\* The three tables and the requests in flight always agree.
THEOREM TablesAgree == Spec => []Inv
<1>1. Init => Inv
  BY InvInit
<1>2. Inv /\ [Next]_vars => Inv'
  BY InvStep
<1>3. QED
  BY <1>1, <1>2, PTL DEF Spec

(***************************************************************************)
(* What the service promises, for every catalogue and any number of users. *)
(***************************************************************************)
\* A booking's active reservation is exactly its time, in every run.
THEOREM ReservationsFollowTheirBookings == Spec => []ReservationFollowsBooking
<1>1. Inv => ReservationFollowsBooking
  BY DEF Inv
<1>2. QED
  BY <1>1, TablesAgree, PTL

\* Every hold that is usable has its time reserved, in every run.
THEOREM UsableHoldsAreBacked == Spec => []UsableHoldIsBacked
<1>1. Inv => UsableHoldIsBacked
  BY DEF Inv
<1>2. QED
  BY <1>1, TablesAgree, PTL

\* One hold never becomes two bookings.
THEOREM HoldsBecomeOneBooking == Spec => []OneBookingPerHold
<1>1. ASSUME Inv, NEW a \in Bookings, NEW b \in Bookings,
             booking[a] # NoRow, booking[b] # NoRow,
             booking[a].hold # None, booking[a].hold = booking[b].hold
      PROVE  a = b
  <2>1. booking[a] \in BookingRow /\ booking[b] \in BookingRow
    BY <1>1 DEF Inv, TypeOK
  <2>2. /\ reservation[booking[a].hold].booking = a
        /\ reservation[booking[b].hold].booking = b
    BY <1>1, <2>1 DEF Inv, BookingOwnsItsHoldsReservation
  <2>3. QED
    BY <1>1, <2>2
<1>2. Inv => OneBookingPerHold
  BY <1>1 DEF OneBookingPerHold
<1>3. QED
  BY <1>2, TablesAgree, PTL

\* Time nobody has booked is never blocked for longer than a hold lasts.
THEOREM NoSlotLeaks == Spec => []NoLeakedSlot
<1>1. ASSUME Inv, NEW k \in Keys, reservation[k].status = "ACTIVE", reservation[k].booking = None
      PROVE  /\ k \in Holds /\ hold[k] \in HoldRow
             /\ reservation[k].expiresAt # None
             /\ reservation[k].expiresAt <= now + HoldTtl
  <2>1. k \in Holds /\ hold[k] \in HoldRow /\ Backed(k)
    BY <1>1 DEF Inv, UnbookedReservationIsAHolds
  <2>2. hold[k].expiresAt \in Nat /\ hold[k].expiresAt <= now + HoldTtl
    BY <1>1, <2>1 DEF Inv, HoldsExpireSoon, HoldRow
  <2>3. QED
    BY <2>1, <2>2, IdentifierAssumption DEF Backed
<1>2. Inv => NoLeakedSlot
  BY <1>1 DEF NoLeakedSlot
<1>3. QED
  BY <1>2, TablesAgree, PTL

\* What the search offers, the exclusion constraint accepts.
THEOREM OfferedSlotsAreClaimable == Spec => []OfferedSlotIsClaimable
<1>1. ASSUME TypeOK, NEW k \in Keys, SweptReservations(now)[k].status = "ACTIVE"
      PROVE  Busy(reservation[k], now) /\ SweptReservations(now)[k] = reservation[k]
  <2>1. SweptReservations(now)[k] = reservation[k] /\ ~Lapsed(reservation[k], now)
    BY <1>1, SweepWeakens, ActiveRow, ReleasedType
    DEF Weakened, SweptReservations, Lapsed, TypeOK
  <2>2. reservation[k] \in ReservationRow /\ now \in Nat
    BY <1>1, <2>1, ActiveRow DEF TypeOK
  <2>3. QED
    BY <1>1, <2>1, <2>2 DEF Busy, Lapsed, ReservationRow
<1>2. TypeOK => OfferedSlotIsClaimable
  BY <1>1 DEF OfferedSlotIsClaimable, Offered
<1>3. QED
  BY <1>2, TypeCorrect, PTL

\* What one step may do to a booking: leave its status and time alone, give a
\* booking that has not ended another status, or move one that has not ended and
\* announce where it was.
LEMMA BookingStep ==
    ASSUME Inv, Next, NEW b \in Bookings, booking[b] # NoRow
    PROVE  \/ booking'[b].status = booking[b].status /\ booking'[b].start = booking[b].start
           \/ ~Terminal(booking[b].status) /\ booking'[b].start = booking[b].start
           \/ /\ ~Terminal(booking[b].status)
              /\ outbox'[b] = Append(outbox[b], [type |-> "RESCHEDULED",
                                                 previousStart |-> booking[b].start])
<1>1. TypeOK /\ booking[b] \in BookingRow
  BY DEF Inv, TypeOK
<1>2. CASE booking' = booking
  BY <1>2
<1>3. ASSUME NEW c \in Clients, NEW a \in Bookings,
             CommitDirectBooking(c, a) \/ CommitConfirm(c, a)
      PROVE  booking'[b] = booking[b]
  BY <1>1, <1>3 DEF CommitDirectBooking, CommitConfirm, TypeOK
<1>4. ASSUME NEW c \in Clients, CommitReschedule(c), request[c].booking = b
      PROVE  /\ ~Terminal(booking[b].status)
             /\ outbox'[b] = Append(outbox[b], [type |-> "RESCHEDULED",
                                                previousStart |-> booking[b].start])
  <2>1. request[c].op = "reschedule" /\ request[c].version = booking[b].version
    BY <1>4 DEF CommitReschedule, VersionMatches
  <2>2. request[c].previousStart = booking[b].start /\ ~Terminal(booking[b].status)
    BY <1>4, <2>1 DEF Inv, RequestsAreTrue, CopyIsTrue
  <2>3. Announce(b, "RESCHEDULED", booking[b].start)
    BY <1>4, <2>2 DEF CommitReschedule
  <2>4. QED
    BY <1>1, <2>2, <2>3 DEF Announce, TypeOK
<1>5. ASSUME NEW c \in Clients, CommitReschedule(c), request[c].booking # b
      PROVE  booking'[b] = booking[b]
  BY <1>1, <1>5 DEF CommitReschedule, TypeOK
<1>6. ASSUME NEW c \in Clients, CommitCancellation(c) \/ CommitUpdate(c),
             request[c].booking # b
      PROVE  booking'[b] = booking[b]
  BY <1>1, <1>6 DEF CommitCancellation, CommitUpdate, TypeOK
<1>7. ASSUME NEW c \in Clients, CommitCancellation(c) \/ CommitUpdate(c),
             request[c].booking = b
      PROVE  /\ booking'[b].start = booking[b].start
             /\ booking'[b].status = booking[b].status \/ ~Terminal(booking[b].status)
  <2>1. request[c] \in EditRequest /\ request[c].version = booking[b].version
    BY <1>1, <1>7, RequestType DEF CommitCancellation, CommitUpdate, VersionMatches
  <2>2. /\ request[c].op = "cancel" => ~Terminal(booking[b].status)
        /\ request[c].op = "update" /\ request[c].to # None =>
               request[c].to \in LegalTransitions(booking[b].status)
    BY <1>7, <2>1 DEF Inv, RequestsAreTrue, CopyIsTrue, EditRequest
  <2>3. CASE CommitCancellation(c)
    <3>1. booking'[b] = WithStatus(booking[b], "CANCELLED")
      BY <1>1, <1>7, <2>3 DEF CommitCancellation, TypeOK
    <3>2. QED
      BY <1>1, <2>2, <2>3, <3>1, WithStatusType DEF CommitCancellation, BookingStatuses
  <2>4. CASE CommitUpdate(c)
    <3>1. PICK status \in BookingStatuses :
              /\ booking'[b] = WithStatus(booking[b], status)
              /\ request[c].to = None => status = booking[b].status
              /\ request[c].to # None => status = request[c].to
      <4>1. booking[b].status \in BookingStatuses /\ request[c].to \in BookingStatuses \cup {None}
        BY <1>1, <2>1 DEF BookingRow, EditRequest
      <4>2. QED
        BY <1>1, <1>7, <2>4, <4>1 DEF CommitUpdate, TypeOK
    <3>2. booking'[b].start = booking[b].start /\ booking'[b].status = status
      BY <1>1, <3>1, WithStatusType
    <3>3. CASE request[c].to = None
      BY <3>1, <3>2, <3>3
    <3>4. CASE request[c].to # None
      <4>1. request[c].to \in LegalTransitions(booking[b].status)
        BY <2>2, <2>4, <3>4 DEF CommitUpdate
      <4>2. ~Terminal(booking[b].status)
        BY <4>1 DEF Terminal
      <4>3. QED
        BY <3>2, <4>2
    <3>5. QED
      BY <3>3, <3>4
  <2>5. QED
    BY <1>7, <2>3, <2>4
<1>8. CASE RetentionBatch
  <2>1. \/ booking'[b] = booking[b]
        \/ booking'[b] = [booking[b] EXCEPT !.hold = None]
    BY <1>8 DEF RetentionBatch
  <2>2. QED
    BY <1>1, <2>1, UnlinkedType
<1>9. ASSUME NEW c \in Clients, Commit(c)
      PROVE  \/ booking' = booking
             \/ \E a \in Bookings : CommitDirectBooking(c, a) \/ CommitConfirm(c, a)
             \/ CommitReschedule(c)
             \/ CommitCancellation(c) \/ CommitUpdate(c)
  BY <1>9 DEF Commit, CommitHold, CommitRelease
<1>10. \/ booking' = booking
       \/ \E c \in Clients : Commit(c)
       \/ RetentionBatch
  BY DEF Next, Worker, Begin, BeginHold, BeginDirectBooking, BeginRelease, BeginConfirm,
         BeginReschedule, BeginCancellation, BeginUpdate, BeginEdit, Start, Abandon,
         SweepHold, SweepReservation, SweeperCrash, Tick, tables
<1>11. QED
  BY <1>2, <1>3, <1>4, <1>5, <1>6, <1>7, <1>8, <1>9, <1>10

\* A booking that has ended is never revived or moved.
THEOREM EndedBookingsStayEnded == Spec => TerminalIsFinal
<1>1. ASSUME Inv, Next, NEW b \in Bookings, booking[b] # NoRow, Ended(booking[b].status)
      PROVE  booking'[b].status = booking[b].status /\ booking'[b].start = booking[b].start
  <2>1. Terminal(booking[b].status)
    BY <1>1 DEF Ended, Terminal, LegalTransitions
  <2>2. QED
    BY <1>1, <2>1, BookingStep
<1>2. Inv /\ [Next]_vars =>
          [\A b \in Bookings :
              booking[b] # NoRow /\ Ended(booking[b].status) =>
                  /\ booking'[b].status = booking[b].status
                  /\ booking'[b].start = booking[b].start]_vars
  BY <1>1
<1>3. QED
  BY <1>2, TablesAgree, PTL DEF Spec, TerminalIsFinal

\* The message about a moved booking names the time it really had.
THEOREM MovesAreAnnouncedTruly == Spec => PreviousStartIsTrue
<1>1. ASSUME Inv, Next, NEW b \in Bookings, booking[b] # NoRow,
             booking'[b].start # booking[b].start
      PROVE  /\ Len(outbox'[b]) = Len(outbox[b]) + 1
             /\ outbox'[b][Len(outbox'[b])] =
                    [type |-> "RESCHEDULED", previousStart |-> booking[b].start]
  <2>1. booking[b] \in BookingRow /\ outbox[b] \in Seq(Event)
    BY <1>1 DEF Inv, TypeOK
  <2>2. outbox'[b] = Append(outbox[b], [type |-> "RESCHEDULED",
                                        previousStart |-> booking[b].start])
    BY <1>1, BookingStep
  <2>3. [type |-> "RESCHEDULED", previousStart |-> booking[b].start] \in Event
    BY <2>1 DEF Event, EventTypes, BookingRow
  <2>4. QED
    BY <2>1, <2>2, <2>3
<1>2. Inv /\ [Next]_vars =>
          [\A b \in Bookings :
              booking[b] # NoRow /\ booking'[b].start # booking[b].start =>
                  /\ Len(outbox'[b]) = Len(outbox[b]) + 1
                  /\ outbox'[b][Len(outbox'[b])] =
                         [type |-> "RESCHEDULED", previousStart |-> booking[b].start]]_vars
  BY <1>1
<1>3. QED
  BY <1>2, TablesAgree, PTL DEF Spec, PreviousStartIsTrue

(***************************************************************************)
(* The messages tell the booking's story.                                  *)
(***************************************************************************)
\* A PATCH neither cancels a booking nor lets it expire.
PatchesAreEdits ==
    \A c \in Clients : request[c].op = "update" => request[c].to \in PatchStatuses

\* What the property says of one booking, of its row and its messages.
Told(type, log) == {i \in DOMAIN log : log[i].type = type}

Tells(row, log) ==
    /\ row = NoRow <=> log = <<>>
    /\ row # NoRow =>
        /\ Told("REQUESTED", log) \subseteq {1}
        /\ log[1].type \in {"REQUESTED", "CONFIRMED"}
        /\ \A i, j \in Told("CONFIRMED", log) : i = j
        /\ row.status = "PENDING" => Told("CONFIRMED", log) = {}
        /\ row.status \in {"CONFIRMED", "COMPLETED", "NO_SHOW"} => Told("CONFIRMED", log) # {}
        /\ Told("CANCELLED", log) = IF row.status = "CANCELLED" THEN {Len(log)} ELSE {}

Message(type, previous) == [type |-> type, previousStart |-> previous]

\* One more message adds itself to those of its type, and is the first only if there
\* was none.
LEMMA OneMoreMessage ==
    ASSUME NEW log \in Seq(Event), NEW e \in Event
    PROVE  LET more == Append(log, e)
           IN  /\ more # <<>> /\ Len(more) = Len(log) + 1
               /\ \A type : Told(type, more) = IF e.type = type
                                               THEN Told(type, log) \cup {Len(more)}
                                               ELSE Told(type, log)
               /\ more[1] = IF log = <<>> THEN e ELSE log[1]
               /\ log = <<>> => Len(more) = 1
               /\ \A type : Told(type, log) \subseteq 1..Len(log)
<1> DEFINE more == Append(log, e)
<1>1. /\ Len(log) \in Nat /\ Len(more) = Len(log) + 1
      /\ DOMAIN log = 1..Len(log) /\ DOMAIN more = 1..(Len(log) + 1)
      /\ \A i \in 1..Len(log) : more[i] = log[i]
      /\ more[Len(log) + 1] = e
  OBVIOUS
<1>2. ASSUME NEW type
      PROVE  Told(type, more) = IF e.type = type THEN Told(type, log) \cup {Len(more)}
                                                 ELSE Told(type, log)
  <2>1. ASSUME NEW i
        PROVE  i \in Told(type, more) <=>
                   i \in Told(type, log) \/ (i = Len(log) + 1 /\ e.type = type)
    <3>1. i \in DOMAIN more <=> i \in DOMAIN log \/ i = Len(log) + 1
      BY <1>1
    <3>2. CASE i = Len(log) + 1
      BY <1>1, <3>1, <3>2 DEF Told
    <3>3. CASE i # Len(log) + 1
      <4>1. i \in DOMAIN log => more[i] = log[i]
        BY <1>1
      <4>2. /\ i \in Told(type, log) <=> i \in DOMAIN log /\ log[i].type = type
            /\ i \in Told(type, more) <=> i \in DOMAIN more /\ more[i].type = type
        BY DEF Told
      <4>3. QED
        BY <3>1, <3>3, <4>1, <4>2
    <3>4. QED
      BY <3>2, <3>3
  <2>2. CASE e.type = type
    BY <1>1, <2>1, <2>2
  <2>3. CASE e.type # type
    <3>1. \A i : i \in Told(type, more) <=> i \in Told(type, log)
      BY <2>1, <2>3
    <3>2. Told(type, more) = Told(type, log)
      BY <3>1
    <3>3. QED
      BY <2>3, <3>2
  <2>4. QED
    BY <2>2, <2>3
<1>3. log = <<>> <=> Len(log) = 0
  OBVIOUS
<1>4. more # <<>> /\ more[1] = IF log = <<>> THEN e ELSE log[1]
  <2>1. CASE Len(log) = 0
    BY <1>1, <1>3, <2>1
  <2>2. CASE Len(log) # 0
    <3>1. 1 \in 1..Len(log)
      BY <1>1, <2>2
    <3>2. QED
      BY <1>1, <1>3, <2>2, <3>1
  <2>3. QED
    BY <2>1, <2>2
<1>5. QED
  BY <1>1, <1>2, <1>3, <1>4 DEF Told

\* What one step may do to a booking and its messages.
AnnouncedStep(b) ==
    \/ booking'[b] = booking[b] /\ outbox'[b] = outbox[b]
    \/ /\ booking[b] # NoRow /\ booking'[b] # NoRow
       /\ \/ /\ booking'[b].status = booking[b].status
             /\ outbox'[b] = outbox[b]
          \/ /\ booking[b].status = "CONFIRMED" /\ booking'[b].status \in {"COMPLETED", "NO_SHOW"}
             /\ outbox'[b] = outbox[b]
          \/ /\ booking[b].status = "PENDING" /\ booking'[b].status = "CONFIRMED"
             /\ outbox'[b] = Append(outbox[b], Message("CONFIRMED", None))
          \/ /\ booking[b].status \in {"PENDING", "CONFIRMED"}
             /\ booking'[b].status = "CANCELLED"
             /\ outbox'[b] = Append(outbox[b], Message("CANCELLED", None))
          \/ /\ booking[b].status \in {"PENDING", "CONFIRMED"}
             /\ booking'[b].status = booking[b].status
             /\ \E start \in Starts :
                   outbox'[b] = Append(outbox[b], Message("RESCHEDULED", start))
    \/ /\ booking[b] = NoRow /\ booking'[b] # NoRow
       /\ \/ /\ booking'[b].status = "CONFIRMED"
             /\ outbox'[b] = Append(outbox[b], Message("CONFIRMED", None))
          \/ /\ booking'[b].status = "PENDING"
             /\ outbox'[b] = Append(outbox[b], Message("REQUESTED", None))

LEMMA MessageType ==
    ASSUME NEW type \in EventTypes, NEW previous \in Starts \cup {None}
    PROVE  Message(type, previous) \in Event /\ Message(type, previous).type = type
BY DEF Message, Event

\* Each of those keeps the story straight.
LEMMA StoryGoesOn ==
    ASSUME NEW row, NEW next, NEW log \in Seq(Event), NEW more, Tells(row, log),
           row \in BookingRow \cup {NoRow}, next \in BookingRow \cup {NoRow},
           \/ next = row /\ more = log
           \/ /\ row # NoRow /\ next # NoRow
              /\ \/ next.status = row.status /\ more = log
                 \/ /\ row.status = "CONFIRMED" /\ next.status \in {"COMPLETED", "NO_SHOW"}
                    /\ more = log
                 \/ /\ row.status = "PENDING" /\ next.status = "CONFIRMED"
                    /\ more = Append(log, Message("CONFIRMED", None))
                 \/ /\ row.status \in {"PENDING", "CONFIRMED"} /\ next.status = "CANCELLED"
                    /\ more = Append(log, Message("CANCELLED", None))
                 \/ /\ row.status \in {"PENDING", "CONFIRMED"} /\ next.status = row.status
                    /\ \E start \in Starts : more = Append(log, Message("RESCHEDULED", start))
           \/ /\ row = NoRow /\ next # NoRow
              /\ \/ next.status = "CONFIRMED" /\ more = Append(log, Message("CONFIRMED", None))
                 \/ next.status = "PENDING" /\ more = Append(log, Message("REQUESTED", None))
    PROVE  Tells(next, more)
<1>1. CASE more = log
  BY <1>1 DEF Tells
<1>2. ASSUME NEW type \in EventTypes, NEW previous \in Starts \cup {None},
             more = Append(log, Message(type, previous))
      PROVE  /\ more # <<>> /\ Len(more) = Len(log) + 1
             /\ \A t : Told(t, more) = IF type = t THEN Told(t, log) \cup {Len(more)}
                                                   ELSE Told(t, log)
             /\ log # <<>> => more[1] = log[1]
             /\ log = <<>> => more[1].type = type /\ Len(more) = 1
  BY <1>2, MessageType, OneMoreMessage
<1>3. log = <<>> => \A t : Told(t, log) = {}
  BY DEF Told
<1>4. /\ None \in Starts \cup {None}
      /\ {"REQUESTED", "CONFIRMED", "RESCHEDULED", "CANCELLED"} = EventTypes
  BY DEF EventTypes
<1>5. CASE row.status = "PENDING" /\ next.status = "CONFIRMED" /\ row # NoRow /\ next # NoRow
           /\ more = Append(log, Message("CONFIRMED", None))
  BY <1>2, <1>4, <1>5 DEF Tells
<1>6. CASE row.status \in {"PENDING", "CONFIRMED"} /\ next.status = "CANCELLED"
           /\ row # NoRow /\ next # NoRow
           /\ more = Append(log, Message("CANCELLED", None))
  BY <1>2, <1>4, <1>6 DEF Tells
<1>7. CASE row.status \in {"PENDING", "CONFIRMED"} /\ next.status = row.status
           /\ row # NoRow /\ next # NoRow
           /\ \E start \in Starts : more = Append(log, Message("RESCHEDULED", start))
  BY <1>2, <1>4, <1>7 DEF Tells
<1>8. CASE row = NoRow /\ next # NoRow
           /\ next.status = "CONFIRMED" /\ more = Append(log, Message("CONFIRMED", None))
  BY <1>2, <1>3, <1>4, <1>8 DEF Tells
<1>9. CASE row = NoRow /\ next # NoRow
           /\ next.status = "PENDING" /\ more = Append(log, Message("REQUESTED", None))
  BY <1>2, <1>3, <1>4, <1>9 DEF Tells
<1>10. QED
  BY <1>1, <1>5, <1>6, <1>7, <1>8, <1>9

\* A step leaves a booking that no request is about, and its messages, alone.
LEMMA BookingTold ==
    ASSUME Inv, PatchesAreEdits, Next, NEW b \in Bookings
    PROVE  AnnouncedStep(b)
<1>1. /\ TypeOK /\ booking[b] \in BookingRow \cup {NoRow}
      /\ b \in DOMAIN booking /\ b \in DOMAIN outbox
      /\ booking \in [Bookings -> BookingRow \cup {NoRow}]
      /\ outbox \in [Bookings -> Seq(Event)]
  BY DEF Inv, TypeOK
<1>2. CASE booking' = booking /\ outbox' = outbox
  BY <1>2 DEF AnnouncedStep
<1>3. ASSUME NEW c \in Clients, NEW a \in Bookings,
             CommitDirectBooking(c, a) \/ CommitConfirm(c, a)
      PROVE  AnnouncedStep(b)
  <2>1. CASE a # b
    <3>1. booking'[b] = booking[b] /\ outbox'[b] = outbox[b]
      BY <1>1, <1>3, <2>1 DEF CommitDirectBooking, CommitConfirm, Announce
    <3>2. QED
      BY <3>1 DEF AnnouncedStep
  <2>2. CASE a = b
    <3>1. booking[b] = NoRow
      BY <1>3, <2>2 DEF CommitDirectBooking, CommitConfirm
    <3>2. PICK status \in {"PENDING", "CONFIRMED"} :
              /\ \E s, start, h : booking'[b] = NewBooking(status, s, start, h)
              /\ outbox'[b] = Append(outbox[b],
                     Message(IF status = "PENDING" THEN "REQUESTED" ELSE "CONFIRMED", None))
      <4>1. CASE CommitDirectBooking(c, b)
        BY <1>1, <4>1 DEF CommitDirectBooking, Announce, Message
      <4>2. CASE CommitConfirm(c, b)
        BY <1>1, <4>2 DEF CommitConfirm, Announce, Message, InitialStatus
      <4>3. QED
        BY <1>3, <2>2, <4>1, <4>2
    <3>3. booking'[b] # NoRow /\ booking'[b].status = status
      BY <3>2 DEF NewBooking, NoRow
    <3>4. QED
      BY <3>1, <3>2, <3>3 DEF AnnouncedStep
  <2>3. QED
    BY <2>1, <2>2
<1>4. ASSUME NEW c \in Clients, CommitReschedule(c)
      PROVE  AnnouncedStep(b)
  <2>1. CASE request[c].booking # b
    <3>1. booking'[b] = booking[b] /\ outbox'[b] = outbox[b]
      BY <1>1, <1>4, <2>1 DEF CommitReschedule, Announce
    <3>2. QED
      BY <3>1 DEF AnnouncedStep
  <2>2. CASE request[c].booking = b
    <3>1. /\ request[c] \in MoveRequest /\ request[c].version = booking[b].version
          /\ booking[b] # NoRow /\ booking[b] \in BookingRow
      BY <1>1, <1>4, <2>2, RequestType DEF CommitReschedule, VersionMatches
    <3>2. ~Terminal(booking[b].status)
      BY <1>4, <2>2, <3>1 DEF Inv, RequestsAreTrue, CopyIsTrue, CommitReschedule
    <3>3. booking[b].status \in {"PENDING", "CONFIRMED"}
      BY <3>2 DEF Terminal, LegalTransitions
    <3>4. /\ booking'[b] = Rescheduled(booking[b], request[c].start)
          /\ outbox'[b] = Append(outbox[b], Message("RESCHEDULED", request[c].previousStart))
      BY <1>1, <1>4, <2>2 DEF CommitReschedule, Announce, Message
    <3>5. /\ booking'[b].status = booking[b].status /\ booking'[b] \in BookingRow
          /\ request[c].previousStart \in Starts
      BY <3>1, <3>4, RescheduledType DEF MoveRequest
    <3>6. booking'[b] # NoRow
      BY <3>5 DEF NoRow, BookingRow
    <3>7. QED
      BY <3>1, <3>3, <3>4, <3>5, <3>6 DEF AnnouncedStep
  <2>3. QED
    BY <2>1, <2>2
<1>5. ASSUME NEW c \in Clients, CommitCancellation(c) \/ CommitUpdate(c)
      PROVE  AnnouncedStep(b)
  <2>1. CASE request[c].booking # b
    <3>1. booking'[b] = booking[b] /\ outbox'[b] = outbox[b]
      BY <1>1, <1>5, <2>1 DEF CommitCancellation, CommitUpdate, Announce
    <3>2. QED
      BY <3>1 DEF AnnouncedStep
  <2>2. CASE request[c].booking = b /\ CommitCancellation(c)
    <3>1. /\ request[c].version = booking[b].version
          /\ booking[b] # NoRow /\ booking[b] \in BookingRow
      BY <1>1, <2>2 DEF CommitCancellation, VersionMatches
    <3>2. ~Terminal(booking[b].status)
      BY <2>2, <3>1 DEF Inv, RequestsAreTrue, CopyIsTrue, CommitCancellation
    <3>3. booking[b].status \in {"PENDING", "CONFIRMED"}
      BY <3>2 DEF Terminal, LegalTransitions
    <3>4. /\ booking'[b] = WithStatus(booking[b], "CANCELLED")
          /\ outbox'[b] = Append(outbox[b], Message("CANCELLED", None))
      BY <1>1, <2>2 DEF CommitCancellation, Announce, Message
    <3>5. booking'[b].status = "CANCELLED" /\ booking'[b] \in BookingRow
      BY <3>1, <3>4, WithStatusType DEF BookingStatuses
    <3>6. booking'[b] # NoRow
      BY <3>5 DEF NoRow, BookingRow
    <3>7. QED
      BY <3>1, <3>3, <3>4, <3>5, <3>6 DEF AnnouncedStep
  <2>3. CASE request[c].booking = b /\ CommitUpdate(c)
    <3> DEFINE r == request[c]
               status == IF r.to = None THEN booking[b].status ELSE r.to
    <3>1. /\ r.version = booking[b].version /\ r.to \in PatchStatuses
          /\ booking[b] # NoRow /\ booking[b] \in BookingRow
      BY <1>1, <2>3 DEF CommitUpdate, VersionMatches, PatchesAreEdits
    <3>2. /\ r.seen = booking[b].status
          /\ r.to # None => r.to \in LegalTransitions(booking[b].status)
      BY <2>3, <3>1 DEF Inv, RequestsAreTrue, CopyIsTrue, CommitUpdate
    <3>3. /\ booking'[b] = WithStatus(booking[b], status)
          /\ outbox'[b] = IF r.seen = "PENDING" /\ r.to = "CONFIRMED"
                          THEN Append(outbox[b], Message("CONFIRMED", None)) ELSE outbox[b]
      BY <1>1, <2>3 DEF CommitUpdate, Announce, Message
    <3>4. status \in BookingStatuses
      BY <3>1 DEF PatchStatuses, BookingStatuses, BookingRow
    <3>5. booking'[b].status = status /\ booking'[b] \in BookingRow
      BY <3>1, <3>3, <3>4, WithStatusType
    <3>6. booking'[b] # NoRow
      BY <3>5 DEF NoRow, BookingRow
    <3>7. CASE r.to = None
      BY <3>1, <3>3, <3>5, <3>6, <3>7, IdentifierAssumption DEF AnnouncedStep
    <3>8. CASE r.to = "CONFIRMED" /\ r.to # None
      <4>1. booking[b].status = "PENDING"
        BY <3>2, <3>8 DEF LegalTransitions
      <4>2. QED
        BY <3>1, <3>2, <3>3, <3>5, <3>6, <3>8, <4>1 DEF AnnouncedStep
    <3>9. CASE r.to \in {"COMPLETED", "NO_SHOW"} /\ r.to # None
      <4>1. booking[b].status = "CONFIRMED"
        BY <3>2, <3>9 DEF LegalTransitions
      <4>2. QED
        BY <3>1, <3>2, <3>3, <3>5, <3>6, <3>9, <4>1 DEF AnnouncedStep
    <3>10. QED
      BY <3>1, <3>7, <3>8, <3>9 DEF PatchStatuses
  <2>4. QED
    BY <1>5, <2>1, <2>2, <2>3
<1>6. CASE RetentionBatch
  <2>1. /\ outbox' = outbox
        /\ \/ booking'[b] = booking[b]
           \/ booking[b] # NoRow /\ booking'[b] = [booking[b] EXCEPT !.hold = None]
    BY <1>6 DEF RetentionBatch
  <2>2. CASE booking'[b] = booking[b]
    BY <2>1, <2>2 DEF AnnouncedStep
  <2>3. CASE booking[b] # NoRow /\ booking'[b] = [booking[b] EXCEPT !.hold = None]
    <3>1. booking'[b] \in BookingRow /\ booking'[b].status = booking[b].status
      BY <1>1, <2>3, UnlinkedType
    <3>2. booking'[b] # NoRow
      BY <3>1 DEF NoRow, BookingRow
    <3>3. QED
      BY <2>1, <2>3, <3>1, <3>2 DEF AnnouncedStep
  <2>4. QED
    BY <2>1, <2>2, <2>3
<1>7. ASSUME NEW c \in Clients, Commit(c)
      PROVE  \/ booking' = booking /\ outbox' = outbox
             \/ \E a \in Bookings : CommitDirectBooking(c, a) \/ CommitConfirm(c, a)
             \/ CommitReschedule(c)
             \/ CommitCancellation(c) \/ CommitUpdate(c)
  BY <1>7 DEF Commit, CommitHold, CommitRelease
<1>8. \/ booking' = booking /\ outbox' = outbox
      \/ \E c \in Clients : Commit(c)
      \/ RetentionBatch
  BY DEF Next, Worker, Begin, BeginHold, BeginDirectBooking, BeginRelease, BeginConfirm,
         BeginReschedule, BeginCancellation, BeginUpdate, BeginEdit, Start, Abandon,
         SweepHold, SweepReservation, SweeperCrash, Tick, tables
<1>9. QED
  BY <1>2, <1>3, <1>4, <1>5, <1>6, <1>7, <1>8

LEMMA PatchesStayEdits ==
    ASSUME TypeOK, PatchesAreEdits, [Next]_vars
    PROVE  PatchesAreEdits'
<1>1. ASSUME NEW c \in Clients, NEW r, request' = [request EXCEPT ![c] = r],
             r.op = "update" => r.to \in PatchStatuses
      PROVE  PatchesAreEdits'
  BY <1>1 DEF PatchesAreEdits, TypeOK, PatchStatuses
<1>2. ASSUME NEW c \in Clients, Begin(c)
      PROVE  PatchesAreEdits'
  BY <1>1, <1>2 DEF Begin, BeginHold, BeginDirectBooking, BeginRelease, BeginConfirm,
         BeginReschedule, BeginCancellation, BeginUpdate, BeginEdit, Start
<1>3. ASSUME NEW c \in Clients, Finish(c)
      PROVE  PatchesAreEdits'
  BY <1>1, <1>3 DEF Finish, Idle
<1>4. ASSUME NEW c \in Clients, Commit(c) \/ Abandon(c)
      PROVE  Finish(c)
  BY <1>4 DEF Commit, CommitHold, CommitDirectBooking, CommitRelease, CommitConfirm,
         CommitReschedule, CommitCancellation, CommitUpdate, Abandon
<1>5. CASE Worker \/ Tick \/ UNCHANGED vars
  BY <1>5 DEF Worker, SweepHold, SweepReservation, SweeperCrash, RetentionBatch, Tick, vars,
         PatchesAreEdits, PatchStatuses
<1>6. QED
  BY <1>2, <1>3, <1>4, <1>5 DEF Next

\* The messages of every booking tell what became of it, in order.
THEOREM MessagesTellTheStory == Spec => []AnnouncementsMatchTheBooking
<1> DEFINE Story == PatchesAreEdits /\ \A b \in Bookings : Tells(booking[b], outbox[b])
<1>1. Story <=> PatchesAreEdits /\ AnnouncementsMatchTheBooking
  BY DEF Tells, Told, AnnouncementsMatchTheBooking, Announced
<1>2. Init => Story
  BY DEF Init, PatchesAreEdits, Idle, Tells
<1>3. Inv /\ Inv' /\ Story /\ [Next]_vars => Story'
  <2> SUFFICES ASSUME Inv, Inv', Story, [Next]_vars
               PROVE  Story'
    OBVIOUS
  <2>1. PatchesAreEdits'
    BY PatchesStayEdits DEF Inv
  <2>2. ASSUME NEW b \in Bookings
        PROVE  Tells(booking'[b], outbox'[b])
    <3>1. /\ booking[b] \in BookingRow \cup {NoRow} /\ outbox[b] \in Seq(Event)
          /\ booking'[b] \in BookingRow \cup {NoRow}
      BY DEF Inv, TypeOK
    <3>2. AnnouncedStep(b)
      BY BookingTold DEF vars, AnnouncedStep
    <3>3. QED
      BY <3>1, <3>2, StoryGoesOn DEF AnnouncedStep
  <2>3. QED
    BY <2>1, <2>2
<1>4. QED
  <2> HIDE DEF Story
  <2>1. Story => AnnouncementsMatchTheBooking
    BY <1>1
  <2>2. QED
    BY <1>2, <1>3, <2>1, TablesAgree, PTL DEF Spec

(***************************************************************************)
(* Calm behaviours, in which no hold is confirmed while it is being given  *)
(* back: a booking that occupies the diary owns its time.  The invariant   *)
(* is strengthened by what a release or a sweep in flight may still be     *)
(* after.                                                                  *)
(***************************************************************************)
\* Calm runs add that a release in flight is not after a hold that a booking has
\* adopted.
AdoptedHoldIsConfirmed ==
    \A h \in Holds :
        /\ reservation[h] \in ReservationRow /\ reservation[h].booking # None
        /\ hold[h] \in HoldRow
        => hold[h].status = "CONFIRMED"

ReleasesSpareConfirmedHolds ==
    \A c \in Clients :
        request[c].op = "releaseHold" => hold[request[c].hold].status # "CONFIRMED"

CalmInv ==
    /\ Inv
    /\ AdoptedHoldIsConfirmed
    /\ ReleasesSpareConfirmedHolds
    /\ LiveBookingHoldsItsSlot

(***************************************************************************)
(* Each step preserves it.                                                 *)
(***************************************************************************)
\* What every step has to show: confirmed holds stay so, a reservation is adopted
\* only with its hold, and a live booking keeps the reservation it had.
LEMMA CalmPreserves ==
    ASSUME CalmInv, Inv', Calm,
           \A c \in Clients : request'[c].op = "releaseHold" =>
               \/ request'[c] = request[c]
               \/ hold'[request'[c].hold].status # "CONFIRMED",
           \A h \in Holds :
               hold[h] \in HoldRow /\ hold[h].status = "CONFIRMED" /\ hold'[h] \in HoldRow
                   => hold'[h].status = "CONFIRMED",
           \A h \in Holds :
               reservation'[h] \in ReservationRow /\ reservation'[h].booking # None =>
                   \/ hold'[h].status = "CONFIRMED"
                   \/ /\ reservation[h] \in ReservationRow /\ reservation[h].booking # None
                      /\ hold'[h] \in HoldRow => hold[h] \in HoldRow,
           \A b \in Bookings :
               booking'[b] # NoRow /\ ~ReleasesCapacity(booking'[b].status) =>
                   \/ \E k \in Keys : OwnedBy(reservation'[k], b)
                   \/ /\ booking[b] # NoRow /\ ~ReleasesCapacity(booking[b].status)
                      /\ \A k \in Keys : OwnedBy(reservation[k], b) => OwnedBy(reservation'[k], b)
    PROVE  CalmInv'
<1>1. AdoptedHoldIsConfirmed'
  BY DEF CalmInv, AdoptedHoldIsConfirmed
<1>2. ReleasesSpareConfirmedHolds'
  <2>1. ASSUME NEW c \in Clients, request'[c].op = "releaseHold", request'[c] = request[c],
               hold'[request'[c].hold].status = "CONFIRMED"
        PROVE  FALSE
    <3>1. request[c].hold \in Holds
      BY <2>1, RequestType DEF CalmInv, Inv, ReleaseRequest
    <3>2. hold[request[c].hold].status # "CONFIRMED"
      BY <2>1 DEF CalmInv, ReleasesSpareConfirmedHolds
    <3>3. QED
      BY <2>1, <3>1, <3>2 DEF Calm
  <2>2. QED
    BY <2>1 DEF ReleasesSpareConfirmedHolds
<1>3. LiveBookingHoldsItsSlot'
  BY DEF CalmInv, LiveBookingHoldsItsSlot
<1>4. QED
  BY <1>1, <1>2, <1>3 DEF CalmInv

\* A sweep ends no confirmed hold and releases no booked reservation.
LEMMA SweepSparesBookings ==
    ASSUME Inv, NEW t
    PROVE  /\ \A k \in Keys : reservation[k].status = "ACTIVE" /\ reservation[k].booking # None
                  => SweptReservations(t)[k] = reservation[k]
           /\ \A h \in Holds : hold[h].status = "CONFIRMED" => SweptHolds(t)[h] = hold[h]
<1>1. \A k \in Keys : reservation[k].status = "ACTIVE" /\ reservation[k].booking # None
          => ~Lapsed(reservation[k], t)
  BY DEF Inv, BookedReservationStays, Lapsed, NoRow
<1>2. \A h \in Holds : hold[h].status = "CONFIRMED" => ~Lapsed(hold[h], t)
  BY DEF Lapsed
<1>3. QED
  BY <1>1, <1>2 DEF SweptReservations, SweptHolds

LEMMA CalmCommitHold ==
    ASSUME CalmInv, Inv', Calm, NEW c \in Clients, NEW h \in Holds, CommitHold(c, h)
    PROVE  CalmInv'
<1> DEFINE r == request[c]
<1>1. TypeOK /\ booking' = booking /\ request' = [request EXCEPT ![c] = Idle]
      /\ hold[h] = NoRow /\ reservation[h] = NoRow
  BY DEF CalmInv, Inv, ReservationsHaveOrigins, CommitHold, Finish
<1>2. /\ SweptReservations(r.now) \in ReservationTable /\ SweptHolds(r.now) \in HoldTable
      /\ h \in Keys
  BY <1>1, SweepType DEF Keys
<1>3. /\ \A k \in Keys \ {h} : reservation'[k] = SweptReservations(r.now)[k]
      /\ \A g \in Holds \ {h} : hold'[g] = SweptHolds(r.now)[g]
      /\ reservation'[h].booking = None
  BY <1>2 DEF CommitHold, ReservationTable, HoldTable, NewReservation
<1>4. /\ \A k \in Keys : Weakened(reservation[k], SweptReservations(r.now)[k])
      /\ \A g \in Holds : HoldWeakened(hold[g], SweptHolds(r.now)[g])
  BY <1>1, SweepWeakens
<1>5. \A g \in Holds : reservation'[g] \in ReservationRow /\ reservation'[g].booking # None =>
          /\ reservation[g] \in ReservationRow /\ reservation[g].booking # None
          /\ hold'[g] \in HoldRow => hold[g] \in HoldRow
  BY <1>1, <1>3, <1>4 DEF Keys, Weakened, HoldWeakened, TypeOK, ReservationRow, NoRow
<1>6. \A g \in Holds : hold[g] \in HoldRow /\ hold[g].status = "CONFIRMED" =>
          hold'[g].status = "CONFIRMED"
  BY <1>1, <1>3, SweepSparesBookings DEF CalmInv, NoRow
<1>7. \A b \in Bookings, k \in Keys : OwnedBy(reservation[k], b) => OwnedBy(reservation'[k], b)
  BY <1>1, <1>3, SweepSparesBookings, IdentifierAssumption DEF CalmInv, OwnedBy, NoRow
<1>8. \A d \in Clients : request'[d].op = "releaseHold" => request'[d] = request[d]
  BY <1>1 DEF TypeOK, Idle
<1>9. QED
  BY <1>1, <1>5, <1>6, <1>7, <1>8, CalmPreserves

LEMMA CalmCommitDirectBooking ==
    ASSUME CalmInv, Inv', Calm, NEW c \in Clients, NEW b \in Bookings,
           CommitDirectBooking(c, b)
    PROVE  CalmInv'
<1> DEFINE r == request[c]
<1>1. TypeOK /\ request' = [request EXCEPT ![c] = Idle] /\ b \notin Holds
      /\ booking[b] = NoRow /\ reservation[b] = NoRow
      /\ hold' = SweptHolds(r.now)
      /\ \A a \in Bookings \ {b} : booking'[a] = booking[a]
  BY IdentifierAssumption
  DEF CalmInv, Inv, ReservationsHaveOrigins, CommitDirectBooking, Finish, TypeOK
<1>2. SweptReservations(r.now) \in ReservationTable /\ b \in Keys
  BY <1>1, SweepType DEF Keys
<1>3. /\ \A k \in Keys \ {b} : reservation'[k] = SweptReservations(r.now)[k]
      /\ OwnedBy(reservation'[b], b)
  BY <1>2 DEF CommitDirectBooking, ReservationTable, NewReservation, OwnedBy
<1>4. /\ \A k \in Keys : Weakened(reservation[k], SweptReservations(r.now)[k])
      /\ \A g \in Holds : HoldWeakened(hold[g], SweptHolds(r.now)[g])
  BY <1>1, SweepWeakens
<1>5. \A g \in Holds : reservation'[g] \in ReservationRow /\ reservation'[g].booking # None =>
          /\ reservation[g] \in ReservationRow /\ reservation[g].booking # None
          /\ hold'[g] \in HoldRow => hold[g] \in HoldRow
  <2>1. ASSUME NEW g \in Holds, reservation'[g] \in ReservationRow,
               reservation'[g].booking # None
        PROVE  /\ reservation[g] \in ReservationRow /\ reservation[g].booking # None
               /\ hold'[g] \in HoldRow => hold[g] \in HoldRow
    <3>1. g \in Keys \ {b} /\ reservation'[g] # NoRow
      BY <1>1, <2>1 DEF Keys, ReservationRow, NoRow
    <3>2. reservation[g] # NoRow /\ reservation[g].booking = reservation'[g].booking
      BY <1>3, <1>4, <3>1 DEF Weakened
    <3>3. hold'[g] \in HoldRow => hold[g] \in HoldRow
      BY <1>1, <1>4 DEF HoldWeakened
    <3>4. QED
      BY <1>1, <2>1, <3>1, <3>2, <3>3 DEF TypeOK
  <2>2. QED
    BY <2>1
<1>6. \A g \in Holds : hold[g] \in HoldRow /\ hold[g].status = "CONFIRMED" =>
          hold'[g].status = "CONFIRMED"
  BY <1>1, SweepSparesBookings DEF CalmInv
<1>7. \A a \in Bookings, k \in Keys : OwnedBy(reservation[k], a) => OwnedBy(reservation'[k], a)
  BY <1>1, <1>3, SweepSparesBookings, IdentifierAssumption DEF CalmInv, OwnedBy, NoRow
<1>8. \A d \in Clients : request'[d].op = "releaseHold" => request'[d] = request[d]
  BY <1>1 DEF TypeOK, Idle
<1>9. \A a \in Bookings : booking'[a] # NoRow /\ ~ReleasesCapacity(booking'[a].status) =>
          \/ \E k \in Keys : OwnedBy(reservation'[k], a)
          \/ booking[a] # NoRow /\ ~ReleasesCapacity(booking[a].status)
  BY <1>1, <1>2, <1>3
<1>10. QED
  BY <1>5, <1>6, <1>7, <1>8, <1>9, CalmPreserves

\* A release in flight is not after a confirmed hold, so what it frees is no
\* booking's.
LEMMA CalmCommitRelease ==
    ASSUME CalmInv, Inv', Calm, NEW c \in Clients, CommitRelease(c)
    PROVE  CalmInv'
<1> DEFINE h == request[c].hold
<1>1. /\ TypeOK /\ booking' = booking /\ h \in Holds /\ h \in Keys
      /\ request' = [request EXCEPT ![c] = Idle]
  BY RequestType DEF CalmInv, Inv, CommitRelease, ReleaseRequest, Finish, Keys
<1>2. hold[h].status # "CONFIRMED"
  BY DEF CalmInv, ReleasesSpareConfirmedHolds, CommitRelease
<1>3. /\ \A g \in Holds \ {h} : hold'[g] = hold[g]
      /\ \A k \in Keys \ {h} : reservation'[k] = reservation[k]
      /\ hold'[h] \in HoldRow => hold[h] \in HoldRow
      /\ reservation'[h] = reservation[h] \/ hold[h] \in HoldRow
  <2>1. CASE hold[h] \in HoldRow
    BY <1>1, <2>1 DEF CommitRelease, TypeOK
  <2>2. CASE hold[h] \notin HoldRow
    BY <2>2 DEF CommitRelease
  <2>3. QED
    BY <2>1, <2>2
<1>4. reservation[h] \in ReservationRow /\ hold[h] \in HoldRow => reservation[h].booking = None
  BY <1>1, <1>2 DEF CalmInv, AdoptedHoldIsConfirmed
<1>5. \/ reservation'[h] = reservation[h]
      \/ /\ reservation[h] \in ReservationRow /\ hold[h] \in HoldRow
         /\ reservation'[h] = Released(reservation[h])
  BY <1>1, <1>3, ActiveRow DEF CommitRelease, TypeOK
<1>6. \/ reservation'[h] = reservation[h]
      \/ reservation[h].booking = None /\ reservation'[h].booking = None
  <2>1. CASE reservation[h] \in ReservationRow /\ hold[h] \in HoldRow
             /\ reservation'[h] = Released(reservation[h])
    <3>1. Released(reservation[h]).booking = reservation[h].booking
      BY <2>1, ReleasedType
    <3>2. QED
      BY <1>4, <2>1, <3>1
  <2>2. QED
    BY <1>5, <2>1
<1>7. \A g \in Holds : reservation'[g] \in ReservationRow /\ reservation'[g].booking # None =>
          /\ reservation[g] \in ReservationRow /\ reservation[g].booking # None
          /\ hold'[g] \in HoldRow => hold[g] \in HoldRow
  BY <1>3, <1>6 DEF Keys
<1>8. \A b \in Bookings, k \in Keys : OwnedBy(reservation[k], b) => OwnedBy(reservation'[k], b)
  BY <1>3, <1>6, IdentifierAssumption DEF OwnedBy
<1>9. \A d \in Clients : request'[d].op = "releaseHold" => request'[d] = request[d]
  BY <1>1 DEF TypeOK, Idle
<1>10. QED
  BY <1>1, <1>2, <1>3, <1>7, <1>8, <1>9, CalmPreserves

LEMMA CalmCommitConfirm ==
    ASSUME CalmInv, Inv', Calm, NEW c \in Clients, NEW b \in Bookings, CommitConfirm(c, b)
    PROVE  CalmInv'
<1> DEFINE h == request[c].hold
<1>1. /\ TypeOK /\ h \in Holds /\ h \in Keys /\ request' = [request EXCEPT ![c] = Idle]
      /\ hold[h] \in HoldRow /\ hold[h].status = "ACTIVE" /\ b # None
  BY RequestType, IdentifierAssumption
  DEF CalmInv, Inv, CommitConfirm, ConfirmRequest, Finish, Keys, HoldUsable
<1>2. /\ \A g \in Holds \ {h} : hold'[g] = hold[g]
      /\ \A k \in Keys \ {h} : reservation'[k] = reservation[k]
      /\ \A a \in Bookings \ {b} : booking'[a] = booking[a]
  BY <1>1 DEF CommitConfirm, TypeOK
<1>3. hold'[h].status = "CONFIRMED"
  BY <1>1 DEF CommitConfirm, TypeOK, HoldRow
<1>4. reservation[h] \in ReservationRow /\ reservation[h].booking = None
  BY <1>1 DEF CalmInv, Inv, ActiveHoldIsUnadopted
<1>5. OwnedBy(reservation'[h], b)
  <2>1. reservation'[h] = Adopted(reservation[h], b) /\ reservation[h].status = "ACTIVE"
    BY <1>1 DEF CommitConfirm, TypeOK
  <2>2. QED
    BY <1>4, <2>1 DEF Adopted, ReservationRow, OwnedBy
<1>6. \A a \in Bookings, k \in Keys : OwnedBy(reservation[k], a) => OwnedBy(reservation'[k], a)
  BY <1>2, <1>4, IdentifierAssumption DEF OwnedBy
<1>7. \A d \in Clients : request'[d].op = "releaseHold" => request'[d] = request[d]
  BY <1>1 DEF TypeOK, Idle
<1>8. \A g \in Holds : reservation'[g] \in ReservationRow /\ reservation'[g].booking # None =>
          \/ hold'[g].status = "CONFIRMED"
          \/ /\ reservation[g] \in ReservationRow /\ reservation[g].booking # None
             /\ hold'[g] \in HoldRow => hold[g] \in HoldRow
  BY <1>2, <1>3 DEF Keys
<1>9. \A a \in Bookings : booking'[a] # NoRow /\ ~ReleasesCapacity(booking'[a].status) =>
          \/ \E k \in Keys : OwnedBy(reservation'[k], a)
          \/ booking[a] # NoRow /\ ~ReleasesCapacity(booking[a].status)
  BY <1>1, <1>2, <1>5
<1>10. QED
  BY <1>1, <1>2, <1>3, <1>6, <1>7, <1>8, <1>9, CalmPreserves

LEMMA CalmCommitReschedule ==
    ASSUME CalmInv, Inv', Calm, NEW c \in Clients, CommitReschedule(c)
    PROVE  CalmInv'
<1> DEFINE r == request[c]
           swept == SweptReservations(r.now)
           span == Occupied(booking[r.booking].service, r.start)
<1>1. /\ TypeOK /\ r \in MoveRequest /\ request' = [request EXCEPT ![c] = Idle]
      /\ hold' = SweptHolds(r.now)
  BY RequestType DEF CalmInv, Inv, CommitReschedule, Finish
<1>2. PICK b \in Bookings : b = r.booking
  BY <1>1 DEF MoveRequest
<1>3. booking[b] \in BookingRow /\ r.start \in Starts
  BY <1>1, <1>2 DEF CommitReschedule, VersionMatches, TypeOK, MoveRequest
<1>4. /\ \A a \in Bookings \ {b} : booking'[a] = booking[a]
      /\ booking'[b].status = booking[b].status /\ booking[b] # NoRow
  <2>1. booking' = [booking EXCEPT ![b] = Rescheduled(booking[b], r.start)]
    BY <1>2 DEF CommitReschedule
  <2>2. booking[b] # NoRow
    BY <1>3 DEF BookingRow, NoRow, BookingStatuses
  <2>3. QED
    BY <1>1, <1>3, <2>1, <2>2, RescheduledType DEF TypeOK
<1>5. \A k \in Keys :
          reservation'[k] = IF OwnedBy(swept[k], b) THEN Respanned(swept[k], span)
                                                    ELSE swept[k]
  <2>1. reservation' = MovedReservations(swept, b, span)
    BY <1>2 DEF CommitReschedule
  <2>2. QED
    BY <2>1 DEF MovedReservations
<1>6. swept \in ReservationTable /\ span \in [from: Int, until: Int]
  BY <1>1, <1>2, <1>3, SweepType, OccupiedType DEF BookingRow
\* Moving changes neither whose a reservation is nor whether it is active.
<1>7. \A k \in Keys : /\ reservation'[k].status = swept[k].status
                      /\ reservation'[k] # NoRow => reservation'[k].booking = swept[k].booking
  <2>1. ASSUME NEW k \in Keys, OwnedBy(swept[k], b)
        PROVE  reservation'[k].status = swept[k].status
               /\ reservation'[k].booking = swept[k].booking
    <3>1. swept[k] \in ReservationRow
      BY <1>6, <2>1, ActiveRow DEF OwnedBy, ReservationTable
    <3>2. QED
      BY <1>5, <1>6, <2>1, <3>1, MovedRowType
  <2>2. QED
    BY <1>5, <2>1
<1>8. /\ \A k \in Keys : Weakened(reservation[k], swept[k])
      /\ \A g \in Holds : HoldWeakened(hold[g], hold'[g])
  BY <1>1, SweepWeakens
<1>9. \A g \in Holds : reservation'[g] \in ReservationRow /\ reservation'[g].booking # None =>
          /\ reservation[g] \in ReservationRow /\ reservation[g].booking # None
          /\ hold'[g] \in HoldRow => hold[g] \in HoldRow
  <2>1. ASSUME NEW g \in Holds, reservation'[g] \in ReservationRow,
               reservation'[g].booking # None
        PROVE  /\ reservation[g] \in ReservationRow /\ reservation[g].booking # None
               /\ hold'[g] \in HoldRow => hold[g] \in HoldRow
    <3>1. g \in Keys /\ reservation'[g] # NoRow /\ reservation'[g].status # "none"
      BY <2>1 DEF Keys, ReservationRow, NoRow
    <3>2. swept[g] # NoRow /\ swept[g].booking = reservation'[g].booking
      BY <1>7, <3>1 DEF NoRow
    <3>3. reservation[g] # NoRow /\ reservation[g].booking = reservation'[g].booking
      BY <1>8, <3>1, <3>2 DEF Weakened
    <3>4. hold'[g] \in HoldRow => hold[g] \in HoldRow
      BY <1>8 DEF HoldWeakened
    <3>5. QED
      BY <1>1, <2>1, <3>1, <3>3, <3>4 DEF TypeOK
  <2>2. QED
    BY <2>1
<1>10. \A g \in Holds : hold[g] \in HoldRow /\ hold[g].status = "CONFIRMED" =>
           hold'[g].status = "CONFIRMED"
  BY <1>1, SweepSparesBookings DEF CalmInv
<1>11. \A a \in Bookings, k \in Keys : OwnedBy(reservation[k], a) => OwnedBy(reservation'[k], a)
  <2>1. ASSUME NEW a \in Bookings, NEW k \in Keys, OwnedBy(reservation[k], a)
        PROVE  OwnedBy(reservation'[k], a)
    <3>1. swept[k] = reservation[k] /\ swept[k].status = "ACTIVE" /\ swept[k].booking = a
      BY <2>1, SweepSparesBookings, IdentifierAssumption DEF CalmInv, OwnedBy
    <3>2. QED
      BY <1>7, <3>1 DEF OwnedBy, NoRow
  <2>2. QED
    BY <2>1
<1>12. \A d \in Clients : request'[d].op = "releaseHold" => request'[d] = request[d]
  BY <1>1 DEF TypeOK, Idle
<1>13. \A a \in Bookings : booking'[a] # NoRow /\ ~ReleasesCapacity(booking'[a].status) =>
           booking[a] # NoRow /\ ~ReleasesCapacity(booking[a].status)
  BY <1>4
<1>14. QED
  BY <1>9, <1>10, <1>11, <1>12, <1>13, CalmPreserves

\* A booking that still occupies the diary after an edit did so before, and its
\* reservation was not touched.
LEMMA CalmCommitEdit ==
    ASSUME CalmInv, Inv', Calm, NEW c \in Clients, CommitCancellation(c) \/ CommitUpdate(c)
    PROVE  CalmInv'
<1> DEFINE r == request[c]
<1>1. /\ TypeOK /\ r \in EditRequest /\ request' = [request EXCEPT ![c] = Idle]
      /\ hold' = hold
  BY RequestType DEF CalmInv, Inv, CommitCancellation, CommitUpdate, Finish
<1>2. PICK b \in Bookings : b = r.booking
  BY <1>1 DEF EditRequest
<1>3. booking[b] \in BookingRow /\ r.to \in BookingStatuses \cup {None}
      /\ r.version = booking[b].version /\ booking[b] # NoRow
  BY <1>1, <1>2
  DEF CommitCancellation, CommitUpdate, VersionMatches, TypeOK, EditRequest
<1>4. PICK status \in BookingStatuses :
          /\ booking' = [booking EXCEPT ![b] = WithStatus(booking[b], status)]
          /\ \/ reservation' = ReleasedReservations(b) /\ ReleasesCapacity(status)
             \/ reservation' = reservation
          /\ status = booking[b].status \/ ~Terminal(booking[b].status)
  <2>1. CASE CommitCancellation(c)
    <3>1. ~Terminal(booking[b].status)
      BY <1>2, <1>3, <2>1 DEF CalmInv, Inv, RequestsAreTrue, CopyIsTrue, CommitCancellation
    <3>2. "CANCELLED" \in BookingStatuses /\ ReleasesCapacity("CANCELLED")
      BY DEF BookingStatuses, ReleasesCapacity
    <3>3. QED
      BY <1>2, <2>1, <3>1, <3>2 DEF CommitCancellation
  <2>2. CASE CommitUpdate(c) /\ r.to = None
    <3>1. booking[b].status \in BookingStatuses /\ ~ReleasesCapacity(None)
      BY <1>3, IdentifierAssumption DEF BookingRow, ReleasesCapacity
    <3>2. QED
      BY <1>2, <2>2, <3>1 DEF CommitUpdate
  <2>3. CASE CommitUpdate(c) /\ r.to # None
    <3>1. r.to \in LegalTransitions(booking[b].status)
      BY <1>2, <1>3, <2>3 DEF CalmInv, Inv, RequestsAreTrue, CopyIsTrue, CommitUpdate
    <3>2. ~Terminal(booking[b].status) /\ r.to \in BookingStatuses
      BY <1>3, <2>3, <3>1 DEF Terminal
    <3>3. QED
      BY <1>2, <2>3, <3>2 DEF CommitUpdate
  <2>4. QED
    BY <2>1, <2>2, <2>3
<1>5. /\ \A a \in Bookings \ {b} : booking'[a] = booking[a]
      /\ booking'[b].status = status
  BY <1>1, <1>3, <1>4, WithStatusType DEF TypeOK
<1>6. /\ \A k \in Keys : Weakened(reservation[k], reservation'[k])
      /\ \A k \in Keys : \/ reservation'[k] = reservation[k]
                         \/ OwnedBy(reservation[k], b) /\ ReleasesCapacity(status)
  <2>1. ASSUME NEW k \in Keys
        PROVE  /\ Weakened(reservation[k], reservation'[k])
               /\ \/ reservation'[k] = reservation[k]
                  \/ OwnedBy(reservation[k], b) /\ ReleasesCapacity(status)
    <3>1. CASE reservation'[k] = reservation[k]
      BY <3>1, SameIsWeakened
    <3>2. CASE reservation'[k] # reservation[k]
      <4>1. /\ OwnedBy(reservation[k], b) /\ ReleasesCapacity(status)
            /\ reservation'[k] = Released(reservation[k])
        BY <1>4, <3>2 DEF ReleasedReservations
      <4>2. reservation[k] \in ReservationRow
        BY <1>1, <4>1, ActiveRow DEF TypeOK, OwnedBy
      <4>3. QED
        BY <4>1, <4>2, ReleasedIsWeakened
    <3>3. QED
      BY <3>1, <3>2
  <2>2. QED
    BY <2>1
<1>7. \A g \in Holds : reservation'[g] \in ReservationRow /\ reservation'[g].booking # None =>
          reservation[g] \in ReservationRow /\ reservation[g].booking # None
  <2>1. NoRow \notin ReservationRow
    BY DEF NoRow, ReservationRow
  <2>2. QED
    BY <1>1, <1>6, <2>1 DEF Weakened, Keys, TypeOK
<1>8. \A d \in Clients : request'[d].op = "releaseHold" => request'[d] = request[d]
  BY <1>1 DEF TypeOK, Idle
<1>9. ASSUME NEW a \in Bookings, booking'[a] # NoRow, ~ReleasesCapacity(booking'[a].status)
      PROVE  /\ booking[a] # NoRow /\ ~ReleasesCapacity(booking[a].status)
             /\ \A k \in Keys : OwnedBy(reservation[k], a) => OwnedBy(reservation'[k], a)
  <2>1. \A k \in Keys : OwnedBy(reservation[k], a) => reservation'[k] = reservation[k]
    BY <1>5, <1>6, <1>9 DEF OwnedBy
  <2>2. ~Terminal(booking[b].status) => ~ReleasesCapacity(booking[b].status)
    BY DEF Terminal, LegalTransitions, ReleasesCapacity
  <2>3. QED
    BY <1>3, <1>4, <1>5, <1>9, <2>1, <2>2
<1>10. QED
  BY <1>1, <1>7, <1>8, <1>9, CalmPreserves

\* The conversation sweeper ends holds that are not confirmed, so the
\* reservations it releases are no booking's.
LEMMA CalmSweeper ==
    ASSUME CalmInv, Inv', Calm, NEW h \in Holds, SweepHold(h) \/ SweepReservation(h)
    PROVE  CalmInv'
<1>1. /\ TypeOK /\ h \in Keys /\ booking' = booking /\ request' = request
      /\ \A g \in Holds \ {h} : hold'[g] = hold[g]
      /\ \A k \in Keys \ {h} : reservation'[k] = reservation[k]
  BY DEF CalmInv, Inv, TypeOK, SweepHold, SweepReservation, Keys
<1>2. hold[h].status # "CONFIRMED" /\ (hold'[h] \in HoldRow => hold[h] \in HoldRow)
  <2>1. CASE SweepHold(h)
    BY <1>1, <2>1, ActiveHold DEF SweepHold, TypeOK, HoldStatuses
  <2>2. CASE SweepReservation(h)
    BY <2>2 DEF CalmInv, Inv, SweptHoldsAreReleased, SweepReservation
  <2>3. QED
    BY <2>1, <2>2
<1>3. \/ reservation'[h] = reservation[h]
      \/ /\ reservation[h] \in ReservationRow /\ hold[h] \in HoldRow
         /\ reservation'[h] = Released(reservation[h])
  <2>1. CASE SweepHold(h)
    BY <2>1 DEF SweepHold
  <2>2. CASE SweepReservation(h) /\ reservation'[h] # reservation[h]
    <3>1. /\ hold[h] # DeletedRow /\ reservation[h].status = "ACTIVE"
          /\ reservation'[h] = Released(reservation[h])
      BY <1>1, <2>2 DEF SweepReservation, TypeOK
    <3>2. reservation[h] \in ReservationRow /\ hold[h] # NoRow
      BY <1>1, <3>1, ActiveRow
      DEF TypeOK, CalmInv, Inv, ReservationsHaveOrigins, ReservationRow, NoRow
    <3>3. QED
      BY <1>1, <3>1, <3>2 DEF TypeOK
  <2>3. QED
    BY <2>1, <2>2
<1>4. \/ reservation'[h] = reservation[h]
      \/ reservation[h].booking = None /\ reservation'[h].booking = None
  <2>1. CASE reservation[h] \in ReservationRow /\ hold[h] \in HoldRow
             /\ reservation'[h] = Released(reservation[h])
    <3>1. reservation[h].booking = None
      BY <1>2, <2>1 DEF CalmInv, AdoptedHoldIsConfirmed
    <3>2. QED
      BY <2>1, <3>1, ReleasedType
  <2>2. QED
    BY <1>3, <2>1
<1>5. \A g \in Holds : reservation'[g] \in ReservationRow /\ reservation'[g].booking # None =>
          /\ reservation[g] \in ReservationRow /\ reservation[g].booking # None
          /\ hold'[g] \in HoldRow => hold[g] \in HoldRow
  BY <1>1, <1>2, <1>4 DEF Keys
<1>6. \A b \in Bookings, k \in Keys : OwnedBy(reservation[k], b) => OwnedBy(reservation'[k], b)
  BY <1>1, <1>4, IdentifierAssumption DEF OwnedBy
<1>7. QED
  BY <1>1, <1>2, <1>5, <1>6, CalmPreserves

LEMMA CalmRetention ==
    ASSUME CalmInv, Inv', Calm, RetentionBatch
    PROVE  CalmInv'
<1>1. /\ TypeOK /\ reservation' = reservation /\ request' = request
      /\ \A h \in Holds : hold'[h] = IF Stale(h) THEN DeletedRow ELSE hold[h]
  BY DEF CalmInv, Inv, RetentionBatch
<1>2. \A h \in Holds : hold'[h] \in HoldRow => hold'[h] = hold[h]
  BY <1>1 DEF DeletedRow, HoldRow, HoldStatuses
<1>3. \A b \in Bookings : booking'[b] # NoRow =>
          booking[b] # NoRow /\ booking'[b].status = booking[b].status
  <2>1. ASSUME NEW b \in Bookings, booking[b] # NoRow
        PROVE  booking'[b].status = booking[b].status
    <3>1. \/ booking'[b] = booking[b]
          \/ booking'[b] = [booking[b] EXCEPT !.hold = None]
      BY DEF RetentionBatch
    <3>2. QED
      BY <1>1, <2>1, <3>1, UnlinkedType DEF TypeOK
  <2>2. \A b \in Bookings : booking[b] = NoRow => booking'[b] = NoRow
    BY DEF RetentionBatch
  <2>3. QED
    BY <2>1, <2>2
<1>4. QED
  BY <1>1, <1>2, <1>3, CalmPreserves

\* A release starts only on a hold that is not confirmed.
LEMMA CalmBegin ==
    ASSUME CalmInv, Inv', Calm, NEW c \in Clients, Begin(c)
    PROVE  CalmInv'
<1>1. TypeOK /\ UNCHANGED tables
  BY DEF CalmInv, Inv, Begin, BeginHold, BeginDirectBooking, BeginRelease, BeginConfirm,
         BeginReschedule, BeginCancellation, BeginUpdate, BeginEdit, Start
<1>2. hold' = hold /\ booking' = booking /\ reservation' = reservation
  BY <1>1 DEF tables
<1>3. PICK r : /\ Start(c, r)
               /\ r.op = "releaseHold" => hold[r.hold].status # "CONFIRMED"
  <2>1. CASE \E s \in Services, start \in Starts :
                BeginHold(c, s, start) \/ BeginDirectBooking(c, s, start)
    BY <2>1 DEF BeginHold, BeginDirectBooking
  <2>2. CASE \E h \in Holds : BeginRelease(c, h) \/ BeginConfirm(c, h)
    BY <2>2 DEF BeginRelease, BeginConfirm, HoldReleasable
  <2>3. CASE \E b \in Bookings, start \in Starts : BeginReschedule(c, b, start)
    BY <2>3 DEF BeginReschedule
  <2>4. CASE \/ \E b \in Bookings : BeginCancellation(c, b)
             \/ \E b \in Bookings, to \in PatchStatuses : BeginUpdate(c, b, to)
    <3>1. PICK op \in {"cancel", "update"}, b \in Bookings,
               to \in {"CANCELLED"} \cup PatchStatuses : BeginEdit(c, op, b, to)
      BY <2>4 DEF BeginCancellation, BeginUpdate
    <3>2. QED
      BY <3>1 DEF BeginEdit
  <2>5. QED
    BY <2>1, <2>2, <2>3, <2>4 DEF Begin
<1>4. \A d \in Clients : request'[d].op = "releaseHold" =>
          \/ request'[d] = request[d]
          \/ hold'[request'[d].hold].status # "CONFIRMED"
  BY <1>1, <1>2, <1>3 DEF Start, TypeOK
<1>5. QED
  BY <1>2, <1>4, CalmPreserves

LEMMA CalmGiveUp ==
    ASSUME CalmInv, Inv', Calm, \/ \E c \in Clients : Abandon(c)
                                \/ \E h \in Holds : SweeperCrash(h)
                                \/ Tick
                                \/ UNCHANGED vars
    PROVE  CalmInv'
<1>1. TypeOK /\ hold' = hold /\ booking' = booking /\ reservation' = reservation
  BY DEF CalmInv, Inv, Abandon, SweeperCrash, Tick, vars, tables
<1>2. \A d \in Clients : request'[d].op = "releaseHold" => request'[d] = request[d]
  BY <1>1 DEF Abandon, Finish, SweeperCrash, Tick, vars, TypeOK, Idle
<1>3. QED
  BY <1>1, <1>2, CalmPreserves

\* Appointments lie within the time they occupy, so disjoint times hold disjoint
\* appointments.
LEMMA AppointmentWithin ==
    ASSUME NEW s \in Services, NEW t \in Services, NEW x \in Starts, NEW y \in Starts,
           Overlap(Appointment(s, x), Appointment(t, y))
    PROVE  Overlap(Occupied(s, x), Occupied(t, y))
BY CatalogueAssumption DEF Overlap, Appointment, Occupied

LEMMA CalmStep ==
    ASSUME CalmInv, [CalmNext]_vars
    PROVE  CalmInv'
<1>1. Inv'
  BY InvStep DEF CalmInv, CalmNext
<1>2. Calm
  BY DEF CalmNext, Calm, vars
<1>3. ASSUME NEW c \in Clients, Commit(c)
      PROVE  CalmInv'
  BY <1>1, <1>2, <1>3, CalmCommitHold, CalmCommitDirectBooking, CalmCommitRelease,
     CalmCommitConfirm, CalmCommitReschedule, CalmCommitEdit DEF Commit
<1>4. CASE Worker
  BY <1>1, <1>2, <1>4, CalmSweeper, CalmRetention, CalmGiveUp DEF Worker
<1>5. QED
  BY <1>1, <1>2, <1>3, <1>4, CalmBegin, CalmGiveUp DEF CalmNext, Next

LEMMA CalmInit ==
    ASSUME Init
    PROVE  CalmInv
<1>1. Inv
  BY InvInit
<1>2. AdoptedHoldIsConfirmed /\ LiveBookingHoldsItsSlot
  BY DEF Init, AdoptedHoldIsConfirmed, LiveBookingHoldsItsSlot, NoRow, HoldRow, HoldStatuses
<1>3. ReleasesSpareConfirmedHolds
  BY DEF Init, ReleasesSpareConfirmedHolds, Idle
<1>4. QED
  BY <1>1, <1>2, <1>3 DEF CalmInv

\* The tables agree, and no release in flight is after a booked reservation.
THEOREM CalmTablesAgree == CalmSpec => []CalmInv
<1>1. Init => CalmInv
  BY CalmInit
<1>2. CalmInv /\ [CalmNext]_vars => CalmInv'
  BY CalmStep
<1>3. QED
  BY <1>1, <1>2, PTL DEF CalmSpec

(***************************************************************************)
(* What the service promises its calm clients.                             *)
(***************************************************************************)
\* Every booking that occupies the diary owns an active reservation.
THEOREM LiveBookingsHoldTheirSlots == CalmSpec => []LiveBookingHoldsItsSlot
<1>1. CalmInv => LiveBookingHoldsItsSlot
  BY DEF CalmInv
<1>2. QED
  BY <1>1, CalmTablesAgree, PTL

\* The reservation a live booking owns, which is its whole occupied time.
LEMMA LiveBookingsReservation ==
    ASSUME CalmInv, NEW b \in Bookings, booking[b] # NoRow,
           ~ReleasesCapacity(booking[b].status)
    PROVE  \E k \in Keys :
               /\ reservation[k].status = "ACTIVE" /\ reservation[k].booking = b
               /\ reservation[k].from = Occupied(booking[b].service, booking[b].start).from
               /\ reservation[k].until = Occupied(booking[b].service, booking[b].start).until
<1>1. PICK k \in Keys : reservation[k].status = "ACTIVE" /\ reservation[k].booking = b
  BY DEF CalmInv, LiveBookingHoldsItsSlot, OwnedBy
<1>2. Follows(k)
  BY <1>1, IdentifierAssumption DEF CalmInv, Inv, ReservationFollowsBooking
<1>3. QED
  BY <1>1, <1>2 DEF Follows

\* No two bookings that occupy the diary overlap, buffers included.
THEOREM BookingsNeverOverlap == CalmSpec => []NoDoubleBooking
<1>1. ASSUME CalmInv, NEW a \in Bookings, NEW b \in Bookings, a # b,
             booking[a] # NoRow, ~ReleasesCapacity(booking[a].status),
             booking[b] # NoRow, ~ReleasesCapacity(booking[b].status)
      PROVE  ~Overlap(Occupied(booking[a].service, booking[a].start),
                      Occupied(booking[b].service, booking[b].start))
  <2>1. PICK j \in Keys :
            /\ reservation[j].status = "ACTIVE" /\ reservation[j].booking = a
            /\ reservation[j].from = Occupied(booking[a].service, booking[a].start).from
            /\ reservation[j].until = Occupied(booking[a].service, booking[a].start).until
    BY <1>1, LiveBookingsReservation
  <2>2. PICK k \in Keys :
            /\ reservation[k].status = "ACTIVE" /\ reservation[k].booking = b
            /\ reservation[k].from = Occupied(booking[b].service, booking[b].start).from
            /\ reservation[k].until = Occupied(booking[b].service, booking[b].start).until
    BY <1>1, LiveBookingsReservation
  <2>3. ~Overlap(reservation[j], reservation[k])
    BY <1>1, <2>1, <2>2 DEF CalmInv, Inv, ReservationsDisjoint
  <2>4. QED
    BY <2>1, <2>2, <2>3 DEF Overlap
<1>2. CalmInv => NoDoubleBooking
  BY <1>1 DEF NoDoubleBooking
<1>3. QED
  BY <1>2, CalmTablesAgree, PTL

\* No booking stands where a usable hold would put one.
THEOREM UsableHoldsAreConfirmable == CalmSpec => []UsableHoldIsConfirmable
<1>1. ASSUME CalmInv, NEW h \in Holds, NEW b \in Bookings,
             hold[h].status = "ACTIVE", now < hold[h].expiresAt,
             booking[b] # NoRow, ~ReleasesCapacity(booking[b].status)
      PROVE  ~Overlap(Appointment(hold[h].service, hold[h].start),
                      Appointment(booking[b].service, booking[b].start))
  <2>1. PICK k \in Keys :
            /\ reservation[k].status = "ACTIVE" /\ reservation[k].booking = b
            /\ reservation[k].from = Occupied(booking[b].service, booking[b].start).from
            /\ reservation[k].until = Occupied(booking[b].service, booking[b].start).until
    BY <1>1, LiveBookingsReservation
  <2>2. Backed(h) /\ h \in Keys
    BY <1>1 DEF CalmInv, Inv, UsableHoldIsBacked, Keys
  <2>3. ~Overlap(reservation[h], reservation[k])
    BY <1>1, <2>1, <2>2, IdentifierAssumption DEF CalmInv, Inv, ReservationsDisjoint, Backed
  <2>4. ~Overlap(Occupied(hold[h].service, hold[h].start),
                 Occupied(booking[b].service, booking[b].start))
    BY <2>1, <2>2, <2>3 DEF Overlap, Backed
  <2>5. /\ hold[h].service \in Services /\ hold[h].start \in Starts
        /\ booking[b].service \in Services /\ booking[b].start \in Starts
    <3>1. hold[h] \in HoldRow /\ booking[b] \in BookingRow
      BY <1>1, ActiveHold DEF CalmInv, Inv, TypeOK, HoldStatuses
    <3>2. QED
      BY <3>1 DEF HoldRow, BookingRow
  <2>6. QED
    BY <2>4, <2>5, AppointmentWithin DEF Overlap
<1>2. CalmInv => UsableHoldIsConfirmable
  BY <1>1 DEF UsableHoldIsConfirmable
<1>3. QED
  BY <1>2, CalmTablesAgree, PTL

(***************************************************************************)
(* The tables implement the diary.                                         *)
(***************************************************************************)
\* PhaseOf and the span of a row, with the bookings they depend on named, so that
\* both states of a step can be spoken of.
PhaseIn(bookings, row) ==
    CASE row = NoRow -> "free"
      [] row # NoRow /\ row.status = "ACTIVE" /\ row.booking = None -> "held"
      [] row # NoRow /\ row.status = "ACTIVE" /\ row.booking # None -> "booked"
      [] row # NoRow /\ row.status = "RELEASED" /\ row.booking = None -> "lapsed"
      [] OTHER -> IF bookings[row.booking].status = "CANCELLED" THEN "cancelled" ELSE "lost"

NoTime == [from |-> 0, until |-> 0]
SpanIn(row) == IF row.status = "ACTIVE" THEN [from |-> row.from, until |-> row.until] ELSE NoTime

PhaseBefore(k) == PhaseIn(booking, reservation[k])
PhaseAfter(k) == PhaseIn(booking', reservation'[k])
SpanBefore(k) == SpanIn(reservation[k])
SpanAfter(k) == SpanIn(reservation'[k])

Keeps(k) == PhaseAfter(k) = PhaseBefore(k) /\ SpanAfter(k) = SpanBefore(k)
Lapses(k) == PhaseBefore(k) = "held" /\ PhaseAfter(k) = "lapsed" /\ SpanAfter(k) = NoTime
OthersMakeWay(c) == \A d \in Keys \ {c} : Keeps(d) \/ Lapses(d)
FindsRoom(c) ==
    \A d \in Keys \ {c} :
        PhaseAfter(d) \in {"held", "booked"} =>
            SpanAfter(c).until <= SpanAfter(d).from \/ SpanAfter(d).until <= SpanAfter(c).from

\* Each of the diary's steps, told row by row.
LEMMA DiaryKeeps ==
    ASSUME \A k \in Keys : Keeps(k)
    PROVE  UNCHANGED TheDiary!vars
<1>1. \A k \in Keys : PhaseAfter(k) = PhaseBefore(k) /\ SpanAfter(k) = SpanBefore(k)
  BY DEF Keeps
<1>2. [k \in Keys |-> PhaseAfter(k)] = [k \in Keys |-> PhaseBefore(k)]
  BY <1>1
<1>3. [k \in Keys |-> SpanAfter(k)] = [k \in Keys |-> SpanBefore(k)]
  BY <1>1
<1>4. QED
  BY <1>2, <1>3
  DEF TheDiary!vars, PhaseOf, PhaseIn, PhaseBefore, PhaseAfter, SpanIn, SpanBefore, SpanAfter,
      NoTime

LEMMA DiaryTakes ==
    ASSUME NEW c \in Keys, NEW kind \in {"held", "booked"}, PhaseBefore(c) = "free",
           PhaseAfter(c) = kind, OthersMakeWay(c), FindsRoom(c)
    PROVE  TheDiary!Next
<1> DEFINE P == [k \in Keys |-> PhaseBefore(k)]
           Q == [k \in Keys |-> PhaseAfter(k)]
           S == [k \in Keys |-> SpanBefore(k)]
           T == [k \in Keys |-> SpanAfter(k)]
           lapsing == {d \in Keys : P[d] = "held" /\ Q[d] = "lapsed"}
<1>1. P[c] = "free" /\ Q[c] = kind /\ c \notin lapsing
  OBVIOUS
<1>2. \A d \in Keys \ {c} : \/ d \notin lapsing /\ Q[d] = P[d] /\ T[d] = S[d]
                            \/ d \in lapsing /\ T[d] = NoTime
  BY DEF OthersMakeWay, Keeps, Lapses
<1>3. Q = [d \in Keys |-> IF d = c THEN kind ELSE IF d \in lapsing THEN "lapsed" ELSE P[d]]
  <2>1. \A d \in Keys : Q[d] = IF d = c THEN kind ELSE IF d \in lapsing THEN "lapsed" ELSE P[d]
    BY <1>1, <1>2
  <2>2. QED
    BY <2>1
<1>4. T = [d \in Keys |-> IF d = c THEN T[c] ELSE IF d \in lapsing THEN NoTime ELSE S[d]]
  <2>1. \A d \in Keys : T[d] = IF d = c THEN T[c] ELSE IF d \in lapsing THEN NoTime ELSE S[d]
    BY <1>1, <1>2
  <2>2. QED
    BY <2>1
<1>5. \A d \in Keys \ (lapsing \cup {c}) : P[d] \in {"held", "booked"} =>
          T[c].until <= S[d].from \/ S[d].until <= T[c].from
  BY <1>2 DEF FindsRoom
<1>6. TheDiary!Take(c, kind, T[c], lapsing)
  BY <1>1, <1>3, <1>4, <1>5
  DEF TheDiary!Take, TheDiary!Clear, TheDiary!MadeWay, TheDiary!SpansOf, TheDiary!Live,
      TheDiary!Apart, TheDiary!NoSpan, PhaseOf, PhaseBefore, PhaseAfter, PhaseIn,
      SpanBefore, SpanAfter, SpanIn, NoTime
<1>7. QED
  BY <1>6 DEF TheDiary!Next, TheDiary!Lapsing, PhaseOf, PhaseBefore, PhaseAfter, PhaseIn,
              SpanBefore, SpanAfter, SpanIn, NoTime

LEMMA DiaryMoves ==
    ASSUME NEW c \in Keys, PhaseBefore(c) = "booked", PhaseAfter(c) = "booked",
           OthersMakeWay(c), FindsRoom(c)
    PROVE  TheDiary!Next
<1> DEFINE P == [k \in Keys |-> PhaseBefore(k)]
           Q == [k \in Keys |-> PhaseAfter(k)]
           S == [k \in Keys |-> SpanBefore(k)]
           T == [k \in Keys |-> SpanAfter(k)]
           lapsing == {d \in Keys : P[d] = "held" /\ Q[d] = "lapsed"}
<1>1. P[c] = "booked" /\ Q[c] = "booked" /\ c \notin lapsing
  OBVIOUS
<1>2. \A d \in Keys \ {c} : \/ d \notin lapsing /\ Q[d] = P[d] /\ T[d] = S[d]
                            \/ d \in lapsing /\ T[d] = NoTime
  BY DEF OthersMakeWay, Keeps, Lapses
<1>3. Q = [d \in Keys |-> IF d = c THEN "booked" ELSE IF d \in lapsing THEN "lapsed" ELSE P[d]]
  <2>1. \A d \in Keys : Q[d] = IF d = c THEN "booked"
                               ELSE IF d \in lapsing THEN "lapsed" ELSE P[d]
    BY <1>1, <1>2
  <2>2. QED
    BY <2>1
<1>4. T = [d \in Keys |-> IF d = c THEN T[c] ELSE IF d \in lapsing THEN NoTime ELSE S[d]]
  <2>1. \A d \in Keys : T[d] = IF d = c THEN T[c] ELSE IF d \in lapsing THEN NoTime ELSE S[d]
    BY <1>1, <1>2
  <2>2. QED
    BY <2>1
<1>5. \A d \in Keys \ (lapsing \cup {c}) : P[d] \in {"held", "booked"} =>
          T[c].until <= S[d].from \/ S[d].until <= T[c].from
  BY <1>2 DEF FindsRoom
<1>6. TheDiary!Move(c, T[c], lapsing)
  BY <1>1, <1>3, <1>4, <1>5
  DEF TheDiary!Move, TheDiary!Clear, TheDiary!MadeWay, TheDiary!SpansOf, TheDiary!Live,
      TheDiary!Apart, TheDiary!NoSpan, PhaseOf, PhaseBefore, PhaseAfter, PhaseIn,
      SpanBefore, SpanAfter, SpanIn, NoTime
<1>7. QED
  BY <1>6 DEF TheDiary!Next, TheDiary!Lapsing, PhaseOf, PhaseBefore, PhaseAfter, PhaseIn,
              SpanBefore, SpanAfter, SpanIn, NoTime

\* A claim that is booked, given back or cancelled, while nobody else's changes.
LEMMA DiaryEnds ==
    ASSUME NEW c \in Keys, \A d \in Keys \ {c} : Keeps(d),
           \/ PhaseBefore(c) = "held" /\ PhaseAfter(c) = "booked" /\ SpanAfter(c) = SpanBefore(c)
           \/ PhaseBefore(c) = "held" /\ PhaseAfter(c) = "lapsed" /\ SpanAfter(c) = NoTime
           \/ PhaseBefore(c) = "booked" /\ PhaseAfter(c) = "cancelled" /\ SpanAfter(c) = NoTime
    PROVE  TheDiary!Next
<1> DEFINE P == [k \in Keys |-> PhaseBefore(k)]
           Q == [k \in Keys |-> PhaseAfter(k)]
           S == [k \in Keys |-> SpanBefore(k)]
           T == [k \in Keys |-> SpanAfter(k)]
<1>1. /\ \A d \in Keys : Q[d] = IF d = c THEN Q[c] ELSE P[d]
      /\ \A d \in Keys : T[d] = IF d = c THEN T[c] ELSE S[d]
  BY DEF Keeps
<1>2. Q = [P EXCEPT ![c] = Q[c]] /\ T = [S EXCEPT ![c] = T[c]]
  BY <1>1
<1>3. CASE P[c] = "held" /\ Q[c] = "booked" /\ T[c] = S[c]
  <2>1. T = S
    BY <1>1, <1>3
  <2>2. TheDiary!Book(c)
    BY <1>2, <1>3, <2>1
    DEF TheDiary!Book, PhaseOf, PhaseBefore, PhaseAfter, PhaseIn, SpanBefore, SpanAfter,
        SpanIn, NoTime
  <2>3. QED
    BY <2>2 DEF TheDiary!Next
<1>4. CASE P[c] = "held" /\ Q[c] = "lapsed" /\ T[c] = NoTime
  <2>1. TheDiary!GiveBack(c)
    BY <1>2, <1>4
    DEF TheDiary!GiveBack, TheDiary!NoSpan, PhaseOf, PhaseBefore, PhaseAfter, PhaseIn,
        SpanBefore, SpanAfter, SpanIn, NoTime
  <2>2. QED
    BY <2>1 DEF TheDiary!Next
<1>5. CASE P[c] = "booked" /\ Q[c] = "cancelled" /\ T[c] = NoTime
  <2>1. TheDiary!Cancel(c)
    BY <1>2, <1>5
    DEF TheDiary!Cancel, TheDiary!NoSpan, PhaseOf, PhaseBefore, PhaseAfter, PhaseIn,
        SpanBefore, SpanAfter, SpanIn, NoTime
  <2>2. QED
    BY <2>1 DEF TheDiary!Next
<1>6. QED
  BY <1>3, <1>4, <1>5

\* What a row says of its claim.
LEMMA RowPhases ==
    ASSUME NEW bookings, NEW row \in ReservationRow
    PROVE  /\ PhaseIn(bookings, row) =
                  IF row.status = "ACTIVE" THEN IF row.booking = None THEN "held" ELSE "booked"
                  ELSE IF row.booking = None THEN "lapsed"
                  ELSE IF bookings[row.booking].status = "CANCELLED" THEN "cancelled" ELSE "lost"
           /\ SpanIn(row) = IF row.status = "ACTIVE"
                            THEN [from |-> row.from, until |-> row.until] ELSE NoTime
           /\ row # NoRow
<1>1. row # NoRow /\ row.status \in {"ACTIVE", "RELEASED"}
  BY DEF NoRow, ReservationRow
<1>2. QED
  BY <1>1 DEF PhaseIn, SpanIn

LEMMA EmptyPhase ==
    ASSUME NEW bookings
    PROVE  PhaseIn(bookings, NoRow) = "free" /\ SpanIn(NoRow) = NoTime
BY DEF PhaseIn, SpanIn, NoRow

\* No existing booking changes to or from CANCELLED.
StatusesStay ==
    \A b \in Bookings :
        booking[b] \in BookingRow =>
            (booking'[b].status = "CANCELLED" <=> booking[b].status = "CANCELLED")

LEMMA SameRowKeeps ==
    ASSUME Inv, StatusesStay, NEW k \in Keys, reservation'[k] = reservation[k]
    PROVE  Keeps(k)
<1>1. CASE reservation[k] = NoRow
  BY <1>1, EmptyPhase DEF Keeps, PhaseBefore, PhaseAfter, SpanBefore, SpanAfter
<1>2. CASE reservation[k] # NoRow
  <2>1. reservation[k] \in ReservationRow
    BY <1>2 DEF Inv, TypeOK
  <2>2. CASE reservation[k].booking # None
    <3>1. reservation[k].booking \in Bookings /\ booking[reservation[k].booking] \in BookingRow
      BY <1>2, <2>1, <2>2 DEF Inv, BookedReservationStays, ReservationRow
    <3>2. QED
      BY <2>1, <2>2, <3>1, RowPhases
      DEF Keeps, PhaseBefore, PhaseAfter, SpanBefore, SpanAfter, StatusesStay
  <2>3. CASE reservation[k].booking = None
    BY <2>1, <2>3, RowPhases DEF Keeps, PhaseBefore, PhaseAfter, SpanBefore, SpanAfter
  <2>4. QED
    BY <2>2, <2>3
<1>3. QED
  BY <1>1, <1>2

LEMMA SweptRowLapses ==
    ASSUME Inv, StatusesStay, NEW k \in Keys, NEW t,
           reservation'[k] = SweptReservations(t)[k]
    PROVE  Keeps(k) \/ Lapses(k)
<1>1. CASE ~Lapsed(reservation[k], t)
  BY <1>1, SameRowKeeps DEF SweptReservations
<1>2. CASE Lapsed(reservation[k], t)
  <2>1. reservation'[k] = Released(reservation[k])
    BY <1>2 DEF SweptReservations
  <2>2. reservation[k] \in ReservationRow /\ reservation[k].status = "ACTIVE"
    BY <1>2, ActiveRow DEF Lapsed, Inv, TypeOK
  <2>3. reservation[k].booking = None
    BY <1>2, <2>2, RowPhases DEF Lapsed, Inv, BookedReservationStays
  <2>4. /\ Released(reservation[k]) \in ReservationRow
        /\ Released(reservation[k]).status = "RELEASED"
        /\ Released(reservation[k]).booking = None
    BY <2>2, <2>3, ReleasedType
  <2>5. QED
    BY <2>1, <2>2, <2>3, <2>4, RowPhases
    DEF Lapses, PhaseBefore, PhaseAfter, SpanBefore, SpanAfter
<1>3. QED
  BY <1>1, <1>2

\* The exclusion constraint is what a claim needs.
LEMMA ConstraintMakesRoom ==
    ASSUME Inv', NEW c \in Keys, reservation'[c].status = "ACTIVE"
    PROVE  FindsRoom(c)
<1>1. ASSUME NEW d \in Keys \ {c}, PhaseAfter(d) \in {"held", "booked"}
      PROVE  SpanAfter(c).until <= SpanAfter(d).from \/ SpanAfter(d).until <= SpanAfter(c).from
  <2>1. reservation'[c] \in ReservationRow /\ reservation'[d] \in ReservationRow \cup {NoRow}
    BY ActiveRow DEF Inv, TypeOK
  <2>2. reservation'[d] \in ReservationRow /\ reservation'[d].status = "ACTIVE"
    BY <1>1, <2>1, RowPhases, EmptyPhase DEF PhaseAfter
  <2>3. ~Overlap(reservation'[c], reservation'[d])
    BY <2>2 DEF Inv, ReservationsDisjoint
  <2>4. /\ SpanAfter(c) = [from |-> reservation'[c].from, until |-> reservation'[c].until]
        /\ SpanAfter(d) = [from |-> reservation'[d].from, until |-> reservation'[d].until]
    BY <2>1, <2>2, RowPhases DEF SpanAfter
  <2>5. QED
    BY <2>1, <2>2, <2>3, <2>4 DEF Overlap, ReservationRow
<1>2. QED
  BY <1>1 DEF FindsRoom

\* Each step of the service is a step of the diary, or none.
DiaryStep == TheDiary!Next \/ UNCHANGED TheDiary!vars

LEMMA HoldIsTaken ==
    ASSUME Inv, Inv', NEW c \in Clients, NEW h \in Holds, CommitHold(c, h)
    PROVE  DiaryStep
<1> DEFINE r == request[c]
<1>1. TypeOK /\ h \in Keys /\ booking' = booking /\ reservation[h] = NoRow
  BY DEF Inv, ReservationsHaveOrigins, CommitHold, Keys
<1>2. SweptReservations(r.now) \in ReservationTable
  BY <1>1, SweepType
<1>3. /\ \A k \in Keys \ {h} : reservation'[k] = SweptReservations(r.now)[k]
      /\ reservation'[h].status = "ACTIVE" /\ reservation'[h].booking = None
  BY <1>1, <1>2 DEF CommitHold, ReservationTable, NewReservation
<1>4. OthersMakeWay(h)
  BY <1>1, <1>3, SweptRowLapses DEF OthersMakeWay, StatusesStay
<1>5. PhaseBefore(h) = "free"
  BY <1>1, EmptyPhase DEF PhaseBefore
<1>6. PhaseAfter(h) = "held"
  <2>1. reservation'[h] \in ReservationRow
    BY <1>1, <1>3, ActiveRow DEF Inv, TypeOK
  <2>2. QED
    BY <1>3, <2>1, RowPhases DEF PhaseAfter
<1>7. QED
  BY <1>1, <1>3, <1>4, <1>5, <1>6, ConstraintMakesRoom, DiaryTakes DEF DiaryStep

LEMMA DirectBookingIsTaken ==
    ASSUME Inv, Inv', NEW c \in Clients, NEW b \in Bookings, CommitDirectBooking(c, b)
    PROVE  DiaryStep
<1> DEFINE r == request[c]
<1>1. TypeOK /\ b \in Keys /\ booking[b] = NoRow /\ reservation[b] = NoRow /\ b # None
  BY IdentifierAssumption
  DEF Inv, ReservationsHaveOrigins, CommitDirectBooking, Keys
<1>2. SweptReservations(r.now) \in ReservationTable
  BY <1>1, SweepType
<1>3. /\ \A k \in Keys \ {b} : reservation'[k] = SweptReservations(r.now)[k]
      /\ reservation'[b].status = "ACTIVE" /\ reservation'[b].booking = b
  BY <1>1, <1>2 DEF CommitDirectBooking, ReservationTable, NewReservation
<1>4. StatusesStay
  <2>1. NoRow \notin BookingRow
    BY DEF NoRow, BookingRow
  <2>2. QED
    BY <1>1, <2>1 DEF StatusesStay, CommitDirectBooking, TypeOK
<1>5. OthersMakeWay(b)
  BY <1>3, <1>4, SweptRowLapses DEF OthersMakeWay
<1>6. PhaseBefore(b) = "free"
  BY <1>1, EmptyPhase DEF PhaseBefore
<1>7. PhaseAfter(b) = "booked"
  <2>1. reservation'[b] \in ReservationRow
    BY <1>1, <1>3, ActiveRow DEF Inv, TypeOK
  <2>2. QED
    BY <1>1, <1>3, <2>1, RowPhases DEF PhaseAfter
<1>8. QED
  BY <1>1, <1>3, <1>5, <1>6, <1>7, ConstraintMakesRoom, DiaryTakes DEF DiaryStep

\* A reservation no booking owns is given back.
LEMMA ReleasedRowIsGivenBack ==
    ASSUME Inv, booking' = booking, NEW h \in Keys,
           \A k \in Keys \ {h} : reservation'[k] = reservation[k],
           \/ reservation'[h] = reservation[h]
           \/ /\ reservation[h].status = "ACTIVE" /\ reservation[h].booking = None
              /\ reservation'[h] = Released(reservation[h])
    PROVE  DiaryStep
<1>1. \A k \in Keys : reservation'[k] = reservation[k] => Keeps(k)
  BY SameRowKeeps DEF StatusesStay
<1>2. CASE reservation'[h] = reservation[h]
  BY <1>1, <1>2, DiaryKeeps DEF DiaryStep
<1>3. CASE /\ reservation[h].status = "ACTIVE" /\ reservation[h].booking = None
           /\ reservation'[h] = Released(reservation[h])
  <2>1. reservation[h] \in ReservationRow
    BY <1>3, ActiveRow DEF Inv, TypeOK
  <2>2. /\ reservation'[h] \in ReservationRow
        /\ reservation'[h].status = "RELEASED" /\ reservation'[h].booking = None
    BY <1>3, <2>1, ReleasedType
  <2>3. PhaseBefore(h) = "held" /\ PhaseAfter(h) = "lapsed" /\ SpanAfter(h) = NoTime
    BY <1>3, <2>1, <2>2, RowPhases DEF PhaseBefore, PhaseAfter, SpanAfter
  <2>4. QED
    BY <1>1, <2>3, DiaryEnds DEF DiaryStep
<1>4. QED
  BY <1>2, <1>3

LEMMA ReleaseGivesBack ==
    ASSUME CalmInv, NEW c \in Clients, CommitRelease(c)
    PROVE  DiaryStep
<1> DEFINE h == request[c].hold
<1>1. TypeOK /\ booking' = booking /\ h \in Holds /\ h \in Keys /\ Inv
  BY RequestType DEF CalmInv, Inv, CommitRelease, ReleaseRequest, Keys
<1>2. hold[h].status # "CONFIRMED"
  BY DEF CalmInv, ReleasesSpareConfirmedHolds, CommitRelease
<1>3. CASE reservation' = reservation
  BY <1>1, <1>3, ReleasedRowIsGivenBack
<1>4. CASE /\ hold[h] \in HoldRow /\ reservation[h].status = "ACTIVE"
           /\ reservation' = [reservation EXCEPT ![h] = Released(reservation[h])]
  <2>1. reservation[h] \in ReservationRow
    BY <1>1, <1>4, ActiveRow DEF TypeOK
  <2>2. reservation[h].booking = None
    BY <1>1, <1>2, <1>4, <2>1 DEF CalmInv, AdoptedHoldIsConfirmed
  <2>3. QED
    BY <1>1, <1>4, <2>2, ReleasedRowIsGivenBack DEF TypeOK
<1>5. QED
  BY <1>3, <1>4 DEF CommitRelease

LEMMA SweeperGivesBack ==
    ASSUME CalmInv, NEW h \in Holds, SweepHold(h) \/ SweepReservation(h)
    PROVE  DiaryStep
<1>1. TypeOK /\ booking' = booking /\ h \in Keys /\ Inv
  BY DEF CalmInv, Inv, SweepHold, SweepReservation, Keys
<1>2. CASE reservation' = reservation
  BY <1>1, <1>2, ReleasedRowIsGivenBack
<1>3. CASE /\ SweepReservation(h) /\ hold[h] # DeletedRow /\ reservation[h].status = "ACTIVE"
           /\ reservation' = [reservation EXCEPT ![h] = Released(reservation[h])]
  <2>1. reservation[h] \in ReservationRow
    BY <1>1, <1>3, ActiveRow DEF TypeOK
  <2>2. reservation[h].booking = None
    <3>1. hold[h].status # "CONFIRMED"
      BY <1>3 DEF CalmInv, Inv, SweptHoldsAreReleased, SweepReservation
    <3>2. hold[h] # NoRow
      BY <2>1 DEF CalmInv, Inv, ReservationsHaveOrigins, ReservationRow, NoRow
    <3>3. hold[h] \in HoldRow
      BY <1>1, <1>3, <3>2 DEF TypeOK
    <3>4. QED
      BY <2>1, <3>1, <3>3 DEF CalmInv, AdoptedHoldIsConfirmed
  <2>3. QED
    BY <1>1, <1>3, <2>2, ReleasedRowIsGivenBack DEF TypeOK
<1>4. QED
  BY <1>2, <1>3 DEF SweepHold, SweepReservation

LEMMA ConfirmationBooks ==
    ASSUME Inv, Inv', NEW c \in Clients, NEW b \in Bookings, CommitConfirm(c, b)
    PROVE  DiaryStep
<1> DEFINE h == request[c].hold
<1>1. /\ TypeOK /\ h \in Holds /\ h \in Keys /\ b # None
      /\ booking[b] = NoRow /\ hold[h].status = "ACTIVE"
  BY RequestType, IdentifierAssumption
  DEF Inv, CommitConfirm, ConfirmRequest, Keys, HoldUsable
<1>2. /\ reservation[h] \in ReservationRow /\ reservation[h].booking = None
      /\ reservation[h].status = "ACTIVE"
  BY <1>1 DEF Inv, ActiveHoldIsUnadopted, CommitConfirm
<1>3. /\ \A k \in Keys \ {h} : reservation'[k] = reservation[k]
      /\ reservation'[h] = Adopted(reservation[h], b)
  BY <1>1 DEF CommitConfirm, TypeOK
<1>4. /\ reservation'[h] \in ReservationRow /\ reservation'[h].booking = b
      /\ reservation'[h].status = "ACTIVE" /\ reservation'[h].from = reservation[h].from
      /\ reservation'[h].until = reservation[h].until
  BY <1>2, <1>3 DEF Adopted, ReservationRow
<1>5. StatusesStay
  <2>1. NoRow \notin BookingRow
    BY DEF NoRow, BookingRow
  <2>2. QED
    BY <1>1, <2>1 DEF StatusesStay, CommitConfirm, TypeOK
<1>6. \A k \in Keys \ {h} : Keeps(k)
  BY <1>3, <1>5, SameRowKeeps
<1>7. PhaseBefore(h) = "held" /\ PhaseAfter(h) = "booked" /\ SpanAfter(h) = SpanBefore(h)
  BY <1>1, <1>2, <1>4, RowPhases DEF PhaseBefore, PhaseAfter, SpanBefore, SpanAfter
<1>8. QED
  BY <1>1, <1>6, <1>7, DiaryEnds DEF DiaryStep

LEMMA RescheduleMoves ==
    ASSUME Inv, Inv', NEW c \in Clients, CommitReschedule(c)
    PROVE  DiaryStep
<1> DEFINE r == request[c]
           swept == SweptReservations(r.now)
           span == Occupied(booking[r.booking].service, r.start)
<1>1. TypeOK /\ r \in MoveRequest
  BY RequestType DEF Inv, CommitReschedule
<1>2. PICK b \in Bookings : b = r.booking
  BY <1>1 DEF MoveRequest
<1>3. booking[b] \in BookingRow /\ r.start \in Starts
  BY <1>1, <1>2 DEF CommitReschedule, VersionMatches, TypeOK, MoveRequest
<1>4. StatusesStay
  <2>1. booking' = [booking EXCEPT ![b] = Rescheduled(booking[b], r.start)]
    BY <1>2 DEF CommitReschedule
  <2>2. QED
    BY <1>1, <1>3, <2>1, RescheduledType DEF TypeOK, StatusesStay
<1>5. swept \in ReservationTable /\ span \in [from: Int, until: Int]
  BY <1>1, <1>2, <1>3, SweepType, OccupiedType DEF BookingRow
<1>6. PICK k \in Keys : OwnedBy(swept[k], b)
  BY <1>2 DEF CommitReschedule
<1>7. /\ swept[k] = reservation[k] /\ reservation[k] \in ReservationRow
      /\ reservation[k].status = "ACTIVE" /\ reservation[k].booking = b
  <2>1. swept[k] = reservation[k] \/ swept[k].status = "RELEASED"
    BY <1>1, <1>6, ActiveRow, ReleasedType DEF SweptReservations, Lapsed, TypeOK
  <2>2. QED
    BY <1>1, <1>6, <2>1, ActiveRow DEF OwnedBy, TypeOK
<1>8. /\ reservation'[k] = Respanned(swept[k], span)
      /\ \A j \in Keys \ {k} : reservation'[j] = swept[j]
  <2>1. \A j \in Keys : reservation'[j] = IF OwnedBy(swept[j], b) THEN Respanned(swept[j], span)
                                          ELSE swept[j]
    <3>1. reservation' = MovedReservations(swept, b, span)
      BY <1>2 DEF CommitReschedule
    <3>2. QED
      BY <3>1 DEF MovedReservations
  <2>2. ASSUME NEW j \in Keys, OwnedBy(swept[j], b)
        PROVE  j = k
    <3>1. swept[j] = reservation[j] \/ swept[j].status = "RELEASED"
      BY <1>1, <2>2, ActiveRow, ReleasedType DEF SweptReservations, Lapsed, TypeOK
    <3>2. reservation[j].booking = b /\ reservation[j] \in ReservationRow
      BY <1>1, <2>2, <3>1, ActiveRow DEF OwnedBy, TypeOK
    <3>3. reservation[j] # NoRow /\ reservation[k] # NoRow /\ b # None
      BY <1>7, <3>2, RowPhases, IdentifierAssumption
    <3>4. QED
      BY <1>7, <3>2, <3>3 DEF Inv, OneReservationPerBooking
  <2>3. QED
    BY <1>6, <2>1, <2>2
<1>9. /\ reservation'[k] \in ReservationRow /\ reservation'[k].status = "ACTIVE"
      /\ reservation'[k].booking = b
  BY <1>5, <1>7, <1>8, MovedRowType
<1>10. OthersMakeWay(k)
  BY <1>4, <1>8, SweptRowLapses DEF OthersMakeWay
<1>11. PhaseBefore(k) = "booked" /\ PhaseAfter(k) = "booked"
  BY <1>7, <1>9, RowPhases, IdentifierAssumption DEF PhaseBefore, PhaseAfter
<1>12. QED
  BY <1>9, <1>10, <1>11, ConstraintMakesRoom, DiaryMoves DEF DiaryStep

\* A booking that gives its time back is live until then, so the reservation released
\* is the only one it ever had.
LEMMA CancellationEnds ==
    ASSUME CalmInv, NEW c \in Clients, CommitCancellation(c)
    PROVE  DiaryStep
<1> DEFINE r == request[c]
<1>1. TypeOK /\ Inv /\ r \in EditRequest
  BY RequestType DEF CalmInv, Inv, CommitCancellation
<1>2. PICK b \in Bookings : b = r.booking
  BY <1>1 DEF EditRequest
<1>3. /\ booking[b] \in BookingRow /\ booking[b] # NoRow
      /\ r.version = booking[b].version
  BY <1>1, <1>2 DEF CommitCancellation, VersionMatches, TypeOK
<1>4. ~ReleasesCapacity(booking[b].status)
  <2>1. ~Terminal(booking[b].status)
    BY <1>2, <1>3 DEF Inv, RequestsAreTrue, CopyIsTrue, CommitCancellation, CalmInv
  <2>2. QED
    BY <2>1 DEF Terminal, LegalTransitions, ReleasesCapacity
<1>5. PICK k \in Keys : OwnedBy(reservation[k], b)
  BY <1>3, <1>4 DEF CalmInv, LiveBookingHoldsItsSlot
<1>6. reservation[k] \in ReservationRow /\ reservation[k] # NoRow /\ b # None
  BY <1>1, <1>5, ActiveRow, RowPhases, IdentifierAssumption DEF OwnedBy, TypeOK
<1>7. \A j \in Keys \ {k} : reservation[j] # NoRow => reservation[j].booking # b
  BY <1>1, <1>5, <1>6 DEF Inv, OneReservationPerBooking, OwnedBy
<1>8. /\ reservation'[k] = Released(reservation[k])
      /\ \A j \in Keys \ {k} : reservation'[j] = reservation[j]
  <2>1. reservation' = ReleasedReservations(b)
    BY <1>2 DEF CommitCancellation
  <2>2. \A j \in Keys \ {k} : ~OwnedBy(reservation[j], b)
    BY <1>7 DEF OwnedBy, NoRow
  <2>3. QED
    BY <1>5, <2>1, <2>2 DEF ReleasedReservations
<1>9. /\ booking'[b].status = "CANCELLED"
      /\ \A a \in Bookings \ {b} : booking'[a] = booking[a]
  BY <1>1, <1>2, <1>3, WithStatusType DEF CommitCancellation, TypeOK, BookingStatuses
<1>10. ASSUME NEW j \in Keys \ {k}
       PROVE  Keeps(j)
  <2>1. CASE reservation[j] = NoRow
    BY <1>8, <2>1, EmptyPhase DEF Keeps, PhaseBefore, PhaseAfter, SpanBefore, SpanAfter
  <2>2. CASE reservation[j] # NoRow
    <3>1. reservation[j] \in ReservationRow /\ reservation'[j] = reservation[j]
      BY <1>1, <1>8, <2>2 DEF TypeOK
    <3>2. reservation[j].booking # None =>
              booking'[reservation[j].booking] = booking[reservation[j].booking]
      BY <1>7, <1>9, <2>2, <3>1 DEF ReservationRow
    <3>3. QED
      BY <3>1, <3>2, RowPhases DEF Keeps, PhaseBefore, PhaseAfter, SpanBefore, SpanAfter
  <2>3. QED
    BY <2>1, <2>2
<1>11. /\ reservation'[k] \in ReservationRow /\ reservation'[k].status = "RELEASED"
       /\ reservation'[k].booking = b
  BY <1>5, <1>6, <1>8, ReleasedType DEF OwnedBy
<1>12. PhaseBefore(k) = "booked" /\ PhaseAfter(k) = "cancelled" /\ SpanAfter(k) = NoTime
  BY <1>5, <1>6, <1>9, <1>11, RowPhases DEF PhaseBefore, PhaseAfter, SpanAfter, OwnedBy
<1>13. QED
  BY <1>10, <1>12, DiaryEnds DEF DiaryStep

\* A PATCH changes nobody's time.
LEMMA UpdateKeeps ==
    ASSUME Inv, PatchesAreEdits, NEW c \in Clients, CommitUpdate(c)
    PROVE  DiaryStep
<1> DEFINE r == request[c]
           b == r.booking
           status == IF r.to = None THEN booking[b].status ELSE r.to
<1>1. TypeOK /\ r \in EditRequest /\ r.to \in PatchStatuses
  BY RequestType DEF Inv, CommitUpdate, PatchesAreEdits
<1>2. b \in Bookings /\ booking[b] \in BookingRow /\ r.version = booking[b].version
  BY <1>1 DEF CommitUpdate, VersionMatches, TypeOK, EditRequest
<1>3. r.to # None => r.to \in LegalTransitions(booking[b].status)
  BY <1>2 DEF Inv, RequestsAreTrue, CopyIsTrue, CommitUpdate
<1>4. status = "CANCELLED" <=> booking[b].status = "CANCELLED"
  BY <1>1, <1>3 DEF PatchStatuses, LegalTransitions
<1>5. ~ReleasesCapacity(r.to)
  BY <1>1, IdentifierAssumption DEF ReleasesCapacity, PatchStatuses
<1>6. reservation' = reservation
  BY <1>5 DEF CommitUpdate
<1>7. StatusesStay
  <2>1. status \in BookingStatuses
    BY <1>1, <1>2 DEF PatchStatuses, BookingStatuses, BookingRow
  <2>2. booking' = [booking EXCEPT ![b] = WithStatus(booking[b], status)]
    BY DEF CommitUpdate
  <2>3. QED
    BY <1>1, <1>2, <1>4, <2>1, <2>2, WithStatusType DEF TypeOK, StatusesStay
<1>8. QED
  BY <1>6, <1>7, SameRowKeeps, DiaryKeeps DEF DiaryStep

\* Nor does anything else.
LEMMA QuietStepKeeps ==
    ASSUME Inv, reservation' = reservation, booking' = booking \/ RetentionBatch
    PROVE  DiaryStep
<1>1. StatusesStay
  <2>1. CASE booking' = booking
    BY <2>1 DEF StatusesStay
  <2>2. CASE RetentionBatch
    <3>1. \A b \in Bookings : \/ booking'[b] = booking[b]
                              \/ booking'[b] = [booking[b] EXCEPT !.hold = None]
      BY <2>2 DEF RetentionBatch
    <3>2. QED
      BY <3>1, UnlinkedType DEF StatusesStay
  <2>3. QED
    BY <2>1, <2>2
<1>2. QED
  BY <1>1, SameRowKeeps, DiaryKeeps DEF DiaryStep

LEMMA CalmStepIsDiarys ==
    ASSUME CalmInv, Inv', PatchesAreEdits, [CalmNext]_vars
    PROVE  DiaryStep
<1>1. Inv
  BY DEF CalmInv
<1>2. ASSUME NEW c \in Clients, Commit(c)
      PROVE  DiaryStep
  BY <1>1, <1>2, HoldIsTaken, DirectBookingIsTaken, ReleaseGivesBack, ConfirmationBooks,
     RescheduleMoves, CancellationEnds, UpdateKeeps DEF Commit
<1>3. CASE Worker
  <2>1. CASE \E h \in Holds : SweepHold(h) \/ SweepReservation(h)
    BY <2>1, SweeperGivesBack
  <2>2. CASE \/ \E h \in Holds : SweeperCrash(h)
             \/ RetentionBatch
    BY <1>1, <2>2, QuietStepKeeps DEF SweeperCrash, RetentionBatch, tables
  <2>3. QED
    BY <1>3, <2>1, <2>2 DEF Worker
<1>4. CASE \/ \E c \in Clients : Begin(c) \/ Abandon(c)
           \/ Tick \/ UNCHANGED vars
  <2>1. reservation' = reservation /\ booking' = booking
    BY <1>4 DEF Begin, BeginHold, BeginDirectBooking, BeginRelease, BeginConfirm,
         BeginReschedule, BeginCancellation, BeginUpdate, BeginEdit, Start, Abandon, Tick,
         tables, vars
  <2>2. QED
    BY <1>1, <2>1, QuietStepKeeps
<1>5. QED
  BY <1>2, <1>3, <1>4 DEF CalmNext, Next

LEMMA DiaryStarts ==
    ASSUME Init
    PROVE  TheDiary!Init
BY DEF TheDiary!Init, TheDiary!NoSpan, Init, PhaseOf, NoRow

\* The service's calm runs are runs of the diary.
THEOREM ServiceImplementsTheDiary == CalmSpec => ImplementsDiary
<1>1. Init => TheDiary!Init /\ PatchesAreEdits
  BY DiaryStarts DEF Init, PatchesAreEdits, Idle
<1>2. CalmInv /\ PatchesAreEdits /\ [CalmNext]_vars => PatchesAreEdits'
  BY PatchesStayEdits DEF CalmInv, Inv, CalmNext
<1>3. CalmInv /\ CalmInv' /\ PatchesAreEdits /\ [CalmNext]_vars
          => [TheDiary!Next]_(TheDiary!vars)
  BY CalmStepIsDiarys DEF CalmInv, DiaryStep
<1>4. QED
  BY <1>1, <1>2, <1>3, CalmTablesAgree, PTL DEF CalmSpec, ImplementsDiary, TheDiary!Spec

(***************************************************************************)
(* The same request again.  Every booking route runs under withIdempotency *)
(* and its key.  A key does its work at most once in a lease, everybody is *)
(* answered with the work of their own request, and a late answer stays    *)
(* out of its successor's entry.                                           *)
(*                                                                         *)
(* The inductive invariant ties the three things the wrapper never reads   *)
(* together to each other: the entry, whose claim is the one honoured      *)
(* exactly until the entry expires; the claims the calls hold, each unused *)
(* until one call takes it and never given to another; and the responses   *)
(* stored or returned, each the work of a claim that is done.              *)
(***************************************************************************)
\* The row's claim is honoured until the row expires, and no other claim is.
RowIsTheLease ==
    /\ entry.id \in Claims => lease[entry.id] = (IF entry.expired THEN "over" ELSE "honoured")
    /\ entry.id \in Claims => sender[entry.id] = entry.body
    /\ entry.id \notin Claims => entry = NoEntry
    /\ \A i \in Claims : lease[i] = "honoured" => i = entry.id

\* A call at work holds a claim of its own, made for its body.
CallsHoldTheirClaims ==
    /\ \A c \in Calls : call[c].at # "idle" => call[c].body \in Bodies
    /\ \A c \in Calls : Working(c) => /\ call[c].id \in Claims
                                      /\ lease[call[c].id] # "unused"
                                      /\ sender[call[c].id] = call[c].body
    /\ \A c, d \in Calls : Working(c) /\ Working(d) /\ call[c].id = call[d].id => c = d

\* Work is done for claims made, and whoever is about to store has done it.
WorkIsDone ==
    /\ \A i \in done : lease[i] # "unused"
    /\ \A c \in Calls : call[c].at = "store" => call[c].id \in done

\* A stored response is the row's own, and done.
StoredIsDone ==
    /\ entry.response \in {Null, entry.id}
    /\ entry.response \in Claims => entry.response \in done

KeyInv ==
    /\ KeyTypeOK
    /\ RowIsTheLease
    /\ CallsHoldTheirClaims
    /\ WorkIsDone
    /\ StoredIsDone
    /\ ReplaysItsOwn

LEMMA KeyInitHolds == KeyInit => KeyInv
<1> SUFFICES ASSUME KeyInit PROVE KeyInv
  OBVIOUS
<1> USE IdempotencyAssumption DEF KeyInit, NoEntry, NoCall
<1>1. KeyTypeOK
  BY DEF KeyTypeOK, EntryRow, Call
<1>2. RowIsTheLease
  BY DEF RowIsTheLease
<1>3. CallsHoldTheirClaims
  BY DEF CallsHoldTheirClaims, Working
<1>4. WorkIsDone /\ StoredIsDone
  BY DEF WorkIsDone, StoredIsDone
<1>5. ReplaysItsOwn
  BY DEF ReplaysItsOwn
<1> QED  BY <1>1, <1>2, <1>3, <1>4, <1>5 DEF KeyInv

\* The row's half speaks of no call.
LEMMA RowStands ==
    ASSUME KeyInv, UNCHANGED <<entry, lease, sender>>, done \subseteq done'
    PROVE  RowIsTheLease' /\ StoredIsDone'
BY DEF KeyInv, RowIsTheLease, StoredIsDone, NoEntry

LEMMA AskKeeps ==
    ASSUME KeyInv, NEW c \in Calls, NEW body \in Bodies, Ask(c, body) PROVE KeyInv'
<1>1. UNCHANGED <<entry, lease, sender, done>>
  BY DEF Ask
<1>2. /\ call' \in [Calls -> Call]
      /\ call'[c].at = "ask" /\ call'[c].body = body /\ call'[c].answer = Null
      /\ \A d \in Calls \ {c} : call'[d] = call[d]
  BY DEF Ask, NoCall, KeyInv, KeyTypeOK, Call
<1>3. KeyTypeOK'
  BY <1>1, <1>2 DEF KeyInv, KeyTypeOK
<1>4. CallsHoldTheirClaims'
  BY <1>1, <1>2 DEF KeyInv, CallsHoldTheirClaims, Working
<1>5. WorkIsDone'
  BY <1>1, <1>2 DEF KeyInv, WorkIsDone
<1>6. ReplaysItsOwn'
  BY <1>1, <1>2, IdempotencyAssumption DEF KeyInv, ReplaysItsOwn
<1> QED  BY <1>1, <1>3, <1>4, <1>5, <1>6, RowStands DEF KeyInv

LEMMA ClaimKeeps ==
    ASSUME KeyInv, NEW c \in Calls, Claim(c) PROVE KeyInv'
<1> USE IdempotencyAssumption DEF KeyInv
<1>1. PICK i \in Claims :
         /\ lease[i] = "unused"
         /\ entry' = [id |-> i, body |-> call[c].body, response |-> Null, expired |-> FALSE]
         /\ call' = [call EXCEPT ![c] = [@ EXCEPT !.at = "work", !.id = i]]
         /\ lease' = [lease EXCEPT ![i] = "honoured"]
         /\ sender' = [sender EXCEPT ![i] = call[c].body]
  BY DEF Claim
<1>2. done' = done /\ call[c].at = "ask" /\ ~Honoured
  BY DEF Claim
<1>3. call[c].body \in Bodies /\ i \notin done
  BY <1>1, <1>2 DEF CallsHoldTheirClaims, WorkIsDone, StoredIsDone
<1>4. \A j \in Claims : lease[j] # "honoured"
  <2>1. CASE entry = NoEntry
    BY <2>1, IdempotencyAssumption DEF RowIsTheLease, NoEntry
  <2>2. CASE entry # NoEntry
    <3>1. entry.expired /\ entry.id \in Claims
      BY <1>2, <2>2 DEF RowIsTheLease, Honoured
    <3> QED  BY <3>1 DEF RowIsTheLease
  <2> QED  BY <2>1, <2>2
<1>5. /\ call' \in [Calls -> Call]
       /\ call'[c].id = i /\ call'[c].body = call[c].body /\ call'[c].at = "work"
       /\ call'[c].answer = call[c].answer
       /\ \A d \in Calls : d # c => call'[d] = call[d]
  <2> DEFINE new == [call[c] EXCEPT !.at = "work", !.id = i]
  <2>1. call[c] \in Call
    BY DEF KeyTypeOK
  <2>2. /\ new \in Call /\ new.id = i /\ new.body = call[c].body /\ new.at = "work"
        /\ new.answer = call[c].answer
    BY <2>1 DEF Call
  <2> HIDE DEF new
  <2> QED  BY <1>1, <2>2 DEF KeyTypeOK, new
<1>6. KeyTypeOK'
  <2>1. entry' \in EntryRow
    BY <1>1, <1>3 DEF EntryRow
  <2>2. lease' \in [Claims -> {"unused", "honoured", "over"}]
    BY <1>1 DEF KeyTypeOK
  <2>3. sender' \in [Claims -> Bodies \cup {Null}]
    BY <1>1, <1>3 DEF KeyTypeOK
  <2> QED  BY <1>2, <1>5, <2>1, <2>2, <2>3 DEF KeyTypeOK
<1>7. RowIsTheLease'
  BY <1>1, <1>2, <1>3, <1>4 DEF RowIsTheLease, NoEntry, KeyTypeOK, EntryRow
<1>8. CallsHoldTheirClaims'
  <2>1. \A d \in Calls : d # c /\ Working(d) => call[d].id # i
    BY <1>1 DEF CallsHoldTheirClaims
  <2>2. \A d \in Calls : d # c => (Working(d)' <=> Working(d))
    BY <1>5 DEF Working
  <2>3. lease'[i] = "honoured" /\ sender'[i] = call[c].body
    BY <1>1 DEF KeyTypeOK
  <2>4. \A j \in Claims \ {i} : lease'[j] = lease[j] /\ sender'[j] = sender[j]
    BY <1>1 DEF KeyTypeOK
  <2>5. \A d \in Calls : call'[d].at # "idle" => call'[d].body \in Bodies
    BY <1>3, <1>5 DEF CallsHoldTheirClaims
  <2>6. \A d \in Calls : Working(d)' => /\ call'[d].id \in Claims
                                       /\ lease'[call'[d].id] # "unused"
                                       /\ sender'[call'[d].id] = call'[d].body
    <3> TAKE d \in Calls
    <3>1. CASE d = c
      BY <3>1, <1>5, <2>3
    <3>2. CASE d # c
      <4>1. Working(d)' => Working(d) /\ call[d].id \in Claims \ {i}
        BY <3>2, <2>1, <2>2 DEF CallsHoldTheirClaims
      <4>2. /\ call'[d] = call[d]
            /\ Working(d) => /\ lease'[call[d].id] = lease[call[d].id]
                             /\ sender'[call[d].id] = sender[call[d].id]
        BY <3>2, <4>1, <1>5, <2>1, <2>4 DEF CallsHoldTheirClaims
      <4>3. Working(d) => /\ lease[call[d].id] # "unused"
                          /\ sender[call[d].id] = call[d].body
        BY DEF CallsHoldTheirClaims
      <4> QED  BY <4>1, <4>2, <4>3
    <3> QED  BY <3>1, <3>2
  <2>7. \A d, e \in Calls : Working(d)' /\ Working(e)' /\ call'[d].id = call'[e].id => d = e
    BY <1>5, <2>1, <2>2 DEF CallsHoldTheirClaims
  <2> QED  BY <2>5, <2>6, <2>7 DEF CallsHoldTheirClaims
<1>9. WorkIsDone' /\ StoredIsDone'
  BY <1>1, <1>2, <1>3, <1>5 DEF KeyTypeOK, WorkIsDone, StoredIsDone
<1>10. ReplaysItsOwn'
  <2> SUFFICES ASSUME NEW d \in Calls, call'[d].answer \in Claims
               PROVE  call'[d].answer \in done' /\ sender'[call'[d].answer] = call'[d].body
    BY DEF ReplaysItsOwn
  <2>1. call'[d].answer = call[d].answer /\ call'[d].body = call[d].body
    BY <1>5
  <2>2. call[d].answer \in done /\ sender[call[d].answer] = call[d].body
    BY <2>1 DEF ReplaysItsOwn
  <2>3. call[d].answer # i
    BY <1>3, <2>2
  <2>4. sender'[call[d].answer] = sender[call[d].answer]
    BY <1>1, <2>1, <2>3 DEF KeyTypeOK
  <2> QED  BY <1>2, <2>1, <2>2, <2>4
<1> QED  BY <1>6, <1>7, <1>8, <1>9, <1>10

\* Whatever answers a call that asked or worked keeps the half of the invariant
\* that speaks of calls.
LEMMA AnsweringKeeps ==
    ASSUME KeyInv, NEW c \in Calls, NEW w \in Claims \cup Refusals,
           call[c].at # "idle", Answered(c, w), UNCHANGED <<lease, sender, done>>,
           w \in Claims => w \in done /\ sender[w] = call[c].body
    PROVE  /\ call' \in [Calls -> Call]
           /\ CallsHoldTheirClaims'
           /\ WorkIsDone'
           /\ ReplaysItsOwn'
<1>1. call' \in [Calls -> Call]
  <2> DEFINE new == [call[c] EXCEPT !.at = "answered", !.answer = w]
  <2>1. call[c] \in Call
    BY DEF KeyInv, KeyTypeOK
  <2>2. new \in Call
    BY <2>1 DEF Call
  <2> HIDE DEF new
  <2> QED  BY <2>2 DEF KeyInv, KeyTypeOK, Answered, new
<1>2. call'[c].at = "answered" /\ call'[c].body = call[c].body /\ call'[c].answer = w
  BY DEF KeyInv, KeyTypeOK, Call, Answered
<1>3. \A d \in Calls \ {c} : call'[d] = call[d]
  BY DEF KeyInv, KeyTypeOK, Answered
<1>4. CallsHoldTheirClaims'
  BY <1>2, <1>3 DEF KeyInv, CallsHoldTheirClaims, Working
<1>5. WorkIsDone'
  BY <1>2, <1>3 DEF KeyInv, WorkIsDone
<1>6. ReplaysItsOwn'
  BY <1>2, <1>3 DEF KeyInv, ReplaysItsOwn
<1> QED  BY <1>1, <1>4, <1>5, <1>6

LEMMA ReplayKeeps ==
    ASSUME KeyInv, NEW c \in Calls, Replay(c) PROVE KeyInv'
<1> DEFINE w == ReplayOf(call[c].body)
<1>1. /\ call[c].at = "ask" /\ Honoured /\ Answered(c, w)
      /\ UNCHANGED <<entry, lease, sender, done>>
  BY DEF Replay
<1>2. entry \in EntryRow
  BY DEF KeyInv, KeyTypeOK
<1>3. w \in Claims \cup Refusals
  BY <1>2, IdempotencyAssumption DEF ReplayOf, Refusals, EntryRow, NoEntry
<1>4. entry.response # Null => entry.response \in Claims /\ entry.response = entry.id
  BY <1>2, IdempotencyAssumption DEF EntryRow, NoEntry, KeyInv, StoredIsDone
<1>5. CASE w \in Refusals /\ w \notin Claims
  <2> HIDE DEF w
  <2>1. /\ call' \in [Calls -> Call] /\ CallsHoldTheirClaims' /\ WorkIsDone'
        /\ ReplaysItsOwn'
    BY <1>1, <1>3, <1>5, AnsweringKeeps
  <2> QED  BY <1>1, <2>1, RowStands DEF KeyInv, KeyTypeOK
<1>6. CASE w = entry.response /\ entry.body = call[c].body /\ entry.response # Null
  <2>1. w \in done /\ sender[w] = call[c].body
    BY <1>4, <1>6 DEF KeyInv, StoredIsDone, RowIsTheLease
  <2> HIDE DEF w
  <2>2. /\ call' \in [Calls -> Call] /\ CallsHoldTheirClaims' /\ WorkIsDone'
        /\ ReplaysItsOwn'
    BY <1>1, <1>3, <2>1, AnsweringKeeps
  <2> QED  BY <1>1, <2>2, RowStands DEF KeyInv, KeyTypeOK
<1> QED  BY <1>5, <1>6, IdempotencyAssumption DEF ReplayOf, Refusals

LEMMA WorkKeeps ==
    ASSUME KeyInv, NEW c \in Calls, Work(c) PROVE KeyInv'
<1>1. /\ call[c].at = "work" /\ done' = done \cup {call[c].id}
      /\ call' = [call EXCEPT ![c].at = "store"] /\ UNCHANGED <<entry, lease, sender>>
  BY DEF Work
<1>2. /\ call' \in [Calls -> Call]
      /\ \A d \in Calls : /\ call'[d].id = call[d].id /\ call'[d].body = call[d].body
                           /\ call'[d].answer = call[d].answer
                           /\ call'[d].at = (IF d = c THEN "store" ELSE call[d].at)
  BY <1>1 DEF KeyInv, KeyTypeOK, Call
<1>3. \A d \in Calls : Working(d)' <=> Working(d)
  BY <1>1, <1>2 DEF Working
<1>4. call[c].id \in Claims /\ lease[call[c].id] # "unused"
  BY <1>1 DEF KeyInv, CallsHoldTheirClaims, Working
<1>5. KeyTypeOK'
  BY <1>1, <1>2, <1>4 DEF KeyInv, KeyTypeOK
<1>6. CallsHoldTheirClaims'
  BY <1>1, <1>2, <1>3 DEF KeyInv, CallsHoldTheirClaims
<1>7. WorkIsDone'
  BY <1>1, <1>2, <1>4 DEF KeyInv, WorkIsDone
<1>8. ReplaysItsOwn'
  BY <1>1, <1>2 DEF KeyInv, ReplaysItsOwn
<1> QED  BY <1>1, <1>5, <1>6, <1>7, <1>8, RowStands DEF KeyInv

LEMMA ThrowKeeps ==
    ASSUME KeyInv, NEW c \in Calls, Throw(c) PROVE KeyInv'
<1>1. /\ call[c].at = "work" /\ Answered(c, "failed")
      /\ UNCHANGED <<entry, lease, sender, done>>
  BY DEF Throw
<1> QED  BY <1>1, IdempotencyAssumption, AnsweringKeeps, RowStands DEF KeyInv, KeyTypeOK, Refusals

LEMMA StoreKeeps ==
    ASSUME KeyInv, NEW c \in Calls, Store(c) PROVE KeyInv'
<1>1. call[c].at = "store" /\ UNCHANGED <<lease, sender, done>>
  BY DEF Store
<1>2. /\ call[c].id \in Claims /\ call[c].id \in done
      /\ sender[call[c].id] = call[c].body
  BY <1>1 DEF KeyInv, CallsHoldTheirClaims, Working, WorkIsDone
<1>3. CASE Mine(c)
  <2>1. entry' = [entry EXCEPT !.response = call[c].id] /\ Answered(c, call[c].id)
    BY <1>3 DEF Store
  <2>2. entry.id = call[c].id /\ entry \in EntryRow
    BY <1>3 DEF Mine, KeyInv, KeyTypeOK
  <2>3. /\ entry' \in EntryRow /\ entry'.id = entry.id /\ entry'.body = entry.body
        /\ entry'.expired = entry.expired /\ entry'.response = entry.id
    BY <1>2, <2>1, <2>2, IdempotencyAssumption DEF EntryRow, NoEntry
  <2>4. /\ call' \in [Calls -> Call] /\ CallsHoldTheirClaims' /\ WorkIsDone'
        /\ ReplaysItsOwn'
    BY <1>1, <1>2, <2>1, AnsweringKeeps
  <2>5. RowIsTheLease' /\ StoredIsDone'
    BY <1>1, <1>2, <2>2, <2>3 DEF KeyInv, RowIsTheLease, StoredIsDone
  <2> QED  BY <1>1, <2>3, <2>4, <2>5 DEF KeyInv, KeyTypeOK
<1>4. CASE ~Mine(c)
  <2>1. UNCHANGED entry /\ Answered(c, "failed")
    BY <1>4 DEF Store
  <2> QED  BY <1>1, <2>1, IdempotencyAssumption, AnsweringKeeps, RowStands
           DEF KeyInv, KeyTypeOK, Refusals
<1> QED  BY <1>3, <1>4

LEMMA DieKeeps ==
    ASSUME KeyInv, NEW c \in Calls, Die(c) PROVE KeyInv'
<1>1. UNCHANGED <<entry, lease, sender, done>>
  BY DEF Die
<1>2. /\ call' \in [Calls -> Call] /\ call'[c].at = "idle" /\ call'[c].answer = Null
      /\ \A d \in Calls : d # c => call'[d] = call[d]
  BY DEF Die, NoCall, KeyInv, KeyTypeOK, Call
<1>3. KeyTypeOK'
  BY <1>1, <1>2 DEF KeyInv, KeyTypeOK
<1>4. CallsHoldTheirClaims'
  BY <1>1, <1>2 DEF KeyInv, CallsHoldTheirClaims, Working
<1>5. WorkIsDone'
  BY <1>1, <1>2 DEF KeyInv, WorkIsDone
<1>6. ReplaysItsOwn'
  BY <1>1, <1>2, IdempotencyAssumption DEF KeyInv, ReplaysItsOwn
<1> QED  BY <1>1, <1>3, <1>4, <1>5, <1>6, RowStands DEF KeyInv

LEMMA ExpireKeeps ==
    ASSUME KeyInv, Expire PROVE KeyInv'
<1> USE IdempotencyAssumption DEF KeyInv, Expire, Honoured
<1>1. KeyTypeOK'
  BY DEF KeyTypeOK, Call, EntryRow
<1>2. RowIsTheLease'
  BY DEF RowIsTheLease, NoEntry, KeyTypeOK, EntryRow
<1>3. CallsHoldTheirClaims'
  BY DEF KeyTypeOK, Call, EntryRow, CallsHoldTheirClaims, Working
<1>4. WorkIsDone' /\ StoredIsDone'
  BY DEF KeyTypeOK, Call, EntryRow, CallsHoldTheirClaims, Working, WorkIsDone, StoredIsDone
<1>5. ReplaysItsOwn'
  BY DEF KeyTypeOK, Call, EntryRow, ReplaysItsOwn, CallsHoldTheirClaims, Working, WorkIsDone, StoredIsDone
<1> QED  BY <1>1, <1>2, <1>3, <1>4, <1>5

LEMMA CleanupKeeps ==
    ASSUME KeyInv, Cleanup PROVE KeyInv'
<1> USE IdempotencyAssumption DEF KeyInv, Cleanup, NoEntry
<1>1. KeyTypeOK'
  BY DEF KeyTypeOK, Call, EntryRow
<1>2. RowIsTheLease'
  BY DEF RowIsTheLease, NoEntry, KeyTypeOK, EntryRow
<1>3. CallsHoldTheirClaims'
  BY DEF KeyTypeOK, Call, EntryRow, CallsHoldTheirClaims, Working
<1>4. WorkIsDone' /\ StoredIsDone'
  BY DEF KeyTypeOK, Call, EntryRow, CallsHoldTheirClaims, Working, WorkIsDone, StoredIsDone
<1>5. ReplaysItsOwn'
  BY DEF KeyTypeOK, Call, EntryRow, ReplaysItsOwn, CallsHoldTheirClaims, Working, WorkIsDone, StoredIsDone
<1> QED  BY <1>1, <1>2, <1>3, <1>4, <1>5

LEMMA KeyStepKeeps == KeyInv /\ [KeyNext]_keyVars => KeyInv'
<1> SUFFICES ASSUME KeyInv, [KeyNext]_keyVars PROVE KeyInv'
  OBVIOUS
<1>1. ASSUME NEW c \in Calls, NEW body \in Bodies, Ask(c, body) PROVE KeyInv'
  BY <1>1, AskKeeps
<1>2. ASSUME NEW c \in Calls, Claim(c) PROVE KeyInv'
  BY <1>2, ClaimKeeps
<1>3. ASSUME NEW c \in Calls, Replay(c) PROVE KeyInv'
  BY <1>3, ReplayKeeps
<1>4. ASSUME NEW c \in Calls, Work(c) PROVE KeyInv'
  BY <1>4, WorkKeeps
<1>5. ASSUME NEW c \in Calls, Throw(c) PROVE KeyInv'
  BY <1>5, ThrowKeeps
<1>6. ASSUME NEW c \in Calls, Store(c) PROVE KeyInv'
  BY <1>6, StoreKeeps
<1>7. ASSUME NEW c \in Calls, Die(c) PROVE KeyInv'
  BY <1>7, DieKeeps
<1>8. CASE Expire
  BY <1>8, ExpireKeeps
<1>9. CASE Cleanup
  BY <1>9, CleanupKeeps
<1>10. CASE UNCHANGED keyVars
  BY <1>10 DEF keyVars, KeyInv, KeyTypeOK, RowIsTheLease, CallsHoldTheirClaims, Working,
               WorkIsDone, StoredIsDone, ReplaysItsOwn
<1> QED  BY <1>1, <1>2, <1>3, <1>4, <1>5, <1>6, <1>7, <1>8, <1>9, <1>10 DEF KeyNext

\* Rows, calls and history stay well formed.
THEOREM KeysAreWellTyped == KeySpec => []KeyTypeOK
<1>1. KeyInv => KeyTypeOK
  BY DEF KeyInv
<1> QED  BY KeyInitHolds, KeyStepKeeps, <1>1, PTL DEF KeySpec

\* withIdempotency: in one lease of a key the work is claimed once, and by one
\* call.
THEOREM AtMostOnce == KeySpec => []OneRunPerLease
<1>1. KeyInv => OneRunPerLease
  BY DEF KeyInv, RowIsTheLease, CallsHoldTheirClaims, OneRunPerLease
<1> QED  BY KeyInitHolds, KeyStepKeeps, <1>1, PTL DEF KeySpec

\* replay: a value that is returned is committed work of the same request.
THEOREM OwnAnswers == KeySpec => []ReplaysItsOwn
<1>1. KeyInv => ReplaysItsOwn
  BY DEF KeyInv
<1> QED  BY KeyInitHolds, KeyStepKeeps, <1>1, PTL DEF KeySpec

\* The storing update: a call whose lease is over leaves its successor's row
\* alone.
THEOREM LateAnswersStayOut == KeySpec => []StaleNeverOverwrites
<1>1. KeyInv => StaleNeverOverwrites
  BY DEF KeyInv, WorkIsDone, StoredIsDone, StaleNeverOverwrites
<1> QED  BY KeyInitHolds, KeyStepKeeps, <1>1, PTL DEF KeySpec
=============================================================================
