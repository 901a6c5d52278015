------------------------------- MODULE Booking -------------------------------
(***************************************************************************)
(* One provider's diary: holds, bookings and the capacity reservations     *)
(* that decide who owns which time.  The module follows BookingService and *)
(* BookingRepository (apps/api/src/modules/bookings), the rules of         *)
(* packages/booking-engine, the constraints PostgreSQL enforces on the     *)
(* three tables, and the two worker jobs that write holds: the             *)
(* conversation sweeper and the retention batch.                           *)
(*                                                                         *)
(* A handler is two steps.  Begin... is everything it reads before its     *)
(* transaction, with the clock it captured; Commit... is the transaction.  *)
(* Anything may happen between the two.  Abandon is a handler that is      *)
(* refused, rolled back or dies, which leaves no trace in the tables.      *)
(***************************************************************************)
EXTENDS Integers, Sequences

CONSTANTS
    Clients,          \* callers, each with at most one request in flight
    Holds,            \* identifiers of booking_holds rows
    Bookings,         \* identifiers of bookings rows
    Services,         \* what the provider offers
    Starts,           \* the times working hours allow an appointment to start
    Duration,         \* minutes of a service, ...
    BufferBefore,     \* ... the preparation before it ...
    BufferAfter,      \* ... and the clearing up after it
    NeedsApproval,    \* services whose bookings start PENDING
    MinimumNotice,    \* the resolved booking window
    MaximumAdvance,
    HoldTtl,          \* DEFAULT_HOLD_DURATION_MINUTES
    RetentionAge,     \* RETENTION_DAYS.staleHolds
    MaxTime,          \* bound: the last instant of the clock
    MaxVersion,       \* bound: the most writes to one booking
    None              \* SQL's NULL

ASSUME CatalogueAssumption ==
    /\ Starts \subseteq Nat
    /\ Duration \in [Services -> Nat \ {0}]
    /\ BufferBefore \in [Services -> Nat]
    /\ BufferAfter \in [Services -> Nat]
    /\ NeedsApproval \subseteq Services

ASSUME PolicyAssumption ==
    /\ MinimumNotice \in Nat /\ MaximumAdvance \in Nat
    /\ HoldTtl \in Nat \ {0} /\ RetentionAge \in Nat
    /\ MaxTime \in Nat /\ MaxVersion \in Nat

ASSUME IdentifierAssumption ==
    /\ Holds \cap Bookings = {}
    /\ None \notin Int /\ None \notin Holds \cup Bookings
    /\ None \notin {"PENDING", "CONFIRMED", "CANCELLED", "COMPLETED", "NO_SHOW", "EXPIRED"}

VARIABLES
    now,          \* the clock every handler reads
    hold,         \* booking_holds
    booking,      \* bookings
    reservation,  \* capacity_reservations, keyed by the row that created it
    outbox,       \* per booking, the outbox_events written for it, in order
    request,      \* per client, what its handler read before its transaction
    sweeping      \* holds the conversation sweeper released, reservation not yet

tables == <<hold, booking, reservation, outbox>>
vars == <<now, hold, booking, reservation, outbox, request, sweeping>>

(***************************************************************************)
(* Rows.                                                                   *)
(***************************************************************************)
Keys == Holds \cup Bookings

HoldStatuses == {"ACTIVE", "CONFIRMED", "RELEASED", "EXPIRED"}
BookingStatuses ==
    {"PENDING", "CONFIRMED", "CANCELLED", "COMPLETED", "NO_SHOW", "EXPIRED"}
EventTypes == {"REQUESTED", "CONFIRMED", "RESCHEDULED", "CANCELLED"}

NoRow == [status |-> "none"]
DeletedRow == [status |-> "deleted"]

HoldRow ==
    [status: HoldStatuses, service: Services, start: Starts, expiresAt: Nat]
BookingRow ==
    [status: BookingStatuses, service: Services, start: Starts, version: Nat,
     hold: Holds \cup {None}]
ReservationRow ==
    [status: {"ACTIVE", "RELEASED"}, booking: Bookings \cup {None},
     from: Int, until: Int, expiresAt: Nat \cup {None}]
Event == [type: EventTypes, previousStart: Starts \cup {None}]

Idle == [op |-> "idle"]
ClaimRequest ==
    [op: {"createHold", "createBooking"}, service: Services, start: Starts, now: Nat]
ConfirmRequest == [op: {"confirm"}, hold: Holds, now: Nat]
ReleaseRequest == [op: {"releaseHold"}, hold: Holds]
MoveRequest ==
    [op: {"reschedule"}, booking: Bookings, version: Nat, previousStart: Starts,
     start: Starts, now: Nat]
EditRequest ==
    [op: {"cancel", "update"}, booking: Bookings, version: Nat,
     seen: BookingStatuses, to: BookingStatuses \cup {None}]

\* The row records of every table and every request in flight.
TypeOK ==
    /\ now \in Nat
    /\ hold \in [Holds -> HoldRow \cup {NoRow, DeletedRow}]
    /\ booking \in [Bookings -> BookingRow \cup {NoRow}]
    /\ reservation \in [Keys -> ReservationRow \cup {NoRow}]
    /\ outbox \in [Bookings -> Seq(Event)]
    /\ request \in [Clients -> {Idle} \cup ClaimRequest \cup ConfirmRequest
                                \cup ReleaseRequest \cup MoveRequest \cup EditRequest]
    /\ sweeping \subseteq Holds

(***************************************************************************)
(* packages/booking-engine: spans, holds, transitions and policy.          *)
(***************************************************************************)
Appointment(s, start) == [from |-> start, until |-> start + Duration[s]]
Occupied(s, start) ==
    [from |-> start - BufferBefore[s], until |-> start + Duration[s] + BufferAfter[s]]
Overlap(a, b) == a.from < b.until /\ b.from < a.until

\* checkHoldUsable: ACTIVE by its status and by its own clock.
HoldUsable(row, t) == row.status = "ACTIVE" /\ t < row.expiresAt

\* Slip: the refusal is dropped.
HoldReleasableAlways(row) == TRUE

\* checkHoldReleasable: anything but a hold that became a booking.
HoldReleasable(row) == row.status # "CONFIRMED"

\* Slip: a request may be marked as done without ever being accepted.
LegalTransitionsSkippingApproval(from) ==
    IF from \in {"PENDING", "CONFIRMED"} THEN {"CONFIRMED", "CANCELLED", "COMPLETED"} \ {from}
    ELSE {}

\* Slip: the predecessor project's CANCELLED -> CONFIRMED (transitions.ts).
LegalTransitionsReviving(from) ==
    IF from = "PENDING" THEN {"CONFIRMED", "CANCELLED", "EXPIRED"}
    ELSE IF from = "CONFIRMED" THEN {"CANCELLED", "COMPLETED", "NO_SHOW"}
    ELSE IF from = "CANCELLED" THEN {"CONFIRMED"} ELSE {}

LegalTransitions(from) ==
    CASE from = "PENDING"   -> {"CONFIRMED", "CANCELLED", "EXPIRED"}
      [] from = "CONFIRMED" -> {"CANCELLED", "COMPLETED", "NO_SHOW"}
      [] OTHER              -> {}

Terminal(status) == LegalTransitions(status) = {}
ReleasesCapacity(status) == status \in {"CANCELLED", "EXPIRED"}
InitialStatus(s) == IF s \in NeedsApproval THEN "PENDING" ELSE "CONFIRMED"

InBookingWindow(start, t) == t + MinimumNotice <= start /\ start <= t + MaximumAdvance

\* checkCancellable with no configured notice: not ended, not started.
Cancellable(row, t) == ~Terminal(row.status) /\ t < row.start

Reschedulable(row, start, t) ==
    /\ start # row.start
    /\ Cancellable(row, t)
    /\ InBookingWindow(start, t)

(***************************************************************************)
(* What PostgreSQL refuses.                                                *)
(***************************************************************************)
\* Slip: the constraint covers the rows a booking owns only.
BookedReservationsDisjoint(rows) ==
    \A j, k \in Keys :
        /\ j # k
        /\ rows[j].status = "ACTIVE" /\ rows[k].status = "ACTIVE"
        /\ rows[j].booking # None /\ rows[k].booking # None
        => ~Overlap(rows[j], rows[k])

\* capacity_reservations_no_overlap
ReservationsDisjoint(rows) ==
    \A j, k \in Keys :
        j # k /\ rows[j].status = "ACTIVE" /\ rows[k].status = "ACTIVE"
            => ~Overlap(rows[j], rows[k])

\* bookings_no_provider_overlap: the backstop, on appointments
Blocking(row) == row.status \in {"PENDING", "CONFIRMED"}
AppointmentsDisjoint(rows) ==
    \A a, b \in Bookings :
        a # b /\ Blocking(rows[a]) /\ Blocking(rows[b])
            => ~Overlap(Appointment(rows[a].service, rows[a].start),
                        Appointment(rows[b].service, rows[b].start))

(***************************************************************************)
(* BookingRepository: the statements the transactions are made of.         *)
(***************************************************************************)
\* Slip: a reservation is not swept at the instant it expires.
LapsedAfterwards(row, t) ==
    row.status = "ACTIVE" /\ row.expiresAt # None /\ row.expiresAt < t

Lapsed(row, t) == row.status = "ACTIVE" /\ row.expiresAt # None /\ row.expiresAt <= t

Released(row) == [row EXCEPT !.status = "RELEASED"]

\* Slip: the sweep does not look at the clock.
SweptRegardlessOfTime(t) ==
    [k \in Keys |->
        IF reservation[k].status = "ACTIVE" /\ reservation[k].expiresAt # None
        THEN Released(reservation[k]) ELSE reservation[k]]

SweptReservations(t) ==
    [k \in Keys |-> IF Lapsed(reservation[k], t) THEN Released(reservation[k])
                                                 ELSE reservation[k]]

\* Holds are rewritten only when the first statement released something.
SweptHolds(t) ==
    IF \E k \in Keys : Lapsed(reservation[k], t)
    THEN [h \in Holds |-> IF Lapsed(hold[h], t)
                          THEN [hold[h] EXCEPT !.status = "EXPIRED"] ELSE hold[h]]
    ELSE hold

NewReservation(owner, span, expiry) ==
    [status |-> "ACTIVE", booking |-> owner, from |-> span.from, until |-> span.until,
     expiresAt |-> expiry]

NewBooking(status, s, start, h) ==
    [status |-> status, service |-> s, start |-> start, version |-> 0, hold |-> h]

OwnedBy(row, b) == row.status = "ACTIVE" /\ row.booking = b

\* adoptReservation's update, and the slip of leaving the expiry in place.
AdoptedStillExpiring(row, b) == [row EXCEPT !.booking = b]
Adopted(row, b) == [row EXCEPT !.booking = b, !.expiresAt = None]

Respanned(row, span) == [row EXCEPT !.from = span.from, !.until = span.until]

MovedReservations(rows, b, span) ==
    [k \in Keys |-> IF OwnedBy(rows[k], b)
                    THEN Respanned(rows[k], span) ELSE rows[k]]

ReleasedReservations(b) ==
    [k \in Keys |-> IF OwnedBy(reservation[k], b) THEN Released(reservation[k])
                                                  ELSE reservation[k]]

\* updateBooking's optimistic lock, and what it writes
VersionMatches(b, version) == booking[b] # NoRow /\ booking[b].version = version

Rescheduled(row, start) == [row EXCEPT !.start = start, !.version = @ + 1]
WithStatus(row, status) == [row EXCEPT !.status = status, !.version = @ + 1]

\* listBusyReservations: active and not lapsed.
Busy(row, t) == row.status = "ACTIVE" /\ (row.expiresAt = None \/ t < row.expiresAt)

Offered(s, start, t) ==
    \A k \in Keys : Busy(reservation[k], t) => ~Overlap(Occupied(s, start), reservation[k])

\* The same search for a reschedule: NOT (booking_id = b) also drops the rows
\* whose booking_id is NULL, so other people's holds are not seen as busy.
OfferedTo(b, s, start, t) ==
    \A k \in Keys : Busy(reservation[k], t) /\ reservation[k].booking \notin {b, None}
                        => ~Overlap(Occupied(s, start), reservation[k])

Announce(b, type, previous) ==
    outbox' = [outbox EXCEPT ![b] = Append(@, [type |-> type, previousStart |-> previous])]

Start(c, r) ==
    /\ request[c] = Idle
    /\ request' = [request EXCEPT ![c] = r]
    /\ UNCHANGED <<now, tables, sweeping>>

Finish(c) ==
    /\ request' = [request EXCEPT ![c] = Idle]
    /\ UNCHANGED <<now, sweeping>>

(***************************************************************************)
(* Claiming a slot: a customer's hold, or a booking straight from the      *)
(* diary by staff, who are not bound by the booking window.                *)
(***************************************************************************)
BeginHold(c, s, start) ==
    /\ InBookingWindow(start, now)
    /\ Offered(s, start, now)
    /\ Start(c, [op |-> "createHold", service |-> s, start |-> start, now |-> now])

CommitHold(c, h) ==
    LET r == request[c]
        expiry == r.now + HoldTtl
    IN  /\ r.op = "createHold"
        /\ hold[h] = NoRow
        /\ now < expiry                     \* booking_holds_expiry_after_creation
        /\ reservation' = [SweptReservations(r.now) EXCEPT
                              ![h] = NewReservation(None, Occupied(r.service, r.start), expiry)]
        /\ ReservationsDisjoint(reservation')
        /\ hold' = [SweptHolds(r.now) EXCEPT
                       ![h] = [status |-> "ACTIVE", service |-> r.service,
                               start |-> r.start, expiresAt |-> expiry]]
        /\ Finish(c)
        /\ UNCHANGED <<booking, outbox>>

BeginDirectBooking(c, s, start) ==
    /\ now <= start
    /\ Offered(s, start, now)
    /\ Start(c, [op |-> "createBooking", service |-> s, start |-> start, now |-> now])

CommitDirectBooking(c, b) ==
    LET r == request[c]
    IN  /\ r.op = "createBooking"
        /\ booking[b] = NoRow
        /\ hold' = SweptHolds(r.now)
        /\ booking' = [booking EXCEPT ![b] = NewBooking("CONFIRMED", r.service, r.start, None)]
        /\ AppointmentsDisjoint(booking')
        /\ reservation' = [SweptReservations(r.now) EXCEPT
                              ![b] = NewReservation(b, Occupied(r.service, r.start), None)]
        /\ ReservationsDisjoint(reservation')
        /\ Announce(b, "CONFIRMED", None)
        /\ Finish(c)

(***************************************************************************)
(* Giving a hold back.  The check reads the hold before the transaction;   *)
(* the transaction's two updates do not look at its status again.          *)
(***************************************************************************)
BeginRelease(c, h) ==
    /\ hold[h] \in HoldRow
    /\ HoldReleasable(hold[h])
    /\ Start(c, [op |-> "releaseHold", hold |-> h])

CommitRelease(c) ==
    LET h == request[c].hold
    IN  /\ request[c].op = "releaseHold"
        /\ IF hold[h] \notin HoldRow THEN UNCHANGED <<hold, reservation>>
           ELSE /\ hold' = [hold EXCEPT ![h].status = "RELEASED"]
                /\ reservation' = IF reservation[h].status = "ACTIVE"
                                  THEN [reservation EXCEPT ![h] = Released(@)]
                                  ELSE reservation
        /\ Finish(c)
        /\ UNCHANGED <<booking, outbox>>

(***************************************************************************)
(* Turning a hold into a booking.  Everything but the clock is read inside *)
(* the transaction, under the hold's row lock; the reservation is adopted, *)
(* and the transaction fails when there is none to adopt.                  *)
(***************************************************************************)
BeginConfirm(c, h) ==
    /\ hold[h] # NoRow
    /\ Start(c, [op |-> "confirm", hold |-> h, now |-> now])

CommitConfirm(c, b) ==
    LET r == request[c]
        h == r.hold
        status == InitialStatus(hold[h].service)
    IN  /\ r.op = "confirm"
        /\ hold[h] \in HoldRow
        /\ HoldUsable(hold[h], r.now)
        /\ booking[b] = NoRow
        /\ booking' = [booking EXCEPT
                          ![b] = NewBooking(status, hold[h].service, hold[h].start, h)]
        /\ AppointmentsDisjoint(booking')
        /\ reservation[h].status = "ACTIVE"
        /\ reservation' = [reservation EXCEPT ![h] = Adopted(@, b)]
        /\ hold' = [hold EXCEPT ![h].status = "CONFIRMED"]
        /\ Announce(b, IF status = "PENDING" THEN "REQUESTED" ELSE "CONFIRMED", None)
        /\ Finish(c)

(***************************************************************************)
(* Moving, cancelling and editing a booking: decided on a copy read before *)
(* the transaction, applied only if the version is still that copy's.      *)
(***************************************************************************)
BeginReschedule(c, b, start) ==
    LET row == booking[b]
    IN  /\ row # NoRow
        /\ Reschedulable(row, start, now)
        /\ OfferedTo(b, row.service, start, now)
        /\ Start(c, [op |-> "reschedule", booking |-> b, version |-> row.version,
                     previousStart |-> row.start, start |-> start, now |-> now])

CommitReschedule(c) ==
    LET r == request[c]
        b == r.booking
        swept == SweptReservations(r.now)
    IN  /\ r.op = "reschedule"
        /\ \E k \in Keys : OwnedBy(swept[k], b)
        /\ reservation' = MovedReservations(swept, b, Occupied(booking[b].service, r.start))
        /\ ReservationsDisjoint(reservation')
        /\ hold' = SweptHolds(r.now)
        /\ VersionMatches(b, r.version) /\ r.version < MaxVersion
        /\ booking' = [booking EXCEPT ![b] = Rescheduled(@, r.start)]
        /\ AppointmentsDisjoint(booking')
        /\ Announce(b, "RESCHEDULED", r.previousStart)
        /\ Finish(c)

BeginEdit(c, op, b, to) ==
    Start(c, [op |-> op, booking |-> b, version |-> booking[b].version,
              seen |-> booking[b].status, to |-> to])

BeginCancellation(c, b) ==
    /\ booking[b] # NoRow
    /\ Cancellable(booking[b], now)
    /\ BeginEdit(c, "cancel", b, "CANCELLED")

CommitCancellation(c) ==
    LET r == request[c]
        b == r.booking
    IN  /\ r.op = "cancel"
        /\ VersionMatches(b, r.version) /\ r.version < MaxVersion
        /\ booking' = [booking EXCEPT ![b] = WithStatus(@, "CANCELLED")]
        /\ reservation' = ReleasedReservations(b)
        /\ Announce(b, "CANCELLED", None)
        /\ Finish(c)
        /\ UNCHANGED hold

\* A PATCH edits the notes (None), accepts a request, or records what happened
\* on the day.
PatchStatuses == {None, "CONFIRMED", "COMPLETED", "NO_SHOW"}

BeginUpdate(c, b, to) ==
    /\ booking[b] # NoRow
    /\ to # None => to \in LegalTransitions(booking[b].status)
    /\ BeginEdit(c, "update", b, to)

CommitUpdate(c) ==
    LET r == request[c]
        b == r.booking
    IN  /\ r.op = "update"
        /\ VersionMatches(b, r.version) /\ r.version < MaxVersion
        /\ booking' = [booking EXCEPT
                          ![b] = WithStatus(@, IF r.to = None THEN @.status ELSE r.to)]
        /\ AppointmentsDisjoint(booking')
        /\ IF r.seen = "PENDING" /\ r.to = "CONFIRMED"
           THEN Announce(b, "CONFIRMED", None) ELSE UNCHANGED outbox
        /\ reservation' = IF ReleasesCapacity(r.to) THEN ReleasedReservations(b)
                                                    ELSE reservation
        /\ Finish(c)
        /\ UNCHANGED hold

\* A refusal, a serialization failure, a closed connection or a crash.
Abandon(c) ==
    /\ request[c] # Idle
    /\ Finish(c)
    /\ UNCHANGED tables

(***************************************************************************)
(* The worker's jobs.                                                      *)
(***************************************************************************)
\* sweepConversations: two statements without a transaction.
SweepHold(h) ==
    /\ hold[h].status = "ACTIVE"
    /\ hold' = [hold EXCEPT ![h].status = "RELEASED"]
    /\ sweeping' = sweeping \cup {h}
    /\ UNCHANGED <<now, booking, reservation, outbox, request>>

SweepReservation(h) ==
    /\ h \in sweeping
    /\ reservation' = IF hold[h] # DeletedRow /\ reservation[h].status = "ACTIVE"
                      THEN [reservation EXCEPT ![h] = Released(@)] ELSE reservation
    /\ sweeping' = sweeping \ {h}
    /\ UNCHANGED <<now, hold, booking, outbox, request>>

SweeperCrash(h) ==
    /\ h \in sweeping
    /\ sweeping' = sweeping \ {h}
    /\ UNCHANGED <<now, tables, request>>

\* The stale_holds part of runRetentionBatch.  Deleting a hold sets hold_id to
\* NULL, so capacity_reservations_have_an_owner fails the whole batch when one
\* of the holds still owns an ACTIVE reservation no booking has adopted.
Stale(h) == hold[h] \in HoldRow /\ hold[h].expiresAt + RetentionAge <= now
OrphaningIsAllowed(h) == FALSE    \* slip: no such constraint
Orphaning(h) == reservation[h].status = "ACTIVE" /\ reservation[h].booking = None

RetentionBatch ==
    /\ \E h \in Holds : Stale(h)
    /\ \A h \in Holds : Stale(h) => ~Orphaning(h)
    /\ hold' = [h \in Holds |-> IF Stale(h) THEN DeletedRow ELSE hold[h]]
    /\ booking' = [b \in Bookings |->
                      IF \E h \in Holds : Stale(h) /\ booking[b] # NoRow /\ booking[b].hold = h
                      THEN [booking[b] EXCEPT !.hold = None] ELSE booking[b]]
    /\ UNCHANGED <<now, reservation, outbox, request, sweeping>>

Tick ==
    /\ now < MaxTime
    /\ now' = now + 1
    /\ UNCHANGED <<tables, request, sweeping>>

(***************************************************************************)
(* The specification.                                                      *)
(***************************************************************************)
Init ==
    /\ now = 0
    /\ hold = [h \in Holds |-> NoRow]
    /\ booking = [b \in Bookings |-> NoRow]
    /\ reservation = [k \in Keys |-> NoRow]
    /\ outbox = [b \in Bookings |-> <<>>]
    /\ request = [c \in Clients |-> Idle]
    /\ sweeping = {}

Begin(c) ==
    \/ \E s \in Services, start \in Starts : BeginHold(c, s, start)
    \/ \E s \in Services, start \in Starts : BeginDirectBooking(c, s, start)
    \/ \E h \in Holds : BeginRelease(c, h)
    \/ \E h \in Holds : BeginConfirm(c, h)
    \/ \E b \in Bookings, start \in Starts : BeginReschedule(c, b, start)
    \/ \E b \in Bookings : BeginCancellation(c, b)
    \/ \E b \in Bookings, to \in PatchStatuses : BeginUpdate(c, b, to)

Commit(c) ==
    \/ \E h \in Holds : CommitHold(c, h)
    \/ \E b \in Bookings : CommitDirectBooking(c, b)
    \/ CommitRelease(c)
    \/ \E b \in Bookings : CommitConfirm(c, b)
    \/ CommitReschedule(c)
    \/ CommitCancellation(c)
    \/ CommitUpdate(c)

Worker ==
    \/ \E h \in Holds : SweepHold(h)
    \/ \E h \in Holds : SweepReservation(h)
    \/ \E h \in Holds : SweeperCrash(h)
    \/ RetentionBatch

Next ==
    \/ \E c \in Clients : Begin(c)
    \/ \E c \in Clients : Commit(c)
    \/ \E c \in Clients : Abandon(c)
    \/ Worker
    \/ Tick

Spec == Init /\ [][Next]_vars

\* The clients the web application has: a hold is not confirmed while a request
\* that gives it back is still being served.  Spec makes no such promise.
Calm ==
    \A h \in Holds :
        hold[h].status # "CONFIRMED" /\ hold'[h].status = "CONFIRMED"
            => \A c \in Clients :
                  request[c].op = "releaseHold" => request[c].hold # h

CalmNext == Next /\ Calm
CalmSpec == Init /\ [][CalmNext]_vars
(***************************************************************************)
(* Safety of every run of the service.                                     *)
(***************************************************************************)
\* An active reservation that belongs to a booking is exactly that booking's
\* time, with its buffers, never times out, and belongs to a booking that still
\* occupies the diary: moving, adopting, sweeping and cancelling keep the two
\* tables together (adoptReservation, moveReservation, releaseBookingReservation).
Follows(k) ==
    LET row == booking[reservation[k].booking]
    IN  /\ row \in BookingRow
        /\ ~ReleasesCapacity(row.status)
        /\ reservation[k].expiresAt = None
        /\ reservation[k].from = Occupied(row.service, row.start).from
        /\ reservation[k].until = Occupied(row.service, row.start).until

ReservationFollowsBooking ==
    \A k \in Keys :
        reservation[k].status = "ACTIVE" /\ reservation[k].booking # None => Follows(k)

\* However confirmations, retries, releases, sweeps and later edits of the
\* booking interleave, one hold becomes at most one booking (lockHold and
\* checkHoldUsable in confirmBooking).
OneBookingPerHold ==
    \A a, b \in Bookings :
        a # b /\ booking[a] # NoRow /\ booking[b] # NoRow
            => booking[a].hold = None \/ booking[a].hold # booking[b].hold

\* While a customer's countdown runs, the time is really theirs: a hold that is
\* usable now is backed by its own active reservation, not adopted, with the
\* same expiry and the hold's occupied span (createHold, sweepExpired).
Backed(h) ==
    /\ reservation[h].status = "ACTIVE"
    /\ reservation[h].booking = None
    /\ reservation[h].expiresAt = hold[h].expiresAt
    /\ reservation[h].from = Occupied(hold[h].service, hold[h].start).from
    /\ reservation[h].until = Occupied(hold[h].service, hold[h].start).until

UsableHoldIsBacked ==
    \A h \in Holds :
        hold[h].status = "ACTIVE" /\ now < hold[h].expiresAt => Backed(h)

\* No time is blocked for good by nobody: an active reservation without a booking
\* still has its hold's row, and lapses no later than a hold made now would
\* (capacity_reservations_have_an_owner, capacity_reservations_hold_expiry).
NoLeakedSlot ==
    \A k \in Keys :
        reservation[k].status = "ACTIVE" /\ reservation[k].booking = None =>
            /\ k \in Holds /\ hold[k] \in HoldRow
            /\ reservation[k].expiresAt # None
            /\ reservation[k].expiresAt <= now + HoldTtl

\* The search and the database agree: a slot listBusyReservations leaves free now
\* is one the exclusion constraint accepts once the claim's own sweep has run,
\* so a customer who books what was offered succeeds if nobody was faster.
OfferedSlotIsClaimable ==
    \A s \in Services, start \in Starts :
        Offered(s, start, now) =>
            \A k \in Keys :
                SweptReservations(now)[k].status = "ACTIVE"
                    => ~Overlap(Occupied(s, start), SweptReservations(now)[k])

\* The messages written to the outbox for a booking tell its story: the first
\* says how it began, CONFIRMED is announced once and exactly when it has been
\* confirmed, a cancellation exactly when it was cancelled, and last.
Announced(b, type) == {i \in DOMAIN outbox[b] : outbox[b][i].type = type}

AnnouncementsMatchTheBooking ==
    \A b \in Bookings :
        /\ booking[b] = NoRow <=> outbox[b] = <<>>
        /\ booking[b] # NoRow =>
            /\ Announced(b, "REQUESTED") \subseteq {1}
            /\ outbox[b][1].type \in {"REQUESTED", "CONFIRMED"}
            /\ \A i, j \in Announced(b, "CONFIRMED") : i = j
            /\ booking[b].status = "PENDING" => Announced(b, "CONFIRMED") = {}
            /\ booking[b].status \in {"CONFIRMED", "COMPLETED", "NO_SHOW"}
                   => Announced(b, "CONFIRMED") # {}
            /\ Announced(b, "CANCELLED") =
                   IF booking[b].status = "CANCELLED" THEN {Len(outbox[b])} ELSE {}

\* A cancelled, completed or missed appointment is never revived or rewritten,
\* whatever requests were prepared on a copy read before it ended (LEGAL_TRANSITIONS
\* checked before the transaction, the version checked in it).
Ended(status) == status \in {"CANCELLED", "COMPLETED", "NO_SHOW", "EXPIRED"}

TerminalIsFinal ==
    [][\A b \in Bookings :
          booking[b] # NoRow /\ Ended(booking[b].status) =>
              /\ booking'[b].status = booking[b].status
              /\ booking'[b].start = booking[b].start]_vars

\* The "your appointment has moved" message names the time the booking had at the
\* instant it moved, although it was read before the transaction.
PreviousStartIsTrue ==
    [][\A b \in Bookings :
          booking[b] # NoRow /\ booking'[b].start # booking[b].start =>
              /\ Len(outbox'[b]) = Len(outbox[b]) + 1
              /\ outbox'[b][Len(outbox'[b])] =
                     [type |-> "RESCHEDULED", previousStart |-> booking[b].start]]_vars

(***************************************************************************)
(* Safety of calm behaviours; without Calm the first one fails.            *)
(***************************************************************************)
\* Every booking that occupies the diary holds its time: no customer has a
\* confirmation for a slot the system would sell again.
LiveBookingHoldsItsSlot ==
    \A b \in Bookings :
        booking[b] # NoRow /\ ~ReleasesCapacity(booking[b].status)
            => \E k \in Keys : OwnedBy(reservation[k], b)

\* No double booking, buffers included, and past appointments included.
NoDoubleBooking ==
    \A a, b \in Bookings :
        /\ a # b
        /\ booking[a] # NoRow /\ ~ReleasesCapacity(booking[a].status)
        /\ booking[b] # NoRow /\ ~ReleasesCapacity(booking[b].status)
        => ~Overlap(Occupied(booking[a].service, booking[a].start),
                    Occupied(booking[b].service, booking[b].start))

\* A customer who confirms in time is not turned away: no booking stands where
\* a usable hold would put one, so the backstop constraint accepts it.
UsableHoldIsConfirmable ==
    \A h \in Holds, b \in Bookings :
        /\ hold[h].status = "ACTIVE" /\ now < hold[h].expiresAt
        /\ booking[b] # NoRow /\ ~ReleasesCapacity(booking[b].status)
        => ~Overlap(Appointment(hold[h].service, hold[h].start),
                    Appointment(booking[b].service, booking[b].start))

(***************************************************************************)
(* The diary these tables implement.                                       *)
(***************************************************************************)
PhaseOf(row) ==
    CASE row = NoRow -> "free"
      [] row # NoRow /\ row.status = "ACTIVE" /\ row.booking = None -> "held"
      [] row # NoRow /\ row.status = "ACTIVE" /\ row.booking # None -> "booked"
      [] row # NoRow /\ row.status = "RELEASED" /\ row.booking = None -> "lapsed"
      [] OTHER -> IF booking[row.booking].status = "CANCELLED" THEN "cancelled" ELSE "lost"

TheDiary == INSTANCE Diary WITH
    Claims <- Keys,
    phase  <- [k \in Keys |-> PhaseOf(reservation[k])],
    span   <- [k \in Keys |->
                  IF reservation[k].status = "ACTIVE"
                  THEN [from |-> reservation[k].from, until |-> reservation[k].until]
                  ELSE [from |-> 0, until |-> 0]]

\* Under CalmSpec the service implements Diary.
ImplementsDiary == TheDiary!Spec
=============================================================================
