# A verification of booking-and-more

`booking-and-more` is a multi-tenant booking service: customers of a business
find a free time, hold it for a few minutes, and turn the hold into a booking,
by themselves or through an assistant; staff book, move, cancel and complete
appointments from the diary and edit the schedule; a worker sends the messages,
keeps subscriptions in step with Stripe and cleans up. This directory holds TLA+
models of its core, the TLC configurations that check them on small instances,
and TLAPS proofs of what holds on instances of any size.

    tlc -workers 2 -config booking.cfg MCBooking     # any run of PROJECT.json
    tlapm BookingProofs.tla                          # any of the eight proof modules

The runs take between ten seconds and four minutes each, the proofs between
half a minute and five minutes a module, from nothing.

## The system

| Component | State it keeps | Operations | Module |
|---|---|---|---|
| Bookings and holds (`apps/api/src/modules/bookings`, `packages/booking-engine`) | `booking_holds`, `bookings`, `capacity_reservations`, booking rows of `outbox_events` | hold, release, confirm, book directly, move, cancel, edit | `Booking`, `Diary` |
| Slot search (`modules/availability`, `packages/availability-engine`) | working hours, exceptions | search, replace the week, create, change and delete exceptions, with the check for stranded appointments | `Slots`, `Schedule` |
| Outbox (`apps/worker/src/outbox`) | `outbox_events` | claim, dispatch, retry, park | `Outbox` |
| Notifications (`worker/src/notifications`) | `notifications`, BullMQ jobs | enqueue, claim, send, retry, sweep | `Notifications` |
| Memberships, invitations, delegations (`modules/memberships`, `platform`, `delegations`) | `memberships`, `invitations`, `provider_delegations` | invite, resend, revoke, accept, change role, link, remove, grant | `Memberships` |
| Stripe events (`worker/src/stripe`, `billing/webhook.routes.ts`), invoicing (`worker/src/billingo`) | `stripe_events`, `subscriptions`, tenant status, `billingo_invoices` | receive, claim, activate, mirror, end, notify, issue | `StripeEvents` |
| Checkout links (`modules/billing`) | `subscription_checkout_links`, links at Stripe | make, reuse, replace, pay, activate | `CheckoutLinks` |
| Conversation (`modules/public`, `modules/assistant`, `packages/conversation-engine`) | sessions, pending actions | turn, offer, confirm, cancel, sweep | `Assistant` |
| Usage (`modules/usage`) | usage reservations and the month's figure | reserve, reconcile, release | `Usage` |
| Idempotency (`apps/api/src/lib/idempotency.ts`) | `idempotency_keys` | claim, replay, complete | `Idempotency` |
| Worker jobs (`worker/src/conversations`, `worker/src/retention`) | none of their own | sweep conversations, retention batch | in `Booking`, `Assistant`, `Idempotency` |
| Tenants, providers, services, locations | the catalogue | create, update, archive | constants |
| Calendar synchronisation (`worker/src/calendar`) | events, tokens | parked: the worker does not start it | none |

The API and the worker are separate processes over one PostgreSQL database, each
replicated. They never call each other: an API handler commits rows (a booking
and its outbox event in one transaction), the worker finds them. Redis carries
only prompts. So what interleaves is handlers, each "read, decide, transaction",
and jobs, each one or a few statements; what fails is a process between two
statements, a transaction that is refused, and a message delivered twice.

What is hard, in the order of how much it matters:

* a booking is two rows, the appointment and the reservation that holds its
  time, and a hold's row is a third; seven handlers and two jobs rewrite them;
* every handler decides on what it read before its transaction, and captured its
  clock even earlier; holds expire by the clock, not by a write, so "expired" is
  something each statement works out for itself;
* two exclusion constraints are the only thing that stops two handlers that
  both saw a time free;
* messages are written with the change they announce but chosen from the old
  copy; jobs and retries run again what may already have happened;
* Stripe's events come late, twice and out of order, and its links can be paid
  while they are being replaced;
* checks and writes of a schedule, a membership or an offer are two steps;
* an assistant's turn lasts as long as a model call, and writes back a copy of
  the session that is that old; the call is paid for whatever becomes of it, and
  only reservations take the lock that the month's allowance is checked under;
* on two days of the year a reading of the clock happens twice or never.

`PROJECT.json` lists each hazard at its line with the properties aimed at it.

## What is modelled

### `Booking`: one provider's diary

A diary belongs to one provider, the exclusion constraints and the sweep are per
provider, and no handler touches two, so one provider is a whole instance. The
variables are the rows: `hold`, `booking`, `reservation`, the `outbox` events of
each booking in order, the `request` each client has in flight, the holds the
conversation sweeper is half-way through (`sweeping`), and `now`. A reservation
is keyed by the row whose handler created it, so that its `hold_id` is the key
when the key is a hold; `booking_id` is its field `booking`. A row that was never
written is `NoRow`; a deleted hold is `DeletedRow`.

A handler is `Begin...`, everything it reads and checks before its transaction,
and `Commit...`, the transaction. What is read before is kept in `request`,
with the clock the handler captured; what is read inside is read at the commit.
`Abandon` is every way to leave no trace: a refusal, a constraint, a deadlock
PostgreSQL resolved, a serialization failure, a crash.

| Action | Code |
|---|---|
| `BeginHold`, `CommitHold` | `BookingService.createHold`: window and slot search, then sweep, hold and reservation |
| `BeginDirectBooking`, `CommitDirectBooking` | `createDirectBooking`: no window, not in the past |
| `BeginRelease`, `CommitRelease` | `releaseHold`: status check, then two unconditional updates of the hold and its active reservation |
| `BeginConfirm`, `CommitConfirm` | `confirmBooking`: the hold is locked and checked in the transaction; the reservation is adopted or the transaction fails; no sweep |
| `BeginReschedule`, `CommitReschedule` | `confirmReschedule`: policy and search on a copy, then sweep, move the reservation, versioned update |
| `BeginCancellation`, `CommitCancellation` | `confirmCancellation` |
| `BeginUpdate`, `CommitUpdate` | `updateBooking` (PATCH): notes, acceptance, what happened on the day |
| `SweepHold`, `SweepReservation`, `SweeperCrash` | `sweepConversations`: two statements without a transaction |
| `RetentionBatch` | the `stale_holds` part of `runRetentionBatch`, all or nothing |

The statements have operators of their own: `SweptReservations` and `SweptHolds`
(`sweepExpired`, whose second statement runs only when the first found
something), `Adopted`, `MovedReservations`, `ReleasedReservations`,
`VersionMatches`, and the constraints `ReservationsDisjoint` and
`AppointmentsDisjoint`, which guard every commit that could break them.

Points where the model follows the code and not what one might expect:

* the search run for a reschedule excludes the booking with
  `NOT: { bookingId }`, which in SQL drops rows whose `booking_id` is NULL, so it
  does not see other people's holds (`OfferedTo`); the constraint still does;
* the clock a confirmation is judged by is the one captured when the request
  came in, not the one at the commit;
* a client may send the version it saw; an older one than the handler reads only
  makes the update fail, which is `Abandon`;
* nothing moves a booking from PENDING to EXPIRED
  (`docs/phase-4-booking-engine.md`, "PENDING bookings never expire on their own");
* `confirmBooking` does not translate an exclusion violation into "slot taken",
  which changes the status of the answer and none of the state.

Abstractions: times are minutes and a start is any of `Starts`, which stands for
what working hours, exceptions and the slot grid allow; a service's duration,
buffers and approval are constants, the resolved window is one pair of constants
(the code takes the stricter of provider and service), and the catalogue does
not change while the model runs; there is no cancellation notice because every
caller passes null; customers, references, tokens and audit rows are left out;
the retention batch takes all stale holds (its limit is 500 a batch, oldest
first); the sweeper may pick any active hold, as it picks the holds of idle
conversations and any hold may be one's.

### `Diary`: what the tables promise

A claim takes a span nobody else has, is held or booked, may lapse while held,
moves as a whole, and ends only by being cancelled. It has no holds, clocks,
versions, transactions or messages. `Booking!TheDiary` maps a reservation to its
claim: held while no booking has adopted it, booked after, and so on. A booked
claim whose reservation was released without a cancellation maps to "lost", a
phase `Diary` does not have.

### `Spec` and `CalmSpec`

`Spec` is the service with any clients. In it a release can free the slot of a
booking that was confirmed meanwhile (below, under divergences), so what depends on every
booking keeping its slot is stated of `CalmSpec`: the same actions, with the
assumption `Calm` that a hold is not confirmed while a request that gives it back
is being served. A customer's page sends one or the other; a retry or a second
tab may do otherwise. Everything else is stated and proved of `Spec`.

### `Outbox`: from a committed change to notification rows

An event is a row of `outbox_events` (`event`), and `persisted` counts the
notification rows it already has, in the order `dispatchOne` writes them. A
poller is one run of `dispatchOutboxBatch`: a replica, or one of the ticks of a
replica, since the timer does not wait for the batch before. It keeps the events
it claimed and has not begun (`batch`) and the one it is dispatching (`current`),
each as the row was when it was claimed (`Ticket`).

| Action | Code |
|---|---|
| `Write` | an API handler commits the event with its change |
| `ClaimBatch` | `claimOutboxEvents`: due or stale, at most a batch, attempts counted |
| `Take`, `Persist`, `Discard` | the loops of `dispatchOutboxBatch` and `dispatchOne`; a row that exists is passed over; an event whose message needs a payload that is gone is dropped |
| `Throw`, `SettleFailure` | any failure of a dispatch or of `markProcessed`; then `markFailed` or `markForRetry`, by the attempts of the claim |
| `MarkProcessed` | `markProcessed`, which clears the payload |
| `Die` | the process dies, or settling fails and the rest of the batch is dropped |
| `Wake`, `Expire` | a backoff ends; a claim becomes older than `STALE_CLAIM_SECONDS` |

The updates that settle an event name it by id only. So a poller whose claim was
taken over, slow and not dead, can turn a processed event back to PENDING, park
it, or clear the payload another poller is about to need. `Spec` allows that at
any time, and what must hold even then is that no message is lost. `PatientSpec`
adds the bet the comment at `staleClaimSeconds` makes: a claim grows stale only
when its holder is gone.

Abstractions: there is no clock; a claim takes any due events, where the code
takes the oldest and skips locked ones; attempts saturate one above the ceiling,
beyond which the code makes no difference; a message deliberately not planned
counts as handled; each event's rows are its own; putting the job in the queue is part of `Persist`, as a row whose job
was not added is found by the sweep; retention of processed events is left out.

### `Notifications`: from a row to a delivered message

A row of `notifications` (`row`) is the commitment to send one message; the
BullMQ job whose id is the row's (`job`) only prompts a worker to look at it. A
`sender` is a job being worked on. `sweep` holds the passes of the due sweep under
way, of all replicas and of ticks that overlap. `accepted` counts what the
provider delivered, and `key` says whether it still remembers the idempotency key.

| Action | Code |
|---|---|
| `Write` | `persistNotification` and `enqueueIfDue`: the row, and its job when it is due, unless the dispatcher dies in between |
| `StartJob`, `FinishJob` | the worker of the `notifications` queue: an outcome completes the job, an exception retries it up to `attempts` |
| `ClaimRow`, `NotClaimed` | `claim` and the read after it |
| `Skip`, `Build`, `Deliver` | `sendNotification` up to the provider's answer |
| `RecordSent`, `RecordFailure` | the updates that end an attempt, by `decideRetry` |
| `SweepPark`, `SweepRecover`, `SweepFind`, `SweepAdd`, `SweepEnd` | `sweepDueNotifications`, statement by statement; it finds a batch of the rows that were due first (`OldestBatch`) |
| `Die`, `DatabaseFails`, `SweepFails` | a process dies, a statement or the queue fails |
| `Tick`, `Expire` | the sweep's horizon moves on; a claim becomes older than `STALE_CLAIM_MS` |
| `Stalled`, `RemoveJob`, `WipeQueue`, `ForgetKey` | BullMQ, Redis and the provider |

Two specifications differ in what they assume of time. `Spec` lets a claim grow
stale under a sender that is slow and not dead. `PatientSpec` makes the bet of
`STALE_CLAIM_MS` ("comfortably longer than a healthy provider request"), and
`FairSpec` adds fairness to it.

External, modelled from how the code uses them: `add` returns the job that has the
id, finished or not; a job whose worker is gone runs once more and fails the
second time (BullMQ's `maxStalledCount` of one, which the worker leaves alone),
and its lock is renewed while the worker lives; a finished job may go, and need
not, as BullMQ looks at age and number only when another job finishes; the provider does not deliver a message twice while it knows the key, and a
transient failure may hide a delivery.

Abstractions: `now` is the end of the sweep's `MAX_QUEUE_LEAD_MS` and orders what is
scheduled (a recovered row is due at once), and no other time is counted; delayed
and waiting jobs are one state; the claim
and the read after it are one step; a provider that does not deliver is part of
`Skip`, as is every reason for which a message is no longer sent; `accepted`
saturates at two; what a notification says is left out, and one row's deletion
(retention, tenants) too.

### `Memberships`: the staff of one organization

`member` and `invitation` are the rows, `archived` the diaries whose provider is
archived, `grants` the delegations, `account` the people who have a user row. A
handler of `MembershipService` or `DelegationService` checks with reads outside
any transaction, and what passed is kept in `request` until it writes.

| Action | Code |
|---|---|
| `BeginChangeRole`, `CommitChangeRole` | `changeRole` with `assertNotLastOwner`; the update is by id |
| `BeginLink`, `CommitLink` | `linkProvider`; `memberships_provider_id_key` guards the write |
| `BeginRemove`, `CommitRemove` | `remove`; the grants go by `ON DELETE CASCADE` |
| `BeginGrant`, `CommitGrant`, `RevokeGrant` | `DelegationService` |
| `BeginInvite`, `BeginResend`, `CommitInvite` | `invite`, `inviteProvider`, `inviteDelegate`, `resendInvitation`: supersede and create |
| `BeginAccept`, `BeginRegister`, `CreateAccount`, `CommitAccept` | `findValidInvitation`, the account, `claimInvitation` with its second look at the promised diaries |
| `BeginExpire`, `CommitExpire`, `Lapse`, `RevokeInvitation`, `ArchiveOrRestore` | the remaining writes |

`SerialSpec` adds that no handler undoes what another one in flight has checked
(`Undisturbed`), which serializable transactions around check and write would
give and the code does not: `last_owner` shows what happens in `Spec`. Left out:
suspended memberships (nothing writes them), audit rows, the sessions of accounts.

### `StripeEvents`: a subscription and what follows from it

Events are numbered as Stripe made them; `history` says what they say and is
chosen at the start. Rows are `event`, `subscription` with its two cursors,
`access` (the tenant's status), `outbox`, `duplicates`, `invoiced`, and
`documents` at Billingo. A poller's `work` is the step it is at, the batch it has,
and what it read before it writes.

| Action | Code |
|---|---|
| `Deliver` | `webhook.routes.ts`; a redelivery meets the primary key |
| `Claim`, `Expire`, `TakeUp`, `Settle`, `Fail`, `Return` | `stripe.poller.ts` and `processStripeEventBatch` |
| `Age` | an event is older than the orphan timeout |
| `Activate`, `ClaimByMetadata` | binding: `activate`, `claimByTenantMetadata` |
| `Mirror`, `End`, `Schedule` | `mirrorSubscription`, `endSubscription`, `mirrorSchedule`: each one transaction, whose update is conditional on the cursor |
| `Notify` | `requestNotification`, after the transaction |
| `Issue`, `Create`, `Save` | `createBillingoInvoiceIssuer`: look up, create, save the number |
| `BeginSetStatus`, `CommitSetStatus` | `PlatformService.setStatus`: read, then write |
| `Trip`, `Die` | a call fails before or after it did its part; the process dies |

The entitlement rules of `packages/contracts/src/billing.ts` are operators
(`MirroredStatus`, `AccessEffect`, `NextAccess`, `RestoredAccess`).

The races are in the model: whoever reads a row may write it after others have.
Two history variables observe the ones the code loses, and each step sets them
from what it does (`Step /\ Observed`). `displaced` holds the subscriptions whose
binding a payment overwrote, having looked for a row before it was there;
`overtaken` is set when a mirroring goes by a status or an access that has changed
since it was read, or the administrator restores an access the subscription no
longer gives. A property that mentions them says what still holds then, and of
whom. `PatientSpec` assumes that a lease outlasts the work of a poller that lives,
which only the invoices need. Left out: payload parsing, language, partners and amounts, `CLOSED`
and internal organizations. A state event always names a plan, the order inside a
claimed batch is any, and `ClaimByMetadata` merges the binding with the reads that
follow.

### `CheckoutLinks`: one payment link at a time

`link` is what Stripe knows, `row` the organization's row, `bound` the
subscription, `handed` the links somebody has. `requestPaymentLink` and
`checkoutLinkFor` are a sequence of calls, each an action of the request that
makes it (`Begin`, `Look`, `Ask`, `Mark`, `Deactivate`, `Delete`, `Create`,
`Insert`, `Disown`, `Winner`, `Answer`), and `Abandon` ends it anywhere. `Pay` is
the payer, `Activate` the worker. A plan stands for plan and price. `CalmSpec`
assumes that while a request replaces a link nobody else replaces it and nobody
pays it (`Undisturbed`), and that what it read is still true when it begins to
act (`Fresh`); requests may always race to make the first link. In `Spec` a link
nobody paid can be marked used up, because the row is updated by organization and
not by link (below, under divergences).

### `Assistant` and `Usage`: a conversation used by several requests

`session` is the conversation's row, `action` its pending actions, `request` what
each request knows: its own copy of the session's state, read when it began, and
where it is. `Usage` holds the reservations and the month's figure; its
operations are composed into a turn.

| Action | Code |
|---|---|
| `BeginTurn`, `BeginTurnLate` | `findByToken`, the turn limit, the sliding deadline |
| `LockQuota`, `ReserveCall`, `QuotaExceeded`, `ReconcileCall`, `ReconcileFails` | metering (`usage.service.ts`) |
| `Interpret`, `InterpretFails`, `AnswerUnusable` | the one model call (`interpreter.ts`): answered; not made or not charged; charged, and its answer thrown away |
| `Unclear`, `Answer`, `ToolFails`, `Prepare` | what the command leads to |
| `Withdraw`, `Offer` | the two statements of `createPendingAction` |
| `Reply` | the session written back from the copy |
| `BeginConfirm`, `Burn`, `Work`, `WorkRefused`, `WorkFails`, `Complete`, `Cancel` | confirming and cancelling a card |
| `AgeSession`, `AgeAction`, `AgeCall`, `SweepSessions`, `SweepActions`, `Die`, `Start` | time, the sweeper, death, a new conversation |

A reservation is two steps. `LockAndRead` takes the advisory lock, expires what has
lapsed and reads the month's figure; `Reserve` or `OverQuota` adds up what is
reserved and decides. `gate` is what the first has read. Only reservations wait
for the lock: between the steps a call under way may be recorded, and is then in
neither sum (a reconciliation waits only for the rows the transaction has
expired). `missed` is history: how much was recorded between the two readings of
the last reservation granted.

What the conversation has collected, which tool runs and what the interpreter
understands are nondeterministic. The category metered is output tokens, which
the estimate really bounds since the provider is given it as a limit. `charged`
is history: what the provider has charged since the conversation began, until
something died, came too late or was charged for nothing (`troubled`).

### `Idempotency`: one key and the calls that repeat it

`entry` is the key's row, `call` what each call does. `Claim` is the transaction
under the key's advisory lock, `Replay` what a call is told that finds the key
honoured, then `Work` or `Throw`, `Store`, `Die`; the key runs out (`Expire`) and is
deleted (`Cleanup`). `lease`, `sender` and `done` are history. Its names differ from
those of `Booking`, whose every route runs under it, so that `BookingProofs` can
extend both.

### `Slots` and `Schedule`: what is offered and who is stranded

`Slots` holds the availability engine as operators: clocks with one change of
offset (`Resolve`, of `zone.ts`), half-open intervals (`Normalize`, `Subtract`),
working periods with night shifts, `GenerateSlots` and `FindUncovered`, and the
same tick by tick (`RefResolve`, `RefSlots`). Time is counted in ticks.

`Schedule` asks them. Editors read a week with its fingerprint (`Read`), send it
(`SendWeek`) or an exception (`SendRow`), are refused with the list of the stranded,
acknowledge (`Acknowledge`), and the write follows (`WriteWeek`, `CreateRow`,
`UpdateRow`, `DeleteRow`), as a step of its own. Customers check that a slot is
offered and book it in two steps (`Check`, `Book`, `Cancel`). `excused`, `unlisted`
and `exposed` are history. Left out: validity dates, inactive rows, holds in the
search, partial edits of an exception (a draft has every field).

## What the runs check

Type invariants of the modules with proofs are proved and not run again; a
property stands in one run, the one whose instance shows most.

| Run | Specification | Shows |
|---|---|---|
| `booking` | `Spec` | `UsableHoldIsBacked`: a running countdown owns its capacity; `NoLeakedSlot`: no time is blocked for good by nobody; `OfferedSlotIsClaimable`: search and constraint agree; `AnnouncementsMatchTheBooking`: the messages tell the booking's story in order; `TerminalIsFinal` |
| `booking_calm` | `CalmSpec` | `LiveBookingHoldsItsSlot`, `NoDoubleBooking`, `UsableHoldIsConfirmable`; `ImplementsDiary`: the tables implement `Diary` |
| `outbox` | `FairSpec` | `ProcessedOwesNothing`: no message is lost; `ParkedAfterAllAttempts`: no event is given up early; `OneHolder`; `EveryEventSettles` |
| `notifications` | `McSpec`, which is `FairSpec` with a bound | `SentWasDelivered`; `OneSender`; `EveryMessageSettles`: though senders die and Redis loses its jobs, a row settles unless a finished job of its own, or those of a batch of rows before it, stay for ever |
| `memberships` | `SerialSpec` | `IndexesNeverRefuse`: what a transaction supersedes is what the partial unique indexes would refuse; `LinksDeliver`: an accepted link gives all it promised; `LinksDemoteNobody`; `TenantKeepsAnOwner` |
| `last_owner` | `Spec` | violates `TenantKeepsAnOwner` (finding 1) |
| `stripe_events` | `PatientSpec` | `NewestEventWins`; `PaymentsAreAccounted`: a payment disappears in one race and no other way; `EndedHasNoAccess`; `OneInvoiceEach`; `GoingLiveIsAnnounced` |
| `checkout_links` | `CalmSpec` | `PaidOnce`: an organization pays one checkout; `ConsumedMeansPaid`: a row marked used up names a link that was paid, itself |
| `assistant` | `McSpec`, which is `Spec` with a bound | `ConfirmedOnce`, `OneLiveOffer`, `BookedIsRemembered`; `WithinAllowance`: by how much the allowance can be overrun; `SpendIsRecorded` |
| `idempotency` | `Spec` | `OneRunPerLease`, `ReplaysItsOwn` |
| `schedule` | `Spec` | `TypeOK`; `SlotsMatchReference`: the engine's intervals agree with a tick-by-tick reading; `EveryReadingResolves`; `OffersAreCovered`: search and coverage check agree; `StrandedWereExcused`; `SavesBuildOnWhatWasRead` |
| `acknowledged_blindly` | `Spec` | violates `StrandedWereListed` (finding 2) |

Each property has a mutant in `PROJECT.json`: a slip of the code it speaks of,
defined next to the right definition (its comment says "a slip"), with which TLC
finds the property violated. Deadlock is checked in `assistant` alone: in the
other instances identifiers, clock and versions are used up and the model stops,
where the service would go on.

### Bounds

* **Booking.** `MaxTime` is the last instant of the clock and `MaxVersion` the
  number of writes to a booking. Two clients are enough for every race the
  properties speak of, because a handler has one read and one transaction: one
  client's stale request against the whole committed history of the other, and of
  the jobs. A hold lives one minute and becomes stale one minute later, so that
  with `MaxTime = 2` holds run, lapse, are swept and are deleted. In `booking` a
  visit (two minutes, one after, approval) makes occupied spans of neighbouring
  starts overlap when the appointments do, and with three starts a booking moves
  twice; in `booking_calm` a check (one minute, one before) makes spans overlap
  when the appointments do not, which separates the two exclusion constraints,
  and two bookings and a hold compete.
* **Outbox.** A booking's event with two messages and an invitation's with one
  that needs its payload, two pollers, batches of two, two attempts: one poller
  can fail between two rows, the other take over, and settlements meet every
  status. `MaxDeaths` is needed by liveness alone.
* **Notifications.** Two rows and a batch of one, so that a row can keep another
  from the sweep; two senders, one pass of the sweep, two attempts of row and job,
  one fault (`MaxFaults`), one wiped queue (`MaxWipes`), two instants. The whole
  product of two rows is too large for a liveness check, so `McBound` lets the
  first row meet everything, and the second is written beside a row without a live
  job when nobody works and both are due, after which nothing more fails (170
  thousand states). Without `Crowded`
  in the property TLC shows the starved row. The proofs cover any number of rows,
  and batches of any size.
* **Memberships.** Two people, one diary, two members, two invitations, two
  clients (1.2 million states): two handlers are what a lost check takes, and an
  invitation replaced by another is the shortest story of a replaced link.
* **Stripe events.** Six histories of three events, chosen so that every handler
  runs and each order of arrival matters; two replicas, batches of two, one crash
  or failure (1.5 million states).
* **Checkout links.** Four links, two plans, three requests, so that two race and a
  third changes the plan.
* **Assistant.** Two requests, two offers, two reservations, an estimate of 1, costs
  of 0 and 1, an allowance of two calls, which can be overrun by one, and a limit of
  one turn, which two requests overrun. `McBound`: a reservation granted on stale
  sums is followed up while nothing is offered, since offers and the month's books
  do not depend on each other (2.5 million states). The proofs
  have any costs below any estimate.
* **Idempotency.** Three calls, two bodies, four claims of the key.
* **Schedule.** Days of six ticks, weeks of two days, a grid of two ticks, two
  instants. Two zones, in one of which the clocks go forward on day 1 and in the
  other back on day 2; three weeks: a night shift that touches the next morning,
  hours kept at one site, and a break between shifts; a closure and an opening
  across them. Two editors and one appointment (570 thousand states). Properties
  of the search are asked in settled states only (`Settled`): an edit or a booking
  under way leaves the diary as it is and can be given up, so that every diary
  is seen settled.

### Fairness

`Outbox!FairSpec`: delays end and claims age, a poller that has work goes on with
it, and an event that can be claimed again and again is claimed, because the
timer fires for ever and the query takes the oldest first.
`Notifications!FairSpec`: time passes and claims age, the sweep's timer fires
for ever, a worker goes on with the job it has and takes a waiting job that comes
back again and again, and BullMQ detects stalled jobs. Removing a finished job is
not fair. Nothing else is fair.

## Findings

1. **Two owners can demote each other** (`last_owner`). `changeRole` counts the other
   owners and then updates by id; two requests each count the other's.
   `membership.routes.ts` says that the last owner cannot be demoted, since that
   "would leave a tenant nobody can administer". `remove`, and an acceptance that
   gives an owner a lesser role, have the same gap.
2. **An acknowledged schedule change is not checked again** (`acknowledged_blindly`).
   A booking made between the refusal and its acknowledgement is stranded without
   having been listed. `availability.service.ts` and
   `docs/phase-3-4-schedule-conflicts.md` say that the check re-runs on the
   acknowledged call.

Met while modelling, without a run of their own:

* `releaseHold` refuses a confirmed hold on a copy read before its transaction,
  whose updates do not look at the status: a release that began before a
  confirmation and commits after it frees the booking's slot. This is what
  `Calm` leaves out. `holds.ts` says that a confirmed hold refuses.
* The outbox claim takes a stale event whatever its attempts, and only
  `settleFailure` compares them with the ceiling: a dispatch that kills the
  worker is repeated for ever. `outbox.repository.ts` says that "even a crash loop
  terminates at the attempt ceiling".
* A finished job keeps its row from being sent: the `add` of the sweep gets back the
  job that has the row's id (`Blocked`). A sender dies, BullMQ runs its job again
  before the claim is stale, and that run completes the job as `NOT_CLAIMED`; or a
  failing database uses up the job's attempts, of which it has as many as the row.
  The row stays PENDING until the job goes, a day or a fortnight later and only when
  another one finishes, by when the provider may have forgotten the key. A batch of
  such rows fills every pass, which takes the oldest, and starves all later rows
  (`Crowded`). `queues.ts` describes the trap ("would sit `PENDING` forever while
  looking perfectly healthy") and avoids it for calendar jobs alone; the comment
  at the sweep's query says that "a backlog drains".
* The updates that end a sender's attempt name the row by id: a sender slower than
  `STALE_CLAIM_MS` can reopen a row that another one has settled.
* Deleting a stale hold whose reservation is active and unadopted violates a CHECK
  and fails the one statement that carries every retention policy; reservations
  are swept only when somebody claims time of that provider.
* A search that names no site uses the hours of every site; the coverage check of
  an appointment without one counts only hours of no site (`Judgeable`). An
  opening made for one service is kept for a group that has that service among
  others, and so can hide that another is stranded. Shrinking or deleting an
  opening is not judged at all (`Unjudged`).
* Two requests to change the plan can leave two links that can be paid, and a
  request that dies after deactivating a link leaves its row naming a dead one. A
  request that learns that the recorded link was paid marks the row by
  organization: if another one has replaced the link meanwhile, the new link, which
  nobody paid, is marked used up and asked for no more. The worker's `activate`
  marks it the same way.
* Of two payments that look for a subscription before either is bound, the second
  `upsert` overwrites the first, and nothing records it (`displaced`). The comment at
  `recordDuplicateSubscription` describes that loss as what the code "used to" do.
* The organization's status, and what the mirroring transaction goes by, are read
  before it: an event can revive an organization suspended meanwhile, and a crash
  between that transaction and `requestNotification` loses the message. `setStatus`
  works out what to restore from a subscription that may end before it writes
  (`overtaken`).
* The month's allowance can be overrun, though `usage.service.ts` calls the decision
  "one serial operation per tenant/month": reconciling takes no lock, and what is
  recorded between the two readings of a reservation is in neither (`missed`).
* A model call whose answer cannot be used (no tool call in it, or one that does not
  parse) throws after it was charged, and its reservation is released: nothing is
  recorded, though `conversation.service.ts` says that "the recorded figure is
  always the real one". Nor is a call that outlasts its reservation.
* Two turns can make two live offers, as withdrawing and offering are two
  statements. A reply can reopen a completed session, since its state comes from an
  old copy.
* Of the planning of messages, read and not modelled: a reschedule event that is
  redelivered after another write plans its mail twice, two reschedules before a
  dispatch share one, and a reminder of the old time is never withdrawn.

## What is proved

The proofs hold for every value of the constants that the named assumptions of
each module allow: any sets of clients, rows, events or plans, finite or not
unless said otherwise, any limits.

**Booking** (`BookingProofs`). Assumed: durations are positive, buffers and windows
natural, a hold lives at least a minute, holds and bookings have different
identifiers, NULL is neither a number nor an identifier. The safety properties
are not inductive. `Inv` adds what they lean on, each part a named definition:
reservations are disjoint and each has a row as its origin; a reservation without
a booking is a hold's, with the hold's expiry; a booking has one reservation at
most; a hold that is still active was not adopted; the reservation a hold's
booking adopted stays its own; expiries lie no further ahead than one countdown;
holds whose reservations were swept are no longer active or have run out; and
requests in flight carry what was true when they were read, with clocks that do
not lie in the future. The last one is what makes a sweep with an old clock
harmless: it can only release what has lapsed by now as well. Each action has a
lemma that it preserves `Inv`; `TablesAgree` joins them, and the properties follow.
`CalmInv` adds that a confirmed hold has no release in flight and that a live
booking owns an active reservation.

Two results stand on both. `MessagesTellTheStory` proves
`AnnouncementsMatchTheBooking`: that a version's message was chosen from a copy read
earlier does no harm, because every change that is announced is conditional on
the version of that copy, so copy and row agree when the message is appended;
one step (`AnnouncedStep`) relates what happens to a row with what is appended to
its outbox. `ServiceImplementsTheDiary` proves `CalmSpec => ImplementsDiary`: each
action of the service is a step of `Diary` or none. It goes through because no
transaction changes the phase of two reservations but by its sweep, and what a
sweep releases is held and lapsed: the claims that make way for the one taken or
moved (`Lapsing`), while the constraint keeps all others apart.

**Outbox** (`OutboxProofs`). Under `Spec`, `Inv` adds to the properties that a
cleared payload means nothing is owed, and that what a poller remembers stays true
of the event however old its claim: the event is there with at least the attempts
of the ticket, and the rows the poller has passed are on record. That is why
settling without looking at the holder loses no message. Under `PatientSpec`,
`PatientInv` adds that a stale claim has no holder and that the event being
dispatched has left the batch; from it `EventsHaveOneHolder` and `SettledStays`.

**Notifications** (`NotificationsProofs`). Under `Spec`, `Inv` adds to `SentWasDelivered`
that a sender holding an acceptance, and a key the provider remembers, stand for
a delivery, and that a job that waits or runs has a run left. Under `PatientSpec`,
`PatientInv` adds that a stale claim has no sender, that the attempts a sender
decides by are its row's, and that a PENDING row has an attempt left; from it
`RowsHaveOneSender`, `AttemptsAreLimited` and `SettledStays`. The final updates name
the row by id alone, and it is `OneSender` that makes them safe.

**Memberships** (`MembershipsProofs`). `IInv` says that rows are whole, that a
request's promise names what its operation needs, and that live links and
memberships are single; from it, of `Spec`, `NothingIsRefusedByAnIndex` and
`AcceptedLinksDeliver`. Under `SerialSpec`, `SerialInv` adds that what each request in
flight has checked still holds; from it `NobodyIsDemotedByALink` and `AnOwnerStays`.

**Stripe events** (`StripeEventsProofs`; events are finitely many). `IInv` says that a
poller's step fits the event it is at. Of `Spec`, with every race in it, `RowInv`
adds what a stale reader cannot break: a row is never unbound, and whoever works
on a subscription's event has found it bound, or displaced since (`Binding`); the
row says what the event at its cursor says (`Cursors`), which the conditional
update keeps; a payment being bound is bound, recorded or displaced when it is
settled (`Accounts`); and a message owed has a poller that goes to write it
(`Announced`). `RowMovesOn` says how the row can change in one step. From it
`TheNewestWins`, `PaymentsDoNotVanish`, `AccessEnds` and `GoingLiveIsTold`. Under
`PatientSpec`, `InvoiceInv` adds that a claimed event has one poller (`Claimed`) and
where the invoice it is at stands (`Invoices`); from it `InvoicesAreSingle`.

**Checkout links** (`CheckoutLinksProofs`). `IInv` says, of `Spec`, that whoever marks
a link knows of a payment of some link. Under `CalmSpec`, `CalmInv` adds that only
the recorded link sells, that who makes a link or replaces one knows the row, and
that a paid link stays recorded; from it `OneCheckoutIsPaid` and
`HeldLinksAreKept`, and, as then the link that was paid is the one in the row,
`OnlyPaymentsAreMarked`.

**Assistant and Usage** (`AssistantProofs`; requests and reservations are finitely
many). `IInv` joins what confirming, offering, counting turns, metering and
remembering need; `CardsWorkOnce`, `OffersAreSingle`, `BookingsAreRemembered` and
`AllowanceIsKept` follow. The last bounds what is spent and promised by the
allowance and `missed`: while the gate is open what it has read is no more than is
recorded, and no row comes to stand but its own (`Ledger`). `SpendingIsRecorded` is
an equation between counters: what
the provider charged is what is recorded plus what requests that have their
answer still owe. The sum over requests is the size of the union of disjoint
sets, one token for each unit a request owes (`Owed`), so that it grows and shrinks
by one request's part; `Recording` adds that such a request's reservation still
stands and is its own.

**Idempotency** (the last part of `BookingProofs`). `KeyInv` says that the entry is the
honoured lease, that a claim is held by one call, and that what is stored was
done for the body it answers; from it `AtMostOnce`, `OwnAnswers` and
`LateAnswersStayOut`.

**Slots and Schedule** (`ScheduleProofs`). Assumed: appointments, exceptions and
periods are finitely many; times of day lie within a day; a service lasts at
most one, as `service.schemas.ts` demands; a zone's offsets are within a day, its
clock skips no more than the engine looks for and goes back a day at most.

First what the engine computes. `NormalizeIs`: the result of `Normalize` are the
maximal runs of what its intervals cover. `SubtractAvoids` and `SubtractKeeps`:
what `Subtract` leaves is what is free. `ResolveIs` and `RefResolveIs`: the engine's
corrections of a guess, and a search through all instants, both end at `FirstAt`, a
closed form. From these, `SlotsAreReference`: the slots are those that a reading
tick by tick allows; and `UncoveredIs`: an appointment is uncovered exactly when
one of its ticks is off shift and unopened, or closed (`Kept`), whatever range of
dates the check expands (`DatesSuffice`).

`ReadingsHaveInstants`, `OffersAreAlwaysCovered` and `SearchesAreExact` follow with
types alone (`Typing`). `SearchesAreExact` assumes `MidnightOnce`, that no clock goes
back over a midnight: the engine counts days from the first midnight, and where
there are two the hour between them is, by the clock, the day before.

`NobodyIsStrandedUnnoticed` needs more: what an editor is about to write was judged
earlier, and so was what a customer is about to book. `Trusted` says that nobody
stranded is not excused (`Excused`), and that the judgement of an edit
(`FreshEdit`) or of a booking (`FreshCheck`) that nothing has put out of date still
holds of the present tables; it lasts until the first step that exposes, which
never ends. It assumes `ForEveryService`, that no exception is of one service:
those are judged with the whole group of appointments that has that service
among others (see the divergences), and cancelling one appointment of the group
then strands another that nobody touched. Without them each is judged by itself
(`JudgeIs`). `WeeksBuildOnWhatWasRead` is an action property, from `Typing`. The
constants of the run satisfy both assumptions.

### What is only model-checked

* `EveryEventSettles` and `EveryMessageSettles` are liveness under fairness, which
  is out of the provers' reach, as is `ENABLED`.
* `SearchesAreExact` and `NobodyIsStrandedUnnoticed` have a hypothesis each (above);
  without them the properties are not true of the engine. Every other safety
  property of a run is proved as it is checked.
* What the runs' instances say of time: nothing here is about durations in seconds.

## Plan

1. What each booking event owes and the keys that make two events one message
   (`planning.ts`, `dedupe.ts`), composed with `Outbox` and `Notifications`.
2. The booking transactions statement by statement with row locks, implementing
   `Booking`; the remaining retention policies; partial edits of exceptions.
3. Calendar synchronisation, if it is started in the program.

## Not modelled, and why

The web application (presentation; every rule it shows is enforced by the API),
authentication (a library and pure policy tables), the language model behind the
assistant, e-mail and invoice providers, rendering of messages, configuration and
logging. The catalogue is constant. These are most of the repository's lines; the
models cover the parts that keep state and race.
