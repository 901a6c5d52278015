---------------------------- MODULE StripeEvents ----------------------------
(***************************************************************************)
(* What Stripe reports of one organization's subscription, and what the    *)
(* worker makes of it: the mirrored row, the organization's access, its    *)
(* messages and its Hungarian invoices.  Follows stripe.processor.ts,      *)
(* stripe.poller.ts, billingo.invoice.ts, webhook.routes.ts, the rules of  *)
(* packages/contracts/src/billing.ts and PlatformService.setStatus.        *)
(*                                                                         *)
(* Events are numbered in the order (created, id) in which Stripe made     *)
(* them.  They arrive in any order, or again (which the primary key        *)
(* absorbs), and pollers of several replicas work them off, each reading   *)
(* rows and writing later.                                                 *)
(***************************************************************************)
EXTENDS Naturals, FiniteSets

CONSTANTS
    Events,         \* the events Stripe made, in its order
    Subscriptions,  \* Stripe's identifiers of subscriptions sold to this organization
    Tagged,         \* those whose metadata names the organization
    Plans,          \* plans with a price
    Histories,      \* what the events may say
    Pollers,        \* replicas of the worker
    BatchSize,      \* events claimed at once
    MaxTroubles,    \* bound on crashes and failing calls
    None            \* SQL's NULL

AccessStatuses == {"PENDING_SUBSCRIPTION", "TRIAL", "ACTIVE", "SUSPENDED"}
StripeStatuses == {"trialing", "active", "past_due", "unpaid", "paused", "canceled",
                   "incomplete", "incomplete_expired"}

\* What the payload of an event says.  "unusable" stands for an event whose
\* handler always throws: a checkout of nobody, a status nobody has considered.
Content ==
    [kind: {"checkout", "end", "trial_ending", "payment_failed", "invoice"}, sub: Subscriptions]
    \cup [kind: {"state"}, sub: Subscriptions, status: StripeStatuses, plan: Plans]
    \cup [kind: {"schedule"}, sub: Subscriptions, plan: Plans \cup {None}]
    \cup [kind: {"unusable", "ignored"}]

ASSUME StripeEventsAssumption ==
    /\ Events \subseteq Nat \ {0}
    /\ IsFiniteSet(Events)
    /\ Tagged \subseteq Subscriptions
    /\ Plans # {}
    /\ None \notin Subscriptions \cup Plans \cup AccessStatuses
    /\ Histories \subseteq [Events -> Content]
    /\ BatchSize \in Nat \ {0}
    /\ MaxTroubles \in Nat

VARIABLES
    history,       \* what the events say
    event,         \* stripe_events: status, and whether the orphan timeout is over
    access,        \* tenants.status
    subscription,  \* the organization's row of subscriptions
    outbox,        \* events that have written their outbox row
    duplicates,    \* events recorded as a second subscription in the audit log
    documents,     \* how many Billingo documents an invoice event has
    invoiced,      \* billingo_invoices
    work,          \* what each poller is doing
    operator,      \* the platform administrator's request to suspend or restore
    troubles,      \* crashes and failures so far
    displaced,     \* subscriptions whose row a raced payment took (no code keeps this)
    overtaken      \* whether what was written had been read too early (nor this)

tables == <<access, subscription, outbox, duplicates, documents, invoiced>>
races == <<displaced, overtaken>>
vars == <<history, event, tables, work, operator, troubles, races>>

(***************************************************************************)
(* Rows.                                                                   *)
(***************************************************************************)
MirroredStatuses == {"ACTIVE", "PAST_DUE", "CANCELED", "INCOMPLETE", "TRIALING"}
Live == {"ACTIVE", "TRIALING", "PAST_DUE"}

\* stateEvent and scheduleEvent are the cursors; 0 is before every event.
Row ==
    [id: Subscriptions \cup {None}, status: MirroredStatuses \cup {"none"},
     plan: Plans \cup {None}, pending: Plans \cup {None}, trialUsed: BOOLEAN,
     stateEvent: Events \cup {0}, scheduleEvent: Events \cup {0}]
NoRow ==
    [id |-> None, status |-> "none", plan |-> None, pending |-> None, trialUsed |-> FALSE,
     stateEvent |-> 0, scheduleEvent |-> 0]

\* A row made before any state is known; the plan is a guess.
NewRow(s) ==
    [NoRow EXCEPT !.id = s, !.status = "INCOMPLETE", !.plan = CHOOSE plan \in Plans : TRUE]

EventRow == [status: {"away", "pending", "claimed", "stale", "done"}, old: BOOLEAN]

\* A poller's batch, the event it is at, and what it read before it writes.
Steps == {"idle", "next", "activate", "claim", "mirror", "end", "schedule", "notify",
          "issue", "create", "save", "settle", "fail"}
Work == [step: Steps, batch: SUBSET Events, event: Events \cup {0}, found: Row,
         grant: AccessStatuses \cup {None}]
Idle == [step |-> "idle", batch |-> {}, event |-> 0, found |-> NoRow, grant |-> None]
Rested(batch) == [Idle EXCEPT !.step = "next", !.batch = batch]

\* The two observations apart, which are sets of subscriptions and a truth value.
TypeOK ==
    /\ history \in Histories
    /\ event \in [Events -> EventRow]
    /\ access \in AccessStatuses
    /\ subscription \in Row
    /\ outbox \subseteq Events
    /\ duplicates \subseteq Events
    /\ documents \in [Events -> Nat]
    /\ invoiced \subseteq Events
    /\ work \in [Pollers -> Work]
    /\ operator \in AccessStatuses \cup {None}
    /\ troubles \in 0 .. MaxTroubles

(***************************************************************************)
(* The entitlement rules.                                                  *)
(***************************************************************************)
\* subscriptionEffect: what is mirrored and what the organization becomes
MirroredStatus(status) ==
    CASE status = "trialing" -> "TRIALING"
      [] status = "active" -> "ACTIVE"
      [] status \in {"past_due", "unpaid", "paused"} -> "PAST_DUE"
      [] status = "canceled" -> "CANCELED"
      [] status \in {"incomplete", "incomplete_expired"} -> "INCOMPLETE"

AccessEffect(status) ==
    CASE status = "trialing" -> "TRIAL"
      [] status = "active" -> "ACTIVE"
      [] status \in {"unpaid", "paused", "canceled", "incomplete_expired"} -> "SUSPENDED"
      [] status \in {"past_due", "incomplete"} -> None

\* nextTenantStatus; None leaves the organization alone.
NextAccess(current, effect) == IF current \in {effect, "SUSPENDED"} THEN None ELSE effect

\* Slip: lifting a suspension gives full access back.
RestoredToActive == "ACTIVE"

\* restoredTenantStatus
RestoredAccess ==
    CASE subscription.status \notin Live -> "PENDING_SUBSCRIPTION"
      [] subscription.status = "TRIALING" -> "TRIAL"
      [] OTHER -> "ACTIVE"

(***************************************************************************)
(* Arrival and claiming.                                                   *)
(***************************************************************************)
Marked(e, status) == [event EXCEPT ![e] = [@ EXCEPT !.status = status]]

Deliver(e) ==
    /\ event[e].status = "away"
    /\ event' = Marked(e, "pending")
    /\ UNCHANGED <<history, tables, work, operator, troubles>>

\* received_at is more than the orphan timeout ago.
Age(e) ==
    /\ event[e].status \notin {"away", "done"} /\ ~event[e].old
    /\ event' = [event EXCEPT ![e] = [@ EXCEPT !.old = TRUE]]
    /\ UNCHANGED <<history, tables, work, operator, troubles>>

\* claimed_at is older than the lease.
Expire(e) ==
    /\ event[e].status = "claimed"
    /\ event' = Marked(e, "stale")
    /\ UNCHANGED <<history, tables, work, operator, troubles>>

Claimable(e) == event[e].status \in {"pending", "stale"}

\* The oldest claimable events, in Stripe's order.
Batch(batch) ==
    /\ Cardinality(batch) <= BatchSize
    /\ \A e \in batch : Claimable(e)
    /\ \A e \in Events \ batch :
          Claimable(e) => Cardinality(batch) = BatchSize /\ \A b \in batch : b < e

\* claimStripeEvents
Claim(p, batch) ==
    /\ work[p] = Idle
    /\ batch # {} /\ Batch(batch)
    /\ event' = [e \in Events |->
                    IF e \in batch THEN [event[e] EXCEPT !.status = "claimed"] ELSE event[e]]
    /\ work' = [work EXCEPT ![p] = Rested(batch)]
    /\ UNCHANGED <<history, tables, operator, troubles>>

\* processStripeEventBatch returns.
Return(p) ==
    /\ work[p].step = "next" /\ work[p].batch = {}
    /\ work' = [work EXCEPT ![p] = Idle]
    /\ UNCHANGED <<history, event, tables, operator, troubles>>

(***************************************************************************)
(* Dispatching: what is read first, and the step that follows.             *)
(***************************************************************************)
At(p, step) == work[p].step = step
Go(p, step) == work' = [work EXCEPT ![p] = [@ EXCEPT !.step = step]]
Told(p) == history[work[p].event]

Bound(s) == subscription # NoRow /\ subscription.id = s
Unbound == subscription = NoRow \/ subscription.id = None

HandlerOf(kind) ==
    CASE kind = "state" -> "mirror"
      [] kind = "end" -> "end"
      [] kind = "schedule" -> "schedule"
      [] kind \in {"trial_ending", "payment_failed"} -> "notify"
      [] kind = "invoice" -> "issue"

\* Invoices and schedules do not carry the subscription's metadata.
NamesItsOwner(content) ==
    content.kind \in {"state", "end", "trial_ending"} /\ content.sub \in Tagged

\* dispatch and findByStripeId; an orphan fails until it is old, then is given up.
FirstStep(e) ==
    LET content == history[e]
    IN  CASE content.kind = "ignored" -> "settle"
          [] content.kind = "unusable" -> "fail"
          [] content.kind = "checkout" -> "activate"
          [] OTHER ->
                CASE Bound(content.sub) -> HandlerOf(content.kind)
                  [] Unbound /\ NamesItsOwner(content) -> "claim"
                  [] OTHER -> IF event[e].old THEN "settle" ELSE "fail"

\* What a state event lets the organization become, as the rows are now.
Grant(e) ==
    IF history[e].kind = "state" THEN NextAccess(access, AccessEffect(history[e].status))
    ELSE None

TakeUp(p, e) ==
    /\ At(p, "next") /\ e \in work[p].batch
    /\ work' = [work EXCEPT ![p] =
                   [@ EXCEPT !.step = FirstStep(e), !.event = e,
                             !.found = subscription, !.grant = Grant(e)]]
    /\ UNCHANGED <<history, event, tables, operator, troubles>>

(***************************************************************************)
(* Binding a subscription to the organization.                             *)
(***************************************************************************)
\* Slip: whatever was paid last is the organization's subscription.
IsSecondNever(row, s) == FALSE

IsSecond(row, s) == row # NoRow /\ row.id # None /\ row.id # s

BoundRow(s) == IF subscription = NoRow THEN NewRow(s) ELSE [subscription EXCEPT !.id = s]

\* activate: by what it read it records a second payment or upserts the row.
Activate(p) ==
    LET s == Told(p).sub
    IN  /\ At(p, "activate")
        /\ IF IsSecond(work[p].found, s)
           THEN /\ duplicates' = duplicates \cup {work[p].event}
                /\ UNCHANGED subscription
           ELSE /\ subscription' = BoundRow(s)
                /\ UNCHANGED duplicates
        /\ Go(p, "settle")
        /\ UNCHANGED <<history, event, access, outbox, documents, invoiced, operator, troubles>>

\* claimByTenantMetadata, and the reads of the handler that goes on.  Creating
\* the row fails if another poller has created it in the meantime.
ClaimByMetadata(p) ==
    /\ At(p, "claim")
    /\ IF work[p].found = NoRow /\ subscription # NoRow
       THEN Go(p, "fail") /\ UNCHANGED subscription
       ELSE /\ subscription' = BoundRow(Told(p).sub)
            /\ work' = [work EXCEPT ![p] =
                           [@ EXCEPT !.step = HandlerOf(Told(p).kind),
                                     !.found = BoundRow(Told(p).sub),
                                     !.grant = Grant(work[p].event)]]
    /\ UNCHANGED <<history, event, access, outbox, duplicates, documents, invoiced,
                   operator, troubles>>

(***************************************************************************)
(* Mirroring.                                                              *)
(***************************************************************************)
\* Slip: whichever event is worked off last decides.
NewerAlways(s, e) == Bound(s)

\* newerStateEvent, in the WHERE of the update
NewerState(s, e) == Bound(s) /\ subscription.stateEvent < e

\* newerScheduleEvent
NewerSchedule(s, e) == Bound(s) /\ subscription.scheduleEvent < e

\* Slip: a trial is not worth a message.
GoesLivePaid(found, status) == status = "ACTIVE" /\ found.status \notin Live

GoesLive(found, status) == status \in Live /\ found.status \notin Live

Mirrored(e, found) ==
    LET content == history[e]
        status == MirroredStatus(content.status)
    IN  [subscription EXCEPT
            !.status = status,
            !.plan = content.plan,
            !.trialUsed = subscription.trialUsed \/ (status = "TRIALING" /\ ~found.trialUsed),
            !.pending = IF content.plan = found.pending THEN None ELSE subscription.pending,
            !.stateEvent = e]

\* mirrorSubscription's transaction; the message follows on its own.
Mirror(p) ==
    LET e == work[p].event
    IN  /\ At(p, "mirror")
        /\ IF NewerState(Told(p).sub, e)
           THEN /\ subscription' = Mirrored(e, work[p].found)
                /\ access' = IF work[p].grant = None THEN access ELSE work[p].grant
                /\ Go(p, IF GoesLive(work[p].found, MirroredStatus(Told(p).status))
                         THEN "notify" ELSE "settle")
           ELSE UNCHANGED <<access, subscription>> /\ Go(p, "settle")
        /\ UNCHANGED <<history, event, outbox, duplicates, documents, invoiced,
                       operator, troubles>>

\* endSubscription's transaction
End(p) ==
    LET e == work[p].event
    IN  /\ At(p, "end")
        /\ IF NewerState(Told(p).sub, e)
           THEN /\ subscription' = [subscription EXCEPT !.status = "CANCELED",
                                        !.pending = None, !.stateEvent = e]
                /\ access' = "SUSPENDED"
           ELSE UNCHANGED <<access, subscription>>
        /\ Go(p, "settle")
        /\ UNCHANGED <<history, event, outbox, duplicates, documents, invoiced,
                       operator, troubles>>

\* mirrorSchedule, and clearSchedule when no plan is to come
Schedule(p) ==
    LET e == work[p].event
    IN  /\ At(p, "schedule")
        /\ subscription' = IF NewerSchedule(Told(p).sub, e)
                           THEN [subscription EXCEPT !.pending = Told(p).plan,
                                                     !.scheduleEvent = e]
                           ELSE subscription
        /\ Go(p, "settle")
        /\ UNCHANGED <<history, event, access, outbox, duplicates, documents, invoiced,
                       operator, troubles>>

\* requestNotification: an upsert under a key made of the event
Notify(p) ==
    /\ At(p, "notify")
    /\ outbox' = outbox \cup {work[p].event}
    /\ Go(p, "settle")
    /\ UNCHANGED <<history, event, access, subscription, duplicates, documents, invoiced,
                   operator, troubles>>

(***************************************************************************)
(* The Hungarian invoice of a paid Stripe invoice.                         *)
(***************************************************************************)
\* Slip: Billingo is not asked whether the document exists.
RecoverableNever(e) == FALSE

\* getDocumentByVendorId
Recoverable(e) == documents[e] > 0

Issue(p) ==
    LET e == work[p].event
    IN  /\ At(p, "issue")
        /\ Go(p, CASE e \in invoiced -> "settle"
                   [] e \notin invoiced /\ Recoverable(e) -> "save"
                   [] OTHER -> "create")
        /\ UNCHANGED <<history, event, tables, operator, troubles>>

\* createDocument, in Billingo
Create(p) ==
    /\ At(p, "create")
    /\ documents' = [documents EXCEPT ![work[p].event] = @ + 1]
    /\ Go(p, "save")
    /\ UNCHANGED <<history, event, access, subscription, outbox, duplicates, invoiced,
                   operator, troubles>>

\* saveInvoice
Save(p) ==
    /\ At(p, "save")
    /\ invoiced' = invoiced \cup {work[p].event}
    /\ Go(p, "settle")
    /\ UNCHANGED <<history, event, access, subscription, outbox, duplicates, documents,
                   operator, troubles>>

(***************************************************************************)
(* The end of an event, failures and crashes.                              *)
(***************************************************************************)
Leave(p) ==
    work' = [work EXCEPT ![p] = Rested(work[p].batch \ {work[p].event})]

Settle(p) ==
    /\ At(p, "settle")
    /\ event' = Marked(work[p].event, "done")
    /\ Leave(p)
    /\ UNCHANGED <<history, tables, operator, troubles>>

\* claimed_at is cleared, whoever holds the claim; processed_at is not.
Fail(p) ==
    /\ At(p, "fail")
    /\ event' = IF event[work[p].event].status = "done" THEN event
                ELSE Marked(work[p].event, "pending")
    /\ Leave(p)
    /\ UNCHANGED <<history, tables, operator, troubles>>

\* The database, Stripe or Billingo refuses, before or after it did its part.
Trip(p) ==
    /\ work[p].step \notin {"idle", "next", "fail"} /\ troubles < MaxTroubles
    /\ Go(p, "fail")
    /\ troubles' = troubles + 1
    /\ UNCHANGED <<history, event, tables, operator>>

Die(p) ==
    /\ work[p] # Idle /\ troubles < MaxTroubles
    /\ work' = [work EXCEPT ![p] = Idle]
    /\ troubles' = troubles + 1
    /\ UNCHANGED <<history, event, tables, operator>>

(***************************************************************************)
(* The platform administrator: PlatformService.setStatus.                  *)
(***************************************************************************)
BeginSetStatus(next) ==
    /\ operator = None
    /\ next \in {"SUSPENDED", RestoredAccess}
    /\ operator' = next
    /\ UNCHANGED <<history, event, tables, work, troubles>>

CommitSetStatus ==
    /\ operator # None
    /\ access' = operator
    /\ operator' = None
    /\ UNCHANGED <<history, event, subscription, outbox, duplicates, documents, invoiced,
                   work, troubles>>

(***************************************************************************)
(* The specification.                                                      *)
(***************************************************************************)
\* A provisioned prospect, or an organization its owner created.
Init ==
    /\ history \in Histories
    /\ event = [e \in Events |-> [status |-> "away", old |-> FALSE]]
    /\ access \in {"PENDING_SUBSCRIPTION", "TRIAL"}
    /\ subscription = NoRow
    /\ outbox = {} /\ duplicates = {} /\ invoiced = {}
    /\ documents = [e \in Events |-> 0]
    /\ work = [p \in Pollers |-> Idle]
    /\ operator = None
    /\ troubles = 0
    /\ displaced = {} /\ overtaken = FALSE

Handle(p) ==
    \/ \E e \in Events : TakeUp(p, e)
    \/ Activate(p) \/ ClaimByMetadata(p) \/ Mirror(p) \/ End(p) \/ Schedule(p) \/ Notify(p)
    \/ Issue(p) \/ Create(p) \/ Save(p)
    \/ Settle(p) \/ Fail(p) \/ Return(p)

Poll(p) == Handle(p) \/ \E batch \in SUBSET Events : Claim(p, batch)

Step ==
    \/ \E p \in Pollers : Poll(p) \/ Trip(p) \/ Die(p)
    \/ \E e \in Events : Deliver(e) \/ Age(e) \/ Expire(e)
    \/ \E next \in AccessStatuses : BeginSetStatus(next)
    \/ CommitSetStatus

(***************************************************************************)
(* Two handlers, or a handler and the administrator, may read before       *)
(* either writes: the code has no lock and no version there.  The last two *)
(* variables observe when that has cost something.                         *)
(***************************************************************************)
\* Subscriptions whose row is given to another one by a poller that read the
\* row before they had it.
Displaced ==
    {s \in Subscriptions :
        /\ Bound(s) /\ subscription'.id # s
        /\ \E p \in Pollers : work'[p] # work[p] /\ work[p].found.id # s}

\* A mirroring that goes by a status or an access that has changed, or an
\* administrator who restores what the subscription no longer gives.
Overtakes ==
    \/ \E p \in Pollers :
          /\ At(p, "mirror") /\ work'[p] # work[p] /\ subscription' # subscription
          /\ \/ work[p].found.status # subscription.status
             \/ work[p].grant # Grant(work[p].event)
    \/ operator # None /\ operator' = None /\ operator \notin {"SUSPENDED", RestoredAccess}

Observed ==
    /\ displaced' = displaced \cup Displaced
    /\ overtaken' = (overtaken \/ Overtakes)

Next == Step /\ Observed

Spec == Init /\ [][Next]_vars

\* Patient behaviours: a lease outlasts the work, except a dead poller's.
Patient ==
    \A e \in Events :
        event[e].status = "claimed" /\ event'[e].status = "stale" =>
            \A p \in Pollers : e \notin work[p].batch

PatientSpec == Init /\ [][Next /\ Patient]_vars

(***************************************************************************)
(* Properties.                                                             *)
(***************************************************************************)
\* The mirrored status is that of the newest event worked off, in whatever order
\* Stripe delivered them, however often they failed and whoever raced; a schedule
\* that was released does not come back (newerStateEvent, newerScheduleEvent).
StatusOf(e) == IF history[e].kind = "end" THEN "CANCELED" ELSE MirroredStatus(history[e].status)

NewestEventWins ==
    \A e \in Events :
        /\ event[e].status = "done" /\ ~event[e].old
        /\ history[e].kind \in {"state", "end", "schedule"}
        /\ Bound(history[e].sub) /\ history[e].sub \notin displaced
        => IF history[e].kind = "schedule"
           THEN /\ e <= subscription.scheduleEvent
                /\ history[subscription.scheduleEvent].plan = None => subscription.pending = None
           ELSE /\ e <= subscription.stateEvent
                /\ subscription.status = StatusOf(subscription.stateEvent)

\* Whoever paid is accounted for: the subscription is the organization's, or a
\* second one, and then the audit log says so.  It vanishes in one way only, which
\* the code does not close: another payment was looked up before this one was
\* bound, and bound after it (activate, recordDuplicateSubscription).
PaymentsAreAccounted ==
    \A e \in Events :
        event[e].status = "done" /\ history[e].kind = "checkout" =>
            Bound(history[e].sub) \/ e \in duplicates \/ history[e].sub \in displaced

\* Access ends with the subscription, and what a restored organization gets back
\* is what its subscription gives it; only a stale write, of the access or of the
\* status it was worked out from, breaks it (endSubscription, setStatus).
EndedHasNoAccess ==
    subscription.status = "CANCELED" /\ ~overtaken => access \notin {"TRIAL", "ACTIVE"}

\* Each paid invoice has one document, though the worker failed or died between
\* creating it and saving its number (createBillingoInvoiceIssuer).
OneInvoiceEach ==
    \A e \in Events :
        /\ documents[e] <= 1
        /\ event[e].status = "done" /\ history[e].kind = "invoice" /\ ~event[e].old =>
               documents[e] = 1 /\ e \in invoiced

\* An organization whose subscription went live is told so, unless something broke
\* between the mirroring and the message, which nothing repairs, or a stale status
\* or a raced payment hid that it went live (mirrorSubscription).
GoingLiveIsAnnounced ==
    /\ troubles = 0 /\ ~overtaken /\ displaced = {}
    /\ subscription.status \in Live
    /\ \A p \in Pollers : ~At(p, "notify")
    => \E e \in outbox : history[e].kind = "state" /\ history[e].sub = subscription.id
=============================================================================
