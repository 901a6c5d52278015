------------------------------- MODULE Outbox -------------------------------
(***************************************************************************)
(* The outbox and the pollers that empty it (apps/worker/src/outbox).  The *)
(* API writes an event with the change it announces; a poller claims a     *)
(* batch, writes the notification rows each event owes, one after the      *)
(* other, and settles the event.  Pollers die, and a claim that has grown  *)
(* old may be taken over while its holder is only slow.                    *)
(*                                                                         *)
(* Time is not counted: Wake is the end of a backoff, Expire the moment a  *)
(* claim is older than STALE_CLAIM_SECONDS.                                *)
(***************************************************************************)
EXTENDS Integers, FiniteSets

CONSTANTS
    Events,         \* outbox_events rows
    Secrets,        \* those whose message is built from the payload alone
    Pollers,        \* batches in progress: replicas, and ticks that overlap
    BatchSize,      \* OUTBOX_BATCH_SIZE
    MaxAttempts,    \* OUTBOX_MAX_ATTEMPTS
    Rows,           \* how many notification rows an event owes
    MaxDeaths       \* bound: how often a poller dies

ASSUME OutboxAssumption ==
    /\ Secrets \subseteq Events
    /\ BatchSize \in Nat \ {0} /\ MaxAttempts \in Nat \ {0}
    /\ Rows \in [Events -> Nat \ {0}]
    /\ MaxDeaths \in Nat

VARIABLES
    event,      \* outbox_events
    persisted,  \* per event, how many of its notification rows exist
    batch,      \* per poller, what it claimed and has not begun
    current,    \* per poller, what it is dispatching
    deaths

vars == <<event, persisted, batch, current, deaths>>

Statuses == {"PENDING", "PROCESSING", "PROCESSED", "FAILED"}

\* Attempts beyond the ceiling are not told apart, the code never does.
Ceiling == MaxAttempts + 1
Raised(n) == IF n < Ceiling THEN n + 1 ELSE n

NoEvent == [status |-> "none"]
EventRow ==
    [status: Statuses, attempts: 0..Ceiling, available: BOOLEAN, stale: BOOLEAN,
     payload: BOOLEAN]

\* What a claim returns: the row as it was claimed.
Ticket == [event: Events, attempts: 1..Ceiling, payload: BOOLEAN]

Idle == [step |-> "idle"]
Work == [step: {"dispatch", "processed", "failed"}, ticket: Ticket, next: Nat \ {0}]

\* The rows, and what every poller remembers of those it claimed.
TypeOK ==
    /\ event \in [Events -> EventRow \cup {NoEvent}]
    /\ persisted \in [Events -> Nat]
    /\ batch \in [Pollers -> SUBSET Ticket]
    /\ current \in [Pollers -> Work \cup {Idle}]
    /\ deaths \in Nat

(***************************************************************************)
(* Writing and claiming.                                                   *)
(***************************************************************************)
Write(e) ==
    /\ event[e] = NoEvent
    /\ event' = [event EXCEPT ![e] = [status |-> "PENDING", attempts |-> 0,
                    available |-> TRUE, stale |-> FALSE, payload |-> TRUE]]
    /\ UNCHANGED <<persisted, batch, current, deaths>>

Wake(e) ==
    /\ event[e].status = "PENDING" /\ ~event[e].available
    /\ event' = [event EXCEPT ![e].available = TRUE]
    /\ UNCHANGED <<persisted, batch, current, deaths>>

Expire(e) ==
    /\ event[e].status = "PROCESSING" /\ ~event[e].stale
    /\ event' = [event EXCEPT ![e].stale = TRUE]
    /\ UNCHANGED <<persisted, batch, current, deaths>>

\* Slip: a claim under way is not distinguished from an event that waits.
ClaimableAlways(e) == event[e].status \in {"PENDING", "PROCESSING"}

\* Slip: a claim whose holder died is never taken over.
ClaimablePending(e) == event[e].status = "PENDING" /\ event[e].available

Claimable(e) ==
    \/ event[e].status = "PENDING" /\ event[e].available
    \/ event[e].status = "PROCESSING" /\ event[e].stale

ClaimedRow(row) ==
    [row EXCEPT !.status = "PROCESSING", !.attempts = Raised(@), !.stale = FALSE]

TicketOf(e) ==
    [event |-> e, attempts |-> Raised(event[e].attempts), payload |-> event[e].payload]

\* claimOutboxEvents: one statement.  A new tick does not wait for the batch of
\* the one before; here it is another poller.
ClaimBatch(p, es) ==
    /\ current[p] = Idle /\ batch[p] = {}
    /\ es # {} /\ Cardinality(es) <= BatchSize
    /\ \A e \in es : Claimable(e)
    /\ event' = [e \in Events |-> IF e \in es THEN ClaimedRow(event[e]) ELSE event[e]]
    /\ batch' = [batch EXCEPT ![p] = {TicketOf(e) : e \in es}]
    /\ UNCHANGED <<persisted, current, deaths>>

Claim(p) == \E es \in SUBSET Events : ClaimBatch(p, es)

(***************************************************************************)
(* Dispatching one event after the other.                                  *)
(***************************************************************************)
Take(p) ==
    /\ current[p] = Idle
    /\ \E t \in batch[p] :
          /\ current' = [current EXCEPT ![p] =
                            [step |-> "dispatch", ticket |-> t, next |-> 1]]
          /\ batch' = [batch EXCEPT ![p] = @ \ {t}]
    /\ UNCHANGED <<event, persisted, deaths>>

\* Slip: a row that is already there ends the dispatch.
RowAfterStopping(e, n) == IF n <= persisted[e] THEN Rows[e] + 1 ELSE n + 1

\* persistNotification and the loop around it: a duplicate is passed over.
RowAfter(e, n) == n + 1

\* An event with no usable payload left is taken to be dispatched already.
Unusable(t) == t.event \in Secrets /\ ~t.payload

Persist(p) ==
    LET t == current[p].ticket
        n == current[p].next
        after == RowAfter(t.event, n)
    IN  /\ current[p].step = "dispatch" /\ ~Unusable(t)
        /\ persisted' = [persisted EXCEPT ![t.event] = IF n <= @ THEN @ ELSE n]
        /\ current' = [current EXCEPT ![p] = [@ EXCEPT !.next = after,
                          !.step = IF after > Rows[t.event] THEN "processed" ELSE "dispatch"]]
        /\ UNCHANGED <<event, batch, deaths>>

Discard(p) ==
    /\ current[p].step = "dispatch" /\ Unusable(current[p].ticket)
    /\ current' = [current EXCEPT ![p].step = "processed"]
    /\ UNCHANGED <<event, persisted, batch, deaths>>

\* A read, a row, the queue or markProcessed itself failed.
Throw(p) ==
    /\ current[p].step \in {"dispatch", "processed"}
    /\ current' = [current EXCEPT ![p].step = "failed"]
    /\ UNCHANGED <<event, persisted, batch, deaths>>

(***************************************************************************)
(* Settling.  Neither update looks at who holds the claim.                 *)
(***************************************************************************)
Processed(row) ==
    [row EXCEPT !.status = "PROCESSED", !.stale = FALSE, !.payload = FALSE]

Retried(row) ==
    [row EXCEPT !.status = "PENDING", !.available = FALSE, !.stale = FALSE]

Parked(row) == [row EXCEPT !.status = "FAILED", !.stale = FALSE]

\* Slip: parked one attempt early.
ExhaustedEarly(t) == t.attempts + 1 >= MaxAttempts
Exhausted(t) == t.attempts >= MaxAttempts

MarkProcessed(p) ==
    LET e == current[p].ticket.event
    IN  /\ current[p].step = "processed"
        /\ event' = [event EXCEPT ![e] = Processed(@)]
        /\ current' = [current EXCEPT ![p] = Idle]
        /\ UNCHANGED <<persisted, batch, deaths>>

SettleFailure(p) ==
    LET t == current[p].ticket
    IN  /\ current[p].step = "failed"
        /\ event' = [event EXCEPT ![t.event] = IF Exhausted(t) THEN Parked(@) ELSE Retried(@)]
        /\ current' = [current EXCEPT ![p] = Idle]
        /\ UNCHANGED <<persisted, batch, deaths>>

\* The process dies, or settling fails and ends the batch.
Die(p) ==
    /\ deaths < MaxDeaths
    /\ current[p] # Idle \/ batch[p] # {}
    /\ deaths' = deaths + 1
    /\ batch' = [batch EXCEPT ![p] = {}]
    /\ current' = [current EXCEPT ![p] = Idle]
    /\ UNCHANGED <<event, persisted>>

(***************************************************************************)
(* The specification.                                                      *)
(***************************************************************************)
Init ==
    /\ event = [e \in Events |-> NoEvent]
    /\ persisted = [e \in Events |-> 0]
    /\ batch = [p \in Pollers |-> {}]
    /\ current = [p \in Pollers |-> Idle]
    /\ deaths = 0

Progress(p) ==
    Take(p) \/ Persist(p) \/ Discard(p) \/ MarkProcessed(p) \/ SettleFailure(p)

Next ==
    \/ \E e \in Events : Write(e) \/ Wake(e) \/ Expire(e)
    \/ \E p \in Pollers : Claim(p) \/ Progress(p) \/ Throw(p) \/ Die(p)

Spec == Init /\ [][Next]_vars

\* A claim older than STALE_CLAIM_SECONDS has lost its holder: no batch is slower.
Holds(p, e) ==
    \/ \E t \in batch[p] : t.event = e
    \/ current[p] # Idle /\ current[p].ticket.event = e

Patient ==
    \A e \in Events :
        event[e].status = "PROCESSING" /\ ~event[e].stale /\ event'[e].stale
            => \A p \in Pollers : ~Holds(p, e)

PatientNext == Next /\ Patient
PatientSpec == Init /\ [][PatientNext]_vars

\* The timer fires again and again and takes the oldest first; a process that
\* lives goes on; delays end.  Writing, failing and dying are nobody's duty.
ClaimOf(e) == \E p \in Pollers, es \in SUBSET Events : e \in es /\ ClaimBatch(p, es)

Fairness ==
    /\ \A e \in Events : WF_vars(Wake(e)) /\ WF_vars(Expire(e)) /\ SF_vars(ClaimOf(e))
    /\ \A p \in Pollers : WF_vars(Progress(p))

FairSpec == PatientSpec /\ Fairness

(***************************************************************************)
(* Properties.                                                             *)
(***************************************************************************)
\* However an event was claimed, retried, taken over and settled, it is marked
\* processed only when every message it owes is on record: failing half-way,
\* meeting its own duplicates and having its payload cleared by another poller
\* lose none (dispatchOne, persistNotification, markProcessed).
ProcessedOwesNothing ==
    \A e \in Events : event[e].status = "PROCESSED" => persisted[e] >= Rows[e]

\* An event is given up only after all its attempts (settleFailure).
ParkedAfterAllAttempts ==
    \A e \in Events : event[e].status = "FAILED" => event[e].attempts >= MaxAttempts

\* Every event is in the end, and for good, processed or parked, whatever fails
\* and however often a dead poller's claim is taken over, once they stop dying.
Settled(e) == event[e].status \in {"PROCESSED", "FAILED"}
EveryEventSettles == \A e \in Events : event[e] # NoEvent ~> []Settled(e)

\* No two pollers have the same event, in one batch or in two (SKIP LOCKED, and
\* the claim that marks what it selects in the same statement).
OneHolder ==
    \A e \in Events, p, q \in Pollers :
        /\ Holds(p, e) /\ Holds(q, e) => p = q
        /\ Holds(p, e) => event[e].status = "PROCESSING"
        /\ \A t, u \in batch[p] : t.event = u.event => t = u

\* What is processed or parked is never claimed, retried or settled again.
SettledIsFinal == [][\A e \in Events : Settled(e) => event'[e] = event[e]]_vars
=============================================================================
