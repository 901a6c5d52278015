---------------------------- MODULE Notifications ----------------------------
(***************************************************************************)
(* Notification rows, the jobs that prompt for them, the senders and the   *)
(* sweep (apps/worker/src/notifications).  The row is the commitment; a    *)
(* job, whose id is the row's, only says "look at this row".  BullMQ and   *)
(* the e-mail provider are modelled from how the senders use them.         *)
(*                                                                         *)
(* Time only orders what is scheduled; Expire, RemoveJob and ForgetKey are *)
(* the other moments that matter.                                          *)
(***************************************************************************)
EXTENDS Integers, FiniteSets

CONSTANTS
    Notifications,  \* notifications rows
    Senders,        \* jobs being worked on at once, in all workers
    Sweeps,         \* passes of the sweep at once: replicas, ticks that overlap
    BatchSize,      \* OUTBOX_BATCH_SIZE, which the sweep uses too
    MaxAttempts,    \* OUTBOX_MAX_ATTEMPTS, which senders and sweep use too
    JobAttempts,    \* DEFAULT_JOB_OPTIONS.attempts
    Horizon,        \* bound: the last instant
    MaxFaults,      \* bound: how often a worker dies or the database fails it
    MaxWipes        \* bound: how often Redis loses its jobs

ASSUME NotificationsAssumption ==
    /\ MaxAttempts \in Nat \ {0} /\ JobAttempts \in Nat \ {0}
    /\ BatchSize \in Nat \ {0} /\ Horizon \in Nat
    /\ MaxFaults \in Nat /\ MaxWipes \in Nat

VARIABLES
    now,        \* the end of MAX_QUEUE_LEAD_MS: what is scheduled by then is due
    row,        \* notifications
    job,        \* BullMQ's job with the row's id
    sender,     \* what each sender is at
    sweep,      \* the passes under way: their step and the rows they found
    accepted,   \* how often the provider delivered the message
    key,        \* does the provider remember the idempotency key?
    faults, wipes

vars == <<now, row, job, sender, sweep, accepted, key, faults, wipes>>

Statuses == {"PENDING", "SENDING", "SENT", "SKIPPED", "FAILED"}
Settled(status) == status \in {"SENT", "SKIPPED", "FAILED"}

NoRow == [status |-> "none"]
NotificationRow == [status: Statuses, attempts: Nat, at: Nat, stale: BOOLEAN]

\* made is the attempts a job has behind it; lost, whether a worker vanished with it;
\* by, who works on it.
Nobody == "nobody"
NoJob == [state |-> "none"]
Job == [state: {"waiting", "active", "completed", "failed"},
        made: 0..JobAttempts, lost: BOOLEAN, by: Senders \cup {Nobody}]
NewJob == [state |-> "waiting", made |-> 0, lost |-> FALSE, by |-> Nobody]
Live(j) == j.state \in {"waiting", "active"}

Idle == [step |-> "idle"]
Work == [step: {"claim", "build", "send", "accepted", "transient", "permanent", "done", "threw"},
         id: Notifications, attempts: Nat]

\* A pass that has not begun is about to park.
Pass == [step: {"park", "recover", "find", "add"}, found: SUBSET Notifications]
NewPass == [step |-> "park", found |-> {}]

\* The clock, rows, jobs, and the work of senders and sweep.
TypeOK ==
    /\ now \in 0..Horizon
    /\ row \in [Notifications -> NotificationRow \cup {NoRow}]
    /\ job \in [Notifications -> Job \cup {NoJob}]
    /\ sender \in [Senders -> Work \cup {Idle}]
    /\ sweep \in [Sweeps -> Pass]
    /\ accepted \in [Notifications -> 0..2]
    /\ key \in [Notifications -> BOOLEAN]
    /\ faults \in Nat /\ wipes \in Nat

(***************************************************************************)
(* The queue: add returns the job it has, whatever has become of it.       *)
(***************************************************************************)
Added(n) == IF job[n] = NoJob THEN NewJob ELSE job[n]

\* A job whose worker is gone runs again; the second time it fails.
Stalled(n) ==
    /\ job[n].state = "active"
    /\ ~ \E s \in Senders : sender[s] # Idle /\ sender[s].id = n /\ job[n].by = s
    /\ job' = [job EXCEPT ![n] = [@ EXCEPT !.state = IF job[n].lost THEN "failed" ELSE "waiting",
                                          !.lost = TRUE, !.by = Nobody]]
    /\ UNCHANGED <<now, row, sender, sweep, accepted, key, faults, wipes>>

\* removeOnComplete and removeOnFail, by age or by count.
RemoveJob(n) ==
    /\ job[n].state \in {"completed", "failed"}
    /\ job' = [job EXCEPT ![n] = NoJob]
    /\ UNCHANGED <<now, row, sender, sweep, accepted, key, faults, wipes>>

WipeQueue ==
    /\ wipes < MaxWipes
    /\ job # [n \in Notifications |-> NoJob]
    /\ job' = [n \in Notifications |-> NoJob]
    /\ wipes' = wipes + 1
    /\ UNCHANGED <<now, row, sender, sweep, accepted, key, faults>>

(***************************************************************************)
(* Rows.                                                                   *)
(***************************************************************************)
Due(r) == r.status = "PENDING" /\ r.at <= now

\* persistNotification and enqueueIfDue: one that is due is queued, unless the
\* dispatcher dies in between.
Write(n, at, queued) ==
    /\ row[n] = NoRow
    /\ queued => at <= now
    /\ row' = [row EXCEPT ![n] =
                  [status |-> "PENDING", attempts |-> 0, at |-> at, stale |-> FALSE]]
    /\ job' = IF queued THEN [job EXCEPT ![n] = Added(n)] ELSE job
    /\ UNCHANGED <<now, sender, sweep, accepted, key, faults, wipes>>

Tick ==
    /\ now < Horizon
    /\ now' = now + 1
    /\ UNCHANGED <<row, job, sender, sweep, accepted, key, faults, wipes>>

Expire(n) ==
    /\ row[n].status = "SENDING" /\ ~row[n].stale
    /\ row' = [row EXCEPT ![n].stale = TRUE]
    /\ UNCHANGED <<now, job, sender, sweep, accepted, key, faults, wipes>>

(***************************************************************************)
(* A sender.                                                               *)
(***************************************************************************)
Working(s, step) == sender[s].step = step
Goes(s, step) == sender' = [sender EXCEPT ![s].step = step]

StartJob(s, n) ==
    /\ sender[s] = Idle /\ job[n].state = "waiting"
    /\ sender' = [sender EXCEPT ![s] = [step |-> "claim", id |-> n, attempts |-> 0]]
    /\ job' = [job EXCEPT ![n] = [@ EXCEPT !.state = "active", !.by = s]]
    /\ UNCHANGED <<now, row, sweep, accepted, key, faults, wipes>>

\* Slip: a claim that another sender has is claimed again.
ClaimableAlways(r) == r.status \in {"PENDING", "SENDING"}
Claimable(r) == r.status = "PENDING"

\* claim and the read that follows it.
ClaimRow(s) ==
    LET n == sender[s].id
        count == row[n].attempts + 1
    IN  /\ Working(s, "claim") /\ Claimable(row[n])
        /\ row' = [row EXCEPT ![n] = [@ EXCEPT !.status = "SENDING", !.stale = FALSE,
                                              !.attempts = count]]
        /\ sender' = [sender EXCEPT ![s] = [@ EXCEPT !.step = "build", !.attempts = count]]
        /\ UNCHANGED <<now, job, sweep, accepted, key, faults, wipes>>

NotClaimed(s) ==
    /\ Working(s, "claim") /\ ~Claimable(row[sender[s].id])
    /\ Goes(s, "done")
    /\ UNCHANGED <<now, row, job, sweep, accepted, key, faults, wipes>>

\* Every update that ends an attempt names the row by its id alone.
Ended(r, status) == [r EXCEPT !.status = status, !.stale = FALSE]

\* Not renderable, no longer owed, or no provider that delivers.
Skip(s) ==
    LET n == sender[s].id
    IN  /\ Working(s, "build")
        /\ row' = [row EXCEPT ![n] = Ended(@, "SKIPPED")]
        /\ Goes(s, "done")
        /\ UNCHANGED <<now, job, sweep, accepted, key, faults, wipes>>

Build(s) ==
    /\ Working(s, "build")
    /\ Goes(s, "send")
    /\ UNCHANGED <<now, row, job, sweep, accepted, key, faults, wipes>>

\* provider.send: a message whose key is known is not delivered again.  A transient
\* failure may hide a delivery.
Deliver(s, answer, delivers) ==
    LET n == sender[s].id
    IN  /\ Working(s, "send")
        /\ answer = "accepted" => delivers
        /\ answer = "permanent" => ~delivers
        /\ accepted' = IF delivers /\ ~key[n] /\ accepted[n] < 2
                          THEN [accepted EXCEPT ![n] = @ + 1] ELSE accepted
        /\ key' = [key EXCEPT ![n] = @ \/ delivers]
        /\ Goes(s, answer)
        /\ UNCHANGED <<now, row, job, sweep, faults, wipes>>

\* The provider keeps keys for 24 hours; no request takes that long.
ForgetKey(n) ==
    /\ key[n]
    /\ \A s \in Senders : sender[s] # Idle => sender[s].id # n
    /\ key' = [key EXCEPT ![n] = FALSE]
    /\ UNCHANGED <<now, row, job, sender, sweep, accepted, faults, wipes>>

\* decideRetry.
Retry(answer, attempts) == answer = "transient" /\ attempts < MaxAttempts

Answered(s) == sender[s].step \in {"accepted", "transient", "permanent"}

\* Slip: only a refusal is taken to be a failure.
SucceededUnlessRefused(answer) == answer # "permanent"
Succeeded(answer) == answer = "accepted"

RecordSent(s) ==
    LET n == sender[s].id
    IN  /\ Answered(s) /\ Succeeded(sender[s].step)
        /\ row' = [row EXCEPT ![n] = Ended(@, "SENT")]
        /\ Goes(s, "done")
        /\ UNCHANGED <<now, job, sweep, accepted, key, faults, wipes>>

RecordFailure(s) ==
    LET n == sender[s].id
        retry == Retry(sender[s].step, sender[s].attempts)
    IN  /\ Answered(s) /\ ~Succeeded(sender[s].step)
        /\ row' = [row EXCEPT ![n] = Ended(@, IF retry THEN "PENDING" ELSE "FAILED")]
        /\ Goes(s, IF retry THEN "threw" ELSE "done")
        /\ UNCHANGED <<now, job, sweep, accepted, key, faults, wipes>>

\* The database fails a statement, before the send or after it.
DatabaseFails(s) ==
    /\ sender[s].step \in {"claim", "build"} \/ Answered(s)
    /\ faults < MaxFaults
    /\ Goes(s, "threw")
    /\ faults' = faults + 1
    /\ UNCHANGED <<now, row, job, sweep, accepted, key, wipes>>

\* BullMQ's end of an attempt.
AfterAttempt(j, outcome) ==
    IF outcome = "done" THEN [j EXCEPT !.state = "completed", !.by = Nobody]
    ELSE [j EXCEPT !.made = @ + 1, !.by = Nobody,
                   !.state = IF j.made + 1 < JobAttempts THEN "waiting" ELSE "failed"]

\* A job that is no longer this worker's is left alone.
FinishJob(s) ==
    LET n == sender[s].id
    IN  /\ sender[s].step \in {"done", "threw"}
        /\ job' = IF job[n].state = "active" /\ job[n].by = s
                     THEN [job EXCEPT ![n] = AfterAttempt(@, sender[s].step)] ELSE job
        /\ sender' = [sender EXCEPT ![s] = Idle]
        /\ UNCHANGED <<now, row, sweep, accepted, key, faults, wipes>>

Die(s) ==
    /\ sender[s] # Idle /\ faults < MaxFaults
    /\ sender' = [sender EXCEPT ![s] = Idle]
    /\ faults' = faults + 1
    /\ UNCHANGED <<now, row, job, sweep, accepted, key, wipes>>

(***************************************************************************)
(* sweepDueNotifications, statement by statement.                          *)
(***************************************************************************)
Abandoned(r) == r.status = "SENDING" /\ r.stale
Exhausted(r) == r.attempts >= MaxAttempts

Parked(r) == IF Abandoned(r) /\ Exhausted(r) THEN Ended(r, "FAILED") ELSE r

Recovered(r) ==
    IF Abandoned(r) /\ ~Exhausted(r) THEN [Ended(r, "PENDING") EXCEPT !.at = now] ELSE r

SweepPark(w) ==
    /\ sweep[w].step = "park"
    /\ row' = [n \in Notifications |-> Parked(row[n])]
    /\ sweep' = [sweep EXCEPT ![w].step = "recover"]
    /\ UNCHANGED <<now, job, sender, accepted, key, faults, wipes>>

SweepRecover(w) ==
    /\ sweep[w].step = "recover"
    /\ row' = [n \in Notifications |-> Recovered(row[n])]
    /\ sweep' = [sweep EXCEPT ![w].step = "find"]
    /\ UNCHANGED <<now, job, sender, accepted, key, faults, wipes>>

DueRows == {n \in Notifications : Due(row[n])}

\* Slip: as many rows as a pass takes, in whatever order the index returns them.
AnyBatch(found) ==
    /\ found \subseteq DueRows /\ Cardinality(found) <= BatchSize
    /\ found # DueRows => Cardinality(found) = BatchSize

\* The oldest rows that are due, as many as a pass takes.
OldestBatch(found) ==
    /\ found \subseteq DueRows /\ Cardinality(found) <= BatchSize
    /\ found # DueRows => Cardinality(found) = BatchSize
    /\ \A n \in found, m \in DueRows \ found : row[n].at <= row[m].at

SweepFind(w) ==
    /\ sweep[w].step = "find"
    /\ \E found \in SUBSET Notifications :
          /\ OldestBatch(found)
          /\ sweep' = [sweep EXCEPT ![w] = [step |-> "add", found |-> found]]
    /\ UNCHANGED <<now, row, job, sender, accepted, key, faults, wipes>>

SweepAdd(w, n) ==
    /\ sweep[w].step = "add" /\ n \in sweep[w].found
    /\ job' = [job EXCEPT ![n] = Added(n)]
    /\ sweep' = [sweep EXCEPT ![w].found = @ \ {n}]
    /\ UNCHANGED <<now, row, sender, accepted, key, faults, wipes>>

SweepEnd(w) ==
    /\ sweep[w].step = "add" /\ sweep[w].found = {}
    /\ sweep' = [sweep EXCEPT ![w] = NewPass]
    /\ UNCHANGED <<now, row, job, sender, accepted, key, faults, wipes>>

\* A statement or the queue fails, or the worker dies: the next tick starts again.
SweepFails(w) ==
    /\ sweep[w].step # "park" /\ faults < MaxFaults
    /\ sweep' = [sweep EXCEPT ![w] = NewPass]
    /\ faults' = faults + 1
    /\ UNCHANGED <<now, row, job, sender, accepted, key, wipes>>

(***************************************************************************)
(* The specification.                                                      *)
(***************************************************************************)
Init ==
    /\ now = 0
    /\ row = [n \in Notifications |-> NoRow]
    /\ job = [n \in Notifications |-> NoJob]
    /\ sender = [s \in Senders |-> Idle]
    /\ sweep = [w \in Sweeps |-> NewPass]
    /\ accepted = [n \in Notifications |-> 0]
    /\ key = [n \in Notifications |-> FALSE]
    /\ faults = 0 /\ wipes = 0

Answers == {"accepted", "transient", "permanent"}

Progress(s) ==
    \/ ClaimRow(s) \/ NotClaimed(s) \/ Skip(s) \/ Build(s)
    \/ \E answer \in Answers, delivers \in BOOLEAN : Deliver(s, answer, delivers)
    \/ RecordSent(s) \/ RecordFailure(s) \/ FinishJob(s)

Sweep(w) ==
    \/ SweepPark(w) \/ SweepRecover(w) \/ SweepFind(w) \/ SweepEnd(w)
    \/ \E n \in Notifications : SweepAdd(w, n)

Next ==
    \/ Tick
    \/ \E n \in Notifications, at \in 0..Horizon, queued \in BOOLEAN : Write(n, at, queued)
    \/ \E n \in Notifications : Expire(n) \/ Stalled(n) \/ RemoveJob(n) \/ ForgetKey(n)
    \/ \E s \in Senders, n \in Notifications : StartJob(s, n)
    \/ \E s \in Senders : Progress(s) \/ DatabaseFails(s) \/ Die(s)
    \/ \E w \in Sweeps : Sweep(w) \/ SweepFails(w)
    \/ WipeQueue

Spec == Init /\ [][Next]_vars

\* A sender that claimed the row and has not recorded how it ended.
Attempting(s, n) ==
    /\ sender[s].step \in {"build", "send"} \/ Answered(s)
    /\ sender[s].id = n

\* "Comfortably longer than a healthy provider request": a stale claim has lost its
\* sender.
Patient ==
    \A n \in Notifications :
        row[n].status = "SENDING" /\ ~row[n].stale /\ row'[n].stale
            => \A s \in Senders : ~Attempting(s, n)

PatientNext == Next /\ Patient
PatientSpec == Init /\ [][PatientNext]_vars

\* Workers take jobs and go on, the sweep's timer fires for ever, time passes, claims
\* age, and BullMQ detects stalled jobs.  Finished jobs need never go: BullMQ looks at
\* their age only when another one finishes.
Fairness ==
    /\ WF_vars(Tick)
    /\ \A n \in Notifications :
          /\ WF_vars(Expire(n)) /\ WF_vars(Stalled(n))
          /\ SF_vars(\E s \in Senders : StartJob(s, n))
    /\ \A s \in Senders : WF_vars(Progress(s))
    /\ \A w \in Sweeps : WF_vars(Sweep(w))

FairSpec == PatientSpec /\ Fairness

(***************************************************************************)
(* Properties.                                                             *)
(***************************************************************************)
\* A row says SENT only if the provider delivered the message, whatever was retried,
\* taken over or forgotten (sendNotification).
SentWasDelivered ==
    \A n \in Notifications : row[n].status = "SENT" => accepted[n] > 0

\* No message is tried more often than the limit: crashes, expired claims, retries by
\* BullMQ and by the sweep all count ("cannot loop forever", claim).
AttemptsStayWithinLimit ==
    \A n \in Notifications : row[n] # NoRow => row[n].attempts <= MaxAttempts

\* At most one sender is between claiming a row and recording how that ended, and the
\* row says so.
OneSender ==
    \A n \in Notifications, s, t \in Senders :
        /\ Attempting(s, n) /\ Attempting(t, n) => s = t
        /\ Attempting(s, n) => row[n].status = "SENDING"

\* "FAILED is terminal" (sendNotification), and so are SENT and SKIPPED.
SettledIsFinal ==
    [][\A n \in Notifications : Settled(row[n].status) => row'[n] = row[n]]_vars

\* A PENDING row whose id a finished job has: add gives that job back.
Blocked(n) ==
    /\ row[n].status = "PENDING"
    /\ job[n].state \in {"completed", "failed"}

\* So are rows that are as old and fill every pass.
Crowded(n) ==
    /\ row[n].status = "PENDING"
    /\ Cardinality({m \in Notifications \ {n} : Blocked(m) /\ row[m].at <= row[n].at})
           >= BatchSize

\* Nothing is forgotten (sweepDueNotifications): though senders die and Redis loses its
\* jobs, every row ends sent, skipped or parked, and the one thing that can keep a row
\* from it is a finished job that never goes, its own or those of a batch of rows
\* before it.
EveryMessageSettles ==
    \A n \in Notifications :
        row[n] # NoRow ~> Settled(row[n].status) \/ [](Blocked(n) \/ Crowded(n))
=============================================================================
