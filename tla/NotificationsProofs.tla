------------------------- MODULE NotificationsProofs -------------------------
(***************************************************************************)
(* A row that says SENT was delivered, whatever failed and whoever took    *)
(* over; and when only dead senders lose their claims, a message has one   *)
(* sender, settles once and is tried no more often than the limit.         *)
(***************************************************************************)
EXTENDS Notifications, TLAPS

(***************************************************************************)
(* Whatever happens to claims.                                             *)
(***************************************************************************)
\* A job that waits or runs has a run left.
LiveJobsHaveRuns == \A n \in Notifications : Live(job[n]) => job[n].made < JobAttempts

\* What a sender attempts is a row, and what it knows to be accepted was delivered.
AttemptsAreOfRows ==
    \A s \in Senders, n \in Notifications : Attempting(s, n) => row[n] \in NotificationRow

AcceptedWasDelivered ==
    \A s \in Senders : sender[s].step = "accepted" => accepted[sender[s].id] > 0

KeysWereUsed == \A n \in Notifications : key[n] => accepted[n] > 0

Inv ==
    /\ TypeOK
    /\ LiveJobsHaveRuns
    /\ AttemptsAreOfRows
    /\ AcceptedWasDelivered
    /\ KeysWereUsed
    /\ SentWasDelivered

\* Ending an attempt gives a row of that status.
LEMMA EndedType ==
    ASSUME NEW r \in NotificationRow, NEW status \in Statuses
    PROVE  /\ Ended(r, status) \in NotificationRow
           /\ Ended(r, status).status = status
           /\ Ended(r, status).attempts = r.attempts
BY DEF Ended, NotificationRow

\* A sender that is not idle is at work, and going to a step changes nothing else.
LEMMA GoesType ==
    ASSUME TypeOK, NEW s \in Senders, sender[s] # Idle,
           NEW step \in {"claim", "build", "send", "accepted", "transient", "permanent",
                         "done", "threw"},
           Goes(s, step)
    PROVE  /\ sender' \in [Senders -> Work \cup {Idle}]
           /\ sender'[s] \in Work /\ sender'[s].step = step
           /\ sender'[s].id = sender[s].id /\ sender'[s].attempts = sender[s].attempts
           /\ sender[s].id \in Notifications /\ sender[s].attempts \in Nat
           /\ \A t \in Senders \ {s} : sender'[t] = sender[t]
<1>1. sender[s] \in Work
  BY DEF TypeOK
<1>2. [sender[s] EXCEPT !.step = step] \in Work
  BY <1>1 DEF Work
<1>3. sender'[s] = [sender[s] EXCEPT !.step = step]
  BY DEF Goes, TypeOK
<1>4. sender' \in [Senders -> Work \cup {Idle}]
  BY <1>2 DEF Goes, TypeOK
<1>5. \A t \in Senders \ {s} : sender'[t] = sender[t]
  BY DEF Goes, TypeOK
<1>6. QED
  BY <1>1, <1>2, <1>3, <1>4, <1>5 DEF Work

\* What every step has to show.
LEMMA Preserves ==
    ASSUME Inv, TypeOK',
           \A n \in Notifications : Live(job'[n]) => job'[n].made < JobAttempts,
           \A n \in Notifications : row[n] \in NotificationRow => row'[n] \in NotificationRow,
           \A n \in Notifications : accepted'[n] >= accepted[n],
           \A n \in Notifications : key'[n] => key[n] \/ accepted'[n] > 0,
           \A n \in Notifications : row'[n].status = "SENT" =>
               row[n].status = "SENT" \/ accepted'[n] > 0,
           \A s \in Senders :
               \/ sender'[s] = sender[s]
               \/ sender'[s].step \in {"idle", "claim", "done", "threw"}
               \/ /\ row'[sender'[s].id] \in NotificationRow
                  /\ sender'[s].step = "accepted" => accepted'[sender'[s].id] > 0
    PROVE  Inv'
<1>1. \A n \in Notifications : accepted[n] > 0 => accepted'[n] > 0
  BY DEF Inv, TypeOK
<1>2. LiveJobsHaveRuns' /\ KeysWereUsed' /\ SentWasDelivered'
  BY <1>1 DEF Inv, LiveJobsHaveRuns, KeysWereUsed, SentWasDelivered
<1>3. AttemptsAreOfRows'
  <2> SUFFICES ASSUME NEW s \in Senders, NEW n \in Notifications, Attempting(s, n)'
               PROVE  row'[n] \in NotificationRow
    BY DEF AttemptsAreOfRows
  <2>1. sender'[s].id = n /\ sender'[s].step \notin {"idle", "claim", "done", "threw"}
    BY DEF Attempting, Answered
  <2>2. CASE sender'[s] = sender[s]
    BY <2>2 DEF Inv, AttemptsAreOfRows, Attempting, Answered
  <2>3. QED
    BY <2>1, <2>2
<1>4. AcceptedWasDelivered'
  <2> SUFFICES ASSUME NEW s \in Senders, sender'[s].step = "accepted"
               PROVE  accepted'[sender'[s].id] > 0
    BY DEF AcceptedWasDelivered
  <2>1. CASE sender'[s] = sender[s]
    <3>1. sender[s].id \in Notifications
      BY <2>1 DEF Inv, TypeOK, Work, Idle
    <3>2. QED
      BY <1>1, <2>1, <3>1 DEF Inv, AcceptedWasDelivered
  <2>2. QED
    BY <2>1
<1>5. QED
  BY <1>2, <1>3, <1>4 DEF Inv

(***************************************************************************)
(* Each step preserves it.                                                 *)
(***************************************************************************)
LEMMA InitInv == Init => Inv
BY NotificationsAssumption
DEF Init, Inv, TypeOK, LiveJobsHaveRuns, AttemptsAreOfRows, AcceptedWasDelivered,
    KeysWereUsed, SentWasDelivered, Live, Attempting, Answered, Idle, NoJob, NoRow, Pass, NewPass

\* Steps of the queue and of the sweep, which leave rows and senders alone.
LEMMA QueueStep ==
    ASSUME Inv, UNCHANGED <<now, row, sender, accepted>>,
           \A n \in Notifications : key'[n] => key[n],
           key' \in [Notifications -> BOOLEAN],
           sweep' \in [Sweeps -> Pass],
           faults' \in Nat, wipes' \in Nat,
           job' \in [Notifications -> Job \cup {NoJob}],
           \A n \in Notifications : job'[n] = job[n] \/ (Live(job'[n]) => job'[n].made < JobAttempts)
    PROVE  Inv'
<1>1. TypeOK'
  BY DEF Inv, TypeOK
<1>2. \A n \in Notifications : Live(job'[n]) => job'[n].made < JobAttempts
  BY DEF Inv, LiveJobsHaveRuns
<1>3. \A n \in Notifications : accepted'[n] >= accepted[n]
  BY DEF Inv, TypeOK
<1>4. QED
  BY <1>1, <1>2, <1>3, Preserves

LEMMA AddedType ==
    ASSUME Inv, NEW n \in Notifications
    PROVE  /\ Added(n) \in Job \cup {NoJob}
           /\ Live(Added(n)) => Added(n).made < JobAttempts
BY NotificationsAssumption
DEF Inv, TypeOK, LiveJobsHaveRuns, Added, NewJob, Job, Live, Nobody

LEMMA QueueInv ==
    ASSUME Inv,
           NEW n \in Notifications,
           \/ Stalled(n) \/ RemoveJob(n) \/ ForgetKey(n) \/ WipeQueue
           \/ \E w \in Sweeps : SweepAdd(w, n)
    PROVE  Inv'
<1>1. CASE Stalled(n)
  <2> DEFINE j == [job[n] EXCEPT !.state = IF job[n].lost THEN "failed" ELSE "waiting",
                                 !.lost = TRUE, !.by = Nobody]
  <2>1. job[n] \in Job /\ job[n].made < JobAttempts
    BY <1>1 DEF Stalled, Inv, TypeOK, LiveJobsHaveRuns, Live, NoJob
  <2>2. j \in Job /\ j.made = job[n].made
    BY <2>1 DEF Job
  <2>3. job' = [job EXCEPT ![n] = j]
    BY <1>1 DEF Stalled
  <2> HIDE DEF j
  <2>4. QED
    BY <1>1, <2>1, <2>2, <2>3, QueueStep DEF Stalled, Inv, TypeOK
<1>2. CASE RemoveJob(n)
  BY <1>2, QueueStep DEF RemoveJob, Inv, TypeOK, Live, NoJob
<1>3. CASE ForgetKey(n)
  BY <1>3, QueueStep DEF ForgetKey, Inv, TypeOK
<1>4. CASE \E w \in Sweeps : SweepAdd(w, n)
  <2>1. PICK w \in Sweeps : SweepAdd(w, n)
    BY <1>4
  <2> DEFINE pass == [sweep[w] EXCEPT !.found = @ \ {n}]
  <2>2. pass \in Pass
    BY DEF Inv, TypeOK, Pass
  <2>3. sweep' = [sweep EXCEPT ![w] = pass]
    BY <2>1 DEF SweepAdd
  <2> HIDE DEF pass
  <2>4. QED
    BY <2>1, <2>2, <2>3, AddedType, QueueStep DEF SweepAdd, Inv, TypeOK
<1>5. CASE WipeQueue
  BY <1>5, QueueStep DEF WipeQueue, Inv, TypeOK, Live, NoJob
<1>6. QED
  BY <1>1, <1>2, <1>3, <1>4, <1>5

LEMMA SweepInv ==
    ASSUME Inv, NEW w \in Sweeps, SweepFind(w) \/ SweepEnd(w) \/ SweepFails(w)
    PROVE  Inv'
<1>1. sweep' \in [Sweeps -> Pass]
  BY DEF SweepFind, SweepEnd, SweepFails, Inv, TypeOK, Pass, NewPass
<1>2. CASE SweepFind(w)
  BY <1>1, <1>2, QueueStep DEF SweepFind, Inv, TypeOK
<1>3. CASE SweepEnd(w)
  BY <1>1, <1>3, QueueStep DEF SweepEnd, Inv, TypeOK
<1>4. CASE SweepFails(w)
  BY <1>1, <1>4, QueueStep DEF SweepFails, Inv, TypeOK
<1>5. QED
  BY <1>2, <1>3, <1>4

\* Steps that change rows and nothing else of what the invariant speaks of.
LEMMA RowsStep ==
    ASSUME Inv, UNCHANGED <<now, sender, accepted, key, faults, wipes>>,
           row' \in [Notifications -> NotificationRow \cup {NoRow}],
           \A n \in Notifications : row[n] \in NotificationRow => row'[n] \in NotificationRow,
           \A n \in Notifications : row'[n].status = "SENT" => row[n].status = "SENT",
           sweep' \in [Sweeps -> Pass],
           job' \in [Notifications -> Job \cup {NoJob}],
           \A n \in Notifications : job'[n] = job[n] \/ (Live(job'[n]) => job'[n].made < JobAttempts)
    PROVE  Inv'
<1>1. TypeOK'
  BY DEF Inv, TypeOK
<1>2. \A n \in Notifications : Live(job'[n]) => job'[n].made < JobAttempts
  BY DEF Inv, LiveJobsHaveRuns
<1>3. \A n \in Notifications : accepted'[n] >= accepted[n]
  BY DEF Inv, TypeOK
<1>4. QED
  BY <1>1, <1>2, <1>3, Preserves

LEMMA WriteInv ==
    ASSUME Inv, NEW n \in Notifications, NEW at \in 0..Horizon, NEW queued \in BOOLEAN,
           Write(n, at, queued)
    PROVE  Inv'
<1> DEFINE r == [status |-> "PENDING", attempts |-> 0, at |-> at, stale |-> FALSE]
<1>1. r \in NotificationRow /\ r.status = "PENDING"
  BY NotificationsAssumption DEF NotificationRow, Statuses
<1>2. /\ TypeOK /\ row' = [row EXCEPT ![n] = r]
      /\ job' = (IF queued THEN [job EXCEPT ![n] = Added(n)] ELSE job)
      /\ UNCHANGED <<now, sender, sweep, accepted, key, faults, wipes>>
  BY DEF Write, Inv
<1> HIDE DEF r
<1>3. /\ row' \in [Notifications -> NotificationRow \cup {NoRow}]
      /\ \A m \in Notifications : row[m] \in NotificationRow => row'[m] \in NotificationRow
      /\ \A m \in Notifications : row'[m].status = "SENT" => row[m].status = "SENT"
  BY <1>1, <1>2 DEF TypeOK
<1>4. /\ job' \in [Notifications -> Job \cup {NoJob}]
      /\ \A m \in Notifications :
             job'[m] = job[m] \/ (Live(job'[m]) => job'[m].made < JobAttempts)
  BY <1>2, AddedType DEF TypeOK
<1>5. QED
  BY <1>2, <1>3, <1>4, RowsStep DEF TypeOK

LEMMA TimeInv ==
    ASSUME Inv, NEW n \in Notifications, Expire(n)
    PROVE  Inv'
<1>1. row[n] \in NotificationRow /\ TypeOK
  BY DEF Expire, Inv, TypeOK, NoRow
<1> DEFINE r == [row[n] EXCEPT !.stale = TRUE]
<1>2. /\ r \in NotificationRow /\ r.status = row[n].status
      /\ row' = [row EXCEPT ![n] = r]
  BY <1>1 DEF Expire, NotificationRow
<1> HIDE DEF r
<1>3. UNCHANGED <<now, job, sender, sweep, accepted, key, faults, wipes>>
  BY DEF Expire
<1>4. QED
  BY <1>1, <1>2, <1>3, RowsStep DEF TypeOK

LEMMA TickInv == ASSUME Inv, Tick PROVE Inv'
<1>1. /\ TypeOK /\ now' \in 0..Horizon
      /\ UNCHANGED <<row, job, sender, sweep, accepted, key, faults, wipes>>
  BY NotificationsAssumption DEF Tick, Inv, TypeOK
<1>2. TypeOK' /\ \A n \in Notifications : accepted'[n] >= accepted[n]
  BY <1>1 DEF TypeOK
<1>3. QED
  BY <1>1, <1>2, Preserves DEF Inv, LiveJobsHaveRuns

LEMMA SweepRowsInv ==
    ASSUME Inv, NEW w \in Sweeps, SweepPark(w) \/ SweepRecover(w)
    PROVE  Inv'
<1>1. TypeOK /\ UNCHANGED <<now, job, sender, accepted, key, faults, wipes>>
  BY DEF SweepPark, SweepRecover, Inv
<1>2. \A n \in Notifications : \/ row'[n] = row[n]
                               \/ /\ row'[n] \in NotificationRow /\ row'[n].status # "SENT"
                                  /\ row[n] \in NotificationRow
  <2> SUFFICES ASSUME NEW n \in Notifications, row'[n] # row[n]
               PROVE  /\ row'[n] \in NotificationRow /\ row'[n].status # "SENT"
                      /\ row[n] \in NotificationRow
    OBVIOUS
  <2>1. row'[n] = Parked(row[n]) \/ row'[n] = Recovered(row[n])
    BY DEF SweepPark, SweepRecover
  <2>2. Abandoned(row[n]) /\ row[n] \in NotificationRow
    BY <1>1, <2>1 DEF Parked, Recovered, Abandoned, TypeOK, NoRow
  <2>3. \A status \in {"FAILED", "PENDING"} :
            Ended(row[n], status) \in NotificationRow /\ Ended(row[n], status).status = status
    BY <2>2, EndedType DEF Statuses
  <2>4. \/ row'[n] = Ended(row[n], "FAILED")
        \/ row'[n] = [Ended(row[n], "PENDING") EXCEPT !.at = now]
    BY <2>1, <2>2 DEF Parked, Recovered
  <2>5. now \in Nat
    BY <1>1 DEF TypeOK
  <2>6. QED
    BY <2>2, <2>3, <2>4, <2>5 DEF NotificationRow
<1>3. row' \in [Notifications -> NotificationRow \cup {NoRow}]
  BY <1>1, <1>2 DEF SweepPark, SweepRecover, TypeOK
<1>4. sweep' \in [Sweeps -> Pass]
  <2>1. \A step \in {"recover", "find"} : [sweep[w] EXCEPT !.step = step] \in Pass
    BY <1>1 DEF TypeOK, Pass
  <2>2. QED
    BY <1>1, <2>1 DEF SweepPark, SweepRecover, TypeOK
<1>5. QED
  BY <1>1, <1>2, <1>3, <1>4, RowsStep DEF TypeOK

\* Steps of one sender.
LEMMA SenderStep ==
    ASSUME Inv, NEW s \in Senders,
           sender' \in [Senders -> Work \cup {Idle}],
           \A t \in Senders \ {s} : sender'[t] = sender[t],
           \/ sender'[s].step \in {"idle", "claim", "done", "threw"}
           \/ /\ row'[sender'[s].id] \in NotificationRow
              /\ sender'[s].step = "accepted" => accepted'[sender'[s].id] > 0,
           row' \in [Notifications -> NotificationRow \cup {NoRow}],
           \A n \in Notifications : row[n] \in NotificationRow => row'[n] \in NotificationRow,
           \A n \in Notifications : row'[n].status = "SENT" =>
               row[n].status = "SENT" \/ accepted'[n] > 0,
           job' \in [Notifications -> Job \cup {NoJob}],
           \A n \in Notifications :
               job'[n] = job[n] \/ (Live(job'[n]) => job'[n].made < JobAttempts),
           accepted' \in [Notifications -> 0..2],
           \A n \in Notifications : accepted'[n] >= accepted[n],
           key' \in [Notifications -> BOOLEAN],
           \A n \in Notifications : key'[n] => key[n] \/ accepted'[n] > 0,
           UNCHANGED <<now, sweep, wipes>>, faults' \in Nat
    PROVE  Inv'
<1>1. TypeOK'
  BY DEF Inv, TypeOK
<1>2. \A n \in Notifications : Live(job'[n]) => job'[n].made < JobAttempts
  BY DEF Inv, LiveJobsHaveRuns
<1>3. QED
  BY <1>1, <1>2, Preserves

LEMMA StartJobInv ==
    ASSUME Inv, NEW s \in Senders, NEW n \in Notifications, StartJob(s, n)
    PROVE  Inv'
<1> DEFINE w == [step |-> "claim", id |-> n, attempts |-> 0]
           j == [job[n] EXCEPT !.state = "active", !.by = s]
<1>1. /\ TypeOK /\ sender' = [sender EXCEPT ![s] = w] /\ job' = [job EXCEPT ![n] = j]
      /\ UNCHANGED <<now, row, sweep, accepted, key, faults, wipes>>
      /\ job[n].state = "waiting"
  BY DEF StartJob, Inv
<1>2. w \in Work /\ w.step = "claim"
  BY DEF Work
<1>3. job[n] \in Job /\ job[n].made < JobAttempts
  BY <1>1 DEF Inv, TypeOK, LiveJobsHaveRuns, Live, NoJob
<1>4. j \in Job /\ j.made = job[n].made
  BY <1>3 DEF Job
<1> HIDE DEF w, j
<1>5. /\ sender' \in [Senders -> Work \cup {Idle}] /\ sender'[s].step = "claim"
      /\ \A t \in Senders \ {s} : sender'[t] = sender[t]
  BY <1>1, <1>2 DEF TypeOK
<1>6. /\ job' \in [Notifications -> Job \cup {NoJob}]
      /\ \A m \in Notifications :
             job'[m] = job[m] \/ (Live(job'[m]) => job'[m].made < JobAttempts)
  BY <1>1, <1>3, <1>4 DEF TypeOK
<1>7. \A m \in Notifications : accepted'[m] >= accepted[m]
  BY <1>1 DEF TypeOK
<1>8. QED
  BY <1>1, <1>5, <1>6, <1>7, SenderStep DEF TypeOK

LEMMA FinishJobInv ==
    ASSUME Inv, NEW s \in Senders, FinishJob(s)
    PROVE  Inv'
<1> DEFINE n == sender[s].id
           j == AfterAttempt(job[n], sender[s].step)
<1>1. /\ TypeOK /\ sender' = [sender EXCEPT ![s] = Idle]
      /\ UNCHANGED <<now, row, sweep, accepted, key, faults, wipes>>
      /\ sender[s].step \in {"done", "threw"}
      /\ job' = (IF job[n].state = "active" /\ job[n].by = s
                    THEN [job EXCEPT ![n] = j] ELSE job)
  BY DEF FinishJob, Inv
<1>2. n \in Notifications
  BY <1>1 DEF TypeOK, Work, Idle
<1>3. job[n].state = "active" => j \in Job /\ (Live(j) => j.made < JobAttempts)
  <2> SUFFICES ASSUME job[n].state = "active"
               PROVE  j \in Job /\ (Live(j) => j.made < JobAttempts)
    OBVIOUS
  <2>1. job[n] \in Job /\ job[n].made < JobAttempts /\ job[n].made + 1 \in 0..JobAttempts
    BY <1>1, <1>2, NotificationsAssumption
    DEF Inv, TypeOK, LiveJobsHaveRuns, Live, NoJob, Job
  <2>2. CASE sender[s].step = "done"
    BY <2>1, <2>2 DEF AfterAttempt, Job, Live
  <2>3. CASE sender[s].step # "done"
    <3> DEFINE state == IF job[n].made + 1 < JobAttempts THEN "waiting" ELSE "failed"
    <3>1. j = [job[n] EXCEPT !.made = @ + 1, !.by = Nobody, !.state = state]
      BY <2>3 DEF AfterAttempt
    <3>2. state \in {"waiting", "failed"} /\ (state = "waiting" => job[n].made + 1 < JobAttempts)
      OBVIOUS
    <3> HIDE DEF state, j
    <3>3. j \in Job /\ j.made = job[n].made + 1 /\ j.state = state
      BY <2>1, <3>1, <3>2 DEF Job
    <3>4. QED
      BY <3>2, <3>3 DEF Live
  <2>4. QED
    BY <2>2, <2>3
<1> HIDE DEF n, j
<1>4. /\ job' \in [Notifications -> Job \cup {NoJob}]
      /\ \A m \in Notifications :
             job'[m] = job[m] \/ (Live(job'[m]) => job'[m].made < JobAttempts)
  BY <1>1, <1>2, <1>3 DEF TypeOK
<1>5. /\ sender' \in [Senders -> Work \cup {Idle}] /\ sender'[s].step = "idle"
      /\ \A t \in Senders \ {s} : sender'[t] = sender[t]
  BY <1>1 DEF TypeOK, Idle
<1>6. \A m \in Notifications : accepted'[m] >= accepted[m]
  BY <1>1 DEF TypeOK
<1>7. QED
  BY <1>1, <1>4, <1>5, <1>6, SenderStep DEF TypeOK

\* Steps of a sender that change neither rows, jobs nor the provider.
LEMMA QuietInv ==
    ASSUME Inv, NEW s \in Senders, NotClaimed(s) \/ Build(s) \/ DatabaseFails(s) \/ Die(s)
    PROVE  Inv'
<1>1. /\ TypeOK /\ UNCHANGED <<now, row, job, sweep, accepted, key, wipes>> /\ faults' \in Nat
      /\ sender[s] # Idle
  BY DEF NotClaimed, Build, DatabaseFails, Die, Inv, TypeOK, Working, Answered, Idle
<1>2. \A m \in Notifications : accepted'[m] >= accepted[m]
  BY <1>1 DEF TypeOK
<1>3. CASE Die(s)
  <2>1. /\ sender' \in [Senders -> Work \cup {Idle}] /\ sender'[s].step = "idle"
        /\ \A t \in Senders \ {s} : sender'[t] = sender[t]
    BY <1>1, <1>3 DEF Die, TypeOK, Idle
  <2>2. QED
    BY <1>1, <1>2, <2>1, SenderStep DEF TypeOK
<1>4. CASE NotClaimed(s)
  BY <1>1, <1>2, <1>4, GoesType, SenderStep DEF NotClaimed, TypeOK
<1>5. CASE DatabaseFails(s)
  BY <1>1, <1>2, <1>5, GoesType, SenderStep DEF DatabaseFails, TypeOK
<1>6. CASE Build(s)
  <2>1. sender[s].id \in Notifications /\ row[sender[s].id] \in NotificationRow
    BY <1>1, <1>6 DEF Build, Working, Inv, TypeOK, Work, AttemptsAreOfRows, Attempting
  <2>2. QED
    BY <1>1, <1>2, <1>6, <2>1, GoesType, SenderStep DEF Build, TypeOK
<1>7. QED
  BY <1>3, <1>4, <1>5, <1>6

LEMMA ClaimRowInv ==
    ASSUME Inv, NEW s \in Senders, ClaimRow(s)
    PROVE  Inv'
<1> DEFINE n == sender[s].id
           count == row[n].attempts + 1
           r == [row[n] EXCEPT !.status = "SENDING", !.stale = FALSE, !.attempts = count]
           w == [sender[s] EXCEPT !.step = "build", !.attempts = count]
<1>1. /\ TypeOK /\ UNCHANGED <<now, job, sweep, accepted, key, faults, wipes>>
      /\ sender[s].step = "claim" /\ row[n].status = "PENDING"
  BY DEF ClaimRow, Working, Claimable, Inv
<1>2. sender[s] \in Work /\ n \in Notifications
  BY <1>1 DEF TypeOK, Work, Idle
<1>3. row[n] \in NotificationRow
  BY <1>1, <1>2 DEF TypeOK, NoRow
<1>4. count \in Nat
  BY <1>3 DEF NotificationRow
<1>5. row' = [row EXCEPT ![n] = r]
  BY DEF ClaimRow
<1>6. sender' = [sender EXCEPT ![s] = w]
  BY DEF ClaimRow
<1> HIDE DEF count
<1>7. r \in NotificationRow /\ r.status = "SENDING"
  BY <1>3, <1>4 DEF NotificationRow, Statuses
<1>8. w \in Work /\ w.step = "build" /\ w.id = n
  BY <1>2, <1>4 DEF Work
<1> HIDE DEF n, r, w
<1>9. /\ row' \in [Notifications -> NotificationRow \cup {NoRow}]
      /\ row'[n] \in NotificationRow
      /\ \A m \in Notifications : row[m] \in NotificationRow => row'[m] \in NotificationRow
      /\ \A m \in Notifications : row'[m].status = "SENT" => row[m].status = "SENT"
  BY <1>1, <1>2, <1>5, <1>7 DEF TypeOK
<1>10. /\ sender' \in [Senders -> Work \cup {Idle}] /\ sender'[s] = w
       /\ \A t \in Senders \ {s} : sender'[t] = sender[t]
  BY <1>1, <1>6, <1>8 DEF TypeOK
<1>11. \A m \in Notifications : accepted'[m] >= accepted[m]
  BY <1>1 DEF TypeOK
<1>12. QED
  BY <1>1, <1>8, <1>9, <1>10, <1>11, SenderStep DEF TypeOK

\* The answers a sender can get, and the row it acts on.
LEMMA AttemptType ==
    ASSUME Inv, NEW s \in Senders, sender[s].step \in {"build", "send"} \/ Answered(s)
    PROVE  /\ sender[s] \in Work /\ sender[s] # Idle
           /\ sender[s].id \in Notifications
           /\ row[sender[s].id] \in NotificationRow
           /\ Attempting(s, sender[s].id)
<1>1. sender[s] # Idle
  BY DEF Answered, Idle
<1>2. sender[s] \in Work
  BY <1>1 DEF Inv, TypeOK
<1>3. sender[s].id \in Notifications
  BY <1>2 DEF Work
<1>4. Attempting(s, sender[s].id)
  BY DEF Attempting
<1>5. QED
  BY <1>1, <1>2, <1>3, <1>4 DEF Inv, AttemptsAreOfRows

\* Ending an attempt: SENT only after the provider accepted.
LEMMA EndStep ==
    ASSUME Inv, NEW s \in Senders, sender[s].step = "build" \/ Answered(s),
           NEW status \in Statuses, NEW step \in {"done", "threw"},
           row' = [row EXCEPT ![sender[s].id] = Ended(@, status)], Goes(s, step),
           UNCHANGED <<now, job, sweep, accepted, key, faults, wipes>>,
           status = "SENT" => sender[s].step = "accepted"
    PROVE  Inv'
<1> DEFINE n == sender[s].id
           r == Ended(row[n], status)
<1>1. /\ TypeOK /\ sender[s] # Idle /\ n \in Notifications /\ row[n] \in NotificationRow
      /\ row' = [row EXCEPT ![n] = r]
  BY AttemptType DEF Inv
<1>2. r \in NotificationRow /\ r.status = status
  BY <1>1, EndedType
<1>3. status = "SENT" => accepted[n] > 0
  BY DEF Inv, AcceptedWasDelivered
<1>4. /\ sender' \in [Senders -> Work \cup {Idle}] /\ sender'[s].step = step
      /\ \A t \in Senders \ {s} : sender'[t] = sender[t]
  BY <1>1, GoesType
<1> HIDE DEF n, r
<1>5. /\ row' \in [Notifications -> NotificationRow \cup {NoRow}]
      /\ \A m \in Notifications : row[m] \in NotificationRow => row'[m] \in NotificationRow
      /\ \A m \in Notifications : row'[m].status = "SENT" =>
             row[m].status = "SENT" \/ accepted'[m] > 0
  BY <1>1, <1>2, <1>3 DEF TypeOK
<1>6. \A m \in Notifications : accepted'[m] >= accepted[m]
  BY <1>1 DEF TypeOK
<1>7. QED
  BY <1>1, <1>4, <1>5, <1>6, SenderStep DEF TypeOK

LEMMA EndInv ==
    ASSUME Inv, NEW s \in Senders, Skip(s) \/ RecordSent(s) \/ RecordFailure(s)
    PROVE  Inv'
<1>1. CASE Skip(s)
  BY <1>1, EndStep DEF Skip, Working, Statuses
<1>2. CASE RecordSent(s)
  BY <1>2, EndStep DEF RecordSent, Succeeded, Statuses
<1>3. CASE RecordFailure(s)
  <2> DEFINE retry == Retry(sender[s].step, sender[s].attempts)
  <2>1. CASE retry
    BY <1>3, <2>1, EndStep DEF RecordFailure, Statuses
  <2>2. CASE ~retry
    BY <1>3, <2>2, EndStep DEF RecordFailure, Statuses
  <2>3. QED
    BY <2>1, <2>2
<1>4. QED
  BY <1>1, <1>2, <1>3

LEMMA DeliverInv ==
    ASSUME Inv, NEW s \in Senders, NEW answer \in Answers, NEW delivers \in BOOLEAN,
           Deliver(s, answer, delivers)
    PROVE  Inv'
<1> DEFINE n == sender[s].id
<1>1. /\ TypeOK /\ sender[s] # Idle /\ n \in Notifications /\ row[n] \in NotificationRow
      /\ UNCHANGED <<now, row, job, sweep, faults, wipes>> /\ Goes(s, answer)
      /\ answer = "accepted" => delivers
      /\ key' = [key EXCEPT ![n] = @ \/ delivers]
      /\ accepted' = (IF delivers /\ ~key[n] /\ accepted[n] < 2
                         THEN [accepted EXCEPT ![n] = @ + 1] ELSE accepted)
  BY AttemptType DEF Deliver, Working, Inv
<1>2. accepted[n] \in 0..2 /\ (key[n] => accepted[n] > 0)
  BY <1>1 DEF Inv, TypeOK, KeysWereUsed
<1>3. /\ accepted' \in [Notifications -> 0..2]
      /\ \A m \in Notifications : accepted'[m] >= accepted[m]
      /\ delivers => accepted'[n] > 0
  BY <1>1, <1>2 DEF TypeOK
<1>4. /\ key' \in [Notifications -> BOOLEAN]
      /\ \A m \in Notifications : key'[m] => key[m] \/ accepted'[m] > 0
  <2>1. (key[n] \/ delivers) \in BOOLEAN
    BY <1>1 DEF TypeOK
  <2>2. key' \in [Notifications -> BOOLEAN]
    BY <1>1, <2>1 DEF TypeOK
  <2>3. \A m \in Notifications \ {n} : key'[m] = key[m]
    BY <1>1 DEF TypeOK
  <2>4. key'[n] => key[n] \/ delivers
    BY <1>1 DEF TypeOK
  <2>5. QED
    BY <1>3, <2>2, <2>3, <2>4
<1>5. /\ sender' \in [Senders -> Work \cup {Idle}] /\ sender'[s].step = answer
      /\ sender'[s].id = n /\ \A t \in Senders \ {s} : sender'[t] = sender[t]
  BY <1>1, GoesType DEF Answers
<1> HIDE DEF n
<1>6. QED
  BY <1>1, <1>3, <1>4, <1>5, SenderStep DEF TypeOK

LEMMA StutterInv == ASSUME Inv, UNCHANGED vars PROVE Inv'
<1>1. \A n \in Notifications : accepted'[n] >= accepted[n]
  BY DEF vars, Inv, TypeOK
<1>2. QED
  BY <1>1, Preserves DEF vars, Inv, TypeOK, LiveJobsHaveRuns

LEMMA NextInv == Inv /\ [Next]_vars => Inv'
<1> SUFFICES ASSUME Inv, [Next]_vars PROVE Inv'
  OBVIOUS
<1>1. ASSUME NEW n \in Notifications,
             \/ \E at \in 0..Horizon, queued \in BOOLEAN : Write(n, at, queued)
             \/ Expire(n) \/ Stalled(n) \/ RemoveJob(n) \/ ForgetKey(n)
             \/ \E w \in Sweeps : SweepAdd(w, n)
      PROVE  Inv'
  BY <1>1, WriteInv, TimeInv, QueueInv
<1>2. ASSUME WipeQueue PROVE Inv'
  <2>1. PICK n \in Notifications : TRUE
    BY <1>2 DEF WipeQueue, Inv, TypeOK
  <2>2. QED
    BY <1>2, <2>1, QueueInv
<1>3. ASSUME NEW s \in Senders, NEW n \in Notifications, StartJob(s, n) PROVE Inv'
  BY <1>3, StartJobInv
<1>4. ASSUME NEW s \in Senders, Progress(s) \/ DatabaseFails(s) \/ Die(s) PROVE Inv'
  BY <1>4, ClaimRowInv, QuietInv, EndInv, DeliverInv, FinishJobInv DEF Progress
<1>5. ASSUME NEW w \in Sweeps,
             \/ SweepPark(w) \/ SweepRecover(w)
             \/ SweepFind(w) \/ SweepEnd(w) \/ SweepFails(w)
      PROVE  Inv'
  BY <1>5, SweepRowsInv, SweepInv
<1>6. QED
  BY <1>1, <1>2, <1>3, <1>4, <1>5, TickInv, StutterInv DEF Next, Sweep

(***************************************************************************)
(* The theorems about every behaviour.                                     *)
(***************************************************************************)
\* What senders know of deliveries, and the provider of keys, is true.
THEOREM DeliveriesAreKnown == Spec => []Inv
BY InitInv, NextInv, PTL DEF Spec

\* Rows, jobs, and the work of senders and sweep keep their types.
THEOREM TypeCorrect == Spec => []TypeOK
<1>1. Inv => TypeOK
  BY DEF Inv
<1>2. QED
  BY <1>1, DeliveriesAreKnown, PTL

\* A row says SENT only if the provider delivered the message (sendNotification),
\* also when several senders had claimed it.
THEOREM SentRowsWereDelivered == Spec => []SentWasDelivered
<1>1. Inv => SentWasDelivered
  BY DEF Inv
<1>2. QED
  BY <1>1, DeliveriesAreKnown, PTL

(***************************************************************************)
(* When only dead senders lose their claims.                               *)
(***************************************************************************)
\* A claim that may be taken over has no sender left.
StaleClaimIsFree ==
    \A s \in Senders, n \in Notifications :
        row[n].status = "SENDING" /\ row[n].stale => ~Attempting(s, n)

\* The attempts a sender decides by are still the row's.
AttemptsAreCurrent ==
    \A s \in Senders, n \in Notifications :
        Attempting(s, n) => sender[s].attempts = row[n].attempts

\* A row that may be claimed has an attempt left.
PendingIsNotExhausted ==
    \A n \in Notifications : row[n].status = "PENDING" => row[n].attempts < MaxAttempts

PatientInv ==
    /\ Inv
    /\ OneSender
    /\ StaleClaimIsFree
    /\ AttemptsAreCurrent
    /\ PendingIsNotExhausted
    /\ AttemptsStayWithinLimit

LEMMA InitPatient == Init => PatientInv
<1>1. Init => /\ OneSender /\ StaleClaimIsFree /\ AttemptsAreCurrent
              /\ PendingIsNotExhausted /\ AttemptsStayWithinLimit
  BY DEF Init, OneSender, StaleClaimIsFree, AttemptsAreCurrent, PendingIsNotExhausted,
         AttemptsStayWithinLimit, Attempting, Answered, Idle, NoRow
<1>2. QED
  BY <1>1, InitInv DEF PatientInv

\* What a step has to show that gives no sender a row it did not have.
LEMMA FewerSenders ==
    ASSUME PatientInv, Inv',
           \A s \in Senders, n \in Notifications : Attempting(s, n)' =>
               /\ Attempting(s, n)
               /\ sender'[s].attempts = sender[s].attempts
               /\ row'[n] = row[n],
           \A n \in Notifications :
               \/ row'[n] = row[n]
               \/ /\ row'[n].attempts <= MaxAttempts
                  /\ row'[n].status = "PENDING" => row'[n].attempts < MaxAttempts
    PROVE  PatientInv'
<1>1. OneSender'
  BY DEF PatientInv, OneSender
<1>2. StaleClaimIsFree'
  BY DEF PatientInv, StaleClaimIsFree
<1>3. AttemptsAreCurrent'
  BY DEF PatientInv, AttemptsAreCurrent
<1>4. PendingIsNotExhausted' /\ AttemptsStayWithinLimit'
  BY DEF PatientInv, PendingIsNotExhausted, AttemptsStayWithinLimit
<1>5. QED
  BY <1>1, <1>2, <1>3, <1>4 DEF PatientInv

\* Rows nobody is trying may change, as long as the senders do not.
LEMMA PatientRowStep ==
    ASSUME PatientInv, Inv', sender' = sender,
           \A n \in Notifications :
               \/ row'[n] = row[n]
               \/ /\ \A s \in Senders : ~Attempting(s, n)
                  /\ row'[n].attempts <= MaxAttempts
                  /\ row'[n].status = "PENDING" => row'[n].attempts < MaxAttempts
    PROVE  PatientInv'
<1>1. \A s \in Senders, n \in Notifications : Attempting(s, n)' => Attempting(s, n)
  BY DEF Attempting, Answered
<1>2. QED
  BY <1>1, FewerSenders

\* One sender goes on with what it has, or drops it, and no row changes.
LEMMA PatientSenderStep ==
    ASSUME PatientInv, Inv', row' = row, NEW s \in Senders,
           \A t \in Senders \ {s} : sender'[t] = sender[t],
           \A n \in Notifications : Attempting(s, n)' =>
               Attempting(s, n) /\ sender'[s].attempts = sender[s].attempts
    PROVE  PatientInv'
<1>1. \A t \in Senders \ {s}, n \in Notifications : Attempting(t, n)' => Attempting(t, n)
  BY DEF Attempting, Answered
<1>2. QED
  BY <1>1, FewerSenders

LEMMA PatientWriteTime ==
    ASSUME PatientInv, Inv', Patient, NEW n \in Notifications,
           \/ \E at \in 0..Horizon, queued \in BOOLEAN : Write(n, at, queued)
           \/ Expire(n)
    PROVE  PatientInv'
<1>1. /\ TypeOK /\ sender' = sender
      /\ \A m \in Notifications \ {n} : row'[m] = row[m]
  BY DEF Write, Expire, PatientInv, Inv, TypeOK
<1>2. CASE \E at \in 0..Horizon, queued \in BOOLEAN : Write(n, at, queued)
  <2>1. row[n].status = "none" /\ row'[n].attempts = 0
    BY <1>1, <1>2 DEF Write, NoRow, TypeOK
  <2>2. QED
    BY <1>1, <2>1, PatientRowStep, NotificationsAssumption DEF PatientInv, OneSender
<1>3. CASE Expire(n)
  <2>1. row[n].status = "SENDING" /\ ~row[n].stale /\ row[n] \in NotificationRow
    BY <1>1, <1>3 DEF Expire, TypeOK, NoRow
  <2>2. /\ row'[n].attempts = row[n].attempts /\ row'[n].stale
        /\ row'[n].status = "SENDING"
    BY <1>1, <1>3, <2>1 DEF Expire, TypeOK, NotificationRow
  <2>3. \A s \in Senders : ~Attempting(s, n)
    BY <2>1, <2>2 DEF Patient
  <2>4. row[n].attempts <= MaxAttempts
    BY <2>1 DEF PatientInv, AttemptsStayWithinLimit, NoRow
  <2>5. QED
    BY <1>1, <2>2, <2>3, <2>4, PatientRowStep
<1>4. QED
  BY <1>2, <1>3

\* The sweep changes claims that expired, and those have no sender.
LEMMA PatientSweepRows ==
    ASSUME PatientInv, Inv', NEW w \in Sweeps, SweepPark(w) \/ SweepRecover(w)
    PROVE  PatientInv'
<1>1. TypeOK /\ sender' = sender
  BY DEF SweepPark, SweepRecover, PatientInv, Inv
<1>2. ASSUME NEW n \in Notifications, row'[n] # row[n]
      PROVE  /\ \A s \in Senders : ~Attempting(s, n)
             /\ row'[n].attempts <= MaxAttempts
             /\ row'[n].status = "PENDING" => row'[n].attempts < MaxAttempts
  <2>1. row'[n] = Parked(row[n]) \/ row'[n] = Recovered(row[n])
    BY DEF SweepPark, SweepRecover
  <2>2. Abandoned(row[n]) /\ row[n] \in NotificationRow
    BY <1>1, <1>2, <2>1 DEF Parked, Recovered, Abandoned, TypeOK, NoRow
  <2>3. row[n].attempts \in Nat /\ row[n].attempts <= MaxAttempts
    BY <2>2 DEF PatientInv, AttemptsStayWithinLimit, Abandoned, NotificationRow, NoRow
  <2>4. \A s \in Senders : ~Attempting(s, n)
    BY <2>2 DEF PatientInv, StaleClaimIsFree, Abandoned
  <2>5. CASE row'[n] = Ended(row[n], "FAILED")
    BY <2>2, <2>3, <2>4, <2>5, EndedType DEF Statuses
  <2>6. CASE ~Exhausted(row[n]) /\ row'[n] = [Ended(row[n], "PENDING") EXCEPT !.at = now]
    <3>1. Ended(row[n], "PENDING") \in NotificationRow
          /\ Ended(row[n], "PENDING").attempts = row[n].attempts
      BY <2>2, EndedType DEF Statuses
    <3>2. row'[n].attempts = row[n].attempts
      BY <2>6, <3>1 DEF NotificationRow
    <3>3. QED
      BY <2>3, <2>4, <2>6, <3>2, NotificationsAssumption DEF Exhausted
  <2>7. QED
    BY <1>2, <2>1, <2>5, <2>6 DEF Parked, Recovered
<1>3. QED
  BY <1>1, <1>2, PatientRowStep

LEMMA PatientQuiet ==
    ASSUME PatientInv, Inv', NEW s \in Senders,
           \/ \E n \in Notifications : StartJob(s, n)
           \/ NotClaimed(s) \/ FinishJob(s) \/ DatabaseFails(s) \/ Die(s)
    PROVE  PatientInv'
<1>1. TypeOK /\ row' = row /\ \A t \in Senders \ {s} : sender'[t] = sender[t]
  BY DEF StartJob, NotClaimed, FinishJob, DatabaseFails, Die, Goes, PatientInv, Inv, TypeOK
<1>2. sender'[s].step \in {"idle", "claim", "done", "threw"}
  <2>1. CASE \E n \in Notifications : StartJob(s, n)
    <3>1. PICK n \in Notifications : StartJob(s, n)
      BY <2>1
    <3>2. sender'[s] = [step |-> "claim", id |-> n, attempts |-> 0]
      BY <1>1, <3>1 DEF StartJob, TypeOK
    <3>3. QED
      BY <3>2
  <2>2. CASE FinishJob(s) \/ Die(s)
    BY <1>1, <2>2 DEF FinishJob, Die, TypeOK, Idle
  <2>3. CASE NotClaimed(s) \/ DatabaseFails(s)
    <3>1. sender[s] # Idle
      BY <2>3 DEF NotClaimed, DatabaseFails, Working, Answered, Idle
    <3>2. QED
      BY <1>1, <2>3, <3>1, GoesType DEF NotClaimed, DatabaseFails
  <2>4. QED
    BY <2>1, <2>2, <2>3
<1>3. \A n \in Notifications : ~Attempting(s, n)'
  BY <1>2 DEF Attempting, Answered
<1>4. QED
  BY <1>1, <1>3, PatientSenderStep

LEMMA PatientGoOn ==
    ASSUME PatientInv, Inv', NEW s \in Senders,
           \/ Build(s)
           \/ \E answer \in Answers, delivers \in BOOLEAN : Deliver(s, answer, delivers)
    PROVE  PatientInv'
<1>1. TypeOK /\ row' = row /\ Attempting(s, sender[s].id) /\ sender[s] # Idle
  BY DEF Build, Deliver, Working, Attempting, PatientInv, Inv, Idle
<1>2. PICK step \in {"send", "accepted", "transient", "permanent"} : Goes(s, step)
  BY DEF Build, Deliver, Answers
<1>3. /\ sender'[s].id = sender[s].id /\ sender'[s].attempts = sender[s].attempts
      /\ \A t \in Senders \ {s} : sender'[t] = sender[t]
  BY <1>1, <1>2, GoesType
<1>4. \A n \in Notifications : Attempting(s, n)' => Attempting(s, n)
  BY <1>1, <1>3 DEF Attempting
<1>5. QED
  BY <1>1, <1>3, <1>4, PatientSenderStep

\* A claim makes one sender the row's, which nobody had.
LEMMA PatientClaim ==
    ASSUME PatientInv, Inv', NEW s \in Senders, ClaimRow(s)
    PROVE  PatientInv'
<1> DEFINE n == sender[s].id
           count == row[n].attempts + 1
           r == [row[n] EXCEPT !.status = "SENDING", !.stale = FALSE, !.attempts = count]
           w == [sender[s] EXCEPT !.step = "build", !.attempts = count]
<1>1. /\ TypeOK /\ row' = [row EXCEPT ![n] = r] /\ sender' = [sender EXCEPT ![s] = w]
      /\ sender[s].step = "claim" /\ row[n].status = "PENDING"
  BY DEF ClaimRow, Working, Claimable, PatientInv, Inv
<1>2. sender[s] \in Work /\ n \in Notifications
  BY <1>1 DEF TypeOK, Work, Idle
<1>3. row[n] \in NotificationRow
  BY <1>1, <1>2 DEF TypeOK, NoRow
<1>4. count \in Nat /\ count <= MaxAttempts
  BY <1>1, <1>2, <1>3, NotificationsAssumption
  DEF PatientInv, PendingIsNotExhausted, NotificationRow
<1>5. \A t \in Senders : ~Attempting(t, n)
  BY <1>1, <1>2 DEF PatientInv, OneSender
<1> HIDE DEF count
<1>6. r.status = "SENDING" /\ ~r.stale /\ r.attempts = count
  BY <1>3, <1>4 DEF NotificationRow
<1>7. w.step = "build" /\ w.id = n /\ w.attempts = count
  BY <1>2, <1>4 DEF Work
<1> HIDE DEF n, r, w
<1>8. row'[n] = r /\ \A m \in Notifications \ {n} : row'[m] = row[m]
  BY <1>1, <1>2 DEF TypeOK
<1>9. sender'[s] = w /\ \A t \in Senders \ {s} : sender'[t] = sender[t]
  BY <1>1 DEF TypeOK
<1>10. \A m \in Notifications : Attempting(s, m)' => m = n
  BY <1>7, <1>9 DEF Attempting
<1>11. \A t \in Senders \ {s}, m \in Notifications :
           Attempting(t, m)' => Attempting(t, m) /\ m # n
  BY <1>5, <1>9 DEF Attempting, Answered
<1>12. OneSender'
  BY <1>6, <1>8, <1>10, <1>11 DEF PatientInv, OneSender
<1>13. StaleClaimIsFree'
  BY <1>6, <1>8, <1>10, <1>11 DEF PatientInv, StaleClaimIsFree
<1>14. AttemptsAreCurrent'
  BY <1>6, <1>7, <1>8, <1>9, <1>10, <1>11 DEF PatientInv, AttemptsAreCurrent
<1>15. PendingIsNotExhausted' /\ AttemptsStayWithinLimit'
  BY <1>4, <1>6, <1>8 DEF PatientInv, PendingIsNotExhausted, AttemptsStayWithinLimit
<1>16. QED
  BY <1>12, <1>13, <1>14, <1>15 DEF PatientInv

\* What ends an attempt: one row's status, and the sender's hold on it.
LEMMA PatientEndStep ==
    ASSUME PatientInv, Inv', NEW s \in Senders, sender[s].step = "build" \/ Answered(s),
           NEW status \in Statuses, NEW step \in {"done", "threw"},
           row' = [row EXCEPT ![sender[s].id] = Ended(@, status)], Goes(s, step),
           status = "PENDING" => sender[s].attempts < MaxAttempts
    PROVE  PatientInv'
<1> DEFINE n == sender[s].id
<1>1. /\ TypeOK /\ sender[s] # Idle /\ n \in Notifications /\ row[n] \in NotificationRow
      /\ Attempting(s, n)
  BY AttemptType DEF PatientInv, Inv
<1>2. sender[s].attempts = row[n].attempts /\ row[n].attempts <= MaxAttempts
  BY <1>1 DEF PatientInv, AttemptsAreCurrent, AttemptsStayWithinLimit, NotificationRow, NoRow
<1>3. row'[n] = Ended(row[n], status) /\ \A m \in Notifications \ {n} : row'[m] = row[m]
  BY <1>1 DEF TypeOK
<1>4. row'[n].status = status /\ row'[n].attempts = row[n].attempts
  BY <1>1, <1>3, EndedType
<1>5. sender'[s].step = step /\ \A t \in Senders \ {s} : sender'[t] = sender[t]
  BY <1>1, GoesType
<1>6. \A t \in Senders, m \in Notifications : Attempting(t, m)' =>
          t # s /\ m # n /\ Attempting(t, m)
  <2>1. \A m \in Notifications : ~Attempting(s, m)'
    BY <1>5 DEF Attempting, Answered
  <2>2. \A t \in Senders \ {s}, m \in Notifications : Attempting(t, m)' => Attempting(t, m)
    BY <1>5 DEF Attempting, Answered
  <2>3. \A t \in Senders \ {s} : ~Attempting(t, n)
    BY <1>1 DEF PatientInv, OneSender
  <2>4. QED
    BY <2>1, <2>2, <2>3
<1> HIDE DEF n
<1>7. QED
  BY <1>2, <1>3, <1>4, <1>5, <1>6, FewerSenders

LEMMA PatientEnd ==
    ASSUME PatientInv, Inv', NEW s \in Senders, Skip(s) \/ RecordSent(s) \/ RecordFailure(s)
    PROVE  PatientInv'
<1>1. CASE Skip(s)
  BY <1>1, PatientEndStep DEF Skip, Working, Statuses
<1>2. CASE RecordSent(s)
  BY <1>2, PatientEndStep DEF RecordSent, Statuses
<1>3. CASE RecordFailure(s)
  <2>1. CASE Retry(sender[s].step, sender[s].attempts)
    BY <1>3, <2>1, PatientEndStep DEF RecordFailure, Retry, Statuses
  <2>2. CASE ~Retry(sender[s].step, sender[s].attempts)
    BY <1>3, <2>2, PatientEndStep DEF RecordFailure, Statuses
  <2>3. QED
    BY <2>1, <2>2
<1>4. QED
  BY <1>1, <1>2, <1>3

LEMMA PatientNextInv == PatientInv /\ [PatientNext]_vars => PatientInv'
<1> SUFFICES ASSUME PatientInv, [PatientNext]_vars PROVE PatientInv'
  OBVIOUS
<1>1. Inv'
  BY NextInv DEF PatientInv, PatientNext
<1>2. ASSUME UNCHANGED <<row, sender>> PROVE PatientInv'
  BY <1>1, <1>2, PatientRowStep
<1>3. ASSUME Patient, NEW n \in Notifications,
             \/ \E at \in 0..Horizon, queued \in BOOLEAN : Write(n, at, queued)
             \/ Expire(n)
      PROVE  PatientInv'
  BY <1>1, <1>3, PatientWriteTime
<1>4. ASSUME NEW n \in Notifications,
             \/ Stalled(n) \/ RemoveJob(n) \/ ForgetKey(n)
             \/ \E w \in Sweeps : SweepAdd(w, n)
      PROVE  PatientInv'
  BY <1>2, <1>4 DEF Stalled, RemoveJob, ForgetKey, SweepAdd
<1>5. ASSUME \/ \E w \in Sweeps : SweepFind(w) \/ SweepEnd(w) \/ SweepFails(w)
             \/ WipeQueue \/ Tick
      PROVE  PatientInv'
  BY <1>2, <1>5 DEF SweepFind, SweepEnd, SweepFails, WipeQueue, Tick
<1>6. ASSUME NEW w \in Sweeps, SweepPark(w) \/ SweepRecover(w) PROVE PatientInv'
  BY <1>1, <1>6, PatientSweepRows
<1>7. ASSUME NEW s \in Senders, Progress(s) PROVE PatientInv'
  BY <1>1, <1>7, PatientClaim, PatientQuiet, PatientGoOn, PatientEnd DEF Progress
<1>8. ASSUME NEW s \in Senders,
             \/ \E n \in Notifications : StartJob(s, n)
             \/ DatabaseFails(s) \/ Die(s)
      PROVE  PatientInv'
  BY <1>1, <1>8, PatientQuiet
<1>9. QED
  BY <1>2, <1>3, <1>4, <1>5, <1>6, <1>7, <1>8 DEF PatientNext, Next, Sweep, vars

(***************************************************************************)
(* The theorems about patient behaviours.                                  *)
(***************************************************************************)
\* The sender of a row is its only one and decides by the row's own attempts, and a
\* claim that may be taken over has none, at every moment.
THEOREM SendersAreTracked == PatientSpec => []PatientInv
BY InitPatient, PatientNextInv, PTL DEF PatientSpec

\* A row has at most one sender, and its status says so (claim).
THEOREM RowsHaveOneSender == PatientSpec => []OneSender
<1>1. PatientInv => OneSender
  BY DEF PatientInv
<1>2. QED
  BY <1>1, SendersAreTracked, PTL

\* Crashes, expired claims, retries by BullMQ and by the sweep together try a message
\* no more often than the limit (claim, decideRetry, sweepDueNotifications).
THEOREM AttemptsAreLimited == PatientSpec => []AttemptsStayWithinLimit
<1>1. PatientInv => AttemptsStayWithinLimit
  BY DEF PatientInv
<1>2. QED
  BY <1>1, SendersAreTracked, PTL

\* The updates that end an attempt do not look at the row's status; still, what is sent,
\* skipped or failed stays as it is.
THEOREM SettledStays == PatientSpec => SettledIsFinal
<1>1. ASSUME PatientInv, [PatientNext]_vars, NEW n \in Notifications, Settled(row[n].status)
      PROVE  row'[n] = row[n]
  <2>1. TypeOK /\ \A s \in Senders : ~Attempting(s, n)
    BY <1>1 DEF PatientInv, Inv, OneSender, Settled
  <2>2. CASE row' = row
    BY <2>2
  <2>3. ASSUME NEW m \in Notifications,
               \/ \E at \in 0..Horizon, queued \in BOOLEAN : Write(m, at, queued)
               \/ Expire(m)
        PROVE  row'[n] = row[n]
    <3>1. m # n
      BY <1>1, <2>3 DEF Settled, Write, Expire, NoRow
    <3>2. QED
      BY <2>1, <2>3, <3>1 DEF Write, Expire, TypeOK
  <2>4. ASSUME NEW w \in Sweeps, SweepPark(w) \/ SweepRecover(w) PROVE row'[n] = row[n]
    BY <1>1, <2>4 DEF SweepPark, SweepRecover, Parked, Recovered, Abandoned, Settled
  <2>5. ASSUME NEW s \in Senders, ClaimRow(s) PROVE row'[n] = row[n]
    <3>1. sender[s].id # n
      BY <1>1, <2>5 DEF ClaimRow, Claimable, Settled
    <3>2. QED
      BY <2>1, <2>5, <3>1 DEF ClaimRow, TypeOK
  <2>6. ASSUME NEW s \in Senders, Skip(s) \/ RecordSent(s) \/ RecordFailure(s)
        PROVE  row'[n] = row[n]
    <3>1. sender[s].id # n
      BY <2>1, <2>6 DEF Skip, RecordSent, RecordFailure, Working, Attempting
    <3>2. QED
      BY <2>1, <2>6, <3>1 DEF Skip, RecordSent, RecordFailure, TypeOK
  <2>7. ASSUME NEW m \in Notifications,
               \/ Stalled(m) \/ RemoveJob(m) \/ ForgetKey(m)
               \/ \E w \in Sweeps : SweepAdd(w, m)
               \/ \E s \in Senders : StartJob(s, m)
        PROVE  row' = row
    BY <2>7 DEF Stalled, RemoveJob, ForgetKey, SweepAdd, StartJob
  <2>8. ASSUME \/ \E w \in Sweeps : SweepFind(w) \/ SweepEnd(w) \/ SweepFails(w)
               \/ WipeQueue \/ Tick
        PROVE  row' = row
    BY <2>8 DEF SweepFind, SweepEnd, SweepFails, WipeQueue, Tick
  <2>9. ASSUME NEW s \in Senders,
               \/ NotClaimed(s) \/ Build(s) \/ FinishJob(s) \/ DatabaseFails(s) \/ Die(s)
               \/ \E answer \in Answers, delivers \in BOOLEAN : Deliver(s, answer, delivers)
        PROVE  row' = row
    BY <2>9 DEF NotClaimed, Build, FinishJob, DatabaseFails, Die, Deliver
  <2>10. QED
    BY <1>1, <2>2, <2>3, <2>4, <2>5, <2>6, <2>7, <2>8, <2>9
    DEF PatientNext, Next, Progress, Sweep, vars
<1>2. PatientInv /\ [PatientNext]_vars =>
          [\A n \in Notifications : Settled(row[n].status) => row'[n] = row[n]]_vars
  BY <1>1
<1>3. QED
  BY <1>2, SendersAreTracked, PTL DEF PatientSpec, SettledIsFinal
=============================================================================
