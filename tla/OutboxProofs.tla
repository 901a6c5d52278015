---------------------------- MODULE OutboxProofs ----------------------------
(***************************************************************************)
(* Whatever claims are taken over and whatever fails, no message an event  *)
(* owes is lost and no event is given up early; and when only dead pollers *)
(* lose their claims, an event has one holder and settles once.            *)
(***************************************************************************)
EXTENDS Outbox, TLAPS

(***************************************************************************)
(* Whatever happens to claims.                                             *)
(***************************************************************************)
\* A payload is cleared only when nothing is owed.
ClearedOwesNothing ==
    \A e \in Events : event[e] # NoEvent /\ ~event[e].payload => persisted[e] >= Rows[e]

\* What a poller remembers of an event may be old, but events only go on.
Kept(t) ==
    /\ event[t.event] \in EventRow
    /\ t.attempts <= event[t.event].attempts
    /\ ~t.payload => persisted[t.event] >= Rows[t.event]

TicketsAreKept == \A p \in Pollers : \A t \in batch[p] : Kept(t)

Recorded(w) ==
    /\ Kept(w.ticket)
    /\ w.step = "dispatch" => persisted[w.ticket.event] >= w.next - 1
    /\ w.step = "processed" => persisted[w.ticket.event] >= Rows[w.ticket.event]

WorkIsRecorded == \A p \in Pollers : current[p] # Idle => Recorded(current[p])

Inv ==
    /\ TypeOK
    /\ ClearedOwesNothing
    /\ TicketsAreKept
    /\ WorkIsRecorded
    /\ ProcessedOwesNothing
    /\ ParkedAfterAllAttempts

\* The attempts a claim counts stay within the range.
LEMMA RaisedType ==
    ASSUME NEW n \in 0..Ceiling
    PROVE  Raised(n) \in 1..Ceiling /\ Raised(n) >= n
BY OutboxAssumption DEF Raised, Ceiling

\* A claimed row is a row.
LEMMA ClaimedType ==
    ASSUME NEW row \in EventRow
    PROVE  /\ ClaimedRow(row) \in EventRow
           /\ ClaimedRow(row).attempts = Raised(row.attempts)
           /\ ClaimedRow(row).status = "PROCESSING" /\ ~ClaimedRow(row).stale
           /\ ClaimedRow(row).payload = row.payload
<1>1. Raised(row.attempts) \in 0..Ceiling
  BY RaisedType, OutboxAssumption DEF EventRow, Ceiling
<1>2. QED
  BY <1>1 DEF EventRow, ClaimedRow, Statuses

\* Every way to settle a row gives a row and keeps its attempts.
LEMMA SettledType ==
    ASSUME NEW row \in EventRow,
           NEW settled \in {Processed(row), Retried(row), Parked(row)}
    PROVE  settled \in EventRow /\ settled.attempts = row.attempts
BY DEF EventRow, Processed, Retried, Parked, Statuses

\* Events go on: what was kept stays kept.
LEMMA KeptStays ==
    ASSUME TypeOK, NEW t \in Ticket, Kept(t),
           event'[t.event] \in EventRow,
           event'[t.event].attempts >= event[t.event].attempts,
           persisted'[t.event] \in Nat,
           persisted'[t.event] >= persisted[t.event]
    PROVE  Kept(t)'
<1>1. /\ t.event \in Events /\ t.attempts \in Nat /\ Rows[t.event] \in Nat
      /\ persisted[t.event] \in Nat
      /\ event[t.event].attempts \in Nat /\ event'[t.event].attempts \in Nat
  BY OutboxAssumption DEF Ticket, TypeOK, Kept, EventRow, Ceiling
<1>2. QED
  BY <1>1 DEF Kept

\* A row that is there stays, with its attempts at least, and no message is undone.
GoesOn ==
    \A e \in Events :
        /\ event[e] \in EventRow =>
               event'[e] \in EventRow /\ event'[e].attempts >= event[e].attempts
        /\ persisted'[e] >= persisted[e]

\* What pollers remember, of events not begun or begun, stays true of them.
LEMMA TicketsStay ==
    ASSUME TypeOK, TypeOK', GoesOn
    PROVE  \A t \in Ticket : Kept(t) => Kept(t)'
<1> SUFFICES ASSUME NEW t \in Ticket, Kept(t) PROVE Kept(t)'
  OBVIOUS
<1>1. t.event \in Events /\ event[t.event] \in EventRow
  BY DEF Ticket, Kept
<1>2. QED
  BY <1>1, KeptStays DEF GoesOn, TypeOK

LEMMA WorkStays ==
    ASSUME TypeOK, TypeOK', GoesOn
    PROVE  \A w \in Work : Recorded(w) => Recorded(w)'
<1> SUFFICES ASSUME NEW w \in Work, Recorded(w) PROVE Recorded(w)'
  OBVIOUS
<1>1. w.ticket \in Ticket /\ w.ticket.event \in Events /\ w.next \in Nat
  BY DEF Work, Ticket
<1>2. Kept(w.ticket)'
  BY <1>1, TicketsStay DEF Recorded
<1>3. /\ persisted[w.ticket.event] \in Nat /\ persisted'[w.ticket.event] \in Nat
      /\ persisted'[w.ticket.event] >= persisted[w.ticket.event]
      /\ Rows[w.ticket.event] \in Nat
  BY <1>1, OutboxAssumption DEF TypeOK, GoesOn
<1>4. QED
  BY <1>1, <1>2, <1>3 DEF Recorded

\* What every step has to show: rows go on, whoever takes up an event kept it, and
\* a row that becomes cleared, processed or parked may.
LEMMA Preserves ==
    ASSUME Inv, TypeOK', GoesOn,
           \A p \in Pollers : \A t \in batch'[p] : t \in batch[p] \/ Kept(t)',
           \A p \in Pollers : current'[p] \in {current[p], Idle} \/ Recorded(current[p])',
           \A e \in Events : event'[e] # NoEvent /\ ~event'[e].payload =>
               \/ persisted'[e] >= Rows[e]
               \/ event[e] # NoEvent /\ ~event[e].payload,
           \A e \in Events : event'[e].status = "PROCESSED" =>
               event[e].status = "PROCESSED" \/ persisted'[e] >= Rows[e],
           \A e \in Events : event'[e].status = "FAILED" =>
               \/ event[e].status = "FAILED" /\ event'[e].attempts >= event[e].attempts
               \/ event'[e].attempts >= MaxAttempts
    PROVE  Inv'
<1>1. ClearedOwesNothing' /\ ProcessedOwesNothing'
  <2>1. \A e \in Events : /\ persisted[e] \in Nat /\ persisted'[e] \in Nat
                          /\ Rows[e] \in Nat /\ persisted'[e] >= persisted[e]
    BY OutboxAssumption DEF Inv, TypeOK, GoesOn
  <2>2. QED
    BY <2>1 DEF Inv, ClearedOwesNothing, ProcessedOwesNothing
<1>2. TicketsAreKept'
  BY TicketsStay DEF Inv, TicketsAreKept, TypeOK
<1>3. WorkIsRecorded'
  <2>1. ASSUME NEW p \in Pollers, current'[p] # Idle, current'[p] = current[p]
        PROVE  Recorded(current[p])'
    BY <2>1, WorkStays DEF Inv, WorkIsRecorded, TypeOK
  <2>2. QED
    BY <2>1 DEF WorkIsRecorded
<1>4. ParkedAfterAllAttempts'
  <2>1. ASSUME NEW e \in Events, event'[e].status = "FAILED", event[e].status = "FAILED",
               event'[e].attempts >= event[e].attempts
        PROVE  event'[e].attempts >= MaxAttempts
    <3>1. event[e] \in EventRow /\ event'[e] \in EventRow
      BY <2>1 DEF Inv, TypeOK, NoEvent
    <3>2. event[e].attempts \in Nat /\ event'[e].attempts \in Nat
      BY <3>1, OutboxAssumption DEF EventRow, Ceiling
    <3>3. QED
      BY <2>1, <3>2, OutboxAssumption DEF Inv, ParkedAfterAllAttempts
  <2>2. QED
    BY <2>1 DEF ParkedAfterAllAttempts
<1>5. QED
  BY <1>1, <1>2, <1>3, <1>4 DEF Inv

(***************************************************************************)
(* Each step preserves it.                                                 *)
(***************************************************************************)
LEMMA InitInv == Init => Inv
BY OutboxAssumption
DEF Init, Inv, TypeOK, ClearedOwesNothing, TicketsAreKept, WorkIsRecorded,
    ProcessedOwesNothing, ParkedAfterAllAttempts, NoEvent, Idle

\* Steps that only change an event's row, and settle nothing.
LEMMA RowStep ==
    ASSUME Inv, NEW e \in Events, NEW row \in EventRow,
           event' = [event EXCEPT ![e] = row], UNCHANGED <<persisted, batch, current, deaths>>,
           event[e] \in EventRow => /\ row.attempts = event[e].attempts
                                    /\ row.payload = event[e].payload,
           event[e] = NoEvent => row.payload,
           row.status \notin {"PROCESSED", "FAILED"}
    PROVE  Inv'
<1>1. TypeOK'
  BY DEF Inv, TypeOK
<1>2. GoesOn
  <2>1. \A a \in Events : persisted[a] \in Nat
    BY DEF Inv, TypeOK
  <2>2. \A a \in Events : event[a] \in EventRow => event[a].attempts \in Int
    BY OutboxAssumption DEF EventRow, Ceiling
  <2>3. QED
    BY <2>1, <2>2 DEF GoesOn, Inv, TypeOK
<1>3. \A a \in Events : event'[a] # NoEvent /\ ~event'[a].payload =>
          event[a] # NoEvent /\ ~event[a].payload
  BY DEF Inv, TypeOK
<1>4. \A a \in Events : event'[a].status \in {"PROCESSED", "FAILED"} =>
          event[a] = event'[a] /\ event[a] \in EventRow
  BY DEF Inv, TypeOK, NoEvent
<1>5. \A a \in Events : event'[a].status = "FAILED" =>
          event[a].status = "FAILED" /\ event'[a].attempts >= event[a].attempts
  BY <1>2, <1>4 DEF GoesOn
<1>6. QED
  BY <1>1, <1>2, <1>3, <1>4, <1>5, Preserves

LEMMA WriteInv == ASSUME Inv, NEW e \in Events, Write(e) PROVE Inv'
<1> DEFINE row == [status |-> "PENDING", attempts |-> 0, available |-> TRUE,
                   stale |-> FALSE, payload |-> TRUE]
<1>1. row \in EventRow /\ row.status = "PENDING" /\ row.payload
  BY OutboxAssumption DEF EventRow, Statuses, Ceiling
<1>2. event[e] = NoEvent /\ NoEvent \notin EventRow
  BY DEF Write, NoEvent, EventRow
<1>3. QED
  BY <1>1, <1>2, RowStep DEF Write

LEMMA WakeInv == ASSUME Inv, NEW e \in Events, Wake(e) PROVE Inv'
<1> DEFINE row == [event[e] EXCEPT !.available = TRUE]
<1>1. event[e] \in EventRow /\ event[e] # NoEvent
  BY DEF Wake, Inv, TypeOK, NoEvent
<1>2. /\ row \in EventRow /\ row.status = "PENDING"
      /\ row.attempts = event[e].attempts /\ row.payload = event[e].payload
  BY <1>1 DEF Wake, EventRow
<1>3. event' = [event EXCEPT ![e] = row]
  BY DEF Wake
<1>4. QED
  BY <1>1, <1>2, <1>3, RowStep DEF Wake

LEMMA ExpireInv == ASSUME Inv, NEW e \in Events, Expire(e) PROVE Inv'
<1> DEFINE row == [event[e] EXCEPT !.stale = TRUE]
<1>1. event[e] \in EventRow /\ event[e] # NoEvent
  BY DEF Expire, Inv, TypeOK, NoEvent
<1>2. /\ row \in EventRow /\ row.status = "PROCESSING"
      /\ row.attempts = event[e].attempts /\ row.payload = event[e].payload
  BY <1>1 DEF Expire, EventRow
<1>3. event' = [event EXCEPT ![e] = row]
  BY DEF Expire
<1>4. QED
  BY <1>1, <1>2, <1>3, RowStep DEF Expire

\* Steps of one poller that leave every row alone.
LEMMA PollerStep ==
    ASSUME Inv, TypeOK', NEW p \in Pollers,
           event' = event, \A e \in Events : persisted'[e] >= persisted[e],
           batch'[p] \subseteq batch[p],
           \A q \in Pollers \ {p} : batch'[q] = batch[q] /\ current'[q] = current[q],
           current'[p] = Idle \/ Recorded(current[p])'
    PROVE  Inv'
<1>1. GoesOn
  BY OutboxAssumption DEF GoesOn, EventRow, Ceiling
<1>2. \A q \in Pollers : \A t \in batch'[q] : t \in batch[q]
  OBVIOUS
<1>3. \A q \in Pollers : current'[q] \in {current[q], Idle} \/ Recorded(current[q])'
  OBVIOUS
<1>4. \A e \in Events : event'[e].status = "FAILED" =>
          event[e].status = "FAILED" /\ event'[e].attempts >= event[e].attempts
  BY <1>1 DEF GoesOn, Inv, TypeOK, NoEvent
<1>5. QED
  BY <1>1, <1>2, <1>3, <1>4, Preserves

LEMMA TakeInv == ASSUME Inv, NEW p \in Pollers, Take(p) PROVE Inv'
<1>1. PICK t \in batch[p] :
          /\ current' = [current EXCEPT ![p] =
                            [step |-> "dispatch", ticket |-> t, next |-> 1]]
          /\ batch' = [batch EXCEPT ![p] = @ \ {t}]
  BY DEF Take
<1>2. /\ TypeOK /\ event' = event /\ persisted' = persisted /\ deaths' = deaths
      /\ t \in Ticket /\ Kept(t)
  BY DEF Take, Inv, TypeOK, TicketsAreKept
<1>3. [step |-> "dispatch", ticket |-> t, next |-> 1] \in Work
  BY <1>2 DEF Work
<1>4. TypeOK'
  BY <1>1, <1>2, <1>3 DEF TypeOK
<1>5. Recorded(current[p])'
  <2>1. current'[p] = [step |-> "dispatch", ticket |-> t, next |-> 1]
    BY <1>1, <1>2 DEF TypeOK
  <2>2. Kept(t)' /\ persisted'[t.event] >= 0
    BY <1>2 DEF Kept, Ticket, TypeOK
  <2>3. QED
    BY <2>1, <2>2 DEF Recorded
<1>6. \A e \in Events : persisted'[e] >= persisted[e]
  BY <1>2 DEF TypeOK
<1>7. QED
  BY <1>1, <1>2, <1>4, <1>5, <1>6, PollerStep DEF TypeOK

LEMMA PersistInv == ASSUME Inv, NEW p \in Pollers, Persist(p) PROVE Inv'
<1> DEFINE w == current[p]
           e == w.ticket.event
           n == w.next
           step == IF n + 1 > Rows[e] THEN "processed" ELSE "dispatch"
           v == [w EXCEPT !.next = n + 1, !.step = step]
<1>1. /\ TypeOK /\ event' = event /\ batch' = batch /\ deaths' = deaths
      /\ w.step = "dispatch"
      /\ persisted' = [persisted EXCEPT ![e] = IF n <= @ THEN @ ELSE n]
      /\ current' = [current EXCEPT ![p] = v]
  BY DEF Inv, Persist, RowAfter
<1>2. /\ w \in Work /\ w.ticket \in Ticket /\ e \in Events /\ n \in Nat \ {0}
      /\ w # Idle /\ Rows[e] \in Nat
  <2>1. w # Idle
    BY <1>1 DEF Idle
  <2>2. w \in Work
    BY <1>1, <2>1 DEF TypeOK
  <2>3. w.ticket \in Ticket /\ n \in Nat \ {0}
    BY <2>2 DEF Work
  <2>4. e \in Events
    BY <2>3 DEF Ticket
  <2>5. QED
    BY <2>1, <2>2, <2>3, <2>4, OutboxAssumption
<1>3. /\ persisted' \in [Events -> Nat] /\ persisted'[e] >= n
      /\ \A a \in Events : persisted'[a] >= persisted[a]
  BY <1>1, <1>2 DEF TypeOK
<1>4. /\ v \in Work /\ v.ticket = w.ticket /\ v.next = n + 1 /\ v.step = step
  <2>1. step \in {"processed", "dispatch"} /\ n + 1 \in Nat \ {0}
    BY <1>2
  <2> HIDE DEF step
  <2>2. QED
    BY <1>2, <2>1 DEF Work
<1>5. TypeOK'
  BY <1>1, <1>3, <1>4 DEF TypeOK
<1>6. GoesOn
  BY <1>1, <1>3, OutboxAssumption DEF GoesOn, EventRow, Ceiling
<1>7. Kept(w.ticket)
  BY <1>2 DEF Inv, WorkIsRecorded, Recorded
<1>8. Recorded(current[p])'
  <2>1. current'[p] = v
    BY <1>1 DEF TypeOK
  <2>2. \A t \in Ticket : Kept(t) => Kept(t)'
    BY <1>1, <1>5, <1>6, TicketsStay
  <2>3. step = "processed" => n >= Rows[e]
    BY <1>2
  <2>4. persisted'[e] \in Nat
    BY <1>2, <1>3
  <2>5. step = "processed" => persisted'[e] >= Rows[e]
    BY <1>2, <1>3, <2>3, <2>4
  <2>6. QED
    BY <1>2, <1>3, <1>4, <1>7, <2>1, <2>2, <2>5 DEF Recorded
<1>9. QED
  BY <1>1, <1>3, <1>5, <1>8, PollerStep DEF TypeOK

LEMMA DiscardInv == ASSUME Inv, NEW p \in Pollers, Discard(p) PROVE Inv'
<1> DEFINE w == current[p]
           v == [w EXCEPT !.step = "processed"]
<1>1. /\ TypeOK /\ event' = event /\ batch' = batch /\ deaths' = deaths
      /\ persisted' = persisted /\ w.step = "dispatch" /\ ~w.ticket.payload
      /\ current' = [current EXCEPT ![p] = v]
  BY DEF Inv, Discard, Unusable
<1>2. w \in Work /\ w.ticket \in Ticket /\ w # Idle
  BY <1>1 DEF TypeOK, Work, Idle
<1>3. v \in Work /\ v.ticket = w.ticket /\ v.step = "processed"
  BY <1>2 DEF Work
<1>4. TypeOK'
  BY <1>1, <1>3 DEF TypeOK
<1>5. Kept(w.ticket)
  BY <1>2 DEF Inv, WorkIsRecorded, Recorded
<1>6. Recorded(current[p])'
  <2>1. current'[p] = v
    BY <1>1 DEF TypeOK
  <2>2. Kept(w.ticket)' /\ persisted'[w.ticket.event] >= Rows[w.ticket.event]
    BY <1>1, <1>5 DEF Kept
  <2>3. QED
    BY <1>3, <2>1, <2>2 DEF Recorded
<1>7. \A e \in Events : persisted'[e] >= persisted[e]
  BY <1>1 DEF TypeOK
<1>8. QED
  BY <1>1, <1>4, <1>6, <1>7, PollerStep DEF TypeOK

LEMMA ThrowInv == ASSUME Inv, NEW p \in Pollers, Throw(p) PROVE Inv'
<1> DEFINE w == current[p]
           v == [w EXCEPT !.step = "failed"]
<1>1. /\ TypeOK /\ event' = event /\ batch' = batch /\ deaths' = deaths
      /\ persisted' = persisted /\ w.step \in {"dispatch", "processed"}
      /\ current' = [current EXCEPT ![p] = v]
  BY DEF Inv, Throw
<1>2. w \in Work /\ w.ticket \in Ticket /\ w # Idle
  BY <1>1 DEF TypeOK, Work, Idle
<1>3. v \in Work /\ v.ticket = w.ticket /\ v.step = "failed"
  BY <1>2 DEF Work
<1>4. TypeOK'
  BY <1>1, <1>3 DEF TypeOK
<1>5. Kept(w.ticket)
  BY <1>2 DEF Inv, WorkIsRecorded, Recorded
<1>6. Recorded(current[p])'
  <2>1. current'[p] = v
    BY <1>1 DEF TypeOK
  <2>2. Kept(w.ticket)'
    BY <1>1, <1>5 DEF Kept
  <2>3. QED
    BY <1>3, <2>1, <2>2 DEF Recorded
<1>7. \A e \in Events : persisted'[e] >= persisted[e]
  BY <1>1 DEF TypeOK
<1>8. QED
  BY <1>1, <1>4, <1>6, <1>7, PollerStep DEF TypeOK

LEMMA DieInv == ASSUME Inv, NEW p \in Pollers, Die(p) PROVE Inv'
<1>1. /\ TypeOK /\ event' = event /\ persisted' = persisted /\ deaths' = deaths + 1
      /\ batch' = [batch EXCEPT ![p] = {}] /\ current' = [current EXCEPT ![p] = Idle]
  BY DEF Die, Inv
<1>2. TypeOK'
  BY <1>1 DEF TypeOK
<1>3. \A e \in Events : persisted'[e] >= persisted[e]
  BY <1>1 DEF TypeOK
<1>4. QED
  BY <1>1, <1>2, <1>3, PollerStep DEF TypeOK

LEMMA ClaimInv ==
    ASSUME Inv, NEW p \in Pollers, NEW es \in SUBSET Events, ClaimBatch(p, es)
    PROVE  Inv'
<1>1. /\ TypeOK /\ persisted' = persisted /\ current' = current /\ deaths' = deaths
      /\ event' = [e \in Events |-> IF e \in es THEN ClaimedRow(event[e]) ELSE event[e]]
      /\ batch' = [batch EXCEPT ![p] = {TicketOf(e) : e \in es}]
  BY DEF Inv, ClaimBatch
<1>2. \A e \in es : event[e] \in EventRow
  BY <1>1 DEF ClaimBatch, Claimable, TypeOK, NoEvent
<1>3. \A e \in es :
          /\ event'[e] = ClaimedRow(event[e]) /\ event'[e] \in EventRow
          /\ event'[e].attempts = Raised(event[e].attempts)
          /\ event'[e].status = "PROCESSING" /\ event'[e].payload = event[e].payload
  BY <1>1, <1>2, ClaimedType
<1>4. \A e \in es : /\ event[e].attempts \in 0..Ceiling
                     /\ Raised(event[e].attempts) \in 1..Ceiling
                     /\ Raised(event[e].attempts) >= event[e].attempts
  <2>1. \A e \in es : event[e].attempts \in 0..Ceiling
    BY <1>2 DEF EventRow
  <2>2. QED
    BY <2>1, RaisedType
<1>5. \A e \in es : /\ TicketOf(e) \in Ticket
                     /\ TicketOf(e).event = e
                     /\ TicketOf(e).attempts = event'[e].attempts
                     /\ TicketOf(e).payload = event'[e].payload
  BY <1>2, <1>3, <1>4 DEF TicketOf, Ticket, EventRow
<1>6. TypeOK'
  <2>1. event' \in [Events -> EventRow \cup {NoEvent}]
    BY <1>1, <1>3 DEF TypeOK
  <2>2. batch' \in [Pollers -> SUBSET Ticket]
    <3>1. {TicketOf(e) : e \in es} \in SUBSET Ticket
      BY <1>5
    <3>2. QED
      BY <1>1, <3>1 DEF TypeOK
  <2>3. QED
    BY <1>1, <2>1, <2>2 DEF TypeOK
<1>7. GoesOn
  <2>1. ASSUME NEW e \in Events, event[e] \in EventRow
        PROVE  event'[e] \in EventRow /\ event'[e].attempts >= event[e].attempts
    <3>1. CASE e \in es
      BY <3>1, <1>3, <1>4
    <3>2. CASE e \notin es
      BY <3>2, <2>1, <1>1, OutboxAssumption DEF EventRow, Ceiling
    <3>3. QED
      BY <3>1, <3>2
  <2>2. QED
    BY <1>1, <2>1 DEF GoesOn, TypeOK
<1>8. \A e \in es : ~event[e].payload => persisted[e] >= Rows[e]
  BY <1>2 DEF Inv, ClearedOwesNothing, NoEvent, EventRow
<1>9. \A t \in {TicketOf(e) : e \in es} : Kept(t)'
  <2>1. ASSUME NEW t, NEW e \in es, t = TicketOf(e) PROVE Kept(t)'
    <3>1. event'[e].attempts \in Int
      BY <1>3, OutboxAssumption DEF EventRow, Ceiling
    <3>2. /\ t.event = e /\ t.attempts = event'[e].attempts /\ t.payload = event[e].payload
          /\ event'[e] \in EventRow
      BY <1>3, <1>5, <2>1
    <3>3. ~t.payload => persisted'[e] >= Rows[e]
      BY <1>1, <1>8, <3>2
    <3>4. QED
      BY <3>1, <3>2, <3>3 DEF Kept
  <2>2. QED
    BY <2>1
<1>10. \A q \in Pollers : \A t \in batch'[q] : t \in batch[q] \/ Kept(t)'
  <2>1. batch'[p] = {TicketOf(e) : e \in es}
    BY <1>1 DEF TypeOK
  <2>2. \A q \in Pollers \ {p} : batch'[q] = batch[q]
    BY <1>1 DEF TypeOK
  <2>3. QED
    BY <1>9, <2>1, <2>2
<1>11. \A e \in Events : event'[e] # NoEvent /\ ~event'[e].payload =>
           event[e] # NoEvent /\ ~event[e].payload
  <2>1. \A e \in es : event[e] # NoEvent
    BY <1>2 DEF NoEvent, EventRow
  <2>2. QED
    BY <1>1, <1>3, <2>1
<1>12. \A e \in Events : event'[e].status \in {"PROCESSED", "FAILED"} =>
           event'[e] = event[e]
  BY <1>1, <1>3
<1>13. \A e \in Events : event'[e].status = "FAILED" =>
           event[e].status = "FAILED" /\ event'[e].attempts >= event[e].attempts
  <2>1. \A e \in Events : event[e].status = "FAILED" => event[e] \in EventRow
    BY <1>1 DEF TypeOK, NoEvent
  <2>2. QED
    BY <1>7, <1>12, <2>1 DEF GoesOn
<1>14. \A e \in Events : event'[e].status = "PROCESSED" => event[e].status = "PROCESSED"
  BY <1>12
<1>15. \A q \in Pollers : current'[q] \in {current[q], Idle}
  BY <1>1
<1>16. QED
  BY <1>6, <1>7, <1>10, <1>11, <1>13, <1>14, <1>15, Preserves

\* Settling an event ends the poller's work on it.
LEMMA SettleStep ==
    ASSUME Inv, NEW p \in Pollers, NEW e \in Events, NEW row \in EventRow,
           event' = [event EXCEPT ![e] = row], current' = [current EXCEPT ![p] = Idle],
           UNCHANGED <<persisted, batch, deaths>>,
           event[e] \in EventRow, row.attempts = event[e].attempts,
           ~row.payload => ~event[e].payload \/ persisted[e] >= Rows[e],
           row.status = "PROCESSED" => persisted[e] >= Rows[e],
           row.status = "FAILED" => row.attempts >= MaxAttempts
    PROVE  Inv'
<1>1. TypeOK'
  BY DEF Inv, TypeOK
<1>2. event'[e] = row /\ \A a \in Events \ {e} : event'[a] = event[a]
  BY DEF Inv, TypeOK
<1>3. \A a \in Events : event[a] \in EventRow => event[a].attempts \in Int
  BY OutboxAssumption DEF EventRow, Ceiling
<1>4. GoesOn
  BY <1>2, <1>3 DEF GoesOn, Inv, TypeOK
<1>5. event[e] # NoEvent
  BY DEF EventRow, NoEvent
<1>6. \A a \in Events : event'[a] # NoEvent /\ ~event'[a].payload =>
          \/ persisted'[a] >= Rows[a]
          \/ event[a] # NoEvent /\ ~event[a].payload
  BY <1>2, <1>5
<1>7. \A a \in Events : event'[a].status = "PROCESSED" =>
          event[a].status = "PROCESSED" \/ persisted'[a] >= Rows[a]
  BY <1>2
<1>8. \A a \in Events : event[a].status = "FAILED" => event[a] \in EventRow
  BY DEF Inv, TypeOK, NoEvent
<1>9. \A a \in Events : event'[a].status = "FAILED" =>
          \/ event[a].status = "FAILED" /\ event'[a].attempts >= event[a].attempts
          \/ event'[a].attempts >= MaxAttempts
  BY <1>2, <1>4, <1>8 DEF GoesOn
<1>10. \A q \in Pollers : current'[q] \in {current[q], Idle}
  BY DEF Inv, TypeOK
<1>11. QED
  BY <1>1, <1>4, <1>6, <1>7, <1>9, <1>10, Preserves

LEMMA MarkProcessedInv == ASSUME Inv, NEW p \in Pollers, MarkProcessed(p) PROVE Inv'
<1> DEFINE e == current[p].ticket.event
           row == Processed(event[e])
<1>1. TypeOK /\ current[p] # Idle /\ current[p] \in Work /\ current[p].step = "processed"
  BY DEF MarkProcessed, Inv, TypeOK, Idle
<1>2. e \in Events
  BY <1>1 DEF Work, Ticket
<1>3. event[e] \in EventRow /\ persisted[e] >= Rows[e]
  BY <1>1 DEF Inv, WorkIsRecorded, Recorded, Kept
<1>4. row \in EventRow /\ row.attempts = event[e].attempts
  BY <1>3, SettledType
<1>5. row.status = "PROCESSED"
  BY <1>3 DEF Processed, EventRow
<1>6. event' = [event EXCEPT ![e] = row] /\ current' = [current EXCEPT ![p] = Idle]
      /\ UNCHANGED <<persisted, batch, deaths>>
  BY DEF MarkProcessed
<1> HIDE DEF e, row
<1>7. QED
  BY <1>2, <1>3, <1>4, <1>5, <1>6, SettleStep

LEMMA SettleFailureInv == ASSUME Inv, NEW p \in Pollers, SettleFailure(p) PROVE Inv'
<1> DEFINE t == current[p].ticket
           e == t.event
           row == IF Exhausted(t) THEN Parked(event[e]) ELSE Retried(event[e])
<1>1. TypeOK /\ current[p] # Idle /\ current[p] \in Work /\ current[p].step = "failed"
  BY DEF SettleFailure, Inv, TypeOK, Idle
<1>2. t \in Ticket
  BY <1>1 DEF Work
<1>3. e \in Events /\ t.attempts \in Nat
  BY <1>2, OutboxAssumption DEF Ticket, Ceiling
<1>4. event[e] \in EventRow /\ t.attempts <= event[e].attempts
  BY <1>1 DEF Inv, WorkIsRecorded, Recorded, Kept
<1>5. event[e].attempts \in Nat
  BY <1>4, OutboxAssumption DEF EventRow, Ceiling
<1>6. row \in EventRow /\ row.attempts = event[e].attempts
  BY <1>4, SettledType
<1>7. row.payload = event[e].payload
  BY <1>4 DEF Parked, Retried, EventRow
<1>8. row.status = "FAILED" => Exhausted(t)
  BY <1>4 DEF Retried, EventRow
<1>9. row.status # "PROCESSED"
  BY <1>4 DEF Parked, Retried, EventRow
<1>10. row.status = "FAILED" => row.attempts >= MaxAttempts
  BY <1>3, <1>4, <1>5, <1>6, <1>8, OutboxAssumption DEF Exhausted
<1>11. event' = [event EXCEPT ![e] = row] /\ current' = [current EXCEPT ![p] = Idle]
       /\ UNCHANGED <<persisted, batch, deaths>>
  BY DEF SettleFailure
<1> HIDE DEF e, row
<1>12. QED
  BY <1>3, <1>4, <1>6, <1>7, <1>9, <1>10, <1>11, SettleStep

LEMMA StutterInv == ASSUME Inv, UNCHANGED vars PROVE Inv'
BY DEF Inv, vars, TypeOK, ClearedOwesNothing, TicketsAreKept, WorkIsRecorded, Recorded, Kept,
    ProcessedOwesNothing, ParkedAfterAllAttempts

LEMMA NextInv == Inv /\ [Next]_vars => Inv'
<1> SUFFICES ASSUME Inv, [Next]_vars PROVE Inv'
  OBVIOUS
<1>1. ASSUME NEW e \in Events, Write(e) \/ Wake(e) \/ Expire(e) PROVE Inv'
  BY <1>1, WriteInv, WakeInv, ExpireInv
<1>2. ASSUME NEW p \in Pollers, Claim(p) PROVE Inv'
  BY <1>2, ClaimInv DEF Claim
<1>3. ASSUME NEW p \in Pollers, Progress(p) PROVE Inv'
  BY <1>3, TakeInv, PersistInv, DiscardInv, MarkProcessedInv, SettleFailureInv DEF Progress
<1>4. ASSUME NEW p \in Pollers, Throw(p) \/ Die(p) PROVE Inv'
  BY <1>4, ThrowInv, DieInv
<1>5. QED
  BY <1>1, <1>2, <1>3, <1>4, StutterInv DEF Next

(***************************************************************************)
(* The theorems about every behaviour.                                     *)
(***************************************************************************)
\* What pollers remember of the events they claimed stays true of them, however old
\* the claim, and clearing a payload never takes a message with it.
THEOREM WorkIsNeverLost == Spec => []Inv
BY InitInv, NextInv, PTL DEF Spec

\* The rows and the pollers' memories keep their types.
THEOREM TypeCorrect == Spec => []TypeOK
<1>1. Inv => TypeOK
  BY DEF Inv
<1>2. QED
  BY <1>1, WorkIsNeverLost, PTL

\* An event is processed only when every message it owes is on record
\* (dispatchOne, markProcessed), whoever else had claimed it.
THEOREM NoMessageIsLost == Spec => []ProcessedOwesNothing
<1>1. Inv => ProcessedOwesNothing
  BY DEF Inv
<1>2. QED
  BY <1>1, WorkIsNeverLost, PTL

\* An event is given up only after all its attempts (settleFailure), also when the
\* poller that gives it up had lost its claim long ago.
THEOREM NoEventIsGivenUpEarly == Spec => []ParkedAfterAllAttempts
<1>1. Inv => ParkedAfterAllAttempts
  BY DEF Inv
<1>2. QED
  BY <1>1, WorkIsNeverLost, PTL

(***************************************************************************)
(* When only dead pollers lose their claims.                               *)
(***************************************************************************)
\* A claim that may be taken over has no holder left.
StaleClaimIsFree ==
    \A e \in Events, p \in Pollers :
        event[e].status = "PROCESSING" /\ event[e].stale => ~Holds(p, e)

\* What is being dispatched is no longer in the batch.
CurrentIsTaken ==
    \A p \in Pollers : current[p] # Idle =>
        \A t \in batch[p] : t.event # current[p].ticket.event

PatientInv == Inv /\ OneHolder /\ StaleClaimIsFree /\ CurrentIsTaken

LEMMA InitPatient == Init => PatientInv
<1>1. Init => OneHolder /\ StaleClaimIsFree /\ CurrentIsTaken
  BY DEF Init, OneHolder, StaleClaimIsFree, CurrentIsTaken, Holds, Idle
<1>2. QED
  BY <1>1, InitInv DEF PatientInv

\* What a step has to show that gives no poller an event it did not have.
LEMMA FewerHolders ==
    ASSUME PatientInv, Inv',
           \A p \in Pollers, e \in Events : Holds(p, e)' =>
               /\ Holds(p, e)
               /\ event'[e].status = "PROCESSING"
               /\ ~event'[e].stale,
           \A p \in Pollers : batch'[p] \subseteq batch[p],
           \A p \in Pollers : current'[p] # Idle =>
               \A t \in batch'[p] : t.event # current'[p].ticket.event
    PROVE  PatientInv'
<1>1. OneHolder'
  BY DEF PatientInv, OneHolder
<1>2. StaleClaimIsFree' /\ CurrentIsTaken'
  BY DEF StaleClaimIsFree, CurrentIsTaken
<1>3. QED
  BY <1>1, <1>2 DEF PatientInv

\* Events nobody holds may change, as long as the pollers do not.
LEMMA PatientRowStep ==
    ASSUME PatientInv, Inv', UNCHANGED <<batch, current>>,
           \A e \in Events : event'[e] = event[e] \/ \A p \in Pollers : ~Holds(p, e)
    PROVE  PatientInv'
<1>1. \A p \in Pollers, e \in Events : Holds(p, e)' => Holds(p, e)
  BY DEF Holds
<1>2. \A p \in Pollers, e \in Events : Holds(p, e) =>
          /\ event[e].status = "PROCESSING" /\ event[e] \in EventRow /\ ~event[e].stale
  BY DEF PatientInv, OneHolder, StaleClaimIsFree, Inv, TypeOK, NoEvent
<1>3. \A p \in Pollers, e \in Events : Holds(p, e)' =>
          /\ Holds(p, e) /\ event'[e].status = "PROCESSING" /\ ~event'[e].stale
  BY <1>1, <1>2
<1>4. QED
  BY <1>3, FewerHolders DEF PatientInv, CurrentIsTaken

\* One poller goes on with what it has, or drops it, and no row changes.
LEMMA PatientPollerStep ==
    ASSUME PatientInv, Inv', event' = event, NEW p \in Pollers,
           \A q \in Pollers \ {p} : batch'[q] = batch[q] /\ current'[q] = current[q],
           \A e \in Events : Holds(p, e)' => Holds(p, e),
           batch'[p] \subseteq batch[p],
           current'[p] # Idle => \A t \in batch'[p] : t.event # current'[p].ticket.event
    PROVE  PatientInv'
<1>1. \A q \in Pollers, e \in Events : Holds(q, e)' => Holds(q, e)
  BY DEF Holds
<1>2. \A q \in Pollers, e \in Events : Holds(q, e) =>
          event[e].status = "PROCESSING" /\ ~event[e].stale
  BY DEF PatientInv, OneHolder, StaleClaimIsFree
<1>3. \A q \in Pollers, e \in Events : Holds(q, e)' =>
          /\ Holds(q, e) /\ event'[e].status = "PROCESSING" /\ ~event'[e].stale
  BY <1>1, <1>2
<1>4. QED
  BY <1>3, FewerHolders DEF PatientInv, CurrentIsTaken

LEMMA PatientWriteWake ==
    ASSUME PatientInv, Inv', NEW e \in Events, Write(e) \/ Wake(e)
    PROVE  PatientInv'
<1>1. event[e].status # "PROCESSING"
  BY DEF Write, Wake, NoEvent
<1>2. \A p \in Pollers : ~Holds(p, e)
  BY <1>1 DEF PatientInv, OneHolder
<1>3. \A a \in Events \ {e} : event'[a] = event[a]
  BY DEF Write, Wake, PatientInv, Inv, TypeOK
<1>4. UNCHANGED <<batch, current>>
  BY DEF Write, Wake
<1>5. QED
  BY <1>2, <1>3, <1>4, PatientRowStep

LEMMA PatientExpire ==
    ASSUME PatientInv, Inv', Patient, NEW e \in Events, Expire(e)
    PROVE  PatientInv'
<1>1. event[e] \in EventRow
  BY DEF Expire, PatientInv, Inv, TypeOK, NoEvent
<1>2. event'[e].stale
  BY <1>1 DEF Expire, PatientInv, Inv, TypeOK, EventRow
<1>3. \A p \in Pollers : ~Holds(p, e)
  BY <1>2 DEF Expire, Patient
<1>4. \A a \in Events \ {e} : event'[a] = event[a]
  BY DEF Expire, PatientInv, Inv, TypeOK
<1>5. UNCHANGED <<batch, current>>
  BY DEF Expire
<1>6. QED
  BY <1>3, <1>4, <1>5, PatientRowStep

LEMMA PatientClaim ==
    ASSUME PatientInv, Inv', NEW p \in Pollers, NEW es \in SUBSET Events, ClaimBatch(p, es)
    PROVE  PatientInv'
<1>1. /\ current[p] = Idle /\ batch[p] = {} /\ current' = current
      /\ batch' = [batch EXCEPT ![p] = {TicketOf(e) : e \in es}]
      /\ \A e \in es : Claimable(e)
      /\ event' = [e \in Events |-> IF e \in es THEN ClaimedRow(event[e]) ELSE event[e]]
      /\ TypeOK
  BY DEF ClaimBatch, PatientInv, Inv
<1>2. \A e \in es, q \in Pollers : ~Holds(q, e)
  BY <1>1 DEF Claimable, PatientInv, OneHolder, StaleClaimIsFree
<1>3. \A e \in es : event'[e].status = "PROCESSING" /\ ~event'[e].stale
  <2>1. \A e \in es : event[e] \in EventRow
    BY <1>1 DEF Claimable, TypeOK, NoEvent
  <2>2. QED
    BY <1>1, <2>1, ClaimedType
<1>4. \A e \in es : TicketOf(e).event = e
  BY DEF TicketOf
<1>5. batch'[p] = {TicketOf(e) : e \in es} /\ \A q \in Pollers \ {p} : batch'[q] = batch[q]
  BY <1>1 DEF TypeOK
<1>6. \A e \in Events : Holds(p, e)' => e \in es
  BY <1>1, <1>4, <1>5 DEF Holds
<1>7. \A q \in Pollers \ {p}, e \in Events : Holds(q, e)' => Holds(q, e) /\ e \notin es
  BY <1>1, <1>2, <1>5 DEF Holds
<1>8. \A q \in Pollers, e \in Events : Holds(q, e) =>
          event[e].status = "PROCESSING" /\ ~event[e].stale
  BY DEF PatientInv, OneHolder, StaleClaimIsFree
<1>9. \A q \in Pollers, e \in Events : Holds(q, e)' =>
          event'[e].status = "PROCESSING" /\ ~event'[e].stale
  BY <1>1, <1>3, <1>6, <1>7, <1>8
<1>10. \A q, r \in Pollers, e \in Events : Holds(q, e)' /\ Holds(r, e)' => q = r
  BY <1>6, <1>7 DEF PatientInv, OneHolder
<1>11. \A q \in Pollers : \A t, u \in batch'[q] : t.event = u.event => t = u
  <2>1. \A t, u \in batch'[p] : t.event = u.event => t = u
    BY <1>4, <1>5
  <2>2. ASSUME NEW q \in Pollers \ {p}
        PROVE  \A t, u \in batch'[q] : t.event = u.event => t = u
    <3>1. \A t \in batch[q] : t.event \in Events
      BY <1>1 DEF TypeOK, Ticket
    <3>2. QED
      BY <1>5, <3>1 DEF PatientInv, OneHolder
  <2>3. QED
    BY <2>1, <2>2
<1>12. OneHolder'
  BY <1>9, <1>10, <1>11 DEF OneHolder
<1>13. StaleClaimIsFree'
  BY <1>9 DEF StaleClaimIsFree
<1>14. CurrentIsTaken'
  BY <1>1, <1>5 DEF CurrentIsTaken, PatientInv
<1>15. QED
  BY <1>12, <1>13, <1>14 DEF PatientInv

LEMMA PatientTake ==
    ASSUME PatientInv, Inv', NEW p \in Pollers, Take(p)
    PROVE  PatientInv'
<1>1. PICK t \in batch[p] :
          /\ current' = [current EXCEPT ![p] =
                            [step |-> "dispatch", ticket |-> t, next |-> 1]]
          /\ batch' = [batch EXCEPT ![p] = @ \ {t}]
  BY DEF Take
<1>2. TypeOK /\ event' = event /\ t.event \in Events
  BY DEF Take, PatientInv, Inv, TypeOK, Ticket
<1>3. /\ current'[p].ticket = t /\ batch'[p] = batch[p] \ {t}
      /\ \A q \in Pollers \ {p} : batch'[q] = batch[q] /\ current'[q] = current[q]
  BY <1>1, <1>2 DEF TypeOK
<1>4. \A e \in Events : Holds(p, e)' => Holds(p, e)
  BY <1>3 DEF Holds
<1>5. \A u \in batch'[p] : u.event # current'[p].ticket.event
  BY <1>2, <1>3 DEF PatientInv, OneHolder
<1>6. QED
  BY <1>2, <1>3, <1>4, <1>5, PatientPollerStep

\* Within a dispatch the ticket does not change.
LEMMA PatientDispatch ==
    ASSUME PatientInv, Inv', NEW p \in Pollers, Persist(p) \/ Discard(p) \/ Throw(p)
    PROVE  PatientInv'
<1>1. TypeOK /\ event' = event /\ batch' = batch
  BY DEF Persist, Discard, Throw, PatientInv, Inv
<1>2. current[p] # Idle /\ current[p] \in Work
  BY <1>1 DEF Persist, Discard, Throw, Idle, TypeOK
<1>3. current'[p].ticket = current[p].ticket
  <2>1. CASE Persist(p)
    <3>1. PICK after, step :
              current'[p] = [current[p] EXCEPT !.next = after, !.step = step]
      BY <1>1, <2>1 DEF Persist, TypeOK
    <3>2. QED
      BY <1>2, <3>1 DEF Work
  <2>2. CASE Discard(p)
    BY <1>1, <1>2, <2>2 DEF Discard, TypeOK, Work
  <2>3. CASE Throw(p)
    BY <1>1, <1>2, <2>3 DEF Throw, TypeOK, Work
  <2>4. QED
    BY <2>1, <2>2, <2>3
<1>4. \A q \in Pollers \ {p} : current'[q] = current[q]
  BY <1>1 DEF Persist, Discard, Throw, TypeOK
<1>5. \A e \in Events : Holds(p, e)' => Holds(p, e)
  BY <1>1, <1>2, <1>3 DEF Holds
<1>6. \A t \in batch'[p] : t.event # current'[p].ticket.event
  BY <1>1, <1>2, <1>3 DEF PatientInv, CurrentIsTaken
<1>7. QED
  BY <1>1, <1>4, <1>5, <1>6, PatientPollerStep

LEMMA PatientDie ==
    ASSUME PatientInv, Inv', NEW p \in Pollers, Die(p)
    PROVE  PatientInv'
<1>1. /\ event' = event /\ batch'[p] = {} /\ current'[p] = Idle
      /\ \A q \in Pollers \ {p} : batch'[q] = batch[q] /\ current'[q] = current[q]
  BY DEF Die, PatientInv, Inv, TypeOK
<1>2. \A e \in Events : Holds(p, e)' => Holds(p, e)
  BY <1>1 DEF Holds
<1>3. QED
  BY <1>1, <1>2, PatientPollerStep

LEMMA PatientSettle ==
    ASSUME PatientInv, Inv', NEW p \in Pollers, MarkProcessed(p) \/ SettleFailure(p)
    PROVE  PatientInv'
<1> DEFINE e == current[p].ticket.event
<1>1. /\ TypeOK /\ batch' = batch /\ current' = [current EXCEPT ![p] = Idle]
      /\ \A a \in Events \ {e} : event'[a] = event[a]
  BY DEF MarkProcessed, SettleFailure, PatientInv, Inv, TypeOK
<1>2. current[p] # Idle /\ current[p] \in Work
  BY <1>1 DEF MarkProcessed, SettleFailure, Idle, TypeOK
<1>3. e \in Events /\ Holds(p, e)
  BY <1>2 DEF Work, Ticket, Holds
<1>4. \A q \in Pollers, a \in Events : Holds(q, a)' => Holds(q, a) /\ a # e
  <2>1. \A q \in Pollers \ {p}, a \in Events : Holds(q, a)' => Holds(q, a)
    BY <1>1 DEF Holds, TypeOK
  <2>2. \A q \in Pollers \ {p} : ~Holds(q, e)
    BY <1>3 DEF PatientInv, OneHolder
  <2>3. \A a \in Events : Holds(p, a)' => \E t \in batch[p] : t.event = a
    BY <1>1 DEF Holds, TypeOK
  <2>4. \A a \in Events : Holds(p, a)' => Holds(p, a) /\ a # e
    BY <1>2, <2>3 DEF Holds, PatientInv, CurrentIsTaken
  <2>5. QED
    BY <2>1, <2>2, <2>4
<1>5. \A q \in Pollers, a \in Events : Holds(q, a) =>
          event[a].status = "PROCESSING" /\ ~event[a].stale
  BY DEF PatientInv, OneHolder, StaleClaimIsFree
<1>6. \A q \in Pollers, a \in Events : Holds(q, a)' =>
          /\ Holds(q, a) /\ event'[a].status = "PROCESSING" /\ ~event'[a].stale
  BY <1>1, <1>4, <1>5
<1>7. \A q \in Pollers : current'[q] # Idle =>
          \A t \in batch'[q] : t.event # current'[q].ticket.event
  BY <1>1 DEF PatientInv, CurrentIsTaken, TypeOK
<1>8. QED
  BY <1>1, <1>6, <1>7, FewerHolders

LEMMA PatientNextInv == PatientInv /\ [PatientNext]_vars => PatientInv'
<1> SUFFICES ASSUME PatientInv, [PatientNext]_vars PROVE PatientInv'
  OBVIOUS
<1>1. Inv'
  BY NextInv DEF PatientInv, PatientNext
<1>2. ASSUME UNCHANGED vars PROVE PatientInv'
  BY <1>1, <1>2, PatientRowStep DEF vars
<1>3. ASSUME NEW e \in Events, Write(e) \/ Wake(e) PROVE PatientInv'
  BY <1>1, <1>3, PatientWriteWake
<1>4. ASSUME Patient, NEW e \in Events, Expire(e) PROVE PatientInv'
  BY <1>1, <1>4, PatientExpire
<1>5. ASSUME NEW p \in Pollers, Claim(p) PROVE PatientInv'
  BY <1>1, <1>5, PatientClaim DEF Claim
<1>6. ASSUME NEW p \in Pollers, Take(p) PROVE PatientInv'
  BY <1>1, <1>6, PatientTake
<1>7. ASSUME NEW p \in Pollers, Persist(p) \/ Discard(p) \/ Throw(p) PROVE PatientInv'
  BY <1>1, <1>7, PatientDispatch
<1>8. ASSUME NEW p \in Pollers, MarkProcessed(p) \/ SettleFailure(p) PROVE PatientInv'
  BY <1>1, <1>8, PatientSettle
<1>9. ASSUME NEW p \in Pollers, Die(p) PROVE PatientInv'
  BY <1>1, <1>9, PatientDie
<1>10. QED
  BY <1>2, <1>3, <1>4, <1>5, <1>6, <1>7, <1>8, <1>9 DEF PatientNext, Next, Progress

(***************************************************************************)
(* The theorems about patient behaviours.                                  *)
(***************************************************************************)
\* Whoever has an event is its only holder, and a claim that may be taken over has
\* none, at every moment.
THEOREM HoldersAreTracked == PatientSpec => []PatientInv
BY InitPatient, PatientNextInv, PTL DEF PatientSpec

\* No two pollers, and no two places of one batch, have the same event
\* (claimOutboxEvents).
THEOREM EventsHaveOneHolder == PatientSpec => []OneHolder
<1>1. PatientInv => OneHolder
  BY DEF PatientInv
<1>2. QED
  BY <1>1, HoldersAreTracked, PTL

\* The updates that settle an event do not look at its status or its holder; still,
\* what is processed or parked stays as it is.
THEOREM SettledStays == PatientSpec => SettledIsFinal
<1>1. ASSUME PatientInv, [PatientNext]_vars, NEW e \in Events, Settled(e)
      PROVE  event'[e] = event[e]
  <2>1. TypeOK /\ \A p \in Pollers : ~Holds(p, e)
    BY <1>1 DEF PatientInv, Inv, OneHolder, Settled
  <2>2. CASE UNCHANGED vars
    BY <2>2 DEF vars
  <2>3. ASSUME NEW a \in Events, Write(a) \/ Wake(a) \/ Expire(a) PROVE event'[e] = event[e]
    <3>1. a # e
      BY <1>1, <2>3 DEF Settled, Write, Wake, Expire, NoEvent
    <3>2. QED
      BY <2>1, <2>3, <3>1 DEF Write, Wake, Expire, TypeOK
  <2>4. ASSUME NEW p \in Pollers, Claim(p) PROVE event'[e] = event[e]
    BY <1>1, <2>4 DEF Claim, ClaimBatch, Claimable, Settled
  <2>5. ASSUME NEW p \in Pollers, Take(p) \/ Persist(p) \/ Discard(p) \/ Throw(p) \/ Die(p)
        PROVE  event'[e] = event[e]
    BY <2>5 DEF Take, Persist, Discard, Throw, Die
  <2>6. ASSUME NEW p \in Pollers, MarkProcessed(p) \/ SettleFailure(p)
        PROVE  event'[e] = event[e]
    <3>1. current[p] # Idle
      BY <2>6 DEF MarkProcessed, SettleFailure, Idle
    <3>2. current[p].ticket.event # e
      BY <2>1, <3>1 DEF Holds
    <3>3. QED
      BY <2>1, <2>6, <3>2 DEF MarkProcessed, SettleFailure, TypeOK
  <2>7. QED
    BY <1>1, <2>2, <2>3, <2>4, <2>5, <2>6 DEF PatientNext, Next, Progress
<1>2. PatientInv /\ [PatientNext]_vars =>
          [\A e \in Events : Settled(e) => event'[e] = event[e]]_vars
  BY <1>1
<1>3. QED
  BY <1>2, HoldersAreTracked, PTL DEF PatientSpec, SettledIsFinal
=============================================================================
