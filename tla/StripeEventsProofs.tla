-------------------------- MODULE StripeEventsProofs --------------------------
(***************************************************************************)
(* For every set of events, whatever Stripe says in them and in whatever   *)
(* order they arrive: what the worker and the operator keep of them.       *)
(*                                                                         *)
(* First the shape of every table and of every poller's work; then how the *)
(* row moves, though those who write it may have read it long ago; then    *)
(* what that keeps, in any behaviour of Spec.  Only the invoices need more *)
(* (PatientSpec): that each claimed event is in the hands of one poller.   *)
(***************************************************************************)
EXTENDS StripeEvents, TLAPS

\* A step is only taken for an event of the kind it is for.
Fits(w, told) ==
    /\ w.step \notin {"idle", "next"} => w.event \in Events /\ w.event \in w.batch
    /\ w.step = "activate" => told[w.event].kind = "checkout"
    /\ w.step = "claim" => told[w.event].kind \in {"state", "end", "trial_ending"}
    /\ w.step = "mirror" => told[w.event].kind = "state"
    /\ w.step = "end" => told[w.event].kind = "end"
    /\ w.step = "schedule" => told[w.event].kind = "schedule"
    /\ w.step = "notify" => told[w.event].kind \in {"state", "trial_ending", "payment_failed"}
    /\ w.step \in {"issue", "create", "save"} => told[w.event].kind = "invoice"

StepsFit == \A p \in Pollers : Fits(work[p], history)

IInv == TypeOK /\ StepsFit

----------------------------------------------------------------------------
(* The shape of rows, contents and work.                                   *)

LEMMA ContentIs ==
    ASSUME NEW content \in Content
    PROVE  /\ content.kind \in {"checkout", "end", "trial_ending", "payment_failed", "invoice",
                                "state", "schedule", "unusable", "ignored"}
           /\ content.kind \notin {"unusable", "ignored"} => content.sub \in Subscriptions
           /\ content.kind = "state" => /\ content.status \in StripeStatuses
                                        /\ content.plan \in Plans
           /\ content.kind = "schedule" => content.plan \in Plans \cup {None}
<1>1. CASE content \in [kind: {"checkout", "end", "trial_ending", "payment_failed", "invoice"},
                        sub: Subscriptions]
  BY <1>1
<1>2. CASE content \in [kind: {"state"}, sub: Subscriptions, status: StripeStatuses, plan: Plans]
  BY <1>2
<1>3. CASE content \in [kind: {"schedule"}, sub: Subscriptions, plan: Plans \cup {None}]
  BY <1>3
<1>4. CASE content \in [kind: {"unusable", "ignored"}]
  BY <1>4
<1> QED  BY <1>1, <1>2, <1>3, <1>4 DEF Content

LEMMA HistoryIs ==
    ASSUME TypeOK, NEW e \in Events
    PROVE  /\ history[e] \in Content
           /\ history[e].kind \in {"checkout", "end", "trial_ending", "payment_failed", "invoice",
                                   "state", "schedule", "unusable", "ignored"}
           /\ history[e].kind \notin {"unusable", "ignored"} => history[e].sub \in Subscriptions
           /\ history[e].kind = "state" => /\ history[e].status \in StripeStatuses
                                           /\ history[e].plan \in Plans
           /\ history[e].kind = "schedule" => history[e].plan \in Plans \cup {None}
<1>1. history[e] \in Content
  BY StripeEventsAssumption DEF TypeOK
<1> QED  BY <1>1, ContentIs

LEMMA Blanks ==
    /\ NoRow \in Row /\ NoRow.status = "none" /\ NoRow.id = None
    /\ Idle \in Work /\ Idle.step = "idle" /\ Idle.batch = {}
    /\ \A batch \in SUBSET Events :
          /\ Rested(batch) \in Work /\ Rested(batch).step = "next"
          /\ Rested(batch).batch = batch
<1>1. NoRow \in Row /\ NoRow.status = "none" /\ NoRow.id = None
  BY DEF NoRow, Row
<1>2. Idle \in Work /\ Idle.step = "idle" /\ Idle.batch = {}
  BY <1>1 DEF Idle, Work, Steps
<1> QED  BY <1>1, <1>2 DEF Rested, Work, Steps

LEMMA NewRowIs ==
    ASSUME NEW s \in Subscriptions
    PROVE  /\ NewRow(s) \in Row
           /\ NewRow(s).id = s /\ NewRow(s).status = "INCOMPLETE"
           /\ NewRow(s).stateEvent = 0 /\ NewRow(s).scheduleEvent = 0
           /\ NewRow(s).pending = None
<1>1. (CHOOSE plan \in Plans : TRUE) \in Plans
  BY StripeEventsAssumption
<1>2. NoRow.stateEvent = 0 /\ NoRow.scheduleEvent = 0 /\ NoRow.pending = None
  BY DEF NoRow
<1> QED  BY <1>1, <1>2, Blanks DEF NewRow, Row, MirroredStatuses

LEMMA BoundRowIs ==
    ASSUME TypeOK, NEW s \in Subscriptions
    PROVE  /\ BoundRow(s) \in Row /\ BoundRow(s).id = s
           /\ subscription = NoRow => BoundRow(s) = NewRow(s)
           /\ subscription # NoRow =>
                 /\ BoundRow(s).status = subscription.status
                 /\ BoundRow(s).pending = subscription.pending
                 /\ BoundRow(s).stateEvent = subscription.stateEvent
                 /\ BoundRow(s).scheduleEvent = subscription.scheduleEvent
<1>1. subscription \in Row
  BY DEF TypeOK
<1> QED  BY <1>1, NewRowIs DEF BoundRow, Row

LEMMA CursorsAreNumbers ==
    /\ \A e \in Events : e \in Nat /\ e # 0
    /\ \A row \in Row : /\ row.stateEvent \in Nat /\ row.stateEvent \in Events \cup {0}
                        /\ row.scheduleEvent \in Nat /\ row.scheduleEvent \in Events \cup {0}
<1>1. Events \subseteq Nat \ {0}
  BY StripeEventsAssumption
<1>2. \A row \in Row : row.stateEvent \in Events \cup {0} /\ row.scheduleEvent \in Events \cup {0}
  BY DEF Row
<1>3. ASSUME NEW row \in Row
      PROVE  /\ row.stateEvent \in Nat /\ row.stateEvent \in Events \cup {0}
             /\ row.scheduleEvent \in Nat /\ row.scheduleEvent \in Events \cup {0}
  <2>1. \A n \in Events \cup {0} : n \in Nat
    BY <1>1
  <2>2. row.stateEvent \in Events \cup {0} /\ row.scheduleEvent \in Events \cup {0}
    BY <1>2
  <2> QED  BY <2>1, <2>2
<1>4. \A e \in Events : e \in Nat /\ e # 0
  BY <1>1
<1> QED  BY <1>3, <1>4

LEMMA MirroredStatusIs ==
    ASSUME NEW status \in StripeStatuses PROVE MirroredStatus(status) \in MirroredStatuses
BY DEF StripeStatuses, MirroredStatus, MirroredStatuses

LEMMA GrantIs ==
    ASSUME TypeOK, NEW e \in Events PROVE Grant(e) \in AccessStatuses \cup {None}
<1>1. CASE history[e].kind # "state"
  BY <1>1 DEF Grant
<1>2. CASE history[e].kind = "state"
  <2>1. history[e].status \in StripeStatuses
    BY <1>2, HistoryIs
  <2>2. AccessEffect(history[e].status) \in AccessStatuses \cup {None}
    BY <2>1 DEF AccessEffect, StripeStatuses, AccessStatuses
  <2>3. \A effect \in AccessStatuses \cup {None} :
            NextAccess(access, effect) \in AccessStatuses \cup {None}
    BY DEF NextAccess, AccessStatuses
  <2> QED  BY <1>2, <2>2, <2>3 DEF Grant
<1> QED  BY <1>1, <1>2

LEMMA MirroredIs ==
    ASSUME TypeOK, NEW e \in Events, NEW found, history[e].kind = "state"
    PROVE  /\ Mirrored(e, found) \in Row
           /\ Mirrored(e, found).id = subscription.id
           /\ Mirrored(e, found).status = MirroredStatus(history[e].status)
           /\ Mirrored(e, found).pending \in {None, subscription.pending}
           /\ Mirrored(e, found).stateEvent = e
           /\ Mirrored(e, found).scheduleEvent = subscription.scheduleEvent
<1>1. /\ subscription \in Row /\ history[e].plan \in Plans
      /\ MirroredStatus(history[e].status) \in MirroredStatuses
  BY HistoryIs, MirroredStatusIs DEF TypeOK
<1> DEFINE used == subscription.trialUsed \/ (MirroredStatus(history[e].status) = "TRIALING"
                                                 /\ ~found.trialUsed)
           pending == IF history[e].plan = found.pending THEN None ELSE subscription.pending
<1>2. Mirrored(e, found) =
         [subscription EXCEPT !.status = MirroredStatus(history[e].status),
             !.plan = history[e].plan, !.trialUsed = used, !.pending = pending,
             !.stateEvent = e]
  BY DEF Mirrored
<1>3. used \in BOOLEAN /\ pending \in {None, subscription.pending}
  OBVIOUS
<1> HIDE DEF used, pending
<1> QED  BY <1>1, <1>2, <1>3 DEF Row

----------------------------------------------------------------------------
(* The work of one poller.                                                 *)

LEMMA WorkMoves ==
    ASSUME IInv, history' = history, NEW p \in Pollers, NEW w \in Work, Fits(w, history),
           work' = [work EXCEPT ![p] = w]
    PROVE  /\ work' \in [Pollers -> Work] /\ StepsFit'
           /\ work'[p] = w /\ \A q \in Pollers \ {p} : work'[q] = work[q]
<1>1. /\ work' \in [Pollers -> Work]
      /\ work'[p] = w /\ \A q \in Pollers \ {p} : work'[q] = work[q]
  BY DEF IInv, TypeOK
<1>2. \A q \in Pollers : Fits(work'[q], history)
  BY <1>1 DEF IInv, StepsFit
<1>3. StepsFit'
  BY <1>2 DEF StepsFit, Fits
<1> QED  BY <1>1, <1>3

LEMMA WorkStands ==
    ASSUME IInv, UNCHANGED <<history, work>>
    PROVE  work' \in [Pollers -> Work] /\ StepsFit'
BY DEF IInv, TypeOK, StepsFit, Fits

LEMMA GoIs ==
    ASSUME IInv, NEW p \in Pollers, NEW s \in Steps, Go(p, s)
    PROVE  \E w \in Work :
              /\ work' = [work EXCEPT ![p] = w]
              /\ w.step = s /\ w.batch = work[p].batch /\ w.event = work[p].event
              /\ w.found = work[p].found /\ w.grant = work[p].grant
<1> DEFINE w == [work[p] EXCEPT !.step = s]
<1>1. work[p] \in Work
  BY DEF IInv, TypeOK
<1>2. /\ w \in Work
      /\ w.step = s /\ w.batch = work[p].batch /\ w.event = work[p].event
      /\ w.found = work[p].found /\ w.grant = work[p].grant
  BY <1>1 DEF Work
<1>3. work' = [work EXCEPT ![p] = w]
  BY DEF Go
<1> HIDE DEF w
<1> QED  BY <1>2, <1>3

\* The steps every kind of event may go on to.
LEMMA GoesOn ==
    ASSUME IInv, history' = history, NEW p \in Pollers, NEW s \in {"settle", "fail"}, Go(p, s),
           work[p].step \notin {"idle", "next"}
    PROVE  /\ work' \in [Pollers -> Work] /\ StepsFit'
           /\ work'[p].step = s /\ work'[p].batch = work[p].batch
           /\ work'[p].event = work[p].event
           /\ \A q \in Pollers \ {p} : work'[q] = work[q]
<1>1. PICK w \in Work :
              /\ work' = [work EXCEPT ![p] = w]
              /\ w.step = s /\ w.batch = work[p].batch /\ w.event = work[p].event
  BY GoIs DEF Steps
<1>2. work[p].event \in Events /\ work[p].event \in work[p].batch
  BY DEF IInv, StepsFit, Fits
<1>3. Fits(w, history)
  BY <1>1, <1>2 DEF Fits
<1> QED  BY <1>1, <1>3, WorkMoves

LEMMA LeaveIs ==
    ASSUME IInv, history' = history, NEW p \in Pollers, Leave(p)
    PROVE  /\ work' \in [Pollers -> Work] /\ StepsFit'
           /\ work'[p].step = "next" /\ work'[p].batch = work[p].batch \ {work[p].event}
           /\ \A q \in Pollers \ {p} : work'[q] = work[q]
<1> DEFINE w == Rested(work[p].batch \ {work[p].event})
<1>1. work[p].batch \ {work[p].event} \in SUBSET Events
  BY DEF IInv, TypeOK, Work
<1>2. w \in Work /\ w.step = "next" /\ w.batch = work[p].batch \ {work[p].event}
  BY <1>1, Blanks
<1>3. work' = [work EXCEPT ![p] = w]
  BY DEF Leave
<1> HIDE DEF w
<1>4. Fits(w, history)
  BY <1>2 DEF Fits
<1> QED  BY <1>2, <1>3, <1>4, WorkMoves

LEMMA MarkedIs ==
    ASSUME TypeOK, NEW e \in Events,
           NEW status \in {"away", "pending", "claimed", "stale", "done"},
           event' = Marked(e, status)
    PROVE  /\ event' \in [Events -> EventRow]
           /\ event'[e].status = status /\ event'[e].old = event[e].old
           /\ \A d \in Events \ {e} : event'[d] = event[d]
<1> DEFINE row == [event[e] EXCEPT !.status = status]
<1>1. row \in EventRow /\ row.status = status /\ row.old = event[e].old
  BY DEF TypeOK, EventRow
<1>2. event' = [event EXCEPT ![e] = row]
  BY DEF Marked
<1> HIDE DEF row
<1> QED  BY <1>1, <1>2 DEF TypeOK

\* The tables may change as they like within their types.
LEMMA Typed ==
    ASSUME IInv, history' = history, event' \in [Events -> EventRow], access' \in AccessStatuses,
           subscription' \in Row, outbox' \subseteq Events, duplicates' \subseteq Events,
           documents' \in [Events -> Nat], invoiced' \subseteq Events,
           work' \in [Pollers -> Work], StepsFit', operator' \in AccessStatuses \cup {None},
           troubles' \in 0 .. MaxTroubles
    PROVE  IInv'
BY DEF IInv, TypeOK

LEMMA TablesStand ==
    ASSUME IInv, UNCHANGED <<history, tables, operator, troubles>>,
           event' \in [Events -> EventRow], work' \in [Pollers -> Work], StepsFit'
    PROVE  IInv'
BY DEF IInv, TypeOK, tables

----------------------------------------------------------------------------
(* Typing, action by action.                                               *)

LEMMA InitIsTyped == Init => IInv
<1> SUFFICES ASSUME Init PROVE IInv
  OBVIOUS
<1>1. /\ history \in Histories /\ access \in AccessStatuses /\ subscription \in Row
      /\ operator \in AccessStatuses \cup {None} /\ troubles \in 0 .. MaxTroubles
      /\ documents \in [Events -> Nat]
  BY Blanks, StripeEventsAssumption DEF Init, AccessStatuses
<1>2. event \in [Events -> EventRow]
  BY DEF Init, EventRow
<1>3. work \in [Pollers -> Work] /\ StepsFit
  BY Blanks DEF Init, StepsFit, Fits
<1> QED  BY <1>1, <1>2, <1>3 DEF IInv, TypeOK, Init

LEMMA ArrivalKeeps ==
    ASSUME IInv, NEW e \in Events, Deliver(e) \/ Age(e) \/ Expire(e) PROVE IInv'
<1>1. UNCHANGED <<history, tables, work, operator, troubles>>
  BY DEF Deliver, Age, Expire
<1>2. event' \in [Events -> EventRow]
  <2>1. CASE Deliver(e) \/ Expire(e)
    BY <2>1, MarkedIs DEF Deliver, Expire, IInv
  <2>2. CASE Age(e)
    <3>1. [event[e] EXCEPT !.old = TRUE] \in EventRow
      BY DEF IInv, TypeOK, EventRow
    <3> QED  BY <2>2, <3>1 DEF Age, IInv, TypeOK
  <2> QED  BY <2>1, <2>2
<1> QED  BY <1>1, <1>2, WorkStands, TablesStand

LEMMA ClaimChanges ==
    ASSUME IInv, NEW p \in Pollers, NEW batch \in SUBSET Events, Claim(p, batch)
    PROVE  /\ event' \in [Events -> EventRow]
           /\ \A e \in Events : /\ event'[e].old = event[e].old
                                /\ e \in batch => event'[e].status = "claimed"
                                /\ e \notin batch => event'[e] = event[e]
           /\ work' \in [Pollers -> Work] /\ StepsFit'
           /\ work'[p].step = "next" /\ work'[p].batch = batch
           /\ \A q \in Pollers \ {p} : work'[q] = work[q]
<1>1. \A e \in Events : /\ [event[e] EXCEPT !.status = "claimed"] \in EventRow
                        /\ [event[e] EXCEPT !.status = "claimed"].status = "claimed"
                        /\ [event[e] EXCEPT !.status = "claimed"].old = event[e].old
  BY DEF IInv, TypeOK, EventRow
<1>2. event' = [e \in Events |->
                   IF e \in batch THEN [event[e] EXCEPT !.status = "claimed"] ELSE event[e]]
  BY DEF Claim
<1>3. /\ event' \in [Events -> EventRow]
      /\ \A e \in Events : /\ event'[e].old = event[e].old
                           /\ e \in batch => event'[e].status = "claimed"
                           /\ e \notin batch => event'[e] = event[e]
  BY <1>1, <1>2 DEF IInv, TypeOK
<1>4. Fits(Rested(batch), history)
  BY Blanks DEF Fits
<1>5. /\ work' \in [Pollers -> Work] /\ StepsFit' /\ work'[p] = Rested(batch)
      /\ \A q \in Pollers \ {p} : work'[q] = work[q]
  BY <1>4, Blanks, WorkMoves DEF Claim
<1> QED  BY <1>3, <1>5, Blanks

LEMMA ClaimKeeps ==
    ASSUME IInv, NEW p \in Pollers, NEW batch \in SUBSET Events, Claim(p, batch) PROVE IInv'
BY ClaimChanges, TablesStand DEF Claim

LEMMA RestKeeps ==
    ASSUME IInv, NEW p \in Pollers, work' = [work EXCEPT ![p] = Idle], history' = history
    PROVE  /\ work' \in [Pollers -> Work] /\ StepsFit'
           /\ work'[p] = Idle /\ \A q \in Pollers \ {p} : work'[q] = work[q]
<1>1. Fits(Idle, history)
  BY Blanks DEF Fits
<1> QED  BY <1>1, Blanks, WorkMoves

LEMMA FirstStepFits ==
    ASSUME IInv, NEW e \in Events
    PROVE  /\ FirstStep(e) \in Steps \ {"idle", "next", "create", "save"}
           /\ FirstStep(e) = "activate" <=> history[e].kind = "checkout"
           /\ FirstStep(e) = "claim" => /\ history[e].kind \in {"state", "end", "trial_ending"}
                                        /\ Unbound
           /\ FirstStep(e) = "mirror" => history[e].kind = "state"
           /\ FirstStep(e) = "end" => history[e].kind = "end"
           /\ FirstStep(e) = "schedule" => history[e].kind = "schedule"
           /\ FirstStep(e) = "notify" => history[e].kind \in {"trial_ending", "payment_failed"}
           /\ FirstStep(e) = "issue" => history[e].kind = "invoice"
           /\ FirstStep(e) \in {"mirror", "end", "schedule"} => Bound(history[e].sub)
           /\ FirstStep(e) = "settle" => history[e].kind = "ignored" \/ event[e].old
<1>1. history[e].kind \in {"checkout", "end", "trial_ending", "payment_failed", "invoice",
                           "state", "schedule", "unusable", "ignored"}
  BY HistoryIs DEF IInv
<1>2. CASE history[e].kind \in {"ignored", "unusable", "checkout"}
  BY <1>2 DEF FirstStep, Steps
<1>3. CASE history[e].kind \notin {"ignored", "unusable", "checkout"}
  <2>1. FirstStep(e) = CASE Bound(history[e].sub) -> HandlerOf(history[e].kind)
                         [] Unbound /\ NamesItsOwner(history[e]) -> "claim"
                         [] OTHER -> IF event[e].old THEN "settle" ELSE "fail"
    BY <1>3 DEF FirstStep
  <2>2. CASE Bound(history[e].sub) /\ FirstStep(e) = HandlerOf(history[e].kind)
    BY <1>1, <1>3, <2>2 DEF HandlerOf, Steps
  <2>3. CASE Unbound /\ NamesItsOwner(history[e]) /\ FirstStep(e) = "claim"
    BY <1>3, <2>3 DEF NamesItsOwner, Steps
  <2>4. CASE FirstStep(e) = IF event[e].old THEN "settle" ELSE "fail"
    BY <1>3, <2>4 DEF Steps
  <2>5. ~(Bound(history[e].sub) /\ Unbound /\ NamesItsOwner(history[e]))
    BY HistoryIs, StripeEventsAssumption DEF Bound, Unbound, NamesItsOwner, IInv
  <2> QED  BY <2>1, <2>2, <2>3, <2>4, <2>5
<1> QED  BY <1>1, <1>2, <1>3

LEMMA TakeUpChanges ==
    ASSUME IInv, NEW p \in Pollers, NEW e \in Events, TakeUp(p, e)
    PROVE  /\ work' \in [Pollers -> Work] /\ StepsFit'
           /\ e \in work[p].batch /\ work[p].step = "next"
           /\ work'[p].step = FirstStep(e) /\ work'[p].event = e
           /\ work'[p].batch = work[p].batch
           /\ work'[p].found = subscription /\ work'[p].grant = Grant(e)
           /\ \A q \in Pollers \ {p} : work'[q] = work[q]
<1> DEFINE w == [work[p] EXCEPT !.step = FirstStep(e), !.event = e,
                                !.found = subscription, !.grant = Grant(e)]
<1>1. /\ work' = [work EXCEPT ![p] = w] /\ work[p].step = "next" /\ e \in work[p].batch
      /\ history' = history
  BY DEF TakeUp, At
<1>2. work[p] \in Work /\ subscription \in Row /\ Grant(e) \in AccessStatuses \cup {None}
  BY GrantIs DEF IInv, TypeOK
<1>3. FirstStep(e) \in Steps
  BY FirstStepFits
<1>4. /\ w \in Work
      /\ w.step = FirstStep(e) /\ w.event = e /\ w.batch = work[p].batch
      /\ w.found = subscription /\ w.grant = Grant(e)
  BY <1>2, <1>3 DEF Work
<1> HIDE DEF w
<1>5. Fits(w, history)
  BY <1>1, <1>4, FirstStepFits DEF Fits
<1> QED  BY <1>1, <1>4, <1>5, WorkMoves

LEMMA TakeUpKeeps ==
    ASSUME IInv, NEW p \in Pollers, NEW e \in Events, TakeUp(p, e) PROVE IInv'
BY TakeUpChanges, TablesStand DEF TakeUp, IInv, TypeOK

\* What each handler leaves the tables with.
LEMMA ActivateChanges ==
    ASSUME IInv, NEW p \in Pollers, Activate(p)
    PROVE  LET e == work[p].event
               s == history[e].sub
           IN  /\ e \in Events /\ history[e].kind = "checkout" /\ s \in Subscriptions
               /\ subscription' \in Row
               /\ \/ /\ IsSecond(work[p].found, s)
                     /\ duplicates' = duplicates \cup {e} /\ subscription' = subscription
                  \/ /\ ~IsSecond(work[p].found, s)
                     /\ subscription' = BoundRow(s) /\ duplicates' = duplicates
               /\ work[p].step = "activate"
               /\ work' \in [Pollers -> Work] /\ StepsFit'
               /\ work'[p].step = "settle" /\ work'[p].batch = work[p].batch
               /\ work'[p].event = e
               /\ \A q \in Pollers \ {p} : work'[q] = work[q]
<1>1. work[p].step = "activate" /\ history' = history /\ Go(p, "settle")
  BY DEF Activate, At
<1>2. work[p].event \in Events /\ history[work[p].event].kind = "checkout"
  BY <1>1 DEF IInv, StepsFit, Fits
<1>3. history[work[p].event].sub \in Subscriptions
  BY <1>2, HistoryIs DEF IInv
<1>4. \/ /\ IsSecond(work[p].found, history[work[p].event].sub)
         /\ duplicates' = duplicates \cup {work[p].event} /\ subscription' = subscription
      \/ /\ ~IsSecond(work[p].found, history[work[p].event].sub)
         /\ subscription' = BoundRow(history[work[p].event].sub) /\ duplicates' = duplicates
  BY DEF Activate, Told
<1>5. subscription' \in Row
  BY <1>3, <1>4, BoundRowIs DEF IInv, TypeOK
<1> QED  BY <1>1, <1>2, <1>3, <1>4, <1>5, GoesOn

LEMMA ActivateKeeps ==
    ASSUME IInv, NEW p \in Pollers, Activate(p) PROVE IInv'
<1>1. duplicates' \subseteq Events
  BY ActivateChanges DEF IInv, TypeOK
<1> QED  BY <1>1, ActivateChanges, Typed DEF Activate, IInv, TypeOK

LEMMA ClaimByMetadataChanges ==
    ASSUME IInv, NEW p \in Pollers, ClaimByMetadata(p)
    PROVE  LET e == work[p].event
               s == history[e].sub
           IN  /\ e \in Events /\ s \in Subscriptions
               /\ history[e].kind \in {"state", "end", "trial_ending"}
               /\ work[p].step = "claim"
               /\ work' \in [Pollers -> Work] /\ StepsFit'
               /\ work'[p].batch = work[p].batch /\ work'[p].event = e
               /\ \A q \in Pollers \ {p} : work'[q] = work[q]
               /\ \/ /\ work[p].found = NoRow /\ subscription # NoRow
                     /\ work'[p].step = "fail" /\ subscription' = subscription
                  \/ /\ ~(work[p].found = NoRow /\ subscription # NoRow)
                     /\ subscription' = BoundRow(s) /\ work'[p].found = BoundRow(s)
                     /\ work'[p].grant = Grant(e)
                     /\ work'[p].step = HandlerOf(history[e].kind)
               /\ subscription' \in Row
<1> DEFINE e == work[p].event
           s == history[e].sub
           w == [work[p] EXCEPT !.step = HandlerOf(history[e].kind),
                                !.found = BoundRow(s), !.grant = Grant(e)]
<1>1. work[p].step = "claim" /\ history' = history
  BY DEF ClaimByMetadata, At
<1>2. e \in Events /\ e \in work[p].batch
      /\ history[e].kind \in {"state", "end", "trial_ending"}
  BY <1>1 DEF IInv, StepsFit, Fits
<1>3. s \in Subscriptions /\ BoundRow(s) \in Row
  BY <1>2, HistoryIs, BoundRowIs DEF IInv
<1>4. CASE work[p].found = NoRow /\ subscription # NoRow
  <2>1. Go(p, "fail") /\ subscription' = subscription
    BY <1>4 DEF ClaimByMetadata
  <2> QED  BY <1>1, <1>2, <1>3, <1>4, <2>1, GoesOn DEF IInv, TypeOK
<1>5. CASE ~(work[p].found = NoRow /\ subscription # NoRow)
  <2>1. subscription' = BoundRow(s) /\ work' = [work EXCEPT ![p] = w]
    BY <1>5 DEF ClaimByMetadata, Told
  <2>2. HandlerOf(history[e].kind) \in {"mirror", "end", "notify"}
        /\ (HandlerOf(history[e].kind) = "mirror" => history[e].kind = "state")
        /\ (HandlerOf(history[e].kind) = "end" => history[e].kind = "end")
        /\ (HandlerOf(history[e].kind) = "notify" => history[e].kind = "trial_ending")
    BY <1>2 DEF HandlerOf
  <2>3. work[p] \in Work /\ Grant(e) \in AccessStatuses \cup {None}
    BY <1>2, GrantIs DEF IInv, TypeOK
  <2>4. /\ w \in Work /\ w.step = HandlerOf(history[e].kind) /\ w.batch = work[p].batch
        /\ w.event = e /\ w.found = BoundRow(s) /\ w.grant = Grant(e)
    BY <1>3, <2>2, <2>3 DEF Work, Steps
  <2> HIDE DEF w
  <2>5. Fits(w, history)
    BY <1>2, <2>2, <2>4 DEF Fits
  <2>6. /\ work' \in [Pollers -> Work] /\ StepsFit'
        /\ work'[p] = w /\ \A q \in Pollers \ {p} : work'[q] = work[q]
    BY <1>1, <2>1, <2>4, <2>5, WorkMoves
  <2> QED  BY <1>1, <1>2, <1>3, <1>5, <2>1, <2>4, <2>6
<1> QED  BY <1>4, <1>5

LEMMA ClaimByMetadataKeeps ==
    ASSUME IInv, NEW p \in Pollers, ClaimByMetadata(p) PROVE IInv'
BY ClaimByMetadataChanges, Typed DEF ClaimByMetadata, IInv, TypeOK

LEMMA MirrorChanges ==
    ASSUME IInv, NEW p \in Pollers, Mirror(p)
    PROVE  LET e == work[p].event
               s == history[e].sub
               w == work[p]
           IN  /\ e \in Events /\ history[e].kind = "state" /\ s \in Subscriptions
               /\ w.step = "mirror" /\ w.grant \in AccessStatuses \cup {None}
               /\ work' \in [Pollers -> Work] /\ StepsFit'
               /\ work'[p].step \in {"settle", "notify"}
               /\ work'[p].batch = w.batch /\ work'[p].event = e
               /\ \A q \in Pollers \ {p} : work'[q] = work[q]
               /\ \/ /\ NewerState(s, e)
                     /\ subscription' = Mirrored(e, w.found)
                     /\ access' = IF w.grant = None THEN access ELSE w.grant
                     /\ work'[p].step = IF GoesLive(w.found, MirroredStatus(history[e].status))
                                        THEN "notify" ELSE "settle"
                  \/ /\ ~NewerState(s, e)
                     /\ UNCHANGED <<access, subscription>> /\ work'[p].step = "settle"
               /\ subscription' \in Row /\ access' \in AccessStatuses
<1> DEFINE e == work[p].event
           s == history[e].sub
<1>1. work[p].step = "mirror" /\ history' = history /\ work[p] \in Work
  BY DEF Mirror, At, IInv, TypeOK
<1>2. e \in Events /\ e \in work[p].batch /\ history[e].kind = "state"
  BY <1>1 DEF IInv, StepsFit, Fits
<1>3. s \in Subscriptions /\ work[p].grant \in AccessStatuses \cup {None}
  BY <1>1, <1>2, HistoryIs DEF IInv, Work
<1>4. PICK next \in {"settle", "notify"} :
         /\ Go(p, next)
         /\ \/ /\ NewerState(s, e)
               /\ subscription' = Mirrored(e, work[p].found)
               /\ access' = IF work[p].grant = None THEN access ELSE work[p].grant
               /\ next = IF GoesLive(work[p].found, MirroredStatus(history[e].status))
                         THEN "notify" ELSE "settle"
            \/ /\ ~NewerState(s, e)
               /\ UNCHANGED <<access, subscription>> /\ next = "settle"
  BY DEF Mirror, Told
<1>5. PICK w \in Work :
         /\ work' = [work EXCEPT ![p] = w]
         /\ w.step = next /\ w.batch = work[p].batch /\ w.event = e
  BY <1>4, GoIs DEF Steps
<1>6. Fits(w, history)
  BY <1>2, <1>5 DEF Fits
<1>7. /\ work' \in [Pollers -> Work] /\ StepsFit'
      /\ work'[p] = w /\ \A q \in Pollers \ {p} : work'[q] = work[q]
  BY <1>1, <1>5, <1>6, WorkMoves
<1>8. subscription' \in Row /\ access' \in AccessStatuses
  <2>1. CASE subscription' = Mirrored(e, work[p].found)
             /\ access' = IF work[p].grant = None THEN access ELSE work[p].grant
    BY <1>2, <1>3, <2>1, MirroredIs DEF IInv, TypeOK
  <2>2. CASE UNCHANGED <<access, subscription>>
    BY <2>2 DEF IInv, TypeOK
  <2> QED  BY <1>4, <2>1, <2>2
<1> QED  BY <1>1, <1>2, <1>3, <1>4, <1>5, <1>7, <1>8

LEMMA MirrorKeeps ==
    ASSUME IInv, NEW p \in Pollers, Mirror(p) PROVE IInv'
BY MirrorChanges, Typed DEF Mirror, IInv, TypeOK

LEMMA EndChanges ==
    ASSUME IInv, NEW p \in Pollers, End(p)
    PROVE  LET e == work[p].event
               s == history[e].sub
           IN  /\ e \in Events /\ history[e].kind = "end" /\ s \in Subscriptions
               /\ work[p].step = "end"
               /\ work' \in [Pollers -> Work] /\ StepsFit'
               /\ work'[p].step = "settle" /\ work'[p].batch = work[p].batch
               /\ work'[p].event = e
               /\ \A q \in Pollers \ {p} : work'[q] = work[q]
               /\ \/ /\ NewerState(s, e) /\ access' = "SUSPENDED"
                     /\ subscription'.status = "CANCELED" /\ subscription'.stateEvent = e
                     /\ subscription'.pending = None /\ subscription'.id = subscription.id
                     /\ subscription'.scheduleEvent = subscription.scheduleEvent
                  \/ ~NewerState(s, e) /\ UNCHANGED <<access, subscription>>
               /\ subscription' \in Row /\ access' \in AccessStatuses
<1> DEFINE e == work[p].event
           s == history[e].sub
           row == [subscription EXCEPT !.status = "CANCELED", !.pending = None, !.stateEvent = e]
<1>1. work[p].step = "end" /\ history' = history /\ Go(p, "settle")
  BY DEF End, At
<1>2. e \in Events /\ history[e].kind = "end"
  BY <1>1 DEF IInv, StepsFit, Fits
<1>3. s \in Subscriptions
  BY <1>2, HistoryIs DEF IInv
<1>4. \/ NewerState(s, e) /\ access' = "SUSPENDED" /\ subscription' = row
      \/ ~NewerState(s, e) /\ UNCHANGED <<access, subscription>>
  BY DEF End, Told
<1>5. /\ row \in Row /\ row.status = "CANCELED" /\ row.stateEvent = e /\ row.pending = None
      /\ row.id = subscription.id /\ row.scheduleEvent = subscription.scheduleEvent
  BY <1>2 DEF IInv, TypeOK, Row, MirroredStatuses
<1> HIDE DEF row
<1>6. subscription' \in Row /\ access' \in AccessStatuses
  BY <1>4, <1>5 DEF IInv, TypeOK, AccessStatuses
<1> QED  BY <1>1, <1>2, <1>3, <1>4, <1>5, <1>6, GoesOn

LEMMA EndKeeps ==
    ASSUME IInv, NEW p \in Pollers, End(p) PROVE IInv'
BY EndChanges, Typed DEF End, IInv, TypeOK

LEMMA ScheduleChanges ==
    ASSUME IInv, NEW p \in Pollers, Schedule(p)
    PROVE  LET e == work[p].event
               s == history[e].sub
           IN  /\ e \in Events /\ history[e].kind = "schedule" /\ s \in Subscriptions
               /\ work[p].step = "schedule"
               /\ work' \in [Pollers -> Work] /\ StepsFit'
               /\ work'[p].step = "settle" /\ work'[p].batch = work[p].batch
               /\ work'[p].event = e
               /\ \A q \in Pollers \ {p} : work'[q] = work[q]
               /\ \/ /\ NewerSchedule(s, e)
                     /\ subscription'.pending = history[e].plan
                     /\ subscription'.scheduleEvent = e
                     /\ subscription'.id = subscription.id
                     /\ subscription'.status = subscription.status
                     /\ subscription'.stateEvent = subscription.stateEvent
                  \/ ~NewerSchedule(s, e) /\ subscription' = subscription
               /\ subscription' \in Row
<1> DEFINE e == work[p].event
           s == history[e].sub
           row == [subscription EXCEPT !.pending = history[e].plan, !.scheduleEvent = e]
<1>1. work[p].step = "schedule" /\ history' = history /\ Go(p, "settle")
  BY DEF Schedule, At
<1>2. e \in Events /\ history[e].kind = "schedule"
  BY <1>1 DEF IInv, StepsFit, Fits
<1>3. s \in Subscriptions /\ history[e].plan \in Plans \cup {None}
  BY <1>2, HistoryIs DEF IInv
<1>4. subscription' = IF NewerSchedule(s, e) THEN row ELSE subscription
  BY DEF Schedule, Told
<1>5. /\ row \in Row /\ row.pending = history[e].plan /\ row.scheduleEvent = e
      /\ row.id = subscription.id /\ row.status = subscription.status
      /\ row.stateEvent = subscription.stateEvent
  BY <1>2, <1>3 DEF IInv, TypeOK, Row
<1> HIDE DEF row
<1>6. subscription' \in Row
  BY <1>4, <1>5 DEF IInv, TypeOK
<1> QED  BY <1>1, <1>2, <1>3, <1>4, <1>5, <1>6, GoesOn

LEMMA ScheduleKeeps ==
    ASSUME IInv, NEW p \in Pollers, Schedule(p) PROVE IInv'
BY ScheduleChanges, Typed DEF Schedule, IInv, TypeOK

\* Notifying, saving and what fails only go on.
LEMMA NotifyChanges ==
    ASSUME IInv, NEW p \in Pollers, Notify(p)
    PROVE  /\ work[p].event \in Events /\ work[p].step = "notify"
           /\ outbox' = outbox \cup {work[p].event}
           /\ work' \in [Pollers -> Work] /\ StepsFit'
           /\ work'[p].step = "settle" /\ work'[p].batch = work[p].batch
           /\ work'[p].event = work[p].event
           /\ \A q \in Pollers \ {p} : work'[q] = work[q]
<1>1. work[p].step = "notify" /\ history' = history /\ Go(p, "settle")
  BY DEF Notify, At
<1>2. work[p].event \in Events
  BY <1>1 DEF IInv, StepsFit, Fits
<1> QED  BY <1>1, <1>2, GoesOn DEF Notify

LEMMA NotifyKeeps ==
    ASSUME IInv, NEW p \in Pollers, Notify(p) PROVE IInv'
<1>1. outbox' \subseteq Events
  BY NotifyChanges DEF IInv, TypeOK
<1> QED  BY <1>1, NotifyChanges, Typed DEF Notify, IInv, TypeOK

LEMMA InvoicingChanges ==
    ASSUME IInv, NEW p \in Pollers, Issue(p) \/ Create(p) \/ Save(p)
    PROVE  LET e == work[p].event
           IN  /\ e \in Events /\ history[e].kind = "invoice"
               /\ work[p].step \in {"issue", "create", "save"}
               /\ work' \in [Pollers -> Work] /\ StepsFit'
               /\ work'[p].step \in {"create", "save", "settle"}
               /\ work'[p].batch = work[p].batch /\ work'[p].event = e
               /\ \A q \in Pollers \ {p} : work'[q] = work[q]
               /\ \/ /\ Issue(p) /\ UNCHANGED <<documents, invoiced>>
                     /\ work'[p].step = "settle" => e \in invoiced
                     /\ work'[p].step = "save" => documents[e] > 0
                     /\ work'[p].step = "create" => ~(documents[e] > 0) /\ e \notin invoiced
                  \/ /\ Create(p) /\ work'[p].step = "save" /\ invoiced' = invoiced
                     /\ documents' = [documents EXCEPT ![e] = @ + 1]
                  \/ /\ Save(p) /\ work'[p].step = "settle" /\ documents' = documents
                     /\ invoiced' = invoiced \cup {e}
<1> DEFINE e == work[p].event
<1>1. /\ work[p].step \in {"issue", "create", "save"} /\ history' = history
  BY DEF Issue, Create, Save, At
<1>2. e \in Events /\ e \in work[p].batch /\ history[e].kind = "invoice"
  BY <1>1 DEF IInv, StepsFit, Fits
<1>3. PICK next \in {"create", "save", "settle"} :
         /\ Go(p, next)
         /\ \/ /\ Issue(p) /\ UNCHANGED <<documents, invoiced>>
               /\ next = "settle" => e \in invoiced
               /\ next = "save" => documents[e] > 0
               /\ next = "create" => ~(documents[e] > 0) /\ e \notin invoiced
            \/ /\ Create(p) /\ next = "save" /\ invoiced' = invoiced
               /\ documents' = [documents EXCEPT ![e] = @ + 1]
            \/ /\ Save(p) /\ next = "settle" /\ documents' = documents
               /\ invoiced' = invoiced \cup {e}
  <2>1. CASE Issue(p)
    <3>1. Go(p, CASE e \in invoiced -> "settle"
                  [] e \notin invoiced /\ Recoverable(e) -> "save"
                  [] OTHER -> "create")
          /\ UNCHANGED <<documents, invoiced>>
      BY <2>1 DEF Issue, tables
    <3> QED  BY <2>1, <3>1 DEF Recoverable
  <2>2. CASE Create(p)
    BY <2>2 DEF Create
  <2>3. CASE Save(p)
    BY <2>3 DEF Save
  <2> QED  BY <2>1, <2>2, <2>3
<1>4. PICK w \in Work :
         /\ work' = [work EXCEPT ![p] = w]
         /\ w.step = next /\ w.batch = work[p].batch /\ w.event = e
  BY <1>3, GoIs DEF Steps
<1>5. Fits(w, history)
  BY <1>2, <1>4 DEF Fits
<1>6. /\ work' \in [Pollers -> Work] /\ StepsFit'
      /\ work'[p] = w /\ \A q \in Pollers \ {p} : work'[q] = work[q]
  BY <1>1, <1>4, <1>5, WorkMoves
<1> QED  BY <1>1, <1>2, <1>3, <1>4, <1>6

LEMMA InvoicingKeeps ==
    ASSUME IInv, NEW p \in Pollers, Issue(p) \/ Create(p) \/ Save(p) PROVE IInv'
<1>1. /\ UNCHANGED <<history, event, access, subscription, outbox, duplicates, operator, troubles>>
  BY DEF Issue, Create, Save, tables
<1>2. documents' \in [Events -> Nat] /\ invoiced' \subseteq Events
  <2>1. documents \in [Events -> Nat] /\ invoiced \subseteq Events
    BY DEF IInv, TypeOK
  <2>2. work[p].event \in Events
    BY InvoicingChanges
  <2>3. CASE UNCHANGED <<documents, invoiced>>
    BY <2>1, <2>3
  <2>4. CASE documents' = [documents EXCEPT ![work[p].event] = @ + 1] /\ invoiced' = invoiced
    BY <2>1, <2>2, <2>4
  <2>5. CASE invoiced' = invoiced \cup {work[p].event} /\ documents' = documents
    BY <2>1, <2>2, <2>5
  <2> QED  BY <2>3, <2>4, <2>5, InvoicingChanges
<1> QED  BY <1>1, <1>2, InvoicingChanges, Typed DEF IInv, TypeOK

LEMMA SettleChanges ==
    ASSUME IInv, NEW p \in Pollers, Settle(p) \/ Fail(p)
    PROVE  LET e == work[p].event
           IN  /\ e \in Events /\ e \in work[p].batch /\ work[p].step \in {"settle", "fail"}
               /\ UNCHANGED <<history, tables, operator, troubles>>
               /\ event' \in [Events -> EventRow]
               /\ event'[e].old = event[e].old
               /\ event'[e].status = "done" => work[p].step = "settle" \/ event[e].status = "done"
               /\ event'[e].status \in {"done", "pending"}
               /\ \A d \in Events \ {e} : event'[d] = event[d]
               /\ work' \in [Pollers -> Work] /\ StepsFit'
               /\ work'[p].step = "next" /\ work'[p].batch = work[p].batch \ {e}
               /\ \A q \in Pollers \ {p} : work'[q] = work[q]
<1> DEFINE e == work[p].event
<1>1. work[p].step \in {"settle", "fail"} /\ UNCHANGED <<history, tables, operator, troubles>>
      /\ Leave(p)
  BY DEF Settle, Fail, At
<1>2. e \in Events /\ e \in work[p].batch
  BY <1>1 DEF IInv, StepsFit, Fits
<1>3. \/ work[p].step = "settle" /\ event' = Marked(e, "done")
      \/ event[e].status = "done" /\ event' = event
      \/ event' = Marked(e, "pending")
  BY DEF Settle, Fail, At
<1> HIDE DEF e
<1>4. /\ event' \in [Events -> EventRow]
      /\ event'[e].old = event[e].old
      /\ event'[e].status = "done" => work[p].step = "settle" \/ event[e].status = "done"
      /\ event'[e].status \in {"done", "pending"}
      /\ \A d \in Events \ {e} : event'[d] = event[d]
  <2>1. CASE work[p].step = "settle" /\ event' = Marked(e, "done")
    BY <1>2, <2>1, MarkedIs DEF IInv
  <2>2. CASE event[e].status = "done" /\ event' = event
    BY <2>2 DEF IInv, TypeOK
  <2>3. CASE event' = Marked(e, "pending")
    BY <1>2, <2>3, MarkedIs DEF IInv
  <2> QED  BY <1>3, <2>1, <2>2, <2>3
<1> QED  BY <1>1, <1>2, <1>4, LeaveIs DEF e

LEMMA SettleKeeps ==
    ASSUME IInv, NEW p \in Pollers, Settle(p) \/ Fail(p) PROVE IInv'
BY SettleChanges, TablesStand

LEMMA TroubleChanges ==
    ASSUME IInv, NEW p \in Pollers, Trip(p) \/ Die(p)
    PROVE  /\ UNCHANGED <<history, event, tables, operator>>
           /\ troubles' = troubles + 1 /\ troubles' \in 0 .. MaxTroubles
           /\ work' \in [Pollers -> Work] /\ StepsFit'
           /\ work'[p].step \in {"fail", "idle"}
           /\ work'[p].step = "fail" => /\ work'[p].batch = work[p].batch
                                        /\ work'[p].event = work[p].event
                                        /\ work[p].step \notin {"idle", "next"}
           /\ work'[p].step = "idle" => work'[p].batch = {}
           /\ \A q \in Pollers \ {p} : work'[q] = work[q]
<1>1. UNCHANGED <<history, event, tables, operator>> /\ troubles' = troubles + 1
      /\ troubles < MaxTroubles
  BY DEF Trip, Die
<1>2. troubles' \in 0 .. MaxTroubles
  BY <1>1, StripeEventsAssumption DEF IInv, TypeOK
<1>3. CASE Trip(p)
  <2>1. Go(p, "fail") /\ work[p].step \notin {"idle", "next"}
    BY <1>3 DEF Trip
  <2> QED  BY <1>1, <1>2, <2>1, GoesOn
<1>4. CASE Die(p)
  <2>1. work' = [work EXCEPT ![p] = Idle]
    BY <1>4 DEF Die
  <2> QED  BY <1>1, <1>2, <2>1, RestKeeps, Blanks
<1> QED  BY <1>3, <1>4

LEMMA TroubleKeeps ==
    ASSUME IInv, NEW p \in Pollers, Trip(p) \/ Die(p) PROVE IInv'
BY TroubleChanges, Typed DEF tables, IInv, TypeOK

LEMMA ReturnKeeps ==
    ASSUME IInv, NEW p \in Pollers, Return(p) PROVE IInv'
BY RestKeeps, TablesStand DEF Return, IInv, TypeOK

LEMMA SetStatusKeeps ==
    ASSUME IInv, (\E next \in AccessStatuses : BeginSetStatus(next)) \/ CommitSetStatus PROVE IInv'
<1>1. UNCHANGED <<history, event, subscription, outbox, duplicates, documents, invoiced,
                  work, troubles>>
  BY DEF BeginSetStatus, CommitSetStatus, tables
<1>2. access' \in AccessStatuses /\ operator' \in AccessStatuses \cup {None}
  BY DEF BeginSetStatus, CommitSetStatus, tables, IInv, TypeOK
<1> QED  BY <1>1, <1>2, WorkStands, Typed DEF IInv, TypeOK

LEMMA NextKeeps == IInv /\ [Next]_vars => IInv'
<1> SUFFICES ASSUME IInv, [Next]_vars PROVE IInv'
  OBVIOUS
<1>1. ASSUME NEW p \in Pollers, Handle(p) PROVE IInv'
  BY <1>1, TakeUpKeeps, ActivateKeeps, ClaimByMetadataKeeps, MirrorKeeps, EndKeeps,
     ScheduleKeeps, NotifyKeeps, InvoicingKeeps, SettleKeeps, ReturnKeeps DEF Handle
<1>2. CASE UNCHANGED vars
  <2>1. UNCHANGED <<history, tables, operator, troubles>> /\ work' = work /\ event' = event
    BY <1>2 DEF vars
  <2> QED  BY <2>1, WorkStands, TablesStand DEF IInv, TypeOK
<1>3. ASSUME NEW p \in Pollers, Poll(p) \/ Trip(p) \/ Die(p) PROVE IInv'
  BY <1>1, <1>3, ClaimKeeps, TroubleKeeps DEF Poll
<1> QED  BY <1>2, <1>3, ArrivalKeeps, SetStatusKeeps DEF Next, Step

THEOREM Invariance == Spec => []IInv
BY InitIsTyped, NextKeeps, PTL DEF Spec

\* The mirrored row, the events and what the pollers hold are well formed in
\* every reachable state, and a handler only ever runs for an event of its kind
\* (dispatch).
THEOREM Typing == Spec => []TypeOK
<1>1. IInv => TypeOK
  BY DEF IInv
<1> QED  BY <1>1, Invariance, PTL

----------------------------------------------------------------------------
(* Who moves: a poller's work changes only by a step of its own, an event  *)
(* is done only by the poller that settles it.                             *)

LEMMA OwnSteps ==
    ASSUME IInv, Next, NEW q \in Pollers, work'[q] # work[q]
    PROVE  Poll(q) \/ Trip(q) \/ Die(q)
<1>1. ASSUME NEW p \in Pollers, Handle(p), p # q PROVE work'[q] = work[q]
  <2>1. CASE \E e \in Events : TakeUp(p, e)
    BY <1>1, <2>1, TakeUpChanges
  <2>2. CASE Activate(p)
    BY <1>1, <2>2, ActivateChanges
  <2>3. CASE ClaimByMetadata(p)
    BY <1>1, <2>3, ClaimByMetadataChanges
  <2>4. CASE Mirror(p)
    BY <1>1, <2>4, MirrorChanges
  <2>5. CASE End(p)
    BY <1>1, <2>5, EndChanges
  <2>6. CASE Schedule(p)
    BY <1>1, <2>6, ScheduleChanges
  <2>7. CASE Notify(p)
    BY <1>1, <2>7, NotifyChanges
  <2>8. CASE Issue(p) \/ Create(p) \/ Save(p)
    BY <1>1, <2>8, InvoicingChanges
  <2>9. CASE Settle(p) \/ Fail(p)
    BY <1>1, <2>9, SettleChanges
  <2>10. CASE Return(p)
    BY <1>1, <2>10, RestKeeps DEF Return
  <2> QED  BY <1>1, <2>1, <2>2, <2>3, <2>4, <2>5, <2>6, <2>7, <2>8, <2>9, <2>10 DEF Handle
<1>2. ASSUME NEW p \in Pollers, Poll(p) \/ Trip(p) \/ Die(p), p # q PROVE work'[q] = work[q]
  BY <1>1, <1>2, ClaimChanges, TroubleChanges DEF Poll
<1>3. CASE \E e \in Events : Deliver(e) \/ Age(e) \/ Expire(e)
  BY <1>3 DEF Deliver, Age, Expire
<1>4. CASE (\E next \in AccessStatuses : BeginSetStatus(next)) \/ CommitSetStatus
  BY <1>4 DEF BeginSetStatus, CommitSetStatus
<1> QED  BY <1>2, <1>3, <1>4 DEF Next, Step

LEMMA EventSteps ==
    ASSUME IInv, Next, NEW e \in Events
    PROVE  /\ event[e].old => event'[e].old
           /\ event'[e].status = "done" =>
                 \/ event[e].status = "done"
                 \/ \E p \in Pollers : work[p].step = "settle" /\ work[p].event = e
<1>1. CASE event' = event
  BY <1>1
<1>2. ASSUME NEW d \in Events, Deliver(d) \/ Expire(d)
      PROVE  event'[e].old = event[e].old
             /\ (event'[e].status = "done" => event[e].status = "done")
  BY <1>2, MarkedIs DEF Deliver, Expire, IInv
<1>3. ASSUME NEW d \in Events, Age(d)
      PROVE  (event[e].old => event'[e].old) /\ event'[e].status = event[e].status
  <2>1. [event[d] EXCEPT !.old = TRUE].old = TRUE
        /\ [event[d] EXCEPT !.old = TRUE].status = event[d].status
    BY DEF IInv, TypeOK, EventRow
  <2>2. event' = [event EXCEPT ![d] = [event[d] EXCEPT !.old = TRUE]]
    BY <1>3 DEF Age
  <2> QED  BY <2>1, <2>2 DEF IInv, TypeOK
<1>4. ASSUME NEW p \in Pollers, NEW batch \in SUBSET Events, Claim(p, batch)
      PROVE  event'[e].old = event[e].old
             /\ (event'[e].status = "done" => event[e].status = "done")
  BY <1>4, ClaimChanges
<1>5. ASSUME NEW p \in Pollers, Settle(p) \/ Fail(p)
      PROVE  /\ event'[e].old = event[e].old
             /\ event'[e].status = "done" =>
                   \/ event[e].status = "done"
                   \/ work[p].step = "settle" /\ work[p].event = e
  BY <1>5, SettleChanges
<1>6. ASSUME NEW p \in Pollers, Handle(p), ~(Settle(p) \/ Fail(p)) PROVE event' = event
  BY <1>6 DEF Handle, TakeUp, Activate, ClaimByMetadata, Mirror, End, Schedule, Notify, Issue,
              Create, Save, Return
<1>7. ASSUME NEW p \in Pollers, Trip(p) \/ Die(p) PROVE event' = event
  BY <1>7 DEF Trip, Die
<1>8. CASE (\E next \in AccessStatuses : BeginSetStatus(next)) \/ CommitSetStatus
  BY <1>8 DEF BeginSetStatus, CommitSetStatus
<1> QED  BY <1>1, <1>2, <1>3, <1>4, <1>5, <1>6, <1>7, <1>8 DEF Next, Step, Poll

----------------------------------------------------------------------------
(* How the organization's row changes, whoever read it before.             *)

\* A row is made for a subscription.
RowIsBound == subscription = NoRow \/ subscription.id \in Subscriptions

\* Who is about to claim by the metadata has read that there is no row.
ClaimersSawNone == \A p \in Pollers : work[p].step = "claim" => work[p].found = NoRow

\* What any step does to the row and to the access.  The row goes from one
\* subscription to another only by a raced payment, which displaced remembers; what
\* is mirrored and granted is worked out from the rows as they are, or overtaken
\* tells otherwise.
RowStep ==
    \/ UNCHANGED <<access, subscription>>
    \/ \E s \in Subscriptions :
          /\ subscription = NoRow \/ subscription.id \in {s} \cup displaced'
          /\ subscription' = BoundRow(s) /\ access' = access
    \/ \E p \in Pollers, e \in Events :
          /\ history[e].kind = "state" /\ NewerState(history[e].sub, e)
          /\ history[e].sub \in Subscriptions
          /\ subscription' = Mirrored(e, work[p].found)
          /\ \/ overtaken'
             \/ /\ work[p].found.status = subscription.status
                /\ access' = IF Grant(e) = None THEN access ELSE Grant(e)
          /\ work'[p].event = e
          /\ work'[p].step = IF GoesLive(work[p].found, MirroredStatus(history[e].status))
                             THEN "notify" ELSE "settle"
    \/ \E e \in Events :
          /\ history[e].kind = "end" /\ NewerState(history[e].sub, e)
          /\ access' = "SUSPENDED"
          /\ subscription'.status = "CANCELED" /\ subscription'.stateEvent = e
          /\ subscription'.pending = None /\ subscription'.id = subscription.id
          /\ subscription'.scheduleEvent = subscription.scheduleEvent
    \/ \E e \in Events :
          /\ history[e].kind = "schedule" /\ NewerSchedule(history[e].sub, e)
          /\ subscription'.pending = history[e].plan /\ subscription'.scheduleEvent = e
          /\ subscription'.id = subscription.id /\ subscription'.status = subscription.status
          /\ subscription'.stateEvent = subscription.stateEvent /\ access' = access
    \/ /\ overtaken' \/ access' \in {"SUSPENDED", RestoredAccess}
       /\ subscription' = subscription

LEMMA BoundRowBinds ==
    ASSUME TypeOK, NEW s \in Subscriptions
    PROVE  BoundRow(s) # NoRow /\ BoundRow(s).id = s
BY BoundRowIs, Blanks, StripeEventsAssumption

\* What has been observed is not forgotten.
LEMMA ObservationsStay ==
    ASSUME [Next]_vars
    PROVE  /\ displaced \subseteq displaced'
           /\ overtaken => overtaken'
<1>1. CASE UNCHANGED vars
  BY <1>1 DEF vars, races
<1>2. CASE Observed
  BY <1>2 DEF Observed
<1> QED  BY <1>1, <1>2 DEF Next

LEMMA ActivateBinds ==
    ASSUME IInv, RowIsBound, Next, NEW p \in Pollers, Activate(p),
           NEW s, s = history[work[p].event].sub
    PROVE  /\ s \in Subscriptions /\ access' = access
           /\ \/ subscription' = subscription
              \/ /\ subscription = NoRow \/ subscription.id \in {s} \cup displaced'
                 /\ subscription' = BoundRow(s)
<1>1. /\ s \in Subscriptions /\ access' = access
      /\ work[p].step = "activate" /\ work'[p].step = "settle"
      /\ \/ subscription' = subscription
         \/ ~IsSecond(work[p].found, s) /\ subscription' = BoundRow(s)
  BY ActivateChanges DEF Activate
<1>2. ASSUME ~IsSecond(work[p].found, s), subscription' = BoundRow(s),
             subscription # NoRow, subscription.id # s
      PROVE  subscription.id \in displaced'
  <2>1. subscription.id \in Subscriptions /\ Bound(subscription.id)
    BY <1>2 DEF RowIsBound, Bound
  <2>2. subscription'.id = s
    BY <1>1, <1>2, BoundRowBinds DEF IInv
  <2>3. work[p].found.id \in {None, s}
    BY <1>2, Blanks DEF IsSecond
  <2>4. work[p].found.id # subscription.id
    BY <1>2, <2>1, <2>3, StripeEventsAssumption
  <2>5. work'[p] # work[p]
    BY <1>1
  <2>6. subscription.id \in Displaced
    BY <1>2, <2>1, <2>2, <2>4, <2>5 DEF Displaced
  <2> QED  BY <2>6 DEF Next, Observed
<1> QED  BY <1>1, <1>2

LEMMA ClaimByMetadataBinds ==
    ASSUME IInv, ClaimersSawNone, NEW p \in Pollers, ClaimByMetadata(p),
           NEW s, s = history[work[p].event].sub
    PROVE  /\ s \in Subscriptions /\ access' = access
           /\ \/ subscription' = subscription
              \/ subscription = NoRow /\ subscription' = BoundRow(s)
<1>1. work[p].step = "claim" /\ work[p].found = NoRow
  BY ClaimByMetadataChanges DEF ClaimersSawNone
<1> QED  BY <1>1, ClaimByMetadataChanges DEF ClaimByMetadata

LEMMA MirrorWrites ==
    ASSUME IInv, Next, NEW p \in Pollers, Mirror(p), NEW e, e = work[p].event
    PROVE  /\ e \in Events /\ history[e].kind = "state" /\ history[e].sub \in Subscriptions
           /\ work'[p].event = e
           /\ \/ UNCHANGED <<access, subscription>>
              \/ /\ NewerState(history[e].sub, e)
                 /\ subscription' = Mirrored(e, work[p].found)
                 /\ \/ overtaken'
                    \/ /\ work[p].found.status = subscription.status
                       /\ access' = IF Grant(e) = None THEN access ELSE Grant(e)
                 /\ work'[p].step = IF GoesLive(work[p].found, MirroredStatus(history[e].status))
                                    THEN "notify" ELSE "settle"
<1>1. /\ e \in Events /\ history[e].kind = "state" /\ history[e].sub \in Subscriptions
      /\ work[p].step = "mirror" /\ work'[p].event = e /\ work'[p].step \in {"settle", "notify"}
      /\ \/ UNCHANGED <<access, subscription>>
         \/ /\ NewerState(history[e].sub, e)
            /\ subscription' = Mirrored(e, work[p].found)
            /\ access' = IF work[p].grant = None THEN access ELSE work[p].grant
            /\ work'[p].step = IF GoesLive(work[p].found, MirroredStatus(history[e].status))
                               THEN "notify" ELSE "settle"
  BY MirrorChanges
<1>2. ASSUME NewerState(history[e].sub, e), subscription' = Mirrored(e, work[p].found),
             ~overtaken'
      PROVE  work[p].found.status = subscription.status /\ work[p].grant = Grant(e)
  <2>1. subscription.stateEvent < e /\ subscription'.stateEvent = e
    BY <1>1, <1>2, MirroredIs DEF NewerState, IInv
  <2>2. e \in Nat /\ subscription.stateEvent \in Nat
    BY <1>1, CursorsAreNumbers DEF IInv, TypeOK
  <2>3. subscription' # subscription
    BY <2>1, <2>2
  <2>4. work'[p] # work[p]
    BY <1>1
  <2>5. ~Overtakes
    BY <1>2 DEF Next, Observed
  <2> QED  BY <1>1, <2>3, <2>4, <2>5 DEF Overtakes, At
<1> QED  BY <1>1, <1>2

LEMMA RowSteps ==
    ASSUME IInv, RowIsBound, ClaimersSawNone, [Next]_vars PROVE RowStep
<1>1. CASE UNCHANGED vars
  BY <1>1 DEF vars, tables, RowStep
<1>2. ASSUME Next, NEW p \in Pollers, Activate(p) PROVE RowStep
  <2> DEFINE s == history[work[p].event].sub
  <2>1. /\ s \in Subscriptions /\ access' = access
        /\ \/ subscription' = subscription
           \/ /\ subscription = NoRow \/ subscription.id \in {s} \cup displaced'
              /\ subscription' = BoundRow(s)
    BY <1>2, ActivateBinds
  <2> HIDE DEF s
  <2> QED  BY <2>1 DEF RowStep
<1>3. ASSUME NEW p \in Pollers, ClaimByMetadata(p) PROVE RowStep
  <2> DEFINE s == history[work[p].event].sub
  <2>1. /\ s \in Subscriptions /\ access' = access
        /\ \/ subscription' = subscription
           \/ subscription = NoRow /\ subscription' = BoundRow(s)
    BY <1>3, ClaimByMetadataBinds
  <2> HIDE DEF s
  <2> QED  BY <2>1 DEF RowStep
<1>4. ASSUME Next, NEW p \in Pollers, Mirror(p) PROVE RowStep
  <2> DEFINE e == work[p].event
  <2>1. /\ e \in Events /\ history[e].kind = "state" /\ history[e].sub \in Subscriptions
        /\ work'[p].event = e
        /\ \/ UNCHANGED <<access, subscription>>
           \/ /\ NewerState(history[e].sub, e)
              /\ subscription' = Mirrored(e, work[p].found)
              /\ \/ overtaken'
                 \/ /\ work[p].found.status = subscription.status
                    /\ access' = IF Grant(e) = None THEN access ELSE Grant(e)
              /\ work'[p].step = IF GoesLive(work[p].found, MirroredStatus(history[e].status))
                                 THEN "notify" ELSE "settle"
    BY <1>4, MirrorWrites
  <2> HIDE DEF e
  <2> QED  BY <2>1 DEF RowStep
<1>5. ASSUME NEW p \in Pollers, End(p) PROVE RowStep
  <2> DEFINE e == work[p].event
  <2>1. /\ e \in Events /\ history[e].kind = "end"
        /\ \/ UNCHANGED <<access, subscription>>
           \/ /\ NewerState(history[e].sub, e) /\ access' = "SUSPENDED"
              /\ subscription'.status = "CANCELED" /\ subscription'.stateEvent = e
              /\ subscription'.pending = None /\ subscription'.id = subscription.id
              /\ subscription'.scheduleEvent = subscription.scheduleEvent
    BY <1>5, EndChanges
  <2> HIDE DEF e
  <2> QED  BY <2>1 DEF RowStep
<1>6. ASSUME NEW p \in Pollers, Schedule(p) PROVE RowStep
  <2> DEFINE e == work[p].event
  <2>1. /\ e \in Events /\ history[e].kind = "schedule" /\ access' = access
        /\ \/ subscription' = subscription
           \/ /\ NewerSchedule(history[e].sub, e)
              /\ subscription'.pending = history[e].plan /\ subscription'.scheduleEvent = e
              /\ subscription'.id = subscription.id /\ subscription'.status = subscription.status
              /\ subscription'.stateEvent = subscription.stateEvent
    BY <1>6, ScheduleChanges DEF Schedule
  <2> HIDE DEF e
  <2> QED  BY <2>1 DEF RowStep
<1>7. ASSUME Next, NEW p \in Pollers, Handle(p) PROVE RowStep
  <2>1. CASE (\E e \in Events : TakeUp(p, e)) \/ Issue(p) \/ Settle(p) \/ Fail(p) \/ Return(p)
             \/ Notify(p) \/ Create(p) \/ Save(p)
    <3>1. UNCHANGED <<access, subscription>>
      BY <2>1 DEF TakeUp, Issue, Settle, Fail, Return, Notify, Create, Save, tables
    <3> QED  BY <3>1 DEF RowStep
  <2> QED  BY <1>2, <1>3, <1>4, <1>5, <1>6, <1>7, <2>1 DEF Handle
<1>8. ASSUME NEW p \in Pollers, Trip(p) \/ Die(p) \/ \E batch \in SUBSET Events : Claim(p, batch)
      PROVE  RowStep
  BY <1>8 DEF Trip, Die, Claim, tables, RowStep
<1>9. CASE \E e \in Events : Deliver(e) \/ Age(e) \/ Expire(e)
  BY <1>9 DEF Deliver, Age, Expire, tables, RowStep
<1>10. CASE \E next \in AccessStatuses : BeginSetStatus(next)
  BY <1>10 DEF BeginSetStatus, tables, RowStep
<1>11. CASE Next /\ CommitSetStatus
  <2>1. /\ operator # None /\ operator' = None
        /\ access' = operator /\ subscription' = subscription
    BY <1>11 DEF CommitSetStatus
  <2>2. overtaken' \/ operator \in {"SUSPENDED", RestoredAccess}
    BY <1>11, <2>1 DEF Next, Observed, Overtakes
  <2> QED  BY <2>1, <2>2 DEF RowStep
<1> QED  BY <1>1, <1>7, <1>8, <1>9, <1>10, <1>11 DEF Next, Step, Poll

LEMMA ClaimersKeep ==
    ASSUME IInv, RowIsBound, ClaimersSawNone, [Next]_vars PROVE ClaimersSawNone'
<1> SUFFICES ASSUME NEW p \in Pollers, work'[p].step = "claim" PROVE work'[p].found = NoRow
  BY DEF ClaimersSawNone
<1>1. CASE work'[p] = work[p]
  BY <1>1 DEF ClaimersSawNone
<1>2. CASE work'[p] # work[p]
  <2>1. Poll(p) \/ Trip(p) \/ Die(p)
    BY <1>2, OwnSteps DEF vars
  <2>2. ASSUME NEW e \in Events, TakeUp(p, e) PROVE work'[p].found = NoRow
    <3>1. work'[p].step = FirstStep(e) /\ work'[p].found = subscription
      BY <2>2, TakeUpChanges
    <3>2. Unbound
      BY <3>1, FirstStepFits
    <3> QED  BY <3>1, <3>2, StripeEventsAssumption DEF Unbound, RowIsBound
  <2>3. CASE ClaimByMetadata(p)
    BY <2>3, ClaimByMetadataChanges DEF HandlerOf
  <2>4. CASE Activate(p) \/ Mirror(p) \/ End(p) \/ Schedule(p) \/ Notify(p)
    BY <2>4, ActivateChanges, MirrorChanges, EndChanges, ScheduleChanges, NotifyChanges
  <2>5. CASE Issue(p) \/ Create(p) \/ Save(p) \/ Settle(p) \/ Fail(p)
    BY <2>5, InvoicingChanges, SettleChanges
  <2>6. CASE Return(p)
    BY <2>6, RestKeeps, Blanks DEF Return
  <2>7. CASE \E batch \in SUBSET Events : Claim(p, batch)
    BY <2>7, ClaimChanges
  <2>8. CASE Trip(p) \/ Die(p)
    BY <2>8, TroubleChanges
  <2> QED  BY <2>1, <2>2, <2>3, <2>4, <2>5, <2>6, <2>7, <2>8 DEF Poll, Handle
<1> QED  BY <1>1, <1>2

\* The cursors only move on, and the row keeps its subscription until a raced
\* payment takes it.
LEMMA RowMovesOn ==
    ASSUME IInv, RowIsBound, RowStep, subscription' \in Row
    PROVE  /\ RowIsBound'
           /\ subscription # NoRow => subscription' # NoRow
           /\ subscription # NoRow => subscription'.id = subscription.id
                                      \/ subscription.id \in displaced'
           /\ subscription.stateEvent <= subscription'.stateEvent
           /\ subscription.scheduleEvent <= subscription'.scheduleEvent
<1>1. /\ subscription \in Row /\ NoRow.id = None /\ None \notin Subscriptions
      /\ subscription.stateEvent \in Nat /\ subscription.scheduleEvent \in Nat
  <2>1. subscription \in Row /\ NoRow.id = None /\ None \notin Subscriptions
    BY Blanks, StripeEventsAssumption DEF IInv, TypeOK
  <2> QED  BY <2>1, CursorsAreNumbers
<1>2. NoRow.stateEvent = 0 /\ NoRow.scheduleEvent = 0
  BY DEF NoRow
<1>3. CASE subscription' = subscription
  BY <1>1, <1>3 DEF RowIsBound
<1>4. ASSUME NEW s \in Subscriptions, subscription' = BoundRow(s)
      PROVE  /\ subscription'.id = s /\ subscription' # NoRow
             /\ subscription.stateEvent <= subscription'.stateEvent
             /\ subscription.scheduleEvent <= subscription'.scheduleEvent
  BY <1>1, <1>2, <1>4, BoundRowIs, BoundRowBinds, NewRowIs DEF IInv
<1>5. ASSUME NEW e \in Events, NEW s, Bound(s),
             \/ /\ history[e].kind = "state" /\ subscription.stateEvent < e
                /\ \E p \in Pollers : subscription' = Mirrored(e, work[p].found)
             \/ /\ subscription'.id = subscription.id
                /\ \/ /\ subscription.stateEvent < e /\ subscription'.stateEvent = e
                      /\ subscription'.scheduleEvent = subscription.scheduleEvent
                   \/ /\ subscription.scheduleEvent < e /\ subscription'.scheduleEvent = e
                      /\ subscription'.stateEvent = subscription.stateEvent
      PROVE  /\ subscription # NoRow /\ subscription.id \in Subscriptions
             /\ subscription'.id = subscription.id
             /\ subscription.stateEvent <= subscription'.stateEvent
             /\ subscription.scheduleEvent <= subscription'.scheduleEvent
  <2>1. e \in Nat
    BY StripeEventsAssumption
  <2>2. subscription # NoRow /\ subscription.id \in Subscriptions
    BY <1>5 DEF Bound, RowIsBound
  <2>3. ASSUME NEW p \in Pollers, history[e].kind = "state", subscription.stateEvent < e,
               subscription' = Mirrored(e, work[p].found)
        PROVE  /\ subscription'.id = subscription.id /\ subscription'.stateEvent = e
               /\ subscription'.scheduleEvent = subscription.scheduleEvent
               /\ subscription.stateEvent < e
    BY <2>3, MirroredIs DEF IInv
  <2> QED  BY <1>1, <1>5, <2>1, <2>2, <2>3
<1>6. CASE \E s \in Subscriptions :
              /\ subscription = NoRow \/ subscription.id \in {s} \cup displaced'
              /\ subscription' = BoundRow(s)
  <2>1. PICK s \in Subscriptions :
              /\ subscription = NoRow \/ subscription.id \in {s} \cup displaced'
              /\ subscription' = BoundRow(s)
    BY <1>6
  <2>2. /\ subscription'.id = s /\ subscription' # NoRow
        /\ subscription.stateEvent <= subscription'.stateEvent
        /\ subscription.scheduleEvent <= subscription'.scheduleEvent
    BY <1>4, <2>1
  <2> QED  BY <2>1, <2>2 DEF RowIsBound
<1>7. CASE /\ subscription # NoRow /\ subscription.id \in Subscriptions
           /\ subscription'.id = subscription.id
           /\ subscription.stateEvent <= subscription'.stateEvent
           /\ subscription.scheduleEvent <= subscription'.scheduleEvent
  BY <1>1, <1>7 DEF RowIsBound
<1> QED  BY <1>3, <1>5, <1>6, <1>7 DEF RowStep, NewerState, NewerSchedule

LEMMA BoundStays ==
    ASSUME IInv, RowIsBound, RowStep, subscription' \in Row, NEW s \in Subscriptions, Bound(s)
    PROVE  Bound(s)' \/ s \in displaced'
BY RowMovesOn DEF Bound

----------------------------------------------------------------------------
(* Access.                                                                 *)

LEMMA GrantRespects ==
    ASSUME IInv, NEW e \in Events, history[e].kind = "state"
    PROVE  /\ access = "SUSPENDED" => Grant(e) \in {None, "SUSPENDED"}
           /\ MirroredStatus(history[e].status) = "CANCELED" =>
                 IF Grant(e) = None THEN access = "SUSPENDED" ELSE Grant(e) = "SUSPENDED"
<1>1. history[e].status \in StripeStatuses /\ None # "SUSPENDED"
  BY HistoryIs, StripeEventsAssumption DEF IInv, AccessStatuses
<1>2. Grant(e) = NextAccess(access, AccessEffect(history[e].status))
  BY DEF Grant
<1>3. access = "SUSPENDED" => Grant(e) \in {None, "SUSPENDED"}
  BY <1>2 DEF NextAccess
<1>4. MirroredStatus(history[e].status) = "CANCELED" => history[e].status = "canceled"
  BY <1>1 DEF MirroredStatus, StripeStatuses
<1>5. AccessEffect("canceled") = "SUSPENDED"
  BY DEF AccessEffect
<1>6. NextAccess(access, "SUSPENDED") = IF access = "SUSPENDED" THEN None ELSE "SUSPENDED"
  BY DEF NextAccess
<1> QED  BY <1>1, <1>2, <1>3, <1>4, <1>5, <1>6

LEMMA AccessKeeps ==
    ASSUME IInv, EndedHasNoAccess, RowStep, overtaken => overtaken' PROVE EndedHasNoAccess'
<1> SUFFICES ASSUME subscription'.status = "CANCELED", ~overtaken'
             PROVE  access' \notin {"TRIAL", "ACTIVE"}
  BY DEF EndedHasNoAccess
<1>1. subscription.status = "CANCELED" => access \notin {"TRIAL", "ACTIVE"}
  BY DEF EndedHasNoAccess
<1>2. CASE UNCHANGED <<access, subscription>>
  BY <1>1, <1>2
<1>3. ASSUME NEW s \in Subscriptions, subscription' = BoundRow(s), access' = access
      PROVE  access' \notin {"TRIAL", "ACTIVE"}
  <2>1. subscription'.status = "INCOMPLETE" \/ subscription'.status = subscription.status
    BY <1>3, BoundRowIs, NewRowIs DEF IInv
  <2> QED  BY <1>1, <1>3, <2>1
<1>4. ASSUME NEW e \in Events, NEW p \in Pollers, history[e].kind = "state",
             subscription' = Mirrored(e, work[p].found),
             access' = IF Grant(e) = None THEN access ELSE Grant(e)
      PROVE  access' \notin {"TRIAL", "ACTIVE"}
  <2>1. subscription'.status = MirroredStatus(history[e].status)
    BY <1>4, MirroredIs DEF IInv
  <2> QED  BY <1>4, <2>1, GrantRespects
<1>5. CASE access' = "SUSPENDED"
  BY <1>5
<1>6. CASE subscription'.status = subscription.status /\ access' = access
  BY <1>1, <1>6
<1>7. CASE access' = RestoredAccess /\ subscription' = subscription
  BY <1>7 DEF RestoredAccess, Live
<1> QED  BY <1>2, <1>3, <1>4, <1>5, <1>6, <1>7 DEF RowStep

----------------------------------------------------------------------------
(* The cursors name the events the row was mirrored from.                  *)

Cursors ==
    LET s == subscription.stateEvent
        c == subscription.scheduleEvent
    IN  /\ s # 0 => /\ history[s].kind \in {"state", "end"}
                    /\ subscription.status = StatusOf(s)
        /\ c # 0 => /\ history[c].kind = "schedule"
                    /\ history[c].plan = None => subscription.pending = None

LEMMA CursorsKeep ==
    ASSUME IInv, Cursors, RowStep, history' = history PROVE Cursors'
<1> DEFINE Same == /\ subscription'.stateEvent = subscription.stateEvent
                   /\ subscription'.status = subscription.status
           SamePlan == /\ subscription'.scheduleEvent = subscription.scheduleEvent
                       /\ subscription'.pending \in {None, subscription.pending}
           NewState == \E e \in Events : /\ history[e].kind \in {"state", "end"}
                                         /\ subscription'.stateEvent = e
                                         /\ subscription'.status = StatusOf(e)
           NewPlan == \E e \in Events : /\ history[e].kind = "schedule"
                                        /\ subscription'.scheduleEvent = e
                                        /\ subscription'.pending = history[e].plan
           Blank == subscription'.stateEvent = 0 /\ subscription'.scheduleEvent = 0
<1>1. Blank \/ ((Same \/ NewState) /\ (SamePlan \/ NewPlan))
  <2>1. CASE subscription' = subscription
    BY <2>1
  <2>2. ASSUME NEW s \in Subscriptions, subscription' = BoundRow(s)
        PROVE  Blank \/ (Same /\ SamePlan)
    BY <2>2, BoundRowIs, NewRowIs DEF IInv
  <2>3. ASSUME NEW e \in Events, NEW p \in Pollers, history[e].kind = "state",
               subscription' = Mirrored(e, work[p].found)
        PROVE  NewState /\ SamePlan
    BY <2>3, MirroredIs DEF IInv, StatusOf
  <2>4. ASSUME NEW e \in Events, history[e].kind = "end",
               subscription'.status = "CANCELED", subscription'.stateEvent = e,
               subscription'.pending = None,
               subscription'.scheduleEvent = subscription.scheduleEvent
        PROVE  NewState /\ SamePlan
    BY <2>4 DEF StatusOf
  <2>5. ASSUME NEW e \in Events, history[e].kind = "schedule",
               subscription'.pending = history[e].plan, subscription'.scheduleEvent = e,
               subscription'.status = subscription.status,
               subscription'.stateEvent = subscription.stateEvent
        PROVE  Same /\ NewPlan
    BY <2>5
  <2> HIDE DEF Blank, Same, SamePlan, NewState, NewPlan
  <2>6. Same /\ SamePlan => Blank \/ ((Same \/ NewState) /\ (SamePlan \/ NewPlan))
    OBVIOUS
  <2>7. subscription' = subscription => Same /\ SamePlan
    BY DEF Same, SamePlan
  <2> QED  BY <2>2, <2>3, <2>4, <2>5, <2>7 DEF RowStep
<1>2. Cursors' <=>
         /\ subscription'.stateEvent # 0 =>
               /\ history[subscription'.stateEvent].kind \in {"state", "end"}
               /\ subscription'.status = StatusOf(subscription'.stateEvent)
         /\ subscription'.scheduleEvent # 0 =>
               /\ history[subscription'.scheduleEvent].kind = "schedule"
               /\ history[subscription'.scheduleEvent].plan = None =>
                      subscription'.pending = None
  BY DEF Cursors, StatusOf
<1>3. CASE Blank
  BY <1>2, <1>3
<1>4. Same \/ NewState =>
         (subscription'.stateEvent # 0 =>
               /\ history[subscription'.stateEvent].kind \in {"state", "end"}
               /\ subscription'.status = StatusOf(subscription'.stateEvent))
  BY DEF Cursors
<1>5. SamePlan \/ NewPlan =>
         (subscription'.scheduleEvent # 0 =>
               /\ history[subscription'.scheduleEvent].kind = "schedule"
               /\ history[subscription'.scheduleEvent].plan = None =>
                      subscription'.pending = None)
  BY DEF Cursors
<1> HIDE DEF Blank, Same, SamePlan, NewState, NewPlan
<1> QED  BY <1>1, <1>2, <1>3, <1>4, <1>5

----------------------------------------------------------------------------
(* What has been worked off counts.                                        *)

HandlersAreBound ==
    \A p \in Pollers :
        work[p].step \in {"mirror", "end", "schedule"} =>
            Bound(history[work[p].event].sub) \/ history[work[p].event].sub \in displaced

\* The event is in the row, or the row is further.
Counted(e) ==
    /\ history[e].kind \in {"state", "end"} /\ history[e].sub \notin displaced =>
          Bound(history[e].sub) /\ e <= subscription.stateEvent
    /\ history[e].kind = "schedule" /\ history[e].sub \notin displaced =>
          Bound(history[e].sub) /\ e <= subscription.scheduleEvent

SettledCounts ==
    \A e \in Events :
        /\ ~event[e].old
        /\ \/ event[e].status = "done"
           \/ \E p \in Pollers : work[p].step \in {"settle", "notify"} /\ work[p].event = e
        => Counted(e)

Binding == RowIsBound /\ ClaimersSawNone /\ HandlersAreBound /\ SettledCounts

LEMMA CountedStays ==
    ASSUME IInv, RowIsBound, RowStep, subscription' \in Row, history' = history,
           displaced \subseteq displaced', NEW e \in Events, Counted(e)
    PROVE  Counted(e)'
<1>1. history[e].kind \in {"state", "end", "schedule"} => history[e].sub \in Subscriptions
  BY HistoryIs DEF IInv
<1>2. /\ subscription.stateEvent <= subscription'.stateEvent
      /\ subscription.scheduleEvent <= subscription'.scheduleEvent
  BY RowMovesOn
<1>3. \A s \in Subscriptions : subscription # NoRow /\ subscription.id = s =>
                               \/ subscription' # NoRow /\ subscription'.id = s
                               \/ s \in displaced'
  BY RowMovesOn
<1>4. /\ e \in Nat
      /\ subscription.stateEvent \in Nat /\ subscription'.stateEvent \in Nat
      /\ subscription.scheduleEvent \in Nat /\ subscription'.scheduleEvent \in Nat
  BY CursorsAreNumbers DEF IInv, TypeOK
<1>5. history'[e] = history[e]
  OBVIOUS
<1>6. ASSUME history[e].kind \in {"state", "end"}, history[e].sub \notin displaced'
      PROVE  subscription' # NoRow /\ subscription'.id = history[e].sub
             /\ e <= subscription'.stateEvent
  BY <1>1, <1>2, <1>3, <1>4, <1>6 DEF Counted, Bound
<1>7. ASSUME history[e].kind = "schedule", history[e].sub \notin displaced'
      PROVE  subscription' # NoRow /\ subscription'.id = history[e].sub
             /\ e <= subscription'.scheduleEvent
  BY <1>1, <1>2, <1>3, <1>4, <1>7 DEF Counted, Bound
<1> QED  BY <1>5, <1>6, <1>7 DEF Counted, Bound

\* What an own step settles, notifies of, or goes on to handle.
LEMMA SettlingCounts ==
    ASSUME IInv, Binding, Next, RowStep, subscription' \in Row, history' = history,
           NEW p \in Pollers, work'[p] # work[p],
           NEW e, e = work'[p].event, NEW s, s = history[e].sub
    PROVE  /\ work'[p].step \in {"settle", "notify"} /\ ~event'[e].old => Counted(e)'
           /\ work'[p].step \in {"mirror", "end", "schedule"} => Bound(s)' \/ s \in displaced'
<1> DEFINE Goal == /\ work'[p].step \in {"settle", "notify"} /\ ~event'[e].old => Counted(e)'
                   /\ work'[p].step \in {"mirror", "end", "schedule"} => Bound(s)' \/ s \in displaced'
<1> SUFFICES Goal
  OBVIOUS
<1>0. displaced \subseteq displaced'
  BY ObservationsStay
<1>1. Poll(p) \/ Trip(p) \/ Die(p)
  BY OwnSteps
<1>2. CASE \E d \in Events : TakeUp(p, d)
  <2>1. PICK d \in Events : TakeUp(p, d)
    BY <1>2
  <2>2. e = d /\ work'[p].step = FirstStep(d)
    BY <2>1, TakeUpChanges
  <2>3. event' = event /\ subscription' = subscription
    BY <2>1 DEF TakeUp, tables
  <2>4. FirstStep(d) \in {"settle", "notify"} /\ ~event[d].old =>
           history[d].kind \notin {"state", "end", "schedule"}
    BY FirstStepFits
  <2>5. FirstStep(d) \in {"mirror", "end", "schedule"} => Bound(history[d].sub)
    BY FirstStepFits
  <2> QED  BY <2>2, <2>3, <2>4, <2>5 DEF Counted, Bound
<1>3. CASE Activate(p)
  <2>1. work'[p].step = "settle" /\ history[e].kind = "checkout"
    BY <1>3, ActivateChanges
  <2> QED  BY <2>1 DEF Counted
<1>4. CASE ClaimByMetadata(p)
  <2>1. /\ e \in Events /\ s \in Subscriptions
        /\ history[e].kind \in {"state", "end", "trial_ending"}
        /\ \/ work'[p].step = "fail"
           \/ /\ subscription' = BoundRow(s)
              /\ work'[p].step = HandlerOf(history[e].kind)
    BY <1>4, ClaimByMetadataChanges
  <2>2. CASE work'[p].step = "fail"
    BY <2>2
  <2>3. CASE /\ subscription' = BoundRow(s)
             /\ work'[p].step = HandlerOf(history[e].kind)
    <3>1. Bound(s)'
      BY <2>1, <2>3, BoundRowBinds DEF Bound, IInv
    <3>2. work'[p].step \in {"settle", "notify"} => history[e].kind = "trial_ending"
      BY <2>1, <2>3 DEF HandlerOf
    <3>3. work'[p].step \in {"settle", "notify"} => Counted(e)'
      BY <3>2 DEF Counted
    <3> QED  BY <3>1, <3>3
  <2> QED  BY <2>1, <2>2, <2>3
<1>5. CASE Mirror(p)
  <2>1. /\ e \in Events /\ history[e].kind = "state" /\ s \in Subscriptions
        /\ work'[p].step \in {"settle", "notify"} /\ e = work[p].event
        /\ work[p].step = "mirror"
        /\ \/ subscription' = Mirrored(e, work[p].found)
           \/ ~NewerState(s, e) /\ subscription' = subscription
    BY <1>5, MirrorChanges
  <2>2. Bound(s) \/ s \in displaced
    BY <2>1 DEF Binding, HandlersAreBound
  <2>3. Bound(s)' \/ s \in displaced'
    BY <1>0, <2>1, <2>2, BoundStays DEF Binding
  <2>4. s \in displaced \/ e <= subscription'.stateEvent
    <3>1. e \in Nat /\ subscription.stateEvent \in Nat
      BY <2>1, CursorsAreNumbers DEF IInv, TypeOK
    <3>2. CASE subscription' = Mirrored(e, work[p].found)
      BY <2>1, <3>1, <3>2, MirroredIs DEF IInv
    <3>3. CASE ~NewerState(s, e) /\ subscription' = subscription
      BY <2>2, <3>1, <3>3 DEF NewerState
    <3> QED  BY <2>1, <3>2, <3>3
  <2>5. Counted(e)'
    BY <1>0, <2>1, <2>3, <2>4 DEF Counted
  <2> QED  BY <2>1, <2>5
<1>6. CASE End(p)
  <2>1. /\ e \in Events /\ history[e].kind = "end" /\ s \in Subscriptions
        /\ work'[p].step = "settle" /\ e = work[p].event /\ work[p].step = "end"
        /\ \/ subscription'.stateEvent = e
           \/ ~NewerState(s, e) /\ subscription' = subscription
    BY <1>6, EndChanges
  <2>2. Bound(s) \/ s \in displaced
    BY <2>1 DEF Binding, HandlersAreBound
  <2>3. Bound(s)' \/ s \in displaced'
    BY <1>0, <2>1, <2>2, BoundStays DEF Binding
  <2>4. s \in displaced \/ e <= subscription'.stateEvent
    <3>1. e \in Nat /\ subscription.stateEvent \in Nat
      BY <2>1, CursorsAreNumbers DEF IInv, TypeOK
    <3> QED  BY <2>1, <2>2, <3>1 DEF NewerState
  <2>5. Counted(e)'
    BY <1>0, <2>1, <2>3, <2>4 DEF Counted
  <2> QED  BY <2>1, <2>5
<1>7. CASE Schedule(p)
  <2>1. /\ e \in Events /\ history[e].kind = "schedule" /\ s \in Subscriptions
        /\ work'[p].step = "settle" /\ e = work[p].event /\ work[p].step = "schedule"
        /\ \/ subscription'.scheduleEvent = e
           \/ ~NewerSchedule(s, e) /\ subscription' = subscription
    BY <1>7, ScheduleChanges
  <2>2. Bound(s) \/ s \in displaced
    BY <2>1 DEF Binding, HandlersAreBound
  <2>3. Bound(s)' \/ s \in displaced'
    BY <1>0, <2>1, <2>2, BoundStays DEF Binding
  <2>4. s \in displaced \/ e <= subscription'.scheduleEvent
    <3>1. e \in Nat /\ subscription.scheduleEvent \in Nat
      BY <2>1, CursorsAreNumbers DEF IInv, TypeOK
    <3> QED  BY <2>1, <2>2, <3>1 DEF NewerSchedule
  <2>5. Counted(e)'
    BY <1>0, <2>1, <2>3, <2>4 DEF Counted
  <2> QED  BY <2>1, <2>5
<1>8. CASE Notify(p)
  <2>1. /\ e \in Events /\ work[p].step = "notify" /\ e = work[p].event
        /\ work'[p].step = "settle"
    BY <1>8, NotifyChanges
  <2>2. event' = event
    BY <1>8 DEF Notify
  <2>3. ~event[e].old => Counted(e)
    BY <2>1 DEF Binding, SettledCounts
  <2>4. ~event[e].old => Counted(e)'
    BY <1>0, <2>1, <2>3, CountedStays DEF Binding
  <2> QED  BY <2>1, <2>2, <2>4
<1>9. CASE Issue(p) \/ Create(p) \/ Save(p)
  <2>1. history[e].kind = "invoice" /\ work'[p].step \notin {"mirror", "end", "schedule"}
    BY <1>9, InvoicingChanges
  <2> QED  BY <2>1 DEF Counted
<1>10. CASE Settle(p) \/ Fail(p)
  BY <1>10, SettleChanges
<1>11. CASE Return(p)
  BY <1>11, RestKeeps, Blanks DEF Return
<1>12. CASE \E batch \in SUBSET Events : Claim(p, batch)
  BY <1>12, ClaimChanges
<1>13. CASE Trip(p) \/ Die(p)
  BY <1>13, TroubleChanges
<1> HIDE DEF Goal
<1> QED  BY <1>1, <1>2, <1>3, <1>4, <1>5, <1>6, <1>7, <1>8, <1>9, <1>10, <1>11, <1>12, <1>13
         DEF Poll, Handle

LEMMA BindingKeeps ==
    ASSUME IInv, Binding, [Next]_vars, RowStep, subscription' \in Row,
           history' = history
    PROVE  Binding'
<1>1. RowIsBound'
  BY RowMovesOn DEF Binding
<1>2. ASSUME NEW p \in Pollers, work'[p].step \in {"mirror", "end", "schedule"},
             NEW s, s = history[work'[p].event].sub
      PROVE  Bound(s)' \/ s \in displaced'
  <2>1. CASE work'[p] = work[p]
    <3>1. (Bound(s) \/ s \in displaced) /\ work[p].event \in Events
          /\ history[work[p].event].kind \in {"state", "end", "schedule"}
      BY <1>2, <2>1 DEF Binding, HandlersAreBound, IInv, StepsFit, Fits
    <3>2. s \in Subscriptions
      BY <1>2, <2>1, <3>1, HistoryIs DEF IInv
    <3> QED  BY <3>1, <3>2, BoundStays, ObservationsStay DEF Binding
  <2>2. CASE work'[p] # work[p]
    <3>1. Next
      BY <2>2 DEF vars
    <3> QED  BY <1>2, <2>2, <3>1, SettlingCounts
  <2> QED  BY <2>1, <2>2
<1>3. HandlersAreBound'
  BY <1>2 DEF HandlersAreBound, Bound
<1>4. ASSUME NEW e \in Events, ~event'[e].old,
             \/ event'[e].status = "done"
             \/ \E p \in Pollers : work'[p].step \in {"settle", "notify"} /\ work'[p].event = e
      PROVE  Counted(e)'
  <2>1. CASE Counted(e)
    BY <2>1, CountedStays, ObservationsStay DEF Binding
  <2>2. CASE UNCHANGED vars
    <3>1. Counted(e)
      BY <1>4, <2>2 DEF vars, Binding, SettledCounts
    <3> QED  BY <3>1, <2>1
  <2>3. CASE Next /\ event'[e].status = "done"
    <3>1. ~event[e].old /\ \/ event[e].status = "done"
                           \/ \E p \in Pollers : work[p].step = "settle" /\ work[p].event = e
      BY <1>4, <2>3, EventSteps
    <3>2. Counted(e)
      BY <3>1 DEF Binding, SettledCounts
    <3> QED  BY <3>2, <2>1
  <2>4. ASSUME Next, NEW p \in Pollers, work'[p].step \in {"settle", "notify"},
               work'[p].event = e
        PROVE  Counted(e)'
    <3>1. CASE work'[p] = work[p]
      <4>1. ~event[e].old
        BY <1>4, <2>4, EventSteps
      <4>2. Counted(e)
        BY <2>4, <3>1, <4>1 DEF Binding, SettledCounts
      <4> QED  BY <4>2, <2>1
    <3>2. CASE work'[p] # work[p]
      <4>1. \A s : s = history[e].sub => Counted(e)'
        BY <1>4, <2>4, <3>2, SettlingCounts
      <4> QED  BY <4>1
    <3> QED  BY <3>1, <3>2
  <2> QED  BY <1>4, <2>2, <2>3, <2>4
<1>5. SettledCounts'
  BY <1>4 DEF SettledCounts
<1>6. ClaimersSawNone'
  BY ClaimersKeep DEF Binding
<1> QED  BY <1>1, <1>3, <1>5, <1>6 DEF Binding

----------------------------------------------------------------------------
(* Payments.                                                               *)

LEMMA RecordsStay ==
    ASSUME [Next]_vars
    PROVE  duplicates \subseteq duplicates' /\ outbox \subseteq outbox'
           /\ invoiced \subseteq invoiced' /\ history' = history
BY DEF Next, Step, vars, tables, Poll, Handle, Deliver, Age, Expire, Claim, TakeUp, Activate,
       ClaimByMetadata, Mirror, End, Schedule, Notify, Issue, Create, Save, Settle, Fail, Return,
       Trip, Die, BeginSetStatus, CommitSetStatus

\* A payment that is being settled is accounted for as well.
Accounts ==
    \A e \in Events :
        /\ history[e].kind = "checkout"
        /\ \/ event[e].status = "done"
           \/ \E p \in Pollers : work[p].step = "settle" /\ work[p].event = e
        => Bound(history[e].sub) \/ e \in duplicates \/ history[e].sub \in displaced

\* Only activating settles a checkout.
LEMMA CheckoutSteps ==
    ASSUME IInv, Next, NEW p \in Pollers, NEW e, e = work'[p].event,
           history[e].kind = "checkout", work'[p].step = "settle", work'[p] # work[p]
    PROVE  Activate(p) /\ e = work[p].event
<1>1. Poll(p) \/ Trip(p) \/ Die(p)
  BY OwnSteps
<1>2. CASE \E d \in Events : TakeUp(p, d)
  BY <1>2, TakeUpChanges, FirstStepFits
<1>3. CASE Activate(p)
  BY <1>3, ActivateChanges
<1>4. CASE ClaimByMetadata(p)
  BY <1>4, ClaimByMetadataChanges DEF HandlerOf
<1>5. CASE Mirror(p)
  BY <1>5, MirrorChanges
<1>6. CASE End(p)
  BY <1>6, EndChanges
<1>7. CASE Schedule(p)
  BY <1>7, ScheduleChanges
<1>8. CASE Notify(p)
  BY <1>8, NotifyChanges DEF IInv, StepsFit, Fits
<1>9. CASE Issue(p) \/ Create(p) \/ Save(p)
  BY <1>9, InvoicingChanges
<1>10. CASE Settle(p) \/ Fail(p)
  BY <1>10, SettleChanges
<1>11. CASE Return(p)
  BY <1>11, RestKeeps, Blanks DEF Return
<1>12. CASE \E batch \in SUBSET Events : Claim(p, batch)
  BY <1>12, ClaimChanges
<1>13. CASE Trip(p) \/ Die(p)
  BY <1>13, TroubleChanges
<1> QED  BY <1>1, <1>2, <1>3, <1>4, <1>5, <1>6, <1>7, <1>8, <1>9, <1>10, <1>11, <1>12, <1>13
         DEF Poll, Handle

LEMMA AccountsKeep ==
    ASSUME IInv, RowIsBound, Accounts, [Next]_vars, RowStep, subscription' \in Row
    PROVE  Accounts'
<1>1. history' = history
  BY RecordsStay
<1>2. ASSUME NEW e \in Events, history[e].kind = "checkout",
             NEW s, s = history[e].sub, Bound(s) \/ e \in duplicates \/ s \in displaced
      PROVE  Bound(s)' \/ e \in duplicates' \/ s \in displaced'
  <2>1. s \in Subscriptions
    BY <1>2, HistoryIs DEF IInv
  <2> QED  BY <1>2, <2>1, BoundStays, RecordsStay, ObservationsStay
<1>3. ASSUME NEW e \in Events, history[e].kind = "checkout", NEW s, s = history[e].sub,
             \/ event'[e].status = "done"
             \/ \E p \in Pollers : work'[p].step = "settle" /\ work'[p].event = e
      PROVE  Bound(s)' \/ e \in duplicates' \/ s \in displaced'
  <2>1. CASE UNCHANGED vars
    <3>1. Bound(s) \/ e \in duplicates \/ s \in displaced
      BY <1>3, <2>1 DEF vars, Accounts
    <3> QED  BY <1>2, <1>3, <3>1
  <2>2. CASE Next /\ event'[e].status = "done"
    <3>1. \/ event[e].status = "done"
          \/ \E p \in Pollers : work[p].step = "settle" /\ work[p].event = e
      BY <2>2, EventSteps
    <3>2. Bound(s) \/ e \in duplicates \/ s \in displaced
      BY <1>3, <3>1 DEF Accounts
    <3> QED  BY <1>2, <1>3, <3>2
  <2>3. ASSUME Next, NEW p \in Pollers, work'[p].step = "settle", work'[p].event = e
        PROVE  Bound(s)' \/ e \in duplicates' \/ s \in displaced'
    <3>1. CASE work'[p] = work[p]
      <4>1. Bound(s) \/ e \in duplicates \/ s \in displaced
        BY <1>3, <2>3, <3>1 DEF Accounts
      <4> QED  BY <1>2, <1>3, <4>1
    <3>2. CASE work'[p] # work[p]
      <4>1. Activate(p) /\ e = work[p].event
        BY <1>3, <2>3, <3>2, CheckoutSteps
      <4>2. s \in Subscriptions /\ (e \in duplicates' \/ subscription' = BoundRow(s))
        BY <1>3, <4>1, ActivateChanges
      <4> QED  BY <4>2, BoundRowBinds DEF Bound, IInv
    <3> QED  BY <3>1, <3>2
  <2> QED  BY <1>3, <2>1, <2>2, <2>3
<1>4. \A e \in Events :
        /\ history'[e].kind = "checkout"
        /\ \/ event'[e].status = "done"
           \/ \E p \in Pollers : work'[p].step = "settle" /\ work'[p].event = e
        => \/ subscription' # NoRow /\ subscription'.id = history'[e].sub
           \/ e \in duplicates' \/ history'[e].sub \in displaced'
  BY <1>1, <1>3 DEF Bound
<1> QED  BY <1>4 DEF Accounts, Bound

----------------------------------------------------------------------------
(* Claims.                                                                 *)

\* What is in a poller's batch is claimed, and by it alone.
Claimed ==
    \A p \in Pollers : \A e \in work[p].batch :
        event[e].status = "claimed" /\ \A q \in Pollers : e \in work[q].batch => p = q

LEMMA BatchSteps ==
    ASSUME IInv, Next, NEW p \in Pollers
    PROVE  work'[p].batch \subseteq work[p].batch
           \/ \E batch \in SUBSET Events : Claim(p, batch)
<1>1. CASE work'[p] = work[p]
  BY <1>1
<1>2. CASE work'[p] # work[p]
  <2>1. Poll(p) \/ Trip(p) \/ Die(p)
    BY <1>2, OwnSteps
  <2>2. CASE (\E d \in Events : TakeUp(p, d)) \/ Activate(p) \/ ClaimByMetadata(p) \/ Mirror(p)
    BY <2>2, TakeUpChanges, ActivateChanges, ClaimByMetadataChanges, MirrorChanges
  <2>3. CASE End(p) \/ Schedule(p) \/ Notify(p)
    BY <2>3, EndChanges, ScheduleChanges, NotifyChanges
  <2>4. CASE Issue(p) \/ Create(p) \/ Save(p) \/ Settle(p) \/ Fail(p)
    BY <2>4, InvoicingChanges, SettleChanges
  <2>5. CASE Return(p)
    BY <2>5, RestKeeps, Blanks DEF Return
  <2>6. CASE Trip(p) \/ Die(p)
    BY <2>6, TroubleChanges
  <2> QED  BY <2>1, <2>2, <2>3, <2>4, <2>5, <2>6 DEF Poll, Handle
<1> QED  BY <1>1, <1>2

LEMMA ClaimedKeeps ==
    ASSUME IInv, Claimed, [Next /\ Patient]_vars PROVE Claimed'
<1>1. CASE UNCHANGED vars
  BY <1>1 DEF vars, Claimed
<1>2. ASSUME NEW p \in Pollers, NEW batch \in SUBSET Events, Claim(p, batch) PROVE Claimed'
  <2>1. \A q \in Pollers : work'[q].batch = IF q = p THEN batch ELSE work[q].batch
    BY <1>2, ClaimChanges
  <2>2. \A e \in batch : /\ event'[e].status = "claimed"
                         /\ \A q \in Pollers : e \notin work[q].batch
    <3>1. \A e \in batch : event[e].status \in {"pending", "stale"}
      BY <1>2 DEF Claim, Batch, Claimable
    <3> QED  BY <1>2, <3>1, ClaimChanges DEF Claimed
  <2>3. \A q \in Pollers : \A e \in work[q].batch : e \in Events /\ e \notin batch
    BY <2>2 DEF IInv, TypeOK, Work
  <2>4. \A q \in Pollers : \A e \in work[q].batch : event'[e] = event[e]
    BY <1>2, <2>3, ClaimChanges
  <2>5. ASSUME NEW q \in Pollers, NEW e \in work'[q].batch
        PROVE  event'[e].status = "claimed"
               /\ \A r \in Pollers : e \in work'[r].batch => q = r
    <3>1. CASE q = p
      BY <2>1, <2>2, <2>5, <3>1
    <3>2. CASE q # p
      <4>1. e \in work[q].batch
        BY <2>1, <2>5, <3>2
      <4> QED  BY <2>1, <2>3, <2>4, <4>1 DEF Claimed
    <3> QED  BY <3>1, <3>2
  <2> QED  BY <2>5 DEF Claimed
<1>3. ASSUME Next, Patient, \A p \in Pollers : ~\E batch \in SUBSET Events : Claim(p, batch)
      PROVE  Claimed'
  <2>1. \A q \in Pollers : work'[q].batch \subseteq work[q].batch
    BY <1>3, BatchSteps
  <2>2. ASSUME NEW q \in Pollers, NEW e \in work'[q].batch PROVE event'[e].status = "claimed"
    <3>1. /\ e \in work[q].batch /\ e \in Events /\ event[e].status = "claimed"
          /\ \A r \in Pollers : e \in work[r].batch => q = r
      BY <2>1 DEF Claimed, IInv, TypeOK, Work
    <3>2. CASE event' = event
      BY <3>1, <3>2
    <3>3. ASSUME NEW d \in Events, Deliver(d) PROVE event'[e].status = "claimed"
      <4>1. event' = Marked(d, "pending") /\ event[d].status = "away"
        BY <3>3 DEF Deliver
      <4>2. d # e
        BY <3>1, <4>1
      <4> QED  BY <3>1, <4>1, <4>2, MarkedIs DEF IInv
    <3>4. ASSUME NEW d \in Events, Expire(d) PROVE event'[e].status = "claimed"
      <4>1. event' = Marked(d, "stale") /\ event[d].status = "claimed"
        BY <3>4 DEF Expire
      <4>2. event'[d].status = "stale"
        BY <4>1, MarkedIs DEF IInv
      <4>3. d # e
        BY <1>3, <3>1, <4>1, <4>2 DEF Patient
      <4> QED  BY <3>1, <4>1, <4>3, MarkedIs DEF IInv
    <3>5. ASSUME NEW d \in Events, Age(d) PROVE event'[e].status = "claimed"
      <4>1. [event[d] EXCEPT !.old = TRUE].status = event[d].status
        BY DEF IInv, TypeOK, EventRow
      <4>2. event' = [event EXCEPT ![d] = [event[d] EXCEPT !.old = TRUE]]
        BY <3>5 DEF Age
      <4> QED  BY <3>1, <4>1, <4>2 DEF IInv, TypeOK
    <3>6. ASSUME NEW p \in Pollers, Settle(p) \/ Fail(p) PROVE event'[e].status = "claimed"
      <4>1. /\ work[p].event \in work[p].batch /\ work'[p].batch = work[p].batch \ {work[p].event}
            /\ \A d \in Events \ {work[p].event} : event'[d] = event[d]
        BY <3>6, SettleChanges
      <4>2. e # work[p].event
        BY <2>2, <3>1, <4>1
      <4> QED  BY <3>1, <4>1, <4>2
    <3>7. ASSUME NEW p \in Pollers, Handle(p), ~(Settle(p) \/ Fail(p)) PROVE event' = event
      BY <3>7 DEF Handle, TakeUp, Activate, ClaimByMetadata, Mirror, End, Schedule, Notify, Issue,
                  Create, Save, Return
    <3>8. ASSUME NEW p \in Pollers, Trip(p) \/ Die(p) PROVE event' = event
      BY <3>8 DEF Trip, Die
    <3>9. CASE (\E next \in AccessStatuses : BeginSetStatus(next)) \/ CommitSetStatus
      BY <3>2, <3>9 DEF BeginSetStatus, CommitSetStatus
    <3> QED  BY <1>3, <3>2, <3>3, <3>4, <3>5, <3>6, <3>7, <3>8, <3>9 DEF Next, Step, Poll
  <2> QED  BY <2>1, <2>2 DEF Claimed
<1> QED  BY <1>1, <1>2, <1>3

----------------------------------------------------------------------------
(* Invoices.                                                               *)

InvoicesStand ==
    \A e \in Events :
        /\ documents[e] \in {0, 1}
        /\ e \in invoiced => documents[e] = 1
        /\ event[e].status = "done" /\ history[e].kind = "invoice" /\ ~event[e].old => e \in invoiced

\* Between the look and the saving, a poller knows how many documents there are.
InvoiceAt(w) ==
    /\ w.step = "create" => documents[w.event] = 0
    /\ w.step = "save" => documents[w.event] = 1
    /\ w.step = "settle" /\ history[w.event].kind = "invoice" /\ ~event[w.event].old =>
          w.event \in invoiced

Invoices == InvoicesStand /\ \A p \in Pollers : InvoiceAt(work[p])

LEMMA DocumentSteps ==
    ASSUME IInv, [Next]_vars
    PROVE  \/ UNCHANGED <<documents, invoiced>>
           \/ \E p \in Pollers : Create(p) \/ Save(p)
<1>1. CASE UNCHANGED vars
  BY <1>1 DEF vars, tables
<1>2. ASSUME NEW p \in Pollers, Poll(p) \/ Trip(p) \/ Die(p)
      PROVE  UNCHANGED <<documents, invoiced>> \/ Create(p) \/ Save(p)
  BY <1>2 DEF tables, Poll, Handle, Claim, TakeUp, Activate, ClaimByMetadata, Mirror, End,
              Schedule, Notify, Issue, Settle, Fail, Return, Trip, Die
<1>3. CASE \E e \in Events : Deliver(e) \/ Age(e) \/ Expire(e)
  BY <1>3 DEF tables, Deliver, Age, Expire
<1>4. CASE (\E next \in AccessStatuses : BeginSetStatus(next)) \/ CommitSetStatus
  BY <1>4 DEF tables, BeginSetStatus, CommitSetStatus
<1> QED  BY <1>1, <1>2, <1>3, <1>4 DEF Next, Step

\* Nobody else is at the event of a poller that works.
LEMMA AloneAtEvent ==
    ASSUME IInv, Claimed, NEW p \in Pollers, NEW q \in Pollers,
           work[p].step \notin {"idle", "next"}, work[q].step \notin {"idle", "next"},
           work[p].event = work[q].event
    PROVE  p = q
<1>1. work[p].event \in work[p].batch /\ work[q].event \in work[q].batch
  BY DEF IInv, StepsFit, Fits
<1> QED  BY <1>1 DEF Claimed

LEMMA DocumentsChange ==
    ASSUME IInv, Claimed, Invoices, [Next]_vars
    PROVE  /\ \A e \in Events : /\ documents'[e] \in {0, 1}
                                /\ e \in invoiced' => documents'[e] = 1
           /\ \A q \in Pollers :
                 work'[q] = work[q] /\ work[q].step \in {"create", "save"} =>
                    documents'[work[q].event] = documents[work[q].event]
<1>1. CASE UNCHANGED <<documents, invoiced>>
  BY <1>1 DEF Invoices, InvoicesStand
<1>2. ASSUME NEW p \in Pollers, Create(p)
      PROVE  /\ \A e \in Events : /\ documents'[e] \in {0, 1}
                                  /\ e \in invoiced' => documents'[e] = 1
             /\ \A q \in Pollers :
                   work'[q] = work[q] /\ work[q].step \in {"create", "save"} =>
                      documents'[work[q].event] = documents[work[q].event]
  <2> DEFINE e == work[p].event
  <2>1. work[p].step = "create"
    BY <1>2 DEF Create, At
  <2>2. e \in Events /\ work'[p].step = "save"
    BY <1>2, <2>1, InvoicingChanges DEF Issue, Save, At
  <2>3. documents' = [documents EXCEPT ![e] = @ + 1] /\ invoiced' = invoiced
    BY <1>2 DEF Create
  <2>4. documents[e] = 0 /\ documents \in [Events -> Nat]
    BY <2>1 DEF Invoices, InvoiceAt, IInv, TypeOK
  <2>5. documents'[e] = 1 /\ \A d \in Events \ {e} : documents'[d] = documents[d]
    BY <2>2, <2>3, <2>4
  <2>6. \A q \in Pollers : work'[q] = work[q] /\ work[q].step \in {"create", "save"} =>
                              work[q].event # e
    BY <2>1, <2>2, AloneAtEvent
  <2>7. \A q \in Pollers : work[q].step \in {"create", "save"} => work[q].event \in Events
    BY DEF IInv, StepsFit, Fits
  <2> HIDE DEF e
  <2> QED  BY <2>3, <2>5, <2>6, <2>7 DEF Invoices, InvoicesStand
<1>3. ASSUME NEW p \in Pollers, Save(p)
      PROVE  /\ \A e \in Events : /\ documents'[e] \in {0, 1}
                                  /\ e \in invoiced' => documents'[e] = 1
             /\ documents' = documents
  <2>1. work[p].step = "save" /\ documents' = documents
        /\ invoiced' = invoiced \cup {work[p].event}
    BY <1>3 DEF Save, At
  <2>2. documents[work[p].event] = 1
    BY <2>1 DEF Invoices, InvoiceAt
  <2> QED  BY <2>1, <2>2 DEF Invoices, InvoicesStand
<1> QED  BY <1>1, <1>2, <1>3, DocumentSteps

LEMMA InvoiceOwnSteps ==
    ASSUME IInv, Claimed, Invoices, Next, NEW p \in Pollers, work'[p] # work[p],
           NEW e, e = work'[p].event
    PROVE  /\ work'[p].step = "create" => documents'[e] = 0
           /\ work'[p].step = "save" => documents'[e] = 1
           /\ work'[p].step = "settle" /\ history[e].kind = "invoice" /\ ~event'[e].old =>
                 e \in invoiced'
<1> DEFINE Goal == /\ work'[p].step = "create" => documents'[e] = 0
                   /\ work'[p].step = "save" => documents'[e] = 1
                   /\ work'[p].step = "settle" /\ history[e].kind = "invoice"
                         /\ ~event'[e].old => e \in invoiced'
<1> SUFFICES Goal
  OBVIOUS
<1>1. Poll(p) \/ Trip(p) \/ Die(p)
  BY OwnSteps
<1>2. CASE \E d \in Events : TakeUp(p, d)
  <2>1. PICK d \in Events : TakeUp(p, d)
    BY <1>2
  <2>2. work'[p].step = FirstStep(d) /\ e = d /\ event' = event
    BY <2>1, TakeUpChanges DEF TakeUp
  <2>3. /\ FirstStep(d) \notin {"create", "save"}
        /\ FirstStep(d) = "settle" => history[d].kind = "ignored" \/ event[d].old
    BY FirstStepFits
  <2> QED  BY <2>2, <2>3
<1>3. CASE Activate(p)
  BY <1>3, ActivateChanges
<1>4. CASE ClaimByMetadata(p)
  BY <1>4, ClaimByMetadataChanges DEF HandlerOf
<1>5. CASE Mirror(p)
  BY <1>5, MirrorChanges
<1>6. CASE End(p)
  BY <1>6, EndChanges
<1>7. CASE Schedule(p)
  BY <1>7, ScheduleChanges
<1>8. CASE Notify(p)
  BY <1>8, NotifyChanges DEF IInv, StepsFit, Fits
<1>9. CASE Issue(p)
  <2>1. /\ e \in Events /\ UNCHANGED <<documents, invoiced>>
        /\ work'[p].step = "settle" => e \in invoiced
        /\ work'[p].step = "save" => documents[e] > 0
        /\ work'[p].step = "create" => ~(documents[e] > 0)
    BY <1>9, InvoicingChanges DEF Issue, Create, Save, At, tables
  <2>2. documents[e] \in {0, 1}
    BY <2>1 DEF Invoices, InvoicesStand
  <2> QED  BY <2>1, <2>2
<1>10. CASE Create(p)
  <2>1. work[p].step = "create"
    BY <1>10 DEF Create, At
  <2>2. e \in Events /\ work'[p].step = "save" /\ e = work[p].event
    BY <1>10, <2>1, InvoicingChanges DEF Issue, Save, At
  <2>3. documents' = [documents EXCEPT ![e] = @ + 1]
    BY <1>10, <2>2 DEF Create
  <2>4. documents[e] = 0 /\ documents \in [Events -> Nat]
    BY <2>1, <2>2 DEF Invoices, InvoiceAt, IInv, TypeOK
  <2> QED  BY <2>2, <2>3, <2>4
<1>11. CASE Save(p)
  <2>1. work[p].step = "save" /\ invoiced' = invoiced \cup {work[p].event}
    BY <1>11 DEF Save, At
  <2>2. e = work[p].event /\ work'[p].step = "settle"
    BY <1>11, <2>1, InvoicingChanges DEF Issue, Create, At
  <2> QED  BY <2>1, <2>2
<1>12. CASE Settle(p) \/ Fail(p)
  BY <1>12, SettleChanges
<1>13. CASE Return(p)
  BY <1>13, RestKeeps, Blanks DEF Return
<1>14. CASE \E batch \in SUBSET Events : Claim(p, batch)
  BY <1>14, ClaimChanges
<1>15. CASE Trip(p) \/ Die(p)
  BY <1>15, TroubleChanges
<1> HIDE DEF Goal
<1> QED  BY <1>1, <1>2, <1>3, <1>4, <1>5, <1>6, <1>7, <1>8, <1>9, <1>10, <1>11, <1>12, <1>13,
            <1>14, <1>15 DEF Poll, Handle

LEMMA InvoicesKeep ==
    ASSUME IInv, Claimed, Invoices, [Next]_vars PROVE Invoices'
<1>1. history' = history /\ invoiced \subseteq invoiced'
  BY RecordsStay
<1>2. \A e \in Events : event[e].old => event'[e].old
  BY EventSteps DEF vars
<1>3. ASSUME NEW e \in Events, event'[e].status = "done", history[e].kind = "invoice",
             ~event'[e].old
      PROVE  e \in invoiced'
  <2>1. \/ event[e].status = "done"
        \/ \E p \in Pollers : work[p].step = "settle" /\ work[p].event = e
    BY <1>3, EventSteps DEF vars
  <2>2. e \in invoiced
    BY <1>2, <1>3, <2>1 DEF Invoices, InvoicesStand, InvoiceAt
  <2> QED  BY <1>1, <2>2
<1>4. InvoicesStand'
  BY <1>1, <1>3, DocumentsChange DEF InvoicesStand
<1>5. ASSUME NEW p \in Pollers, NEW e, e = work'[p].event
      PROVE  /\ work'[p].step = "create" => documents'[e] = 0
             /\ work'[p].step = "save" => documents'[e] = 1
             /\ work'[p].step = "settle" /\ history[e].kind = "invoice" /\ ~event'[e].old =>
                   e \in invoiced'
  <2>1. CASE work'[p] # work[p]
    <3>1. Next
      BY <2>1 DEF vars
    <3> QED  BY <1>5, <2>1, <3>1, InvoiceOwnSteps
  <2>2. CASE work'[p] = work[p]
    <3>1. InvoiceAt(work[p])
      BY DEF Invoices
    <3>2. work[p].step \in {"create", "save"} => documents'[e] = documents[e]
      BY <1>5, <2>2, DocumentsChange
    <3>3. work[p].step = "settle" => (event[e].old => event'[e].old)
      BY <1>2, <1>5, <2>2 DEF IInv, StepsFit, Fits
    <3> QED  BY <1>1, <1>5, <2>2, <3>1, <3>2, <3>3 DEF InvoiceAt
  <2> QED  BY <2>1, <2>2
<1>6. \A p \in Pollers : InvoiceAt(work[p])'
  BY <1>1, <1>5 DEF InvoiceAt
<1> QED  BY <1>4, <1>6 DEF Invoices

----------------------------------------------------------------------------
(* Announcements.                                                          *)

\* While nothing has broken or been raced, a live subscription's message is written or about
\* to be.
Announced ==
    troubles = 0 /\ ~overtaken /\ displaced = {} /\ subscription.status \in Live =>
        \E e \in Events :
            /\ history[e].kind = "state" /\ history[e].sub = subscription.id
            /\ \/ e \in outbox
               \/ \E p \in Pollers : work[p].step = "notify" /\ work[p].event = e

LEMMA LiveSteps ==
    ASSUME IInv, RowStep, subscription'.status \in Live, ~overtaken', displaced' = {}
    PROVE  \/ /\ subscription.status \in Live /\ subscription'.id = subscription.id
              /\ subscription # NoRow
           \/ \E p \in Pollers, e \in Events :
                 /\ history[e].kind = "state" /\ history[e].sub = subscription'.id
                 /\ work'[p].step = "notify" /\ work'[p].event = e
<1>1. "none" \notin Live /\ "INCOMPLETE" \notin Live /\ "CANCELED" \notin Live
  BY DEF Live
<1>2. CASE subscription' = subscription
  BY <1>1, <1>2, Blanks
<1>3. ASSUME NEW s \in Subscriptions, subscription = NoRow \/ subscription.id = s,
             subscription' = BoundRow(s)
      PROVE  /\ subscription.status \in Live /\ subscription'.id = subscription.id
             /\ subscription # NoRow
  BY <1>1, <1>3, BoundRowIs, NewRowIs DEF IInv
<1>4. ASSUME NEW p \in Pollers, NEW e \in Events, history[e].kind = "state",
             NewerState(history[e].sub, e), subscription' = Mirrored(e, work[p].found),
             work[p].found.status = subscription.status,
             work'[p].event = e,
             work'[p].step = IF GoesLive(work[p].found, MirroredStatus(history[e].status))
                             THEN "notify" ELSE "settle"
      PROVE  \/ /\ subscription.status \in Live /\ subscription'.id = subscription.id
                /\ subscription # NoRow
             \/ /\ history[e].sub = subscription'.id
                /\ work'[p].step = "notify"
  <2>1. /\ subscription # NoRow /\ subscription.id = history[e].sub
        /\ subscription'.id = subscription.id
        /\ subscription'.status = MirroredStatus(history[e].status)
    BY <1>4, MirroredIs DEF NewerState, Bound, IInv
  <2> QED  BY <1>4, <2>1 DEF GoesLive
<1>5. CASE /\ subscription'.status = subscription.status
           /\ subscription'.id = subscription.id /\ subscription # NoRow
  BY <1>5
<1>6. ASSUME NEW e \in Events, NewerSchedule(history[e].sub, e) PROVE subscription # NoRow
  BY <1>6 DEF NewerSchedule, Bound
<1>7. CASE \E s \in Subscriptions :
              /\ subscription = NoRow \/ subscription.id \in {s} \cup displaced'
              /\ subscription' = BoundRow(s) /\ access' = access
  BY <1>3, <1>7
<1>8. CASE \E p \in Pollers, e \in Events :
              /\ history[e].kind = "state" /\ NewerState(history[e].sub, e)
              /\ subscription' = Mirrored(e, work[p].found)
              /\ work[p].found.status = subscription.status
              /\ work'[p].event = e
              /\ work'[p].step = IF GoesLive(work[p].found, MirroredStatus(history[e].status))
                                 THEN "notify" ELSE "settle"
  BY <1>4, <1>8
<1> QED  BY <1>1, <1>2, <1>5, <1>6, <1>7, <1>8 DEF RowStep

LEMMA NotifiersGoOn ==
    ASSUME IInv, [Next]_vars, troubles' = 0, NEW p \in Pollers, work[p].step = "notify"
    PROVE  work'[p] = work[p] \/ work[p].event \in outbox'
<1>1. SUFFICES ASSUME work'[p] # work[p] PROVE work[p].event \in outbox'
  OBVIOUS
<1>2. Poll(p) \/ Trip(p) \/ Die(p)
  BY <1>1, OwnSteps DEF vars
<1>3. ~(Trip(p) \/ Die(p))
  BY TroubleChanges DEF IInv, TypeOK
<1>4. Notify(p)
  BY <1>2, <1>3, Blanks DEF Poll, Handle, Claim, TakeUp, Activate, ClaimByMetadata, Mirror, End,
     Schedule, Issue, Create, Save, Settle, Fail, Return, At
<1> QED  BY <1>4 DEF Notify

LEMMA AnnouncedKeeps ==
    ASSUME IInv, Announced, [Next]_vars, RowStep PROVE Announced'
<1> SUFFICES ASSUME troubles' = 0, subscription'.status \in Live, ~overtaken', displaced' = {}
             PROVE  \E e \in Events :
                       /\ history'[e].kind = "state" /\ history'[e].sub = subscription'.id
                       /\ \/ e \in outbox'
                          \/ \E p \in Pollers : work'[p].step = "notify" /\ work'[p].event = e
  BY DEF Announced
<1>1. history' = history /\ outbox \subseteq outbox'
  BY RecordsStay
<1>2. CASE subscription.status \in Live /\ subscription'.id = subscription.id
  <2>1. troubles = 0
    <3>1. CASE troubles' = troubles
      BY <3>1
    <3>2. CASE troubles' = troubles + 1
      BY <3>2 DEF IInv, TypeOK
    <3> QED  BY <3>1, <3>2 DEF Next, Step, vars, tables, Poll, Handle, Deliver, Age, Expire,
             Claim, TakeUp, Activate, ClaimByMetadata, Mirror, End, Schedule, Notify, Issue,
             Create, Save, Settle, Fail, Return, Trip, Die, BeginSetStatus, CommitSetStatus
  <2>2. ~overtaken /\ displaced = {}
    BY ObservationsStay
  <2>3. PICK e \in Events :
            /\ history[e].kind = "state" /\ history[e].sub = subscription.id
            /\ \/ e \in outbox
               \/ \E p \in Pollers : work[p].step = "notify" /\ work[p].event = e
    BY <1>2, <2>1, <2>2 DEF Announced
  <2>4. e \in outbox' \/ \E p \in Pollers : work'[p].step = "notify" /\ work'[p].event = e
    BY <1>1, <2>3, NotifiersGoOn
  <2> QED  BY <1>1, <1>2, <2>3, <2>4
<1>3. CASE \E p \in Pollers, e \in Events :
              /\ history[e].kind = "state" /\ history[e].sub = subscription'.id
              /\ work'[p].step = "notify" /\ work'[p].event = e
  BY <1>1, <1>3
<1> QED  BY <1>2, <1>3, LiveSteps

----------------------------------------------------------------------------
(* The row, the access, the payments and the messages, in every behaviour. *)

RowInv == IInv /\ Binding /\ EndedHasNoAccess /\ Cursors /\ Accounts /\ Announced

LEMMA InitHasRows == Init => RowInv
<1> SUFFICES ASSUME Init PROVE RowInv
  OBVIOUS
<1>1. IInv
  BY InitIsTyped
<1>2. /\ subscription = NoRow
      /\ \A e \in Events : event[e].status = "away"
      /\ \A p \in Pollers : work[p] = Idle
  BY DEF Init
<1>3. \A p \in Pollers : work[p].step = "idle"
  BY <1>2, Blanks
<1>4. NoRow.stateEvent = 0 /\ NoRow.scheduleEvent = 0 /\ NoRow.status = "none"
  BY DEF NoRow
<1>5. Binding
  BY <1>2, <1>3 DEF Binding, RowIsBound, ClaimersSawNone, HandlersAreBound, SettledCounts
<1>6. EndedHasNoAccess /\ Cursors /\ Announced
  BY <1>2, <1>4 DEF EndedHasNoAccess, Cursors, Announced, Live
<1>7. Accounts
  BY <1>2, <1>3 DEF Accounts
<1> QED  BY <1>1, <1>5, <1>6, <1>7 DEF RowInv

LEMMA RowsKeep == RowInv /\ [Next]_vars => RowInv'
<1> SUFFICES ASSUME RowInv, [Next]_vars PROVE RowInv'
  OBVIOUS
<1>1. /\ IInv /\ Binding /\ RowIsBound /\ ClaimersSawNone
      /\ EndedHasNoAccess /\ Cursors /\ Accounts /\ Announced
  BY DEF RowInv, Binding
<1>2. IInv' /\ history' = history
  BY <1>1, NextKeeps, RecordsStay
<1>3. subscription' \in Row
  BY <1>2 DEF IInv, TypeOK
<1>4. RowStep
  BY <1>1, RowSteps
<1>5. Binding'
  BY <1>1, <1>2, <1>3, <1>4, BindingKeeps
<1>6. EndedHasNoAccess'
  BY <1>1, <1>4, AccessKeeps, ObservationsStay
<1>7. Cursors'
  BY <1>1, <1>2, <1>4, CursorsKeep
<1>8. Accounts'
  BY <1>1, <1>3, <1>4, AccountsKeep
<1>9. Announced'
  BY <1>1, <1>4, AnnouncedKeeps
<1> QED  BY <1>2, <1>5, <1>6, <1>7, <1>8, <1>9 DEF RowInv

THEOREM RowInvariance == Spec => []RowInv
<1>1. RowInv /\ [Next]_vars => RowInv'
  BY RowsKeep
<1> QED  BY <1>1, InitHasRows, PTL DEF Spec

\* Out of any order of delivery, any number of retries and any races the row shows
\* the newest event that was worked off (newerStateEvent, newerScheduleEvent).
THEOREM TheNewestWins == Spec => []NewestEventWins
<1>1. RowInv => NewestEventWins
  <2> SUFFICES ASSUME RowInv, NEW e \in Events,
                      event[e].status = "done" /\ ~event[e].old,
                      history[e].kind \in {"state", "end", "schedule"},
                      history[e].sub \notin displaced
               PROVE  IF history[e].kind = "schedule"
                      THEN /\ e <= subscription.scheduleEvent
                           /\ history[subscription.scheduleEvent].plan = None =>
                                 subscription.pending = None
                      ELSE /\ e <= subscription.stateEvent
                           /\ subscription.status = StatusOf(subscription.stateEvent)
    BY DEF NewestEventWins
  <2>1. Counted(e)
    BY DEF RowInv, Binding, SettledCounts
  <2>2. /\ e \in Nat /\ e # 0
        /\ subscription.stateEvent \in Nat /\ subscription.scheduleEvent \in Nat
    BY CursorsAreNumbers DEF RowInv, IInv, TypeOK
  <2>3. CASE history[e].kind = "schedule"
    <3>1. e <= subscription.scheduleEvent
      BY <2>1, <2>3 DEF Counted
    <3>2. subscription.scheduleEvent # 0
      BY <2>2, <3>1
    <3> QED  BY <2>3, <3>1, <3>2 DEF RowInv, Cursors
  <2>4. CASE history[e].kind \in {"state", "end"}
    <3>1. e <= subscription.stateEvent
      BY <2>1, <2>4 DEF Counted
    <3>2. subscription.stateEvent # 0
      BY <2>2, <3>1
    <3> QED  BY <2>4, <3>1, <3>2 DEF RowInv, Cursors
  <2> QED  BY <2>3, <2>4
<1> QED  BY <1>1, RowInvariance, PTL

\* A payment is the organization's subscription or a second one on the audit log,
\* unless it was bound between the look and the write of another payment's handler
\* and lost its row to it (activate).
THEOREM PaymentsDoNotVanish == Spec => []PaymentsAreAccounted
<1>1. RowInv => PaymentsAreAccounted
  BY DEF RowInv, Accounts, PaymentsAreAccounted
<1> QED  BY <1>1, RowInvariance, PTL

\* Access ends with the subscription, and stays ended until a handler or the
\* administrator writes what was no longer so (endSubscription, setStatus).
THEOREM AccessEnds == Spec => []EndedHasNoAccess
<1>1. RowInv => EndedHasNoAccess
  BY DEF RowInv
<1> QED  BY <1>1, RowInvariance, PTL

\* An organization that went live is told so, as long as nothing has broken and no
\* race has struck (mirrorSubscription, requestNotification).
THEOREM GoingLiveIsTold == Spec => []GoingLiveIsAnnounced
<1>1. RowInv => GoingLiveIsAnnounced
  BY DEF RowInv, Announced, GoingLiveIsAnnounced, At
<1> QED  BY <1>1, RowInvariance, PTL

----------------------------------------------------------------------------
(* Invoices, when a lease outlasts the work.                               *)

InvoiceInv == IInv /\ Claimed /\ Invoices

LEMMA InitHasNoInvoices == Init => InvoiceInv
<1> SUFFICES ASSUME Init PROVE InvoiceInv
  OBVIOUS
<1>1. /\ documents = [e \in Events |-> 0] /\ invoiced = {}
      /\ \A e \in Events : event[e].status = "away"
      /\ \A p \in Pollers : work[p] = Idle
  BY DEF Init
<1>2. \A p \in Pollers : work[p].step = "idle" /\ work[p].batch = {}
  BY <1>1, Blanks
<1>3. Claimed /\ Invoices
  BY <1>1, <1>2 DEF Claimed, Invoices, InvoicesStand, InvoiceAt
<1> QED  BY <1>3, InitIsTyped DEF InvoiceInv

LEMMA InvoiceInvKeeps == InvoiceInv /\ [Next /\ Patient]_vars => InvoiceInv'
<1> SUFFICES ASSUME InvoiceInv, [Next /\ Patient]_vars PROVE InvoiceInv'
  OBVIOUS
<1>1. IInv /\ Claimed /\ Invoices
  BY DEF InvoiceInv
<1>2. [Next]_vars
  OBVIOUS
<1>3. IInv'
  BY <1>1, <1>2, NextKeeps
<1>4. Claimed' /\ Invoices'
  BY <1>1, <1>2, ClaimedKeeps, InvoicesKeep
<1> QED  BY <1>3, <1>4 DEF InvoiceInv

\* A paid invoice has exactly one document, whatever failed between creating it
\* and saving its number (createBillingoInvoiceIssuer).
THEOREM InvoicesAreSingle == PatientSpec => []OneInvoiceEach
<1>1. InvoiceInv => OneInvoiceEach
  <2> SUFFICES ASSUME InvoiceInv, NEW e \in Events
               PROVE  /\ documents[e] <= 1
                      /\ event[e].status = "done" /\ history[e].kind = "invoice"
                            /\ ~event[e].old => documents[e] = 1 /\ e \in invoiced
    BY DEF OneInvoiceEach
  <2>1. /\ documents[e] \in {0, 1}
        /\ e \in invoiced => documents[e] = 1
        /\ event[e].status = "done" /\ history[e].kind = "invoice" /\ ~event[e].old =>
              e \in invoiced
    BY DEF InvoiceInv, Invoices, InvoicesStand
  <2> QED  BY <2>1
<1>2. PatientSpec => []InvoiceInv
  BY InitHasNoInvoices, InvoiceInvKeeps, PTL DEF PatientSpec
<1> QED  BY <1>1, <1>2, PTL

=============================================================================
