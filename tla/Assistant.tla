----------------------------- MODULE Assistant -----------------------------
(***************************************************************************)
(* The booking assistant: one conversation, used by several requests at    *)
(* once (a second tab, a double tap, a slow turn overtaken by the next).   *)
(* A turn reads the session, pays for one model call, runs one tool, and   *)
(* writes the session back; the booking tools only ever make an offer, a   *)
(* pending action that a separate request confirms or cancels.             *)
(*                                                                         *)
(* Every database statement is a step, and between two of them any other   *)
(* request, the sweeper, or the death of the process may come.             *)
(*                                                                         *)
(* The fields a conversation collects are left out: whether they suffice   *)
(* for an offer is the interpreter's choice.  The booking service's answer *)
(* is nondeterministic (Booking models it);                                *)
(* withIdempotency around a confirmation is modelled in Idempotency.       *)
(***************************************************************************)
EXTENDS Usage

CONSTANTS
    Clients,     \* requests that may be in flight at once
    Actions,     \* pending-action rows of the conversation
    MaxTurns,    \* the conversation's turn limit
    None

ASSUME AssistantAssumption ==
    /\ IsFiniteSet(Clients)
    /\ None \notin Actions \cup Reservations
    /\ MaxTurns \in Nat

VARIABLES
    session,     \* the conversation's row
    action,      \* its pending actions
    runs,        \* history: how often each action's work was done
    request,     \* what each request knows and where it is
    troubled,    \* history: what a call cost was lost, or a process died
    charged,     \* history: what the provider has charged, until then
    overlapped   \* history: an offer was withdrawn while another was made

talkVars == <<session, action, runs>>
ghosts == <<troubled, charged, overlapped>>
vars == <<reservation, spent, gate, missed, session, action, runs, request,
          troubled, charged, overlapped>>

MachineStates == {"CHOOSING", "AWAITING_CONFIRMATION", "COMPLETED", "EXPIRED"}
Final == {"COMPLETED", "EXPIRED"}

\* booked: bookingId is set; old: the sliding deadline is over.  Turns in
\* flight may overrun the limit, by one each at most.
Session == [state : MachineStates, status : {"ACTIVE", "COMPLETED", "EXPIRED"},
            booked : BOOLEAN, turns : 0 .. MaxTurns + Cardinality(Clients), old : BOOLEAN]

\* NONE is a row not written yet, LAPSED one still PENDING whose time is over.
\* Which tool it runs and with what is left out.
ActionStatuses == {"NONE", "PENDING", "LAPSED", "CONFIRMED", "CANCELLED", "EXPIRED"}
Pending == {"PENDING", "LAPSED"}

Steps == {"idle", "reserve", "sum", "call", "reconcile", "run", "withdraw", "offer",
          "reply", "burn", "work", "complete"}

\* state and booked are the request's copy of the session, read when it began;
\* act is the offer it confirms.
Request == [at : Steps, state : MachineStates, booked : BOOLEAN,
            res : Reservations \cup {None}, cost : Costs \cup {0},
            act : Actions \cup {None}, counted : BOOLEAN]
Idle == [at |-> "idle", state |-> "CHOOSING", booked |-> FALSE,
         res |-> None, cost |-> 0, act |-> None, counted |-> FALSE]

----------------------------------------------------------------------------
NewSession(booked) ==
    [state |-> "CHOOSING", status |-> "ACTIVE", booked |-> booked,
     turns |-> 0, old |-> FALSE]

\* A conversation opened with a management token is bound to its booking.
Init ==
    /\ UsageInit
    /\ \E booked \in BOOLEAN : session = NewSession(booked)
    /\ action = [a \in Actions |-> "NONE"]
    /\ runs = [a \in Actions |-> 0]
    /\ request = [c \in Clients |-> Idle]
    /\ troubled = FALSE
    /\ charged = 0
    /\ overlapped = FALSE

\* A conversation whose deadline is over cannot be opened any more, and the
\* customer starts another.
Start ==
    /\ session.old
    /\ \A c \in Clients : request[c].at = "idle"
    /\ \E booked \in BOOLEAN : session' = NewSession(booked)
    /\ action' = [a \in Actions |-> "NONE"]
    /\ runs' = [a \in Actions |-> 0]
    /\ UNCHANGED <<usageVars, request, ghosts>>

\* findByToken: the copy every request works from, or a 404.
Opened == [Idle EXCEPT !.state = session.state, !.booked = session.booked]
Goes(c, step) == request' = [request EXCEPT ![c].at = step]
Ends(c) == request' = [request EXCEPT ![c] = Idle]

----------------------------------------------------------------------------
(* A turn.                                                                 *)

TurnLimitReached == session.turns >= MaxTurns

BeginTurn(c) ==
    /\ request[c].at = "idle"
    /\ ~session.old
    /\ request' = [request EXCEPT ![c] =
           [Opened EXCEPT !.at = IF TurnLimitReached THEN "reply" ELSE "reserve"]]
    /\ UNCHANGED <<usageVars, talkVars, ghosts>>

\* The deadline passes between resolving the token and checking the turn: the
\* session is settled, and the reply that follows is of the copy read before.
BeginTurnLate(c) ==
    /\ request[c].at = "idle"
    /\ ~session.old
    /\ request' = [request EXCEPT ![c] = [Opened EXCEPT !.at = "reply"]]
    /\ session' = [session EXCEPT !.status = "EXPIRED", !.state = "EXPIRED", !.old = TRUE]
    /\ UNCHANGED <<usageVars, action, runs, ghosts>>

\* From the first trouble on nothing is promised of the recorded figure.
Trouble == troubled' = TRUE /\ charged' = 0

\* A reservation that lapses while its call is still out is trouble.
OutOn(c) == IF request[c].at \in {"call", "reconcile"} THEN {request[c].res} ELSE {}
Out == UNION {OutOn(c) : c \in Clients}

LockQuota(c) ==
    /\ request[c].at = "reserve"
    /\ LockAndRead
    /\ Goes(c, "sum")
    /\ UNCHANGED <<talkVars, ghosts>>

ReserveCall(c) ==
    /\ request[c].at = "sum"
    /\ \E r \in Reservations \ Out :
          /\ Reserve(r)
          /\ request' = [request EXCEPT ![c] = [@ EXCEPT !.at = "call", !.res = r]]
    /\ IF gate.lapsed \cap Out # {} THEN Trouble ELSE UNCHANGED <<troubled, charged>>
    /\ UNCHANGED <<talkVars, overlapped>>

QuotaExceeded(c) ==
    /\ request[c].at = "sum"
    /\ OverQuota
    /\ Ends(c)
    /\ UNCHANGED <<talkVars, ghosts>>

Interpret(c) ==
    /\ request[c].at = "call"
    /\ \E cost \in Costs :
          /\ charged' = IF troubled THEN charged ELSE charged + cost
          /\ request' = [request EXCEPT ![c] = [@ EXCEPT !.at = "reconcile", !.cost = cost]]
    /\ UNCHANGED <<usageVars, talkVars, troubled, overlapped>>

\* The provider fails before it completes, which costs nothing, and the
\* reservation is given back.
InterpretFails(c) ==
    /\ request[c].at = "call"
    /\ Release(request[c].res)
    /\ Ends(c)
    /\ UNCHANGED <<talkVars, ghosts>>

\* It completes, and charges, but the answer holds no command or one that does
\* not parse: the same catch gives the reservation back, and the cost is lost.
AnswerUnusable(c) ==
    /\ request[c].at = "call"
    /\ Release(request[c].res)
    /\ Ends(c)
    /\ Trouble
    /\ UNCHANGED <<talkVars, overlapped>>

ReconcileCall(c) ==
    /\ request[c].at = "reconcile"
    /\ Reconcile(request[c].res, request[c].cost)
    /\ request' = [request EXCEPT ![c] = [@ EXCEPT !.at = "run", !.res = None, !.cost = 0]]
    /\ UNCHANGED <<talkVars, ghosts>>

\* The record itself fails: the same catch gives the reservation back.
ReconcileFails(c) ==
    /\ request[c].at = "reconcile"
    /\ Release(request[c].res)
    /\ Ends(c)
    /\ Trouble
    /\ UNCHANGED <<talkVars, overlapped>>

----------------------------------------------------------------------------
(* The interpreted command.                                                *)

\* stateFor: terminal and awaiting stay, the rest follows what is collected;
\* once that is complete it is the confirmation's turn, offer or no offer.
NextState(state) ==
    IF state \in Final THEN {state}
    ELSE {"AWAITING_CONFIRMATION"} \cup (IF state = "CHOOSING" THEN {"CHOOSING"} ELSE {})

\* A misunderstood, doubtful or foreign command, or one the booking service
\* refuses: the copy is written back.
Unclear(c) ==
    /\ request[c].at = "run"
    /\ Goes(c, "reply")
    /\ UNCHANGED <<usageVars, talkVars, ghosts>>

\* A tool that reads, or takes a hold, and makes no offer.
Answer(c) ==
    /\ request[c].at = "run"
    /\ \E state \in NextState(request[c].state) :
          request' = [request EXCEPT ![c] = [@ EXCEPT !.at = "reply", !.state = state, !.counted = TRUE]]
    /\ UNCHANGED <<usageVars, talkVars, ghosts>>

ToolFails(c) ==
    /\ request[c].at = "run"
    /\ Ends(c)
    /\ UNCHANGED <<usageVars, talkVars, ghosts>>

\* Rows a request on its way to an offer will need.
Unwritten == {a \in Actions : action[a] = "NONE"}
Offering == {c \in Clients : request[c].at \in {"withdraw", "offer"}}

\* prepareBooking, prepareReschedule or prepareCancellation has all it needs.
Prepare(c) ==
    /\ request[c].at = "run"
    /\ Cardinality(Offering) < Cardinality(Unwritten)
    /\ Goes(c, "withdraw")
    /\ UNCHANGED <<usageVars, talkVars, ghosts>>

\* Whatever is still on offer is withdrawn before the new card is made.
WithdrawnNone == action  \* a slip
Withdrawn == [a \in Actions |-> IF action[a] \in Pending THEN "CANCELLED" ELSE action[a]]

Withdraw(c) ==
    /\ request[c].at = "withdraw"
    /\ action' = Withdrawn
    /\ Goes(c, "offer")
    /\ overlapped' = (overlapped \/ \E d \in Clients : request[d].at = "offer")
    /\ UNCHANGED <<usageVars, session, runs, troubled, charged>>

Offer(c) ==
    /\ request[c].at = "offer"
    /\ \E a \in Unwritten :
          action' = [action EXCEPT ![a] = "PENDING"]
    /\ request' = [request EXCEPT ![c] =
           [@ EXCEPT !.at = "reply", !.counted = TRUE, !.state = "AWAITING_CONFIRMATION"]]
    /\ UNCHANGED <<usageVars, session, runs, ghosts>>

\* A slip: the whole copy is written back.
RepliedWhole(q) ==
    [session EXCEPT !.state = q.state, !.booked = q.booked, !.old = FALSE,
                    !.turns = IF q.counted THEN @ + 1 ELSE @]

\* What a reply writes: the state and the fields of the request's copy, a new
\* deadline and the turn.  Status and booking are not in it.
Replied(q) ==
    [session EXCEPT !.state = q.state, !.old = FALSE,
                    !.turns = IF q.counted THEN @ + 1 ELSE @]

Reply(c) ==
    /\ request[c].at = "reply"
    /\ session' = Replied(request[c])
    /\ Ends(c)
    /\ UNCHANGED <<usageVars, action, runs, ghosts>>

----------------------------------------------------------------------------
(* Confirming and cancelling an offer.                                     *)

BeginConfirm(c, a) ==
    /\ request[c].at = "idle"
    /\ ~session.old
    /\ action[a] # "NONE"
    /\ request' = [request EXCEPT ![c] =
           IF action[a] = "PENDING" THEN [Opened EXCEPT !.at = "burn", !.act = a]
           ELSE [Opened EXCEPT !.at = "reply"]]
    /\ UNCHANGED <<usageVars, talkVars, ghosts>>

\* settleAction, conditional on the row being PENDING still; the expiry is not
\* looked at again.
BurnableAlways(a) == TRUE  \* a slip: without the condition
Burnable(a) == action[a] \in Pending

Burn(c) ==
    /\ request[c].at = "burn"
    /\ LET a == request[c].act IN
       IF Burnable(a)
       THEN /\ action' = [action EXCEPT ![a] = "CONFIRMED"]
            /\ Goes(c, "work")
       ELSE /\ Goes(c, "reply")
            /\ UNCHANGED action
    /\ UNCHANGED <<usageVars, session, runs, ghosts>>

Work(c) ==
    /\ request[c].at = "work"
    /\ runs' = [runs EXCEPT ![request[c].act] = @ + 1]
    /\ Goes(c, "complete")
    /\ UNCHANGED <<usageVars, session, action, ghosts>>

\* The offer is spent either way and the conversation goes back to choosing.
WorkRefused(c) ==
    /\ request[c].at = "work"
    /\ request' = [request EXCEPT ![c] = [@ EXCEPT !.at = "reply", !.state = "CHOOSING"]]
    /\ UNCHANGED <<usageVars, talkVars, ghosts>>

WorkFails(c) ==
    /\ request[c].at = "work"
    /\ Ends(c)
    /\ UNCHANGED <<usageVars, talkVars, ghosts>>

Complete(c) ==
    /\ request[c].at = "complete"
    /\ session' = [session EXCEPT !.status = "COMPLETED", !.state = "COMPLETED", !.booked = TRUE]
    /\ Ends(c)
    /\ UNCHANGED <<usageVars, action, runs, ghosts>>

Cancel(c, a) ==
    /\ request[c].at = "idle"
    /\ ~session.old
    /\ action[a] # "NONE"
    /\ action' = [action EXCEPT ![a] = IF @ \in Pending THEN "CANCELLED" ELSE @]
    /\ request' = [request EXCEPT ![c] = [Opened EXCEPT !.at = "reply", !.state = "CHOOSING"]]
    /\ UNCHANGED <<usageVars, session, runs, ghosts>>

----------------------------------------------------------------------------
(* Time, the sweeper, and the death of a process.                          *)

AgeSession ==
    /\ ~session.old
    /\ session' = [session EXCEPT !.old = TRUE]
    /\ UNCHANGED <<usageVars, action, runs, request, ghosts>>

AgeAction(a) ==
    /\ action[a] = "PENDING"
    /\ action' = [action EXCEPT ![a] = "LAPSED"]
    /\ UNCHANGED <<usageVars, session, runs, request, ghosts>>

AgeCall(r) ==
    /\ AgeReservation(r)
    /\ UNCHANGED <<talkVars, request, ghosts>>

SweepSessions ==
    /\ session.status = "ACTIVE"
    /\ session.old
    /\ session' = [session EXCEPT !.status = "EXPIRED", !.state = "EXPIRED"]
    /\ UNCHANGED <<usageVars, action, runs, request, ghosts>>

Swept == [a \in Actions |-> IF action[a] = "LAPSED" THEN "EXPIRED" ELSE action[a]]

SweepActions ==
    /\ Swept # action
    /\ action' = Swept
    /\ UNCHANGED <<usageVars, session, runs, request, ghosts>>

\* The database rolls back what the process had not committed.
Die(c) ==
    /\ request[c].at # "idle"
    /\ IF request[c].at = "sum" THEN RollBack ELSE UNCHANGED usageVars
    /\ Ends(c)
    /\ Trouble
    /\ UNCHANGED <<talkVars, overlapped>>

Turn(c) ==
    \/ BeginTurn(c) \/ BeginTurnLate(c) \/ LockQuota(c) \/ ReserveCall(c) \/ QuotaExceeded(c)
    \/ Interpret(c) \/ InterpretFails(c) \/ AnswerUnusable(c)
    \/ ReconcileCall(c) \/ ReconcileFails(c)
    \/ Unclear(c) \/ Answer(c) \/ ToolFails(c)
    \/ Prepare(c) \/ Withdraw(c) \/ Offer(c) \/ Reply(c)
Confirmation(c) ==
    \/ \E a \in Actions : BeginConfirm(c, a) \/ Cancel(c, a)
    \/ Burn(c) \/ Work(c) \/ WorkRefused(c) \/ WorkFails(c) \/ Complete(c)
Surroundings ==
    \/ Start \/ AgeSession \/ SweepSessions \/ SweepActions
    \/ \E a \in Actions : AgeAction(a)
    \/ \E r \in Reservations : AgeCall(r)

Next ==
    \/ \E c \in Clients : Turn(c) \/ Confirmation(c) \/ Die(c)
    \/ Surroundings

Spec == Init /\ [][Next]_vars

----------------------------------------------------------------------------
(* Properties.                                                             *)

\* Every row and every request is well formed.
TypeOK ==
    /\ reservation \in [Reservations -> ReservationStatuses]
    /\ spent \in Nat
    /\ gate \in Gate
    /\ missed \in Nat
    /\ session \in Session
    /\ action \in [Actions -> ActionStatuses]
    /\ runs \in [Actions -> Nat]
    /\ request \in [Clients -> Request]
    /\ charged \in Nat
    /\ troubled \in BOOLEAN
    /\ overlapped \in BOOLEAN

\* A confirmation is burnt before it works: however many requests confirm the
\* same card, its work is done once at most, and only for a burnt card that
\* no later withdrawal, cancellation or sweep has turned into something else.
ConfirmedOnce ==
    \A a \in Actions : runs[a] > 0 => runs[a] = 1 /\ action[a] = "CONFIRMED"

\* One live offer per conversation, as long as no two turns make one at the
\* same time (the two statements of createPendingAction are no transaction).
OneLiveOffer ==
    ~overlapped =>
        \A a, b \in Actions : action[a] \in Pending /\ action[b] \in Pending => a = b

\* What is spent and what is still promised to calls in flight exceed the
\* allowance together by no more than what was recorded between the two
\* readings of the last reservation granted, and so not at all where no call
\* was recorded at that moment.
WithinAllowance ==
    spent + Estimate * Cardinality(Rows(Standing)) <= Allowance + missed

\* Unless a process dies, an answer cannot be used, a record fails or a call
\* outlives its reservation, what the provider has charged is recorded or is
\* about to be, token by token.
Owed(c) == IF request[c].at = "reconcile" THEN {c} \X (1 .. request[c].cost) ELSE {}
Unrecorded == UNION {Owed(c) : c \in Clients}
SpendIsRecorded == ~troubled => charged = spent + Cardinality(Unrecorded)

\* Once the work of a confirmation is done the conversation knows it has a
\* booking, and no reply of another request, written from a copy read before,
\* makes it forget.
BookedIsRemembered ==
    /\ ~troubled
    /\ \E a \in Actions : runs[a] > 0
    /\ \A c \in Clients : request[c].at # "complete"
    => session.booked

=============================================================================
