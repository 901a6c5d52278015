---------------------------- MODULE CheckoutLinks ----------------------------
(***************************************************************************)
(* The payment link of one organization: requests that make, replace and   *)
(* hand it out, the payer, and the worker that binds what was paid.        *)
(* Follows BillingService.requestPaymentLink and checkoutLinkFor           *)
(* (billing.service.ts), stripe.client.ts and activate                     *)
(* (stripe.processor.ts).                                                  *)
(*                                                                         *)
(* Links live at Stripe, the row that names the organization's one link in *)
(* the database, and a request talks to both in turn; any request may fail *)
(* or die between two of its calls.                                        *)
(***************************************************************************)
EXTENDS Naturals, FiniteSets

CONSTANTS
    Links,      \* Stripe's identifiers of payment links
    Plans,      \* plans that can be bought, each with its price
    Clients,    \* callers, each with at most one request in flight
    None        \* SQL's NULL

ASSUME CheckoutLinksAssumption == None \notin Links \cup Plans

VARIABLES
    link,        \* payment links at Stripe
    row,         \* the organization's row of subscription_checkout_links
    bound,       \* subscriptions.stripe_subscription_id, by the link that was paid
    duplicates,  \* links whose payment was recorded as a second one
    handed,      \* links written to the outbox and returned to somebody
    request      \* what each client's request is doing

vars == <<link, row, bound, duplicates, handed, request>>

(***************************************************************************)
(* Rows.                                                                   *)
(***************************************************************************)
\* A link sells one checkout; then it is completed and sells no more.
LinkRow == [state: {"none", "active", "inactive"}, plan: Plans \cup {None}, completed: BOOLEAN]
NoLink == [state |-> "none", plan |-> None, completed |-> FALSE]
NewLink(plan) == [state |-> "active", plan |-> plan, completed |-> FALSE]

Row == [link: Links \cup {None}, plan: Plans \cup {None}, consumed: BOOLEAN]
NoRow == [link |-> None, plan |-> None, consumed |-> FALSE]

\* seen is the row a request has read, link the one it made or will hand out.
Steps == {"idle", "look", "ask", "mark", "deactivate", "delete", "create", "insert",
          "disown", "winner", "answer"}
Request == [step: Steps, plan: Plans \cup {None}, seen: Row, link: Links \cup {None}]
Idle == [step |-> "idle", plan |-> None, seen |-> NoRow, link |-> None]

TypeOK ==
    /\ link \in [Links -> LinkRow]
    /\ row \in Row
    /\ bound \in Links \cup {None}
    /\ duplicates \subseteq Links
    /\ handed \subseteq Links
    /\ request \in [Clients -> Request]

Exists(k) == link[k].state # "none"
Completed(k) == link[k].completed
Buyable(k) == link[k].state = "active" /\ ~link[k].completed

At(c, step) == request[c].step = step
Become(c, r) == request' = [request EXCEPT ![c] = r]
Then(c, step) == [Idle EXCEPT !.step = step, !.plan = request[c].plan]
With(c, step, k) == [Then(c, step) EXCEPT !.link = k]

(***************************************************************************)
(* requestPaymentLink and checkoutLinkFor, one call to a database or to    *)
(* Stripe at a time.                                                       *)
(***************************************************************************)
\* Any Stripe subscription at all, live or ended, refuses the request.
Begin(c, plan) ==
    /\ At(c, "idle")
    /\ bound = None
    /\ Become(c, [Idle EXCEPT !.step = "look", !.plan = plan])
    /\ UNCHANGED <<link, row, bound, duplicates, handed>>

Look(c) ==
    /\ At(c, "look")
    /\ Become(c, CASE row = NoRow -> Then(c, "create")
                   [] row # NoRow /\ row.consumed -> Idle
                   [] OTHER -> [Then(c, "ask") EXCEPT !.seen = row])
    /\ UNCHANGED <<link, row, bound, duplicates, handed>>

\* Slip: only the row is asked whether the link was paid.
PaidByRow(k) == row # NoRow /\ row.link = k /\ row.consumed

\* hasCompletedCheckout asks Stripe.
Paid(k) == Completed(k)

Ask(c) ==
    LET seen == request[c].seen
    IN  /\ At(c, "ask")
        /\ Become(c, CASE Paid(seen.link) -> [request[c] EXCEPT !.step = "mark"]
                       [] ~Paid(seen.link) /\ seen.plan = request[c].plan ->
                              With(c, "answer", seen.link)
                       [] OTHER -> [request[c] EXCEPT !.step = "deactivate"])
        /\ UNCHANGED <<link, row, bound, duplicates, handed>>

\* Slip: the row is marked before Stripe is asked about it.
MarkableAlways(c) == At(c, "mark") \/ At(c, "ask")

Markable(c) == At(c, "mark")

\* What Stripe said is recorded on the organization's row; the caller is refused.
Mark(c) ==
    /\ Markable(c)
    /\ row' = IF row = NoRow THEN row ELSE [row EXCEPT !.consumed = TRUE]
    /\ Become(c, Idle)
    /\ UNCHANGED <<link, bound, duplicates, handed>>

Stopped(k) == [link[k] EXCEPT !.state = "inactive"]

\* Another plan: the old link stops selling before the new one exists.
Deactivate(c) ==
    LET k == request[c].seen.link
    IN  /\ At(c, "deactivate")
        /\ link' = [link EXCEPT ![k] = Stopped(k)]
        /\ Become(c, [request[c] EXCEPT !.step = "delete"])
        /\ UNCHANGED <<row, bound, duplicates, handed>>

\* By organization, whichever link the row names by now; fails without a row.
Delete(c) ==
    /\ At(c, "delete")
    /\ row' = NoRow
    /\ Become(c, IF row = NoRow THEN Idle ELSE Then(c, "create"))
    /\ UNCHANGED <<link, bound, duplicates, handed>>

Create(c, k) ==
    /\ At(c, "create")
    /\ ~Exists(k)
    /\ link' = [link EXCEPT ![k] = NewLink(request[c].plan)]
    /\ Become(c, With(c, "insert", k))
    /\ UNCHANGED <<row, bound, duplicates, handed>>

\* The unique index lets one of two requests through.
Insert(c) ==
    LET k == request[c].link
    IN  /\ At(c, "insert")
        /\ IF row = NoRow
           THEN /\ row' = [link |-> k, plan |-> request[c].plan, consumed |-> FALSE]
                /\ Become(c, With(c, "answer", k))
           ELSE /\ Become(c, With(c, "disown", k))
                /\ UNCHANGED row
        /\ UNCHANGED <<link, bound, duplicates, handed>>

\* The loser's own link is deactivated, unless Stripe refuses, which is ignored.
Disown(c) ==
    LET k == request[c].link
    IN  /\ At(c, "disown")
        /\ link' \in {link, [link EXCEPT ![k] = Stopped(k)]}
        /\ Become(c, With(c, "winner", k))
        /\ UNCHANGED <<row, bound, duplicates, handed>>

WinnersLink(c) == row.link

Gone == row = NoRow

\* The caller gets the link the row names, or an error if it is gone again.
Winner(c) ==
    /\ At(c, "winner")
    /\ Become(c, IF Gone THEN Idle ELSE With(c, "answer", WinnersLink(c)))
    /\ UNCHANGED <<link, row, bound, duplicates, handed>>

\* SUBSCRIPTION_LINK_REQUESTED, and the response
Answer(c) ==
    /\ At(c, "answer")
    /\ handed' = handed \cup {request[c].link}
    /\ Become(c, Idle)
    /\ UNCHANGED <<link, row, bound, duplicates>>

\* A call fails, or the process dies.
Abandon(c) ==
    /\ request[c] # Idle
    /\ Become(c, Idle)
    /\ UNCHANGED <<link, row, bound, duplicates, handed>>

(***************************************************************************)
(* The payer, and the worker when it learns of it.                         *)
(***************************************************************************)
Pay(k) ==
    /\ k \in handed /\ Buyable(k)
    /\ link' = [link EXCEPT ![k].completed = TRUE]
    /\ UNCHANGED <<row, bound, duplicates, handed, request>>

\* activate: bind and burn the organization's link, or record a second payment.
Activate(k) ==
    /\ Completed(k) /\ k \notin duplicates /\ bound # k
    /\ IF bound = None
       THEN /\ bound' = k
            /\ row' = IF row = NoRow THEN row ELSE [row EXCEPT !.consumed = TRUE]
            /\ UNCHANGED duplicates
       ELSE /\ duplicates' = duplicates \cup {k}
            /\ UNCHANGED <<bound, row>>
    /\ UNCHANGED <<link, handed, request>>

(***************************************************************************)
(* The specification.                                                      *)
(***************************************************************************)
Init ==
    /\ link = [k \in Links |-> NoLink]
    /\ row = NoRow
    /\ bound = None
    /\ duplicates = {}
    /\ handed = {}
    /\ request = [c \in Clients |-> Idle]

Step(c) ==
    \/ \E plan \in Plans : Begin(c, plan)
    \/ Look(c) \/ Ask(c) \/ Mark(c) \/ Deactivate(c) \/ Delete(c)
    \/ \E k \in Links : Create(c, k)
    \/ Insert(c) \/ Disown(c) \/ Winner(c) \/ Answer(c)
    \/ Abandon(c)

Next ==
    \/ \E c \in Clients : Step(c)
    \/ \E k \in Links : Pay(k) \/ Activate(k)

Spec == Init /\ [][Next]_vars

(***************************************************************************)
(* Calm behaviours: while a request replaces a link, from reading its row  *)
(* to deleting it, nobody else replaces it and nobody pays it.  Requests   *)
(* may still race to make the first link.                                  *)
(***************************************************************************)
Replacing(c) == request[c].step \in {"deactivate", "delete"}

Undisturbed ==
    \A c \in Clients :
        Replacing(c) /\ request'[c] = request[c] =>
            /\ row' = row
            /\ link'[request[c].seen.link].completed = link[request[c].seen.link].completed

\* What was read is still true when the request begins to act on it.
Fresh == \A c \in Clients : Replacing(c)' => (row = request[c].seen)'

CalmNext == Next /\ Undisturbed /\ Fresh
CalmSpec == Init /\ [][CalmNext]_vars

(***************************************************************************)
(* Properties.                                                             *)
(***************************************************************************)
\* A link somebody holds and can pay is the one the organization's row names, so
\* a later request finds it, asks about it and can stop it: never two at once
\* (checkoutLinkFor).
HeldLinkIsRecorded == \A k \in handed : Buyable(k) => row.link = k

\* However often the button is clicked and the plan changed, an organization pays
\* one checkout (hasCompletedCheckout, the limit of one session per link).
PaidOnce == Cardinality({k \in Links : Completed(k)}) <= 1

\* An organization told that its activation is on the way has paid the very link
\* its row names, which is refused from then on: no link that still sells is burnt
\* for another one's payment (checkoutLinkFor, activate; both go by organization).
ConsumedMeansPaid == row # NoRow /\ row.consumed => Completed(row.link)
=============================================================================
