--------------------------- MODULE MCStripeEvents ---------------------------
(***************************************************************************)
(* One organization, two payments and what Stripe may tell of them.        *)
(***************************************************************************)
EXTENDS StripeEvents, TLC

CONSTANTS s1, s2, plan1, plan2

McEvents == 1 .. 3
McSubscriptions == {s1, s2}
McTagged == {s1}
McPlans == {plan1, plan2}

Checkout(s) == [kind |-> "checkout", sub |-> s]
State(s, status, plan) == [kind |-> "state", sub |-> s, status |-> status, plan |-> plan]
Ended(s) == [kind |-> "end", sub |-> s]
Planned(s, plan) == [kind |-> "schedule", sub |-> s, plan |-> plan]
About(kind, s) == [kind |-> kind, sub |-> s]
Other(kind) == [kind |-> kind]

\* A trial that ends, a subscription that is suspended, two payments, a change of plan
\* given up, an invoice among a late trial, and events that find no row or no use.
McHistories ==
    {<<Checkout(s2), State(s2, "trialing", plan1), Ended(s2)>>,
     <<Checkout(s2), State(s2, "unpaid", plan1), Other("unusable")>>,
     <<Checkout(s1), Checkout(s2), Ended(s2)>>,
     <<Checkout(s2), Planned(s2, plan2), Planned(s2, None)>>,
     <<Checkout(s1), About("invoice", s1), About("trial_ending", s1)>>,
     <<Other("ignored"), About("payment_failed", s1), About("payment_failed", s2)>>}

McSymmetry == Permutations(Pollers)
=============================================================================
