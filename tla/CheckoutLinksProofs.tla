------------------------- MODULE CheckoutLinksProofs -------------------------
(***************************************************************************)
(* For every set of links, plans and clients, when a replacement is not    *)
(* disturbed: every link somebody can still pay is the recorded one, at    *)
(* most one is ever paid, and the recorded one is burnt for its own        *)
(* payment alone.                                                          *)
(*                                                                         *)
(* The second half rests on what nobody reads in one place: a link that is *)
(* made and not yet recorded is known to its maker alone, a link that is   *)
(* known to anybody else and still sells is the recorded one, and a        *)
(* request replaces only the very row it read, unpaid.                     *)
(***************************************************************************)
EXTENDS CheckoutLinks, FiniteSetTheorems, TLAPS

Names(c, k) == request[c].seen.link = k \/ request[c].link = k

\* A link that the row, a request or anybody's mail names is a link at Stripe.
NamedLinksExist ==
    /\ \A k \in Links : k = row.link \/ k \in handed => Exists(k)
    /\ \A k \in Links, c \in Clients : Names(c, k) => Exists(k)

\* Only a row that was never written names no link.
RowNamesALink == row.link = None => row = NoRow

\* A request has what its next step needs.
RequestsAreReady ==
    \A c \in Clients :
        /\ request[c].step # "idle" => request[c].plan \in Plans
        /\ request[c].step \in {"ask", "mark", "deactivate", "delete"} =>
               request[c].seen.link \in Links
        /\ request[c].step \in {"insert", "disown", "winner", "answer"} =>
               request[c].link \in Links

\* Whoever is about to record a payment knows of one.
MarkersKnowAPayment ==
    \A c \in Clients : At(c, "mark") => Completed(request[c].seen.link)

\* A consumed row tells of some payment.
MarkedAfterAPayment == row # NoRow /\ row.consumed => \E k \in Links : Completed(k)

\* Only links at Stripe are paid.
CompletedExist == \A k \in Links : Completed(k) => Exists(k)

IInv ==
    /\ TypeOK
    /\ NamedLinksExist
    /\ CompletedExist
    /\ RowNamesALink
    /\ RequestsAreReady
    /\ MarkersKnowAPayment
    /\ MarkedAfterAPayment

----------------------------------------------------------------------------
LEMMA Blanks == NoRow \in Row /\ Idle \in Request /\ NoLink \in LinkRow
BY DEF NoRow, Row, Idle, Request, Steps, NoLink, LinkRow

LEMMA Moves ==
    ASSUME TypeOK, NEW c \in Clients, NEW q \in Request, Become(c, q)
    PROVE  /\ request' \in [Clients -> Request]
           /\ request'[c] = q
           /\ \A d \in Clients \ {c} : request'[d] = request[d]
BY DEF TypeOK, Become

LEMMA ThenIs ==
    ASSUME TypeOK, NEW c \in Clients, NEW s \in Steps, NEW k \in Links \cup {None}
    PROVE  /\ Then(c, s) \in Request
           /\ Then(c, s).step = s /\ Then(c, s).plan = request[c].plan
           /\ Then(c, s).seen = NoRow /\ Then(c, s).link = None
           /\ With(c, s, k) \in Request
           /\ With(c, s, k).step = s /\ With(c, s, k).plan = request[c].plan
           /\ With(c, s, k).seen = NoRow /\ With(c, s, k).link = k
<1>1. request[c] \in Request
  BY DEF TypeOK
<1>2. request[c].plan \in Plans \cup {None}
  BY <1>1 DEF Request
<1> QED  BY <1>2, Blanks DEF Then, With, Idle, Request

LEMMA InitIsInductive == Init => IInv
<1> SUFFICES ASSUME Init PROVE IInv
  OBVIOUS
<1> USE CheckoutLinksAssumption, Blanks DEF Init
<1>1. TypeOK
  BY DEF TypeOK
<1>2. \A c \in Clients : /\ request[c].step = "idle"
                         /\ request[c].seen.link = None /\ request[c].link = None
  BY DEF Idle, NoRow
<1>3. row.link = None
  BY DEF NoRow
<1>4. NamedLinksExist
  BY <1>2, <1>3 DEF NamedLinksExist, Names
<1>5. RowNamesALink /\ RequestsAreReady /\ MarkersKnowAPayment /\ MarkedAfterAPayment
      /\ CompletedExist
  BY <1>2 DEF RowNamesALink, RequestsAreReady, MarkersKnowAPayment, At, MarkedAfterAPayment,
     CompletedExist, Completed, NoLink
<1> QED  BY <1>1, <1>4, <1>5 DEF IInv

\* A step of a request: links stay and stay paid, whatever it and the row name
\* exists, and a payment it records was made.
LEMMA StepKeeps ==
    ASSUME IInv, NEW c \in Clients, NEW q \in Request, Become(c, q),
           link' \in [Links -> LinkRow], row' \in Row,
           bound' \in Links \cup {None}, duplicates' \subseteq Links, handed' \subseteq Links,
           \A k \in Links : Exists(k) => Exists(k)',
           \A k \in Links : Completed(k) <=> Completed(k)',
           \A k \in Links : k = row'.link \/ k \in handed' => Exists(k)',
           row'.link = None => row' = NoRow,
           row'.consumed => row.consumed \/ \E k \in Links : Completed(k),
           \A k \in Links : q.seen.link = k \/ q.link = k => Exists(k)',
           q.step # "idle" => q.plan \in Plans,
           q.step \in {"ask", "mark", "deactivate", "delete"} => q.seen.link \in Links,
           q.step \in {"insert", "disown", "winner", "answer"} => q.link \in Links,
           q.step = "mark" => Completed(q.seen.link)
    PROVE  IInv'
<1>1. /\ request' \in [Clients -> Request]
      /\ request'[c] = q
      /\ \A d \in Clients \ {c} : request'[d] = request[d]
  BY Moves DEF IInv
<1>2. TypeOK'
  BY <1>1 DEF TypeOK
<1>3. NamedLinksExist' /\ CompletedExist'
  <2>1. \A k \in Links, d \in Clients : Names(d, k)' => Exists(k)'
    BY <1>1 DEF IInv, NamedLinksExist, Names
  <2> QED  BY <2>1 DEF IInv, NamedLinksExist, CompletedExist
<1>4. RowNamesALink'
  BY DEF RowNamesALink, NoRow
<1>5. MarkedAfterAPayment'
  <2>1. row.consumed => row # NoRow
    BY DEF NoRow
  <2>2. row'.consumed => \E k \in Links : Completed(k)
    BY <2>1 DEF IInv, MarkedAfterAPayment
  <2> QED  BY <2>2 DEF MarkedAfterAPayment
<1>6. RequestsAreReady'
  BY <1>1 DEF IInv, RequestsAreReady
<1>7. MarkersKnowAPayment'
  <2>1. \A d \in Clients : At(d, "mark")' => /\ request'[d].seen.link \in Links
                                            /\ Completed(request'[d].seen.link)
    BY <1>1 DEF IInv, MarkersKnowAPayment, RequestsAreReady, At
  <2>2. \A d \in Clients : At(d, "mark")' => link'[request'[d].seen.link].completed
    BY <2>1 DEF Completed
  <2> QED  BY <2>2 DEF MarkersKnowAPayment, Completed
<1> QED  BY <1>2, <1>3, <1>4, <1>5, <1>6, <1>7 DEF IInv

\* A step that only moves the request on, or hands its link out.
LEMMA QuietKeeps ==
    ASSUME IInv, NEW c \in Clients, NEW q \in Request, Become(c, q),
           UNCHANGED <<link, row, bound, duplicates>>,
           handed' \subseteq Links,
           \A k \in Links : k \in handed' => k \in handed \/ Names(c, k),
           \A k \in Links : q.seen.link = k \/ q.link = k => Names(c, k) \/ row.link = k,
           q.step # "idle" => q.plan \in Plans,
           q.step \in {"ask", "mark", "deactivate", "delete"} => q.seen.link \in Links,
           q.step \in {"insert", "disown", "winner", "answer"} => q.link \in Links,
           q.step = "mark" => Completed(q.seen.link)
    PROVE  IInv'
<1>1. /\ link' \in [Links -> LinkRow] /\ row' \in Row
      /\ bound' \in Links \cup {None} /\ duplicates' \subseteq Links
  BY DEF IInv, TypeOK
<1>2. \A k \in Links : (Exists(k) <=> Exists(k)') /\ (Completed(k) <=> Completed(k)')
  BY DEF Exists, Completed
<1>3. /\ \A k \in Links : k = row'.link \/ k \in handed' => Exists(k)'
      /\ \A k \in Links : q.seen.link = k \/ q.link = k => Exists(k)'
  BY <1>2 DEF IInv, NamedLinksExist
<1>4. row'.link = None => row' = NoRow
  BY DEF IInv, RowNamesALink
<1> QED  BY <1>1, <1>2, <1>3, <1>4, StepKeeps

LEMMA AbandonKeeps ==
    ASSUME IInv, NEW c \in Clients, Become(c, Idle),
           UNCHANGED <<link, row, bound, duplicates, handed>>
    PROVE  IInv'
<1>1. Idle \in Request /\ Idle.step = "idle" /\ Idle.seen.link = None /\ Idle.link = None
  BY Blanks DEF Idle, NoRow
<1>2. handed \subseteq Links
  BY DEF IInv, TypeOK
<1> QED  BY <1>1, <1>2, QuietKeeps, CheckoutLinksAssumption

LEMMA BeginKeeps ==
    ASSUME IInv, NEW c \in Clients, NEW plan \in Plans, Begin(c, plan) PROVE IInv'
<1> DEFINE q == [Idle EXCEPT !.step = "look", !.plan = plan]
<1>1. q \in Request /\ q.step = "look" /\ q.plan = plan
      /\ q.seen.link = None /\ q.link = None
  BY Blanks DEF Idle, NoRow, Request, Steps
<1>2. Become(c, q) /\ UNCHANGED <<link, row, bound, duplicates, handed>>
  BY DEF Begin
<1>3. handed \subseteq Links
  BY DEF IInv, TypeOK
<1> HIDE DEF q
<1> QED  BY <1>1, <1>2, <1>3, QuietKeeps, CheckoutLinksAssumption

\* What a step of a request that reads leaves it with.
LEMMA LookFinds ==
    ASSUME IInv, NEW c \in Clients, Look(c)
    PROVE  \/ Become(c, Then(c, "create")) /\ row = NoRow
           \/ Become(c, Idle)
           \/ \E q \in Request : /\ Become(c, q) /\ q.step = "ask" /\ q.plan \in Plans
                                 /\ q.seen = row /\ q.link = None
                                 /\ row.link \in Links
<1> DEFINE q == [Then(c, "ask") EXCEPT !.seen = row]
<1>1. \/ Become(c, Then(c, "create")) /\ row = NoRow
      \/ Become(c, Idle)
      \/ Become(c, q) /\ row # NoRow
  BY DEF Look
<1>2. row \in Row /\ request[c].plan \in Plans
  BY DEF IInv, TypeOK, RequestsAreReady, Look, At
<1>3. Then(c, "ask") \in Request /\ Then(c, "ask").step = "ask"
      /\ Then(c, "ask").plan = request[c].plan /\ Then(c, "ask").link = None
  BY ThenIs DEF IInv, Steps
<1>4. q \in Request /\ q.step = "ask" /\ q.plan \in Plans /\ q.seen = row /\ q.link = None
  BY <1>2, <1>3 DEF Request
<1>5. row # NoRow => row.link \in Links
  BY <1>2 DEF IInv, RowNamesALink, Row
<1> HIDE DEF q
<1> QED  BY <1>1, <1>4, <1>5

LEMMA LookKeeps ==
    ASSUME IInv, NEW c \in Clients, Look(c) PROVE IInv'
<1>1. UNCHANGED <<link, row, bound, duplicates, handed>> /\ request[c].plan \in Plans
      /\ handed \subseteq Links
  BY DEF Look, At, IInv, RequestsAreReady, TypeOK
<1>2. CASE Become(c, Then(c, "create"))
  <2> DEFINE q == Then(c, "create")
  <2>1. q \in Request /\ q.step = "create" /\ q.plan \in Plans
        /\ q.seen.link = None /\ q.link = None
    BY <1>1, ThenIs DEF IInv, Steps, NoRow
  <2> HIDE DEF q
  <2> QED  BY <1>1, <1>2, <2>1, QuietKeeps, CheckoutLinksAssumption DEF q
<1>3. CASE Become(c, Idle)
  BY <1>1, <1>3, AbandonKeeps
<1>4. ASSUME NEW q \in Request, Become(c, q), q.step = "ask", q.plan \in Plans,
             q.seen = row, q.link = None, row.link \in Links
      PROVE  IInv'
  BY <1>1, <1>4, QuietKeeps, CheckoutLinksAssumption
<1> QED  BY <1>2, <1>3, <1>4, LookFinds

LEMMA AskFinds ==
    ASSUME IInv, NEW c \in Clients, Ask(c)
    PROVE  /\ request[c].seen.link \in Links /\ request[c].plan \in Plans
           /\ \E q \in Request :
                 /\ Become(c, q) /\ q.plan = request[c].plan
                 /\ \/ /\ q.step = "mark" /\ Completed(request[c].seen.link)
                       /\ q.seen = request[c].seen /\ q.link = request[c].link
                    \/ /\ q.step = "deactivate" /\ ~Completed(request[c].seen.link)
                       /\ q.seen = request[c].seen /\ q.link = request[c].link
                    \/ /\ q.step = "answer"
                       /\ q.seen = NoRow /\ q.link = request[c].seen.link
<1>1. request[c] \in Request /\ request[c].plan \in Plans /\ request[c].seen.link \in Links
  BY DEF IInv, TypeOK, RequestsAreReady, Ask, At
<1>2. /\ With(c, "answer", request[c].seen.link) \in Request
      /\ With(c, "answer", request[c].seen.link).step = "answer"
      /\ With(c, "answer", request[c].seen.link).plan = request[c].plan
      /\ With(c, "answer", request[c].seen.link).seen = NoRow
      /\ With(c, "answer", request[c].seen.link).link = request[c].seen.link
  BY <1>1, ThenIs DEF IInv, Steps
<1>3. \A s \in Steps : /\ [request[c] EXCEPT !.step = s] \in Request
                       /\ [request[c] EXCEPT !.step = s].step = s
                       /\ [request[c] EXCEPT !.step = s].plan = request[c].plan
                       /\ [request[c] EXCEPT !.step = s].seen = request[c].seen
                       /\ [request[c] EXCEPT !.step = s].link = request[c].link
  BY <1>1 DEF Request
<1>4. CASE Paid(request[c].seen.link)
  BY <1>1, <1>3, <1>4 DEF Ask, Paid, Steps
<1>5. CASE ~Paid(request[c].seen.link) /\ request[c].seen.plan = request[c].plan
  <2>1. Become(c, With(c, "answer", request[c].seen.link))
    BY <1>5 DEF Ask
  <2> QED  BY <1>1, <1>2, <2>1
<1>6. CASE ~Paid(request[c].seen.link) /\ request[c].seen.plan # request[c].plan
  BY <1>1, <1>3, <1>6 DEF Ask, Paid, Steps
<1> QED  BY <1>4, <1>5, <1>6

LEMMA AskKeeps ==
    ASSUME IInv, NEW c \in Clients, Ask(c) PROVE IInv'
<1>1. UNCHANGED <<link, row, bound, duplicates, handed>> /\ handed \subseteq Links
  BY DEF Ask, IInv, TypeOK
<1>2. PICK q \in Request :
         /\ Become(c, q) /\ q.plan = request[c].plan
         /\ \/ /\ q.step = "mark" /\ Completed(request[c].seen.link)
               /\ q.seen = request[c].seen /\ q.link = request[c].link
            \/ /\ q.step = "deactivate" /\ ~Completed(request[c].seen.link)
               /\ q.seen = request[c].seen /\ q.link = request[c].link
            \/ /\ q.step = "answer"
               /\ q.seen = NoRow /\ q.link = request[c].seen.link
  BY AskFinds
<1>3. request[c].seen.link \in Links /\ request[c].plan \in Plans
  BY AskFinds
<1>4. \A k \in Links : q.seen.link = k \/ q.link = k => Names(c, k)
  BY <1>2, CheckoutLinksAssumption DEF Names, NoRow
<1> QED  BY <1>1, <1>2, <1>3, <1>4, QuietKeeps

\* One link of Stripe's changes, and stays what it was sold or paid for.
LEMMA LinkChanges ==
    ASSUME TypeOK, NEW k \in Links, NEW new \in LinkRow,
           link' = [link EXCEPT ![k] = new]
    PROVE  /\ link' \in [Links -> LinkRow]
           /\ link'[k] = new
           /\ \A j \in Links \ {k} : link'[j] = link[j]
BY DEF TypeOK

LEMMA StoppedIs ==
    ASSUME TypeOK, NEW k \in Links
    PROVE  /\ Stopped(k) \in LinkRow
           /\ Stopped(k).state = "inactive" /\ Stopped(k).completed = link[k].completed
<1>1. link[k] \in LinkRow
  BY DEF TypeOK
<1> QED  BY <1>1 DEF Stopped, LinkRow

LEMMA MarkKeeps ==
    ASSUME IInv, NEW c \in Clients, Mark(c) PROVE IInv'
<1>1. /\ Become(c, Idle) /\ UNCHANGED <<link, bound, duplicates, handed>>
      /\ At(c, "mark")
  BY DEF Mark, Markable
<1>2. request[c].seen.link \in Links /\ Completed(request[c].seen.link)
  BY <1>1 DEF IInv, RequestsAreReady, MarkersKnowAPayment, At
<1>3. row' \in Row /\ row'.link = row.link /\ (row.link = None => row' = NoRow)
  BY Blanks DEF Mark, IInv, TypeOK, RowNamesALink, Row
<1>4. /\ link' \in [Links -> LinkRow] /\ handed' \subseteq Links
      /\ bound' \in Links \cup {None} /\ duplicates' \subseteq Links
  BY <1>1 DEF IInv, TypeOK
<1>5. \A k \in Links : (Exists(k) <=> Exists(k)') /\ (Completed(k) <=> Completed(k)')
  BY <1>1 DEF Exists, Completed
<1>6. \A k \in Links : k = row'.link \/ k \in handed' => Exists(k)'
  BY <1>1, <1>3, <1>5 DEF IInv, NamedLinksExist
<1>7. Idle \in Request /\ Idle.step = "idle" /\ Idle.seen.link = None /\ Idle.link = None
  BY Blanks DEF Idle, NoRow
<1>8. \E k \in Links : Completed(k)
  BY <1>2
<1> QED  BY <1>1, <1>3, <1>4, <1>5, <1>6, <1>7, <1>8, StepKeeps, CheckoutLinksAssumption

LEMMA DeactivateKeeps ==
    ASSUME IInv, NEW c \in Clients, Deactivate(c) PROVE IInv'
<1> DEFINE k == request[c].seen.link
           q == [request[c] EXCEPT !.step = "delete"]
<1>1. /\ link' = [link EXCEPT ![k] = Stopped(k)] /\ Become(c, q)
      /\ UNCHANGED <<row, bound, duplicates, handed>>
      /\ request[c].step = "deactivate"
  BY DEF Deactivate, At
<1>2. k \in Links /\ request[c] \in Request /\ request[c].plan \in Plans
  BY <1>1 DEF IInv, RequestsAreReady, TypeOK
<1>3. q \in Request /\ q.step = "delete" /\ q.plan \in Plans
      /\ q.seen = request[c].seen /\ q.link = request[c].link /\ q.seen.link = k
  BY <1>2 DEF Request, Steps
<1>4. Exists(k)
  BY <1>2 DEF IInv, NamedLinksExist, Names
<1> HIDE DEF q, k
<1>5. /\ link' \in [Links -> LinkRow]
      /\ \A j \in Links : Exists(j) => Exists(j)'
      /\ \A j \in Links : Completed(j) <=> Completed(j)'
  BY <1>1, <1>2, LinkChanges, StoppedIs DEF IInv, Exists, Completed
<1>6. /\ row' \in Row /\ handed' \subseteq Links
      /\ bound' \in Links \cup {None} /\ duplicates' \subseteq Links
      /\ row'.link = None => row' = NoRow
  BY <1>1 DEF IInv, TypeOK, RowNamesALink
<1>7. /\ \A j \in Links : j = row'.link \/ j \in handed' => Exists(j)'
      /\ \A j \in Links : q.seen.link = j \/ q.link = j => Exists(j)'
  BY <1>1, <1>3, <1>5 DEF IInv, NamedLinksExist, Names
<1> QED  BY <1>1, <1>2, <1>3, <1>5, <1>6, <1>7, StepKeeps

LEMMA DeleteKeeps ==
    ASSUME IInv, NEW c \in Clients, Delete(c) PROVE IInv'
<1>1. PICK q \in {Idle, Then(c, "create")} : Become(c, q)
  BY DEF Delete
<1>2. /\ row' = NoRow /\ UNCHANGED <<link, bound, duplicates, handed>>
      /\ request[c].step = "delete"
  BY DEF Delete, At
<1>3. request[c].plan \in Plans
  BY <1>2 DEF IInv, RequestsAreReady
<1>4. /\ q \in Request /\ (q.step # "idle" => q.plan \in Plans)
      /\ q.step \in {"idle", "create"} /\ q.seen.link = None /\ q.link = None
  <2>1. /\ Idle \in Request /\ Idle.step = "idle"
        /\ Idle.seen.link = None /\ Idle.link = None
    BY Blanks DEF Idle, NoRow
  <2>2. LET t == Then(c, "create")
        IN  /\ t \in Request /\ t.step = "create" /\ t.plan \in Plans
            /\ t.seen.link = None /\ t.link = None
    BY <1>3, ThenIs DEF IInv, Steps, NoRow
  <2> QED  BY <1>1, <2>1, <2>2
<1>5. /\ link' \in [Links -> LinkRow] /\ handed' \subseteq Links /\ row' \in Row
      /\ bound' \in Links \cup {None} /\ duplicates' \subseteq Links
  BY <1>2, Blanks DEF IInv, TypeOK
<1>6. \A k \in Links : (Exists(k) <=> Exists(k)') /\ (Completed(k) <=> Completed(k)')
  BY <1>2 DEF Exists, Completed
<1>7. ~row'.consumed /\ row'.link = None
  BY <1>2 DEF NoRow
<1>8. \A k \in Links : k = row'.link \/ k \in handed' => Exists(k)'
  BY <1>2, <1>6, <1>7, CheckoutLinksAssumption DEF IInv, NamedLinksExist
<1> QED  BY <1>1, <1>2, <1>4, <1>5, <1>6, <1>7, <1>8, StepKeeps, CheckoutLinksAssumption

LEMMA CreateKeeps ==
    ASSUME IInv, NEW c \in Clients, NEW k \in Links, Create(c, k) PROVE IInv'
<1> DEFINE q == With(c, "insert", k)
           new == NewLink(request[c].plan)
<1>1. /\ link' = [link EXCEPT ![k] = new] /\ Become(c, q) /\ ~Exists(k)
      /\ UNCHANGED <<row, bound, duplicates, handed>>
      /\ request[c].step = "create"
  BY DEF Create, At
<1>2. request[c].plan \in Plans
  BY <1>1 DEF IInv, RequestsAreReady
<1>3. q \in Request /\ q.step = "insert" /\ q.plan \in Plans
      /\ q.seen.link = None /\ q.link = k
  BY <1>2, ThenIs DEF IInv, Steps, NoRow
<1>4. new \in LinkRow /\ new.state = "active" /\ new.completed = FALSE
  BY <1>2 DEF NewLink, LinkRow
<1> HIDE DEF q, new
<1>5. /\ link' \in [Links -> LinkRow]
      /\ Exists(k)'
      /\ \A j \in Links \ {k} : link'[j] = link[j]
  BY <1>1, <1>4, LinkChanges DEF IInv, Exists
<1>6. \A j \in Links : Exists(j) => Exists(j)'
  BY <1>1, <1>5 DEF Exists
<1>7. /\ row' \in Row /\ handed' \subseteq Links
      /\ bound' \in Links \cup {None} /\ duplicates' \subseteq Links
      /\ row'.link = None => row' = NoRow
  BY <1>1 DEF IInv, TypeOK, RowNamesALink
<1>8. \A j \in Links : j = row'.link \/ j \in handed' => Exists(j)'
  BY <1>1, <1>6 DEF IInv, NamedLinksExist
<1>9. \A j \in Links : Completed(j) <=> Completed(j)'
  <2>1. ~Completed(k) /\ ~Completed(k)'
    BY <1>1, <1>4, LinkChanges DEF IInv, CompletedExist, Completed
  <2> QED  BY <2>1, <1>5 DEF Completed
<1> QED  BY <1>1, <1>2, <1>3, <1>5, <1>6, <1>7, <1>8, <1>9, StepKeeps, CheckoutLinksAssumption

LEMMA InsertKeeps ==
    ASSUME IInv, NEW c \in Clients, Insert(c) PROVE IInv'
<1> DEFINE k == request[c].link
<1>1. /\ UNCHANGED <<link, bound, duplicates, handed>> /\ request[c].step = "insert"
      /\ \/ /\ row' = [link |-> k, plan |-> request[c].plan, consumed |-> FALSE]
            /\ Become(c, With(c, "answer", k))
         \/ row' = row /\ Become(c, With(c, "disown", k))
  BY DEF Insert, At
<1>2. request[c].plan \in Plans /\ k \in Links
  BY <1>1 DEF IInv, RequestsAreReady
<1>3. PICK q \in Request : /\ Become(c, q) /\ q.step \in {"answer", "disown"}
                           /\ q.plan \in Plans /\ q.seen.link = None /\ q.link = k
  BY <1>1, <1>2, ThenIs DEF IInv, Steps, NoRow
<1>4. \A j \in Links : (Exists(j) <=> Exists(j)') /\ (Completed(j) <=> Completed(j)')
  BY <1>1 DEF Exists, Completed
<1>5. Exists(k)
  BY <1>2 DEF IInv, NamedLinksExist, Names
<1>6. /\ link' \in [Links -> LinkRow] /\ handed' \subseteq Links
      /\ bound' \in Links \cup {None} /\ duplicates' \subseteq Links
  BY <1>1 DEF IInv, TypeOK
<1>7. /\ row' \in Row /\ (row'.link = None => row' = NoRow)
      /\ row'.consumed => row.consumed
      /\ row'.link = k \/ row'.link = row.link
  <2>1. row \in Row /\ (row.link = None => row = NoRow)
    BY DEF IInv, TypeOK, RowNamesALink
  <2>2. CASE row' = row
    BY <2>1, <2>2
  <2>3. CASE row' = [link |-> k, plan |-> request[c].plan, consumed |-> FALSE]
    <3>1. row'.link = k /\ ~row'.consumed /\ row' \in Row
      BY <2>3, <1>2 DEF Row
    <3> QED  BY <3>1, <1>2, CheckoutLinksAssumption
  <2> QED  BY <1>1, <2>2, <2>3
<1> HIDE DEF k
<1>8. \A j \in Links : j = row'.link \/ j \in handed' => Exists(j)'
  BY <1>1, <1>4, <1>5, <1>7 DEF IInv, NamedLinksExist
<1>9. \A j \in Links : q.seen.link = j \/ q.link = j => Exists(j)'
  BY <1>3, <1>4, <1>5, CheckoutLinksAssumption
<1> QED  BY <1>2, <1>3, <1>4, <1>6, <1>7, <1>8, <1>9, StepKeeps

LEMMA DisownKeeps ==
    ASSUME IInv, NEW c \in Clients, Disown(c) PROVE IInv'
<1> DEFINE k == request[c].link
           q == With(c, "winner", k)
<1>1. /\ link' = link \/ link' = [link EXCEPT ![k] = Stopped(k)]
      /\ Become(c, q) /\ UNCHANGED <<row, bound, duplicates, handed>>
      /\ request[c].step = "disown"
  BY DEF Disown, At
<1>2. request[c].plan \in Plans /\ k \in Links
  BY <1>1 DEF IInv, RequestsAreReady
<1>3. q \in Request /\ q.step = "winner" /\ q.plan \in Plans
      /\ q.seen.link = None /\ q.link = k
  BY <1>2, ThenIs DEF IInv, Steps, NoRow
<1>4. Exists(k)
  BY <1>2 DEF IInv, NamedLinksExist, Names
<1> HIDE DEF q, k
<1>5. /\ link' \in [Links -> LinkRow]
      /\ \A j \in Links : Exists(j) => Exists(j)'
      /\ \A j \in Links : Completed(j) <=> Completed(j)'
  <2>1. CASE link' = link
    BY <2>1 DEF IInv, TypeOK, Exists, Completed
  <2>2. CASE link' = [link EXCEPT ![k] = Stopped(k)]
    BY <2>2, <1>2, LinkChanges, StoppedIs DEF IInv, Exists, Completed
  <2> QED  BY <1>1, <2>1, <2>2
<1>6. /\ row' \in Row /\ handed' \subseteq Links
      /\ bound' \in Links \cup {None} /\ duplicates' \subseteq Links
      /\ row'.link = None => row' = NoRow
  BY <1>1 DEF IInv, TypeOK, RowNamesALink
<1>7. \A j \in Links : j = row'.link \/ j \in handed' => Exists(j)'
  BY <1>1, <1>5 DEF IInv, NamedLinksExist
<1>8. \A j \in Links : q.seen.link = j \/ q.link = j => Exists(j)'
  BY <1>3, <1>4, <1>5, CheckoutLinksAssumption
<1> QED  BY <1>1, <1>2, <1>3, <1>5, <1>6, <1>7, <1>8, StepKeeps

LEMMA WinnerKeeps ==
    ASSUME IInv, NEW c \in Clients, Winner(c) PROVE IInv'
<1>1. /\ UNCHANGED <<link, row, bound, duplicates, handed>> /\ request[c].step = "winner"
      /\ Become(c, Idle) \/ (row # NoRow /\ Become(c, With(c, "answer", row.link)))
  BY DEF Winner, At, Gone, WinnersLink
<1>2. request[c].plan \in Plans /\ handed \subseteq Links /\ row \in Row
  BY <1>1 DEF IInv, RequestsAreReady, TypeOK
<1>3. CASE Become(c, Idle)
  BY <1>1, <1>3, AbandonKeeps
<1>4. CASE row # NoRow /\ Become(c, With(c, "answer", row.link))
  <2> DEFINE q == With(c, "answer", row.link)
  <2>1. row.link \in Links
    BY <1>2, <1>4 DEF IInv, RowNamesALink, Row
  <2>2. q \in Request /\ q.step = "answer" /\ q.plan \in Plans
        /\ q.seen.link = None /\ q.link = row.link
    BY <1>2, <2>1, ThenIs DEF IInv, Steps, NoRow
  <2> HIDE DEF q
  <2> QED  BY <1>1, <1>2, <1>4, <2>1, <2>2, QuietKeeps, CheckoutLinksAssumption DEF q
<1> QED  BY <1>1, <1>3, <1>4

LEMMA AnswerKeeps ==
    ASSUME IInv, NEW c \in Clients, Answer(c) PROVE IInv'
<1>1. /\ UNCHANGED <<link, row, bound, duplicates>> /\ request[c].step = "answer"
      /\ handed' = handed \cup {request[c].link} /\ Become(c, Idle)
  BY DEF Answer, At
<1>2. request[c].link \in Links /\ handed \subseteq Links
  BY <1>1 DEF IInv, RequestsAreReady, TypeOK
<1>3. Idle \in Request /\ Idle.step = "idle" /\ Idle.seen.link = None /\ Idle.link = None
  BY Blanks DEF Idle, NoRow
<1>4. \A k \in Links : k \in handed' => k \in handed \/ Names(c, k)
  BY <1>1 DEF Names
<1>5. handed' \subseteq Links
  BY <1>1, <1>2
<1> QED  BY <1>1, <1>3, <1>4, <1>5, QuietKeeps, CheckoutLinksAssumption

LEMMA PayKeeps ==
    ASSUME IInv, NEW k \in Links, Pay(k) PROVE IInv'
<1> DEFINE new == [link[k] EXCEPT !.completed = TRUE]
<1>1. /\ link' = [link EXCEPT ![k] = new] /\ Buyable(k)
      /\ UNCHANGED <<row, bound, duplicates, handed, request>>
  BY DEF Pay
<1>2. new \in LinkRow /\ new.state = link[k].state /\ new.completed
  BY DEF IInv, TypeOK, LinkRow
<1> HIDE DEF new
<1>3. /\ link' \in [Links -> LinkRow]
      /\ \A j \in Links : Exists(j) <=> Exists(j)'
      /\ \A j \in Links : Completed(j) => Completed(j)'
      /\ \A j \in Links : Completed(j)' => Exists(j)'
  BY <1>1, <1>2, LinkChanges DEF IInv, CompletedExist, Exists, Completed, Buyable
<1>4. TypeOK'
  BY <1>1, <1>3 DEF IInv, TypeOK
<1>5. NamedLinksExist' /\ CompletedExist'
  BY <1>1, <1>3 DEF IInv, NamedLinksExist, CompletedExist, Names
<1>6. RowNamesALink' /\ RequestsAreReady' /\ MarkedAfterAPayment'
  BY <1>1, <1>3 DEF IInv, RowNamesALink, RequestsAreReady, MarkedAfterAPayment, NoRow
<1>7. MarkersKnowAPayment'
  <2>1. \A d \in Clients : At(d, "mark")' => /\ request'[d].seen.link \in Links
                                            /\ Completed(request'[d].seen.link)
    BY <1>1 DEF IInv, MarkersKnowAPayment, RequestsAreReady, At
  <2>2. \A d \in Clients : At(d, "mark")' => link'[request'[d].seen.link].completed
    BY <2>1, <1>3 DEF Completed
  <2> QED  BY <2>2 DEF MarkersKnowAPayment, Completed
<1> QED  BY <1>4, <1>5, <1>6, <1>7 DEF IInv

LEMMA ActivateKeeps ==
    ASSUME IInv, NEW k \in Links, Activate(k) PROVE IInv'
<1>1. /\ UNCHANGED <<link, handed, request>> /\ Completed(k)
      /\ row' = row \/ (row # NoRow /\ row' = [row EXCEPT !.consumed = TRUE])
      /\ bound' \in {bound, k} /\ duplicates' \subseteq duplicates \cup {k}
  BY DEF Activate
<1>2. row' \in Row /\ row'.link = row.link /\ (row.link = None => row' = NoRow)
  BY <1>1 DEF IInv, TypeOK, RowNamesALink, Row
<1>3. TypeOK'
  BY <1>1, <1>2 DEF IInv, TypeOK
<1>4. NamedLinksExist' /\ CompletedExist' /\ RequestsAreReady' /\ MarkersKnowAPayment'
  BY <1>1, <1>2 DEF IInv, NamedLinksExist, CompletedExist, Names, Exists, RequestsAreReady,
     MarkersKnowAPayment, At, Completed
<1>5. RowNamesALink'
  BY <1>2 DEF RowNamesALink, NoRow
<1>6. MarkedAfterAPayment'
  BY <1>1 DEF MarkedAfterAPayment, Completed
<1> QED  BY <1>3, <1>4, <1>5, <1>6 DEF IInv

----------------------------------------------------------------------------
LEMMA NextKeeps == IInv /\ [Next]_vars => IInv'
<1> SUFFICES ASSUME IInv, [Next]_vars PROVE IInv'
  OBVIOUS
<1>1. ASSUME NEW c \in Clients, Step(c) PROVE IInv'
  BY <1>1, BeginKeeps, LookKeeps, AskKeeps, MarkKeeps, DeactivateKeeps, DeleteKeeps,
     CreateKeeps, InsertKeeps, DisownKeeps, WinnerKeeps, AnswerKeeps, AbandonKeeps
     DEF Step, Abandon
<1>2. CASE UNCHANGED vars
  BY <1>2 DEF vars, IInv, TypeOK, NamedLinksExist, CompletedExist, Names, Exists,
     RowNamesALink, RequestsAreReady, MarkersKnowAPayment, At, Completed,
     MarkedAfterAPayment, NoRow
<1> QED  BY <1>1, <1>2, PayKeeps, ActivateKeeps DEF Next

THEOREM Invariance == Spec => []IInv
BY InitIsInductive, NextKeeps, PTL DEF Spec

\* Links, the row and what requests know are well formed in every reachable
\* state, whichever calls fail (checkoutLinkFor).
THEOREM Typing == Spec => []TypeOK
<1>1. IInv => TypeOK
  BY DEF IInv
<1> QED  BY <1>1, Invariance, PTL

(***************************************************************************)
(* Undisturbed replacements.                                               *)
(***************************************************************************)
Circulating(k) ==
    \/ k \in handed
    \/ \E c \in Clients : \/ request[c].seen.link = k
                          \/ At(c, "answer") /\ request[c].link = k

OnlyTheRecordedSells == \A k \in Links : Circulating(k) /\ Buyable(k) => row.link = k

\* A link that is made and not recorded is known to its maker alone.
MakersKeepTheirLinks ==
    \A c \in Clients : request[c].step \in {"insert", "disown"} =>
        /\ row.link # request[c].link
        /\ request[c].link \notin handed
        /\ request[c].seen.link # request[c].link
        /\ \A d \in Clients \ {c} : ~Names(d, request[c].link)

ReplacersKnowTheRow ==
    \A c \in Clients :
        /\ Replacing(c) => row = request[c].seen /\ ~Completed(request[c].seen.link)
        /\ At(c, "delete") => link[request[c].seen.link].state = "inactive"

PaidIsRecorded == \A k \in Links : Completed(k) => row.link = k

CalmInv ==
    /\ OnlyTheRecordedSells
    /\ MakersKeepTheirLinks
    /\ ReplacersKnowTheRow
    /\ PaidIsRecorded

----------------------------------------------------------------------------
LEMMA InitIsCalm == Init => CalmInv
<1> SUFFICES ASSUME Init PROVE CalmInv
  OBVIOUS
<1>1. /\ \A c \in Clients : /\ request[c].step = "idle" /\ request[c].seen.link = None
      /\ handed = {} /\ \A k \in Links : ~Completed(k)
  BY DEF Init, Idle, NoRow, NoLink, Completed
<1>2. OnlyTheRecordedSells
  BY <1>1, CheckoutLinksAssumption DEF OnlyTheRecordedSells, Circulating, At
<1>3. MakersKeepTheirLinks /\ ReplacersKnowTheRow /\ PaidIsRecorded
  BY <1>1 DEF MakersKeepTheirLinks, ReplacersKnowTheRow, Replacing, At, PaidIsRecorded
<1> QED  BY <1>2, <1>3 DEF CalmInv

\* What circulates exists, so a new link never does.
LEMMA CirculatingExist ==
    ASSUME IInv, NEW k \in Links, Circulating(k) PROVE Exists(k)
BY DEF IInv, NamedLinksExist, Names, Circulating

LEMMA CalmStepKeeps ==
    ASSUME IInv, CalmInv, Undisturbed, Fresh,
           NEW c \in Clients, NEW q \in Request, Become(c, q),
           \A k \in Links : Exists(k) => link'[k] = link[k] \/ link'[k].state = "inactive",
           \A k \in Links : Completed(k) <=> Completed(k)',
           \A k \in Links : row'.link = k => row.link = k \/ Names(c, k),
           \A k \in Links : Completed(k) => row'.link = k,
           \A k \in Links : row.link = k /\ Buyable(k)' => row'.link = k,
           \A k \in Links : k \in handed' =>
               k \in handed \/ (At(c, "answer") /\ request[c].link = k),
           \A k \in Links : q.seen.link = k \/ (q.step = "answer" /\ q.link = k)
                                => Circulating(k) \/ row'.link = k,
           \A k \in Links : q.seen.link = k \/ q.link = k
                                => Names(c, k) \/ row.link = k \/ ~Exists(k),
           q.step \in {"insert", "disown"} =>
               /\ q.link \in Links /\ q.link # row'.link /\ q.link \notin handed'
               /\ q.seen.link # q.link
               /\ \A d \in Clients \ {c} : ~Names(d, q.link),
           q.step \in {"deactivate", "delete"} => ~link'[q.seen.link].completed,
           q.step = "delete" => link'[q.seen.link].state = "inactive"
    PROVE  CalmInv'
<1>1. /\ request'[c] = q
      /\ \A d \in Clients \ {c} : request'[d] = request[d]
  BY Moves DEF IInv
<1>2. OnlyTheRecordedSells'
  <2> SUFFICES ASSUME NEW k \in Links, Circulating(k)', Buyable(k)' PROVE row'.link = k
    BY DEF OnlyTheRecordedSells
  <2>1. Circulating(k) \/ row'.link = k
    BY <1>1 DEF Circulating, At
  <2>2. CASE Circulating(k)
    <3>1. Exists(k)
      BY <2>2, CirculatingExist
    <3>2. Buyable(k)
      BY <3>1 DEF Buyable, Completed
    <3> QED  BY <2>2, <3>2 DEF CalmInv, OnlyTheRecordedSells
  <2> QED  BY <2>1, <2>2
<1>3. MakersKeepTheirLinks'
  <2> SUFFICES ASSUME NEW d \in Clients, request'[d].step \in {"insert", "disown"}
               PROVE  /\ row'.link # request'[d].link
                      /\ request'[d].link \notin handed'
                      /\ request'[d].seen.link # request'[d].link
                      /\ \A e \in Clients \ {d} :
                             /\ request'[e].seen.link # request'[d].link
                             /\ request'[e].link # request'[d].link
    BY DEF MakersKeepTheirLinks, Names
  <2>1. CASE d = c
    BY <2>1, <1>1 DEF Names
  <2>2. CASE d # c
    <3> DEFINE k == request[d].link
    <3>1. /\ request'[d] = request[d] /\ k \in Links
          /\ row.link # k /\ k \notin handed /\ request[d].seen.link # k
          /\ \A e \in Clients \ {d} : ~Names(e, k)
          /\ Exists(k)
      BY <2>2, <1>1 DEF CalmInv, MakersKeepTheirLinks, IInv, RequestsAreReady,
         NamedLinksExist, Names
    <3>2. ~Names(c, k)
      BY <3>1, <2>2
    <3>3. q.seen.link # k /\ q.link # k
      BY <3>1, <3>2
    <3>4. \A e \in Clients \ {d} : request'[e].seen.link # k /\ request'[e].link # k
      BY <1>1, <3>1, <3>3 DEF Names
    <3>5. row'.link # k /\ k \notin handed'
      BY <3>1, <3>2 DEF Names
    <3> QED  BY <3>1, <3>3, <3>4, <3>5
  <2> QED  BY <2>1, <2>2
<1>4. ReplacersKnowTheRow'
  <2> SUFFICES ASSUME NEW d \in Clients, request'[d].step \in {"deactivate", "delete"}
               PROVE  /\ row' = request'[d].seen
                      /\ ~link'[request'[d].seen.link].completed
                      /\ request'[d].step = "delete" =>
                             link'[request'[d].seen.link].state = "inactive"
    BY DEF ReplacersKnowTheRow, Replacing, At, Completed
  <2>1. row' = request'[d].seen
    BY DEF Fresh, Replacing
  <2>2. CASE d = c
    BY <2>1, <2>2, <1>1 DEF Completed
  <2>3. CASE d # c
    <3> DEFINE k == request[d].seen.link
    <3>1. request'[d] = request[d] /\ Replacing(d)
      BY <2>3, <1>1 DEF Replacing
    <3>2. k \in Links /\ ~Completed(k) /\ Exists(k)
      BY <3>1 DEF CalmInv, ReplacersKnowTheRow, Replacing, IInv, RequestsAreReady,
         NamedLinksExist, Names
    <3>3. request[d].step = "delete" => link[k].state = "inactive"
      BY DEF CalmInv, ReplacersKnowTheRow, At
    <3> HIDE DEF k
    <3>4. ~link'[k].completed /\ (request[d].step = "delete" => link'[k].state = "inactive")
      BY <3>2, <3>3 DEF Completed
    <3> QED  BY <2>1, <3>1, <3>4 DEF k
  <2> QED  BY <2>2, <2>3
<1>5. PaidIsRecorded'
  BY DEF PaidIsRecorded
<1> QED  BY <1>2, <1>3, <1>4, <1>5 DEF CalmInv

\* A step that changes no link and no row.
LEMMA QuietIsCalm ==
    ASSUME IInv, CalmInv, Undisturbed, Fresh,
           NEW c \in Clients, NEW q \in Request, Become(c, q), UNCHANGED <<link, row>>,
           \A k \in Links : k \in handed' =>
               k \in handed \/ (At(c, "answer") /\ request[c].link = k),
           \A k \in Links : q.seen.link = k \/ (q.step = "answer" /\ q.link = k)
                                => request[c].seen.link = k \/ row.link = k,
           \A k \in Links : q.link = k => Names(c, k) \/ row.link = k,
           q.step \notin {"insert", "disown", "delete"},
           q.step = "deactivate" => ~Completed(q.seen.link)
    PROVE  CalmInv'
<1>1. /\ \A k \in Links : Exists(k) => link'[k] = link[k] \/ link'[k].state = "inactive"
      /\ \A k \in Links : Completed(k) <=> Completed(k)'
      /\ \A k \in Links : row'.link = k => row.link = k \/ Names(c, k)
      /\ \A k \in Links : row.link = k /\ Buyable(k)' => row'.link = k
  BY DEF Completed
<1>2. \A k \in Links : Completed(k) => row'.link = k
  BY DEF CalmInv, PaidIsRecorded
<1>3. \A k \in Links : q.seen.link = k \/ (q.step = "answer" /\ q.link = k)
                           => Circulating(k) \/ row'.link = k
  BY DEF Circulating
<1>4. \A k \in Links : q.seen.link = k \/ q.link = k
                           => Names(c, k) \/ row.link = k \/ ~Exists(k)
  BY DEF Names
<1>5. q.step \in {"deactivate", "delete"} => ~link'[q.seen.link].completed
  BY DEF Completed
<1> QED  BY <1>1, <1>2, <1>3, <1>4, <1>5, CalmStepKeeps

LEMMA DeactivateIsCalm ==
    ASSUME IInv, CalmInv, Undisturbed, Fresh, NEW c \in Clients, Deactivate(c)
    PROVE  CalmInv'
<1> DEFINE k == request[c].seen.link
           q == [request[c] EXCEPT !.step = "delete"]
<1>1. /\ link' = [link EXCEPT ![k] = Stopped(k)] /\ Become(c, q)
      /\ UNCHANGED <<row, handed>>
      /\ request[c].step = "deactivate"
  BY DEF Deactivate, At
<1>2. k \in Links /\ request[c] \in Request
  BY <1>1 DEF IInv, RequestsAreReady, TypeOK
<1>3. q \in Request /\ q.step = "delete"
      /\ q.seen = request[c].seen /\ q.link = request[c].link /\ q.seen.link = k
  BY <1>2 DEF Request, Steps
<1>4. ~Completed(k)
  BY <1>1 DEF CalmInv, ReplacersKnowTheRow, Replacing
<1> HIDE DEF q, k
<1>5. /\ link'[k].state = "inactive" /\ link'[k].completed = link[k].completed
      /\ \A j \in Links \ {k} : link'[j] = link[j]
  BY <1>1, <1>2, LinkChanges, StoppedIs DEF IInv
<1>6. /\ \A j \in Links : Exists(j) => link'[j] = link[j] \/ link'[j].state = "inactive"
      /\ \A j \in Links : Completed(j) <=> Completed(j)'
      /\ ~link'[k].completed
  BY <1>4, <1>5 DEF Completed
<1>7. \A j \in Links : Completed(j) => row'.link = j
  BY <1>1 DEF CalmInv, PaidIsRecorded
<1>8. /\ \A j \in Links : q.seen.link = j => Circulating(j)
      /\ \A j \in Links : q.seen.link = j \/ q.link = j => Names(c, j)
  BY <1>3 DEF Circulating, Names
<1> QED  BY <1>1, <1>3, <1>5, <1>6, <1>7, <1>8, CalmStepKeeps

LEMMA DeleteIsCalm ==
    ASSUME IInv, CalmInv, Undisturbed, Fresh, NEW c \in Clients, Delete(c)
    PROVE  CalmInv'
<1> DEFINE k == request[c].seen.link
<1>1. PICK q \in {Idle, Then(c, "create")} : Become(c, q)
  BY DEF Delete
<1>2. /\ row' = NoRow /\ UNCHANGED <<link, handed>> /\ request[c].step = "delete"
  BY DEF Delete, At
<1>3. /\ q \in Request /\ q.step \in {"idle", "create"}
      /\ q.seen.link = None /\ q.link = None
  <2>1. /\ Idle \in Request /\ Idle.step = "idle"
        /\ Idle.seen.link = None /\ Idle.link = None
    BY Blanks DEF Idle, NoRow
  <2>2. LET t == Then(c, "create")
        IN  /\ t \in Request /\ t.step = "create"
            /\ t.seen.link = None /\ t.link = None
    BY ThenIs DEF IInv, Steps, NoRow
  <2> QED  BY <1>1, <2>1, <2>2
<1>4. row.link = k /\ ~Completed(k) /\ link[k].state = "inactive"
  BY <1>2 DEF CalmInv, ReplacersKnowTheRow, Replacing, At
<1> HIDE DEF k
<1>5. \A j \in Links : ~Completed(j)
  BY <1>4 DEF CalmInv, PaidIsRecorded
<1>6. \A j \in Links : row.link = j => ~Buyable(j)'
  BY <1>2, <1>4 DEF Buyable
<1>7. row'.link = None
  BY <1>2 DEF NoRow
<1>8. \A j \in Links : Completed(j) <=> Completed(j)'
  BY <1>2 DEF Completed
<1> QED  BY <1>1, <1>2, <1>3, <1>5, <1>6, <1>7, <1>8, CalmStepKeeps,
             CheckoutLinksAssumption

LEMMA CreateIsCalm ==
    ASSUME IInv, CalmInv, Undisturbed, Fresh,
           NEW c \in Clients, NEW k \in Links, Create(c, k)
    PROVE  CalmInv'
<1> DEFINE q == With(c, "insert", k)
           new == NewLink(request[c].plan)
<1>1. /\ link' = [link EXCEPT ![k] = new] /\ Become(c, q) /\ ~Exists(k)
      /\ UNCHANGED <<row, handed>> /\ request[c].step = "create"
  BY DEF Create, At
<1>2. request[c].plan \in Plans
  BY <1>1 DEF IInv, RequestsAreReady
<1>3. q \in Request /\ q.step = "insert" /\ q.seen.link = None /\ q.link = k
  BY ThenIs DEF IInv, Steps, NoRow
<1>4. new \in LinkRow /\ new.completed = FALSE
  BY <1>2 DEF NewLink, LinkRow
<1> HIDE DEF q, new
<1>5. link'[k] = new /\ \A j \in Links \ {k} : link'[j] = link[j]
  BY <1>1, <1>4, LinkChanges DEF IInv
<1>6. \A j \in Links : Exists(j) => link'[j] = link[j]
  BY <1>1, <1>5
<1>7. \A j \in Links : Completed(j) <=> Completed(j)'
  BY <1>1, <1>4, <1>5 DEF IInv, CompletedExist, Completed
<1>8. \A j \in Links : Completed(j) => row'.link = j
  BY <1>1 DEF CalmInv, PaidIsRecorded
<1>9. /\ row'.link # k /\ k \notin handed'
      /\ \A d \in Clients : ~Names(d, k)
  BY <1>1 DEF IInv, NamedLinksExist
<1> QED  BY <1>1, <1>3, <1>6, <1>7, <1>8, <1>9, CalmStepKeeps, CheckoutLinksAssumption

LEMMA InsertIsCalm ==
    ASSUME IInv, CalmInv, Undisturbed, Fresh, NEW c \in Clients, Insert(c)
    PROVE  CalmInv'
<1> DEFINE k == request[c].link
<1>1. /\ UNCHANGED <<link, handed>> /\ request[c].step = "insert"
      /\ \/ /\ row = NoRow
            /\ row' = [link |-> k, plan |-> request[c].plan, consumed |-> FALSE]
            /\ Become(c, With(c, "answer", k))
         \/ row' = row /\ Become(c, With(c, "disown", k))
  BY DEF Insert, At
<1>2. /\ k \in Links /\ row.link # k /\ k \notin handed
      /\ \A d \in Clients \ {c} : ~Names(d, k)
  BY <1>1 DEF IInv, RequestsAreReady, CalmInv, MakersKeepTheirLinks
<1>3. \A s \in Steps : /\ With(c, s, k) \in Request /\ With(c, s, k).step = s
                       /\ With(c, s, k).seen.link = None /\ With(c, s, k).link = k
  BY <1>2, ThenIs DEF IInv, NoRow
<1>4. /\ \A j \in Links : Exists(j) => link'[j] = link[j]
      /\ \A j \in Links : Completed(j) <=> Completed(j)'
  BY <1>1 DEF Completed
<1>5. Names(c, k)
  BY DEF Names
<1>6. CASE row' = row /\ Become(c, With(c, "disown", k))
  <2> DEFINE q == With(c, "disown", k)
  <2>1. q \in Request /\ q.step = "disown" /\ q.seen.link = None /\ q.link = k
    BY <1>3 DEF Steps
  <2>2. \A j \in Links : Completed(j) => row'.link = j
    BY <1>6 DEF CalmInv, PaidIsRecorded
  <2> HIDE DEF q, k
  <2> QED  BY <1>1, <1>2, <1>4, <1>5, <1>6, <2>1, <2>2, CalmStepKeeps,
               CheckoutLinksAssumption DEF q
<1>7. CASE /\ row = NoRow
           /\ row' = [link |-> k, plan |-> request[c].plan, consumed |-> FALSE]
           /\ Become(c, With(c, "answer", k))
  <2> DEFINE q == With(c, "answer", k)
  <2>1. q \in Request /\ q.step = "answer" /\ q.seen.link = None /\ q.link = k
    BY <1>3 DEF Steps
  <2>2. row.link = None /\ row'.link = k
    BY <1>7 DEF NoRow
  <2>3. \A j \in Links : ~Completed(j)
    BY <2>2, CheckoutLinksAssumption DEF CalmInv, PaidIsRecorded
  <2>4. Become(c, q) /\ handed' = handed
    BY <1>1, <1>7
  <2> HIDE DEF q, k
  <2> QED  BY <1>4, <1>5, <2>1, <2>2, <2>3, <2>4, CalmStepKeeps, CheckoutLinksAssumption
<1> QED  BY <1>1, <1>6, <1>7

LEMMA DisownIsCalm ==
    ASSUME IInv, CalmInv, Undisturbed, Fresh, NEW c \in Clients, Disown(c)
    PROVE  CalmInv'
<1> DEFINE k == request[c].link
           q == With(c, "winner", k)
<1>1. /\ link' = link \/ link' = [link EXCEPT ![k] = Stopped(k)]
      /\ Become(c, q) /\ UNCHANGED <<row, handed>>
      /\ request[c].step = "disown"
  BY DEF Disown, At
<1>2. k \in Links
  BY <1>1 DEF IInv, RequestsAreReady
<1>3. q \in Request /\ q.step = "winner" /\ q.seen.link = None /\ q.link = k
  BY <1>2, ThenIs DEF IInv, Steps, NoRow
<1>4. Names(c, k)
  BY DEF Names
<1> HIDE DEF q, k
<1>5. /\ \A j \in Links : Exists(j) => link'[j] = link[j] \/ link'[j].state = "inactive"
      /\ \A j \in Links : Completed(j) <=> Completed(j)'
  <2>1. CASE link' = link
    BY <2>1 DEF Completed
  <2>2. CASE link' = [link EXCEPT ![k] = Stopped(k)]
    BY <2>2, <1>2, LinkChanges, StoppedIs DEF IInv, Completed
  <2> QED  BY <1>1, <2>1, <2>2
<1>6. \A j \in Links : Completed(j) => row'.link = j
  BY <1>1 DEF CalmInv, PaidIsRecorded
<1> QED  BY <1>1, <1>3, <1>4, <1>5, <1>6, CalmStepKeeps, CheckoutLinksAssumption

LEMMA RequestStepsAreCalm ==
    ASSUME IInv, CalmInv, Undisturbed, Fresh, NEW c \in Clients, Step(c)
    PROVE  CalmInv'
<1>0. Idle \in Request /\ Idle.step = "idle" /\ Idle.seen.link = None /\ Idle.link = None
  BY Blanks DEF Idle, NoRow
<1>1. ASSUME Become(c, Idle), UNCHANGED <<link, row, handed>> PROVE CalmInv'
  BY <1>0, <1>1, QuietIsCalm, CheckoutLinksAssumption
<1>2. ASSUME NEW plan \in Plans, Begin(c, plan) PROVE CalmInv'
  <2> DEFINE q == [Idle EXCEPT !.step = "look", !.plan = plan]
  <2>1. q \in Request /\ q.step = "look" /\ q.seen.link = None /\ q.link = None
    BY Blanks DEF Idle, NoRow, Request, Steps
  <2>2. Become(c, q) /\ UNCHANGED <<link, row, handed>>
    BY <1>2 DEF Begin
  <2> HIDE DEF q
  <2> QED  BY <2>1, <2>2, QuietIsCalm, CheckoutLinksAssumption
<1>3. ASSUME Look(c) PROVE CalmInv'
  <2>1. UNCHANGED <<link, row, handed>>
    BY <1>3 DEF Look
  <2>2. CASE Become(c, Then(c, "create"))
    <3> DEFINE q == Then(c, "create")
    <3>1. q \in Request /\ q.step = "create" /\ q.seen.link = None /\ q.link = None
      BY ThenIs DEF IInv, Steps, NoRow
    <3> HIDE DEF q
    <3> QED  BY <2>1, <2>2, <3>1, QuietIsCalm, CheckoutLinksAssumption DEF q
  <2>3. ASSUME NEW q \in Request, Become(c, q), q.step = "ask", q.seen = row, q.link = None
        PROVE  CalmInv'
    BY <2>1, <2>3, QuietIsCalm, CheckoutLinksAssumption
  <2> QED  BY <1>1, <1>3, <2>1, <2>2, <2>3, LookFinds
<1>4. ASSUME Ask(c) PROVE CalmInv'
  <2>1. UNCHANGED <<link, row, handed>>
    BY <1>4 DEF Ask
  <2>2. PICK q \in Request :
           /\ Become(c, q)
           /\ \/ /\ q.step \in {"mark", "deactivate"}
                 /\ q.step = "deactivate" => ~Completed(request[c].seen.link)
                 /\ q.seen = request[c].seen /\ q.link = request[c].link
              \/ /\ q.step = "answer"
                 /\ q.seen = NoRow /\ q.link = request[c].seen.link
    BY <1>4, AskFinds
  <2>3. /\ \A k \in Links : q.seen.link = k \/ (q.step = "answer" /\ q.link = k)
                                => request[c].seen.link = k
        /\ \A k \in Links : q.link = k => Names(c, k)
    BY <2>2, CheckoutLinksAssumption DEF Names, NoRow
  <2> QED  BY <2>1, <2>2, <2>3, QuietIsCalm
<1>5. ASSUME Mark(c) PROVE CalmInv'
  <2>1. /\ Become(c, Idle) /\ UNCHANGED <<link, handed>> /\ row'.link = row.link
    BY <1>5 DEF Mark, IInv, TypeOK, Row
  <2>2. /\ \A k \in Links : Exists(k) => link'[k] = link[k]
        /\ \A k \in Links : Completed(k) <=> Completed(k)'
        /\ \A k \in Links : Completed(k) => row'.link = k
    BY <2>1 DEF Completed, CalmInv, PaidIsRecorded
  <2> QED  BY <1>0, <2>1, <2>2, CalmStepKeeps, CheckoutLinksAssumption
<1>6. ASSUME Winner(c) PROVE CalmInv'
  <2>1. /\ UNCHANGED <<link, row, handed>>
        /\ Become(c, Idle) \/ (row # NoRow /\ Become(c, With(c, "answer", row.link)))
    BY <1>6 DEF Winner, Gone, WinnersLink
  <2>2. CASE row # NoRow /\ Become(c, With(c, "answer", row.link))
    <3> DEFINE q == With(c, "answer", row.link)
    <3>1. row.link \in Links
      BY <2>2 DEF IInv, TypeOK, RowNamesALink, Row
    <3>2. q \in Request /\ q.step = "answer" /\ q.seen.link = None /\ q.link = row.link
      BY <3>1, ThenIs DEF IInv, Steps, NoRow
    <3> HIDE DEF q
    <3> QED  BY <2>1, <2>2, <3>2, QuietIsCalm, CheckoutLinksAssumption DEF q
  <2> QED  BY <1>1, <2>1, <2>2
<1>7. ASSUME Answer(c) PROVE CalmInv'
  <2>1. /\ UNCHANGED <<link, row>> /\ At(c, "answer") /\ Become(c, Idle)
        /\ handed' = handed \cup {request[c].link}
    BY <1>7 DEF Answer
  <2> QED  BY <1>0, <2>1, QuietIsCalm, CheckoutLinksAssumption
<1>8. ASSUME Abandon(c) PROVE CalmInv'
  BY <1>1, <1>8 DEF Abandon
<1> QED  BY <1>2, <1>3, <1>4, <1>5, <1>6, <1>7, <1>8, DeactivateIsCalm, DeleteIsCalm,
            CreateIsCalm, InsertIsCalm, DisownIsCalm DEF Step

\* Only a link somebody holds is paid, and that is the recorded one.
LEMMA PayIsCalm ==
    ASSUME IInv, CalmInv, Undisturbed, NEW k \in Links, Pay(k) PROVE CalmInv'
<1> DEFINE new == [link[k] EXCEPT !.completed = TRUE]
<1>1. /\ link' = [link EXCEPT ![k] = new] /\ Buyable(k) /\ k \in handed
      /\ UNCHANGED <<row, handed, request>>
  BY DEF Pay
<1>2. new \in LinkRow /\ new.state = link[k].state /\ new.completed
  BY DEF IInv, TypeOK, LinkRow
<1> HIDE DEF new
<1>3. row.link = k
  BY <1>1 DEF CalmInv, OnlyTheRecordedSells, Circulating
<1>4. link'[k] = new /\ \A j \in Links \ {k} : link'[j] = link[j]
  BY <1>1, <1>2, LinkChanges DEF IInv
<1>5. OnlyTheRecordedSells'
  BY <1>1, <1>3, <1>4 DEF CalmInv, OnlyTheRecordedSells, Circulating, At, Buyable
<1>6. MakersKeepTheirLinks' /\ PaidIsRecorded'
  BY <1>1, <1>3, <1>4 DEF CalmInv, MakersKeepTheirLinks, Names, PaidIsRecorded, Completed
<1>7. ReplacersKnowTheRow'
  <2> SUFFICES ASSUME NEW d \in Clients, request[d].step \in {"deactivate", "delete"}
               PROVE  /\ row = request[d].seen
                      /\ ~link'[request[d].seen.link].completed
                      /\ request[d].step = "delete" =>
                             link'[request[d].seen.link].state = "inactive"
    BY <1>1 DEF ReplacersKnowTheRow, Replacing, At, Completed
  <2>1. /\ row = request[d].seen /\ request[d].seen.link = k
        /\ request[d].step = "delete" => link[k].state = "inactive"
    BY <1>3 DEF CalmInv, ReplacersKnowTheRow, Replacing, At
  <2>2. link'[k].completed = link[k].completed
    BY <1>1, <2>1 DEF Undisturbed, Replacing
  <2> QED  BY <1>1, <1>2, <1>4, <2>1, <2>2 DEF Buyable
<1> QED  BY <1>5, <1>6, <1>7 DEF CalmInv

LEMMA ActivateIsCalm ==
    ASSUME IInv, CalmInv, Undisturbed, Fresh, NEW k \in Links, Activate(k) PROVE CalmInv'
<1>1. /\ UNCHANGED <<link, handed, request>> /\ row'.link = row.link
  BY DEF Activate, IInv, TypeOK, Row
<1>2. OnlyTheRecordedSells' /\ MakersKeepTheirLinks' /\ PaidIsRecorded'
  BY <1>1 DEF CalmInv, OnlyTheRecordedSells, Circulating, At, Buyable,
     MakersKeepTheirLinks, Names, PaidIsRecorded, Completed
<1>3. ReplacersKnowTheRow'
  BY <1>1 DEF CalmInv, ReplacersKnowTheRow, Fresh, Replacing, At, Completed
<1> QED  BY <1>2, <1>3 DEF CalmInv

LEMMA CalmNextKeeps == IInv /\ CalmInv /\ [CalmNext]_vars => CalmInv'
<1> SUFFICES ASSUME IInv, CalmInv, [CalmNext]_vars PROVE CalmInv'
  OBVIOUS
<1>1. CASE UNCHANGED vars
  <2>1. OnlyTheRecordedSells' /\ MakersKeepTheirLinks'
    BY <1>1 DEF vars, CalmInv, OnlyTheRecordedSells, Circulating, At, Buyable,
       MakersKeepTheirLinks, Names
  <2>2. ReplacersKnowTheRow' /\ PaidIsRecorded'
    BY <1>1 DEF vars, CalmInv, ReplacersKnowTheRow, Replacing, At, Completed, PaidIsRecorded
  <2> QED  BY <2>1, <2>2 DEF CalmInv
<1>2. CASE CalmNext
  BY <1>2, RequestStepsAreCalm, PayIsCalm, ActivateIsCalm DEF CalmNext, Next
<1> QED  BY <1>1, <1>2

THEOREM CalmInvariance == CalmSpec => [](IInv /\ CalmInv)
<1>1. [CalmNext]_vars => [Next]_vars
  BY DEF CalmNext
<1> QED  BY <1>1, InitIsInductive, InitIsCalm, NextKeeps, CalmNextKeeps, PTL DEF CalmSpec

\* When replacements are undisturbed, a link somebody holds and can still pay is
\* the organization's recorded link, so the next request finds and asks about it
\* (checkoutLinkFor).
THEOREM HeldLinksAreKept == CalmSpec => []HeldLinkIsRecorded
<1>1. IInv /\ CalmInv => HeldLinkIsRecorded
  BY DEF CalmInv, OnlyTheRecordedSells, Circulating, HeldLinkIsRecorded, IInv, TypeOK
<1> QED  BY <1>1, CalmInvariance, PTL

\* However many links were made, replaced and handed out, at most one is paid.
THEOREM OneCheckoutIsPaid == CalmSpec => []PaidOnce
<1>1. IInv /\ CalmInv => PaidOnce
  <2> SUFFICES ASSUME IInv, CalmInv PROVE PaidOnce
    OBVIOUS
  <2> DEFINE paid == {k \in Links : Completed(k)}
  <2>1. paid \subseteq {row.link}
    BY DEF CalmInv, PaidIsRecorded
  <2>2. IsFiniteSet({row.link}) /\ Cardinality({row.link}) = 1
    BY FS_Singleton
  <2>3. Cardinality(paid) <= 1
    BY <2>1, <2>2, FS_Subset
  <2> QED  BY <2>3 DEF PaidOnce
<1> QED  BY <1>1, CalmInvariance, PTL

\* When replacements are undisturbed, a row that is burnt names a link somebody
\* paid: the updates that go by organization (checkoutLinkFor, activate) find the
\* paid link's row.
THEOREM OnlyPaymentsAreMarked == CalmSpec => []ConsumedMeansPaid
<1>1. IInv /\ CalmInv => ConsumedMeansPaid
  BY DEF IInv, CalmInv, MarkedAfterAPayment, PaidIsRecorded, ConsumedMeansPaid
<1> QED  BY <1>1, CalmInvariance, PTL

=============================================================================
