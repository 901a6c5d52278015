-------------------------------- MODULE Diary --------------------------------
(***************************************************************************)
(* What a provider's diary promises, with no holds, clocks, versions or    *)
(* transactions: a claim takes a span of time nobody else has; a held      *)
(* claim may lapse or be given back; once it is booked it moves only as a  *)
(* whole, keeps time of its own at every instant, and ends in one way, by  *)
(* being cancelled.                                                        *)
(***************************************************************************)
EXTENDS Integers

CONSTANTS Claims

VARIABLES
    phase,    \* per claim: "free", "held", "booked", "lapsed", "cancelled"
    span      \* per claim: the time it has while it is held or booked

vars == <<phase, span>>

NoSpan == [from |-> 0, until |-> 0]
Live(c) == phase[c] \in {"held", "booked"}
Apart(a, b) == a.until <= b.from \/ b.until <= a.from

Init ==
    /\ phase = [c \in Claims |-> "free"]
    /\ span = [c \in Claims |-> NoSpan]

\* The claims of lapsed, some of those that are only held, make way.
MadeWay(lapsed, c, p) ==
    [d \in Claims |-> IF d = c THEN p ELSE IF d \in lapsed THEN "lapsed" ELSE phase[d]]

SpansOf(lapsed, c, s) ==
    [d \in Claims |-> IF d = c THEN s ELSE IF d \in lapsed THEN NoSpan ELSE span[d]]

Clear(lapsed, c, s) ==
    \A d \in Claims \ (lapsed \cup {c}) : Live(d) => Apart(s, span[d])

Take(c, p, s, lapsed) ==
    /\ phase[c] = "free"
    /\ Clear(lapsed, c, s)
    /\ phase' = MadeWay(lapsed, c, p)
    /\ span' = SpansOf(lapsed, c, s)

Book(c) ==
    /\ phase[c] = "held"
    /\ phase' = [phase EXCEPT ![c] = "booked"]
    /\ UNCHANGED span

Move(c, s, lapsed) ==
    /\ phase[c] = "booked"
    /\ Clear(lapsed, c, s)
    /\ phase' = MadeWay(lapsed, c, "booked")
    /\ span' = SpansOf(lapsed, c, s)

GiveBack(c) ==
    /\ phase[c] = "held"
    /\ phase' = [phase EXCEPT ![c] = "lapsed"]
    /\ span' = [span EXCEPT ![c] = NoSpan]

Cancel(c) ==
    /\ phase[c] = "booked"
    /\ phase' = [phase EXCEPT ![c] = "cancelled"]
    /\ span' = [span EXCEPT ![c] = NoSpan]

\* A step's new span and the held claims that made way for it are read off the
\* step itself, so that the relation is a test and not a search.
Lapsing == {d \in Claims : phase[d] = "held" /\ phase'[d] = "lapsed"}

Next ==
    \E c \in Claims :
        \/ Take(c, "held", span'[c], Lapsing)
        \/ Take(c, "booked", span'[c], Lapsing)
        \/ Book(c)
        \/ Move(c, span'[c], Lapsing)
        \/ GiveBack(c)
        \/ Cancel(c)

Spec == Init /\ [][Next]_vars
=============================================================================
