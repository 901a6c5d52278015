--------------------------- MODULE ScheduleProofs ---------------------------
(***************************************************************************)
(* Proofs about Schedule for any weeks, exceptions, zones and services,    *)
(* and any number of appointments and editors.                             *)
(*                                                                         *)
(* First what the engine of Slots computes: Normalize returns the maximal  *)
(* runs of what its intervals cover, Subtract leaves what is free, Resolve *)
(* and RefResolve both find the first instant that shows a reading (or,    *)
(* when the clock skips it, the next), and hence the slots are those that  *)
(* a reading tick by tick allows and an appointment is uncovered exactly   *)
(* when one of its ticks is off shift or closed.                           *)
(*                                                                         *)
(* Then the edits.  That everybody stranded is excused is not inductive:   *)
(* what an editor is about to write was judged earlier, and so was what a  *)
(* customer is about to book.  Trusted adds that an edit or a check that   *)
(* nothing has put out of date still holds of the present tables; until    *)
(* the first step that breaks this on purpose (exposed), it lasts.         *)
(***************************************************************************)
EXTENDS Schedule, FiniteSetTheorems, WellFoundedInduction, TLAPS

(***************************************************************************)
(* Least and greatest elements.                                            *)
(***************************************************************************)
IsLeast(S, x) == x \in S /\ \A y \in S : x <= y
IsGreatest(S, x) == x \in S /\ \A y \in S : y <= x

\* A finite set of numbers has a least and a greatest element.
LEMMA FiniteHasLeast ==
    ASSUME NEW S, IsFiniteSet(S), S # {}, S \subseteq Int
    PROVE  \E x \in S : IsLeast(S, x)
<1> DEFINE Upto(x) == {y \in S : y <= x}
           T == {Upto(x) : x \in S}
<1>1. IsWellFoundedOn(StrictSubsetOrdering(S), SUBSET S)
  BY FS_StrictSubsetOrderingWellFounded, FS_FiniteSubsetsOfFinite
<1>2. T \subseteq SUBSET S /\ T # {}
  OBVIOUS
<1>3. PICK U \in T : \A V \in T : <<V, U>> \notin StrictSubsetOrdering(S)
  BY <1>1, <1>2, WFMin
<1>4. PICK x \in S : U = Upto(x)
  OBVIOUS
<1>5. ASSUME NEW y \in S, y < x PROVE FALSE
  <2>0. x \in Int /\ y \in Int /\ ~(x <= y)
    BY <1>5
  <2>1. x \in U /\ x \notin Upto(y)
    BY <1>4, <2>0
  <2>2. \A z \in Upto(y) : z \in Upto(x)
    BY <1>5
  <2>3. Upto(y) \subseteq U
    BY <1>4, <2>2
  <2>4. <<Upto(y), U>> \in StrictSubsetOrdering(S)
    BY <2>1, <2>3, <1>4 DEF StrictSubsetOrdering
  <2> QED  BY <1>3, <2>4
<1>6. \A y \in S : x <= y
  BY <1>5
<1> QED  BY <1>6 DEF IsLeast

LEMMA FiniteHasGreatest ==
    ASSUME NEW S, IsFiniteSet(S), S # {}, S \subseteq Int
    PROVE  \E x \in S : IsGreatest(S, x)
<1> DEFINE From(x) == {y \in S : y >= x}
           T == {From(x) : x \in S}
<1>1. IsWellFoundedOn(StrictSubsetOrdering(S), SUBSET S)
  BY FS_StrictSubsetOrderingWellFounded, FS_FiniteSubsetsOfFinite
<1>2. T \subseteq SUBSET S /\ T # {}
  OBVIOUS
<1>3. PICK U \in T : \A V \in T : <<V, U>> \notin StrictSubsetOrdering(S)
  BY <1>1, <1>2, WFMin
<1>4. PICK x \in S : U = From(x)
  OBVIOUS
<1>5. ASSUME NEW y \in S, x < y PROVE FALSE
  <2>0. x \in Int /\ y \in Int /\ ~(x >= y)
    BY <1>5
  <2>1. x \in U /\ x \notin From(y)
    BY <1>4, <2>0
  <2>2. \A z \in From(y) : z \in From(x)
    BY <1>5
  <2>3. From(y) \subseteq U
    BY <1>4, <2>2
  <2>4. <<From(y), U>> \in StrictSubsetOrdering(S)
    BY <2>1, <2>3, <1>4 DEF StrictSubsetOrdering
  <2> QED  BY <1>3, <2>4
<1>6. \A y \in S : y <= x
  BY <1>5
<1> QED  BY <1>6 DEF IsGreatest

\* The least element is the one CHOOSE finds.
LEMMA LeastIs ==
    ASSUME NEW S, S \subseteq Int, NEW x \in S, IsLeast(S, x)
    PROVE  Least(S) = x
<1>1. Least(S) \in S /\ \A y \in S : Least(S) <= y
  BY DEF Least, IsLeast
<1>2. Least(S) <= x /\ x <= Least(S)
  BY <1>1 DEF IsLeast
<1>3. Least(S) \in Int /\ x \in Int
  BY <1>1
<1> QED  BY <1>2, <1>3

\* What Least returns of a finite set.
LEMMA FiniteLeast ==
    ASSUME NEW S, IsFiniteSet(S), S # {}, S \subseteq Int
    PROVE  Least(S) \in S /\ \A y \in S : Least(S) <= y
BY FiniteHasLeast DEF IsLeast, Least

\* The image of a finite set is finite.
LEMMA ImageIsFinite ==
    ASSUME NEW S, IsFiniteSet(S), NEW f
    PROVE  IsFiniteSet({f[x] : x \in S})
<1> DEFINE T == {f[x] : x \in S}
           g == [x \in S |-> f[x]]
<1>1. g \in Surjection(S, T)
  BY DEF Surjection
<1> QED  BY <1>1, FS_Surjection

(***************************************************************************)
(* Intervals, by the ticks they cover.                                     *)
(***************************************************************************)
Spans(I) == IsFiniteSet(I) /\ \A i \in I : i.start \in Int /\ i.end \in Int
Covers(I, t) == \E i \in I : i.start <= t /\ t < i.end

\* The sets Normalize is made of.
Starts(I) == {i.start : i \in {x \in {i \in I : Holds(i)} :
                 ~\E j \in {i \in I : Holds(i)} : j.start < x.start /\ Touches(j, x)}}
Ends(I) == {i.end : i \in {x \in {i \in I : Holds(i)} :
                 ~\E j \in {i \in I : Holds(i)} : Touches(x, j) /\ x.end < j.end}}

\* Normalize pairs each start of a run with the next end.
LEMMA NormalizeJoins ==
    ASSUME NEW I
    PROVE  Normalize(I) = {Interval(s, Least({e \in Ends(I) : e > s})) : s \in Starts(I)}
BY DEF Normalize, Starts, Ends

\* It starts where nothing is covered just before, and ends where nothing is.
LEMMA StartsAre ==
    ASSUME NEW I, Spans(I), NEW q
    PROVE  q \in Starts(I) <=> /\ \E i \in I : i.start = q /\ q < i.end
                               /\ ~Covers(I, q - 1)
<1>1. ASSUME NEW x \in I, Holds(x)
      PROVE  (\E j \in {i \in I : Holds(i)} : j.start < x.start /\ Touches(j, x))
             <=> Covers(I, x.start - 1)
  <2>1. \A j \in I : Holds(j) /\ j.start < x.start /\ Touches(j, x)
                     <=> j.start <= x.start - 1 /\ x.start - 1 < j.end
    BY DEF Spans, Holds, Touches
  <2> QED  BY <2>1 DEF Covers
<1>2. q \in Starts(I) <=> \E x \in I : /\ Holds(x) /\ q = x.start
                                       /\ ~Covers(I, x.start - 1)
  BY <1>1 DEF Starts
<1>3. \A x \in I : Holds(x) /\ q = x.start <=> x.start = q /\ q < x.end
  BY DEF Spans, Holds
<1> QED  BY <1>2, <1>3

LEMMA EndsAre ==
    ASSUME NEW I, Spans(I), NEW e
    PROVE  e \in Ends(I) <=> /\ \E i \in I : i.end = e /\ i.start < e
                             /\ ~Covers(I, e)
<1>1. ASSUME NEW x \in I, Holds(x)
      PROVE  (\E j \in {i \in I : Holds(i)} : Touches(x, j) /\ x.end < j.end)
             <=> Covers(I, x.end)
  <2>1. \A j \in I : Holds(j) /\ Touches(x, j) /\ x.end < j.end
                     <=> j.start <= x.end /\ x.end < j.end
    BY DEF Spans, Holds, Touches
  <2> QED  BY <2>1 DEF Covers
<1>2. e \in Ends(I) <=> \E x \in I : Holds(x) /\ e = x.end /\ ~Covers(I, x.end)
  BY <1>1 DEF Ends
<1>3. \A x \in I : Holds(x) /\ e = x.end <=> x.end = e /\ x.start < e
  BY DEF Spans, Holds
<1> QED  BY <1>2, <1>3

\* Finitely many runs start and end.
LEMMA BoundsAreFinite ==
    ASSUME NEW I, Spans(I)
    PROVE  /\ IsFiniteSet(Starts(I)) /\ Starts(I) \subseteq Int
           /\ IsFiniteSet(Ends(I)) /\ Ends(I) \subseteq Int
           /\ IsFiniteSet({i.start : i \in I}) /\ IsFiniteSet({i.end : i \in I})
<1> DEFINE starts == [i \in I |-> i.start]
           ends == [i \in I |-> i.end]
<1>1. {starts[i] : i \in I} = {i.start : i \in I} /\ {ends[i] : i \in I} = {i.end : i \in I}
  OBVIOUS
<1>2. IsFiniteSet({i.start : i \in I}) /\ IsFiniteSet({i.end : i \in I})
  <2>1. IsFiniteSet(I)
    BY DEF Spans
  <2> HIDE DEF starts, ends
  <2>2. IsFiniteSet({starts[i] : i \in I}) /\ IsFiniteSet({ends[i] : i \in I})
    BY <2>1, ImageIsFinite
  <2> QED  BY <1>1, <2>2
<1>3. Starts(I) \subseteq {i.start : i \in I} /\ Ends(I) \subseteq {i.end : i \in I}
  BY DEF Starts, Ends
<1>4. Starts(I) \subseteq Int /\ Ends(I) \subseteq Int
  BY <1>3 DEF Spans
<1> QED  BY <1>2, <1>3, <1>4, FS_Subset

\* What is covered is covered from a start on and up to an end.
LEMMA RunHasStart ==
    ASSUME NEW I, Spans(I), NEW t \in Int, Covers(I, t)
    PROVE  \E a \in Starts(I) : a <= t /\ \A u \in a .. t : Covers(I, u)
<1> DEFINE A == {a \in {i.start : i \in I} : a <= t /\ \A u \in a .. t : Covers(I, u)}
<1>1. PICK i \in I : i.start <= t /\ t < i.end
  BY DEF Covers
<1>2. A \subseteq {x.start : x \in I} /\ A \subseteq Int
  BY DEF Spans
<1>3. IsFiniteSet(A)
  BY <1>2, BoundsAreFinite, FS_Subset
<1>4. \A u \in i.start .. t : Covers(I, u)
  BY <1>1 DEF Covers, Spans
<1>5. i.start \in A
  BY <1>1, <1>4
<1>6. PICK a \in A : IsLeast(A, a)
  BY <1>2, <1>3, <1>5, FiniteHasLeast
<1>7. ~Covers(I, a - 1)
  <2> SUFFICES ASSUME NEW j \in I, j.start <= a - 1, a - 1 < j.end PROVE FALSE
    BY DEF Covers
  <2>1. j.start \in Int /\ j.end \in Int /\ a \in Int
    BY <1>2 DEF Spans
  <2>2. \A u \in j.start .. t : Covers(I, u)
    <3> TAKE u \in j.start .. t
    <3>1. CASE u <= a - 1
      BY <2>1, <3>1 DEF Covers
    <3>2. CASE a <= u
      BY <3>2
    <3> QED  BY <2>1, <3>1, <3>2
  <2>3. j.start \in A
    BY <2>1, <2>2
  <2> QED  BY <1>6, <2>1, <2>3 DEF IsLeast
<1>8. \E x \in I : x.start = a /\ a < x.end
  <2>1. PICK x \in I : x.start = a
    OBVIOUS
  <2>2. Covers(I, a) /\ a \in Int
    BY <1>2
  <2>3. PICK y \in I : y.start <= a /\ a < y.end
    BY <2>2 DEF Covers
  <2>4. ~(y.start <= a - 1)
    BY <1>7, <2>2, <2>3 DEF Covers, Spans
  <2> QED  BY <2>2, <2>3, <2>4 DEF Spans
<1> QED  BY <1>7, <1>8, StartsAre

LEMMA RunHasEnd ==
    ASSUME NEW I, Spans(I), NEW t \in Int, Covers(I, t)
    PROVE  \E b \in Ends(I) : t < b /\ \A u \in t .. (b - 1) : Covers(I, u)
<1> DEFINE B == {b \in {i.end : i \in I} : t < b /\ \A u \in t .. (b - 1) : Covers(I, u)}
<1>1. PICK i \in I : i.start <= t /\ t < i.end
  BY DEF Covers
<1>2. B \subseteq {x.end : x \in I} /\ B \subseteq Int
  BY DEF Spans
<1>3. IsFiniteSet(B)
  BY <1>2, BoundsAreFinite, FS_Subset
<1>4. \A u \in t .. (i.end - 1) : Covers(I, u)
  BY <1>1 DEF Covers, Spans
<1>5. i.end \in B
  BY <1>1, <1>4
<1>6. PICK b \in B : IsGreatest(B, b)
  BY <1>2, <1>3, <1>5, FiniteHasGreatest
<1>7. ~Covers(I, b)
  <2> SUFFICES ASSUME NEW j \in I, j.start <= b, b < j.end PROVE FALSE
    BY DEF Covers
  <2>1. j.start \in Int /\ j.end \in Int /\ b \in Int
    BY <1>2 DEF Spans
  <2>2. \A u \in t .. (j.end - 1) : Covers(I, u)
    <3> TAKE u \in t .. (j.end - 1)
    <3>1. CASE u <= b - 1
      BY <3>1
    <3>2. CASE b <= u
      BY <2>1, <3>2 DEF Covers
    <3> QED  BY <2>1, <3>1, <3>2
  <2>3. j.end \in B
    BY <2>1, <2>2
  <2> QED  BY <1>6, <2>1, <2>3 DEF IsGreatest
<1>8. \E x \in I : x.end = b /\ x.start < b
  <2>1. Covers(I, b - 1) /\ b \in Int
    BY <1>2
  <2>2. PICK y \in I : y.start <= b - 1 /\ b - 1 < y.end
    BY <2>1 DEF Covers
  <2>3. ~(b < y.end)
    BY <1>7, <2>1, <2>2 DEF Covers, Spans
  <2> QED  BY <2>1, <2>2, <2>3 DEF Spans
<1> QED  BY <1>7, <1>8, EndsAre

\* A whole run of covered ticks.
Run(I, n) ==
    /\ n.start \in Int /\ n.end \in Int /\ n.start < n.end
    /\ \A t \in n.start .. (n.end - 1) : Covers(I, t)
    /\ ~Covers(I, n.start - 1) /\ ~Covers(I, n.end)

\* Where a run starts, a run is.
LEMMA StartHasRun ==
    ASSUME NEW I, Spans(I), NEW s \in Starts(I)
    PROVE  Run(I, Interval(s, Least({e \in Ends(I) : e > s})))
<1> DEFINE E == {e \in Ends(I) : e > s}
           m == Least(E)
<1>1. s \in Int /\ Covers(I, s) /\ ~Covers(I, s - 1)
  <2>1. s \in Int
    BY BoundsAreFinite
  <2> QED  BY <2>1, StartsAre DEF Covers, Spans
<1>2. PICK b \in Ends(I) : s < b /\ \A u \in s .. (b - 1) : Covers(I, u)
  BY <1>1, RunHasEnd
<1>3. IsFiniteSet(E) /\ E # {} /\ E \subseteq Int /\ b \in E
  <2>1. E \subseteq Ends(I) /\ IsFiniteSet(Ends(I)) /\ Ends(I) \subseteq Int
    BY BoundsAreFinite
  <2> QED  BY <1>1, <1>2, <2>1, FS_Subset
<1>4. m \in E /\ m <= b
  <2> HIDE DEF E
  <2> QED  BY <1>3, FiniteLeast
<1>5. m \in Int /\ s < m /\ ~Covers(I, m)
  BY <1>1, <1>3, <1>4, EndsAre
<1>6. \A u \in s .. (m - 1) : Covers(I, u)
  BY <1>1, <1>2, <1>3, <1>4, <1>5
<1> HIDE DEF m
<1>7. Run(I, Interval(s, m))
  BY <1>1, <1>5, <1>6 DEF Run, Interval
<1> QED  BY <1>7 DEF m

\* Normalize returns exactly the runs.
LEMMA NormalizeIs ==
    ASSUME NEW I, Spans(I)
    PROVE  /\ Spans(Normalize(I))
           /\ \A n \in Normalize(I) : Run(I, n)
           /\ \A t \in Int : Covers(I, t) <=> Covers(Normalize(I), t)
<1> DEFINE f == [s \in Starts(I) |-> Interval(s, Least({e \in Ends(I) : e > s}))]
<1>1. Normalize(I) = {f[s] : s \in Starts(I)}
  BY NormalizeJoins
<1>2. \A n \in Normalize(I) : Run(I, n)
  BY NormalizeJoins, StartHasRun
<1>3. IsFiniteSet(Normalize(I))
  <2>1. IsFiniteSet(Starts(I))
    BY BoundsAreFinite
  <2> HIDE DEF f
  <2> QED  BY <1>1, <2>1, ImageIsFinite
<1>4. Spans(Normalize(I))
  BY <1>2, <1>3 DEF Run, Spans
<1>5. ASSUME NEW t \in Int, Covers(I, t) PROVE Covers(Normalize(I), t)
  <2>1. PICK a \in Starts(I) : a <= t /\ \A u \in a .. t : Covers(I, u)
    BY <1>5, RunHasStart
  <2> DEFINE n == Interval(a, Least({e \in Ends(I) : e > a}))
  <2>2. n \in Normalize(I) /\ n.start = a
    BY NormalizeJoins DEF Interval
  <2>3. Run(I, n)
    BY <1>2, <2>2
  <2> HIDE DEF n
  <2>4. ~(n.end <= t)
    BY <2>1, <2>2, <2>3 DEF Run
  <2>5. n.start <= t /\ t < n.end
    BY <2>1, <2>2, <2>3, <2>4 DEF Run
  <2> QED  BY <2>2, <2>5 DEF Covers
<1>6. ASSUME NEW t \in Int, Covers(Normalize(I), t) PROVE Covers(I, t)
  <2>1. PICK n \in Normalize(I) : n.start <= t /\ t < n.end
    BY <1>6 DEF Covers
  <2> QED  BY <1>2, <2>1 DEF Run
<1> QED  BY <1>2, <1>4, <1>5, <1>6

\* Whatever is covered throughout lies within one interval.
LEMMA NormalizeHolds ==
    ASSUME NEW I, Spans(I), NEW a \in Int, NEW b \in Int, a < b
    PROVE  (\E n \in Normalize(I) : n.start <= a /\ n.end >= b)
           <=> \A t \in a .. (b - 1) : Covers(I, t)
<1>1. ASSUME NEW n \in Normalize(I), n.start <= a, n.end >= b, NEW t \in a .. (b - 1)
      PROVE  Covers(I, t)
  BY <1>1, NormalizeIs DEF Run
<1>2. ASSUME \A t \in a .. (b - 1) : Covers(I, t)
      PROVE  \E n \in Normalize(I) : n.start <= a /\ n.end >= b
  <2>1. Covers(Normalize(I), a)
    BY <1>2, NormalizeIs
  <2>2. PICK n \in Normalize(I) : n.start <= a /\ a < n.end
    BY <2>1 DEF Covers
  <2>3. Run(I, n)
    BY NormalizeIs
  <2>4. ~(n.end < b)
    BY <1>2, <2>2, <2>3 DEF Run
  <2> QED  BY <2>2, <2>3, <2>4 DEF Run
<1> QED  BY <1>1, <1>2

(***************************************************************************)
(* What Subtract leaves.                                                   *)
(***************************************************************************)
\* The pieces of one opening lie between its start or the end of a closure, and
\* its end or the start of a closure.
Bounds(i, B) == {i.start} \cup {b.end : b \in B}
Nexts(i, s, B) == {i.end} \cup {x \in {b.start : b \in B} : s < x /\ x < i.end}

LEMMA SubtractIs ==
    ASSUME NEW from, NEW remove, NEW B, B = Normalize(remove)
    PROVE  Subtract(from, remove) =
           UNION {{Interval(s, Least(Nexts(i, s, B))) :
                      s \in {s \in Bounds(i, B) : /\ i.start <= s /\ s < i.end
                                                  /\ ~Covers(B, s)}} : i \in from}
BY DEF Subtract, Bounds, Nexts, Covers

LEMMA BoundsAreSpans ==
    ASSUME NEW B, Spans(B), NEW i, i.start \in Int, i.end \in Int, NEW s
    PROVE  /\ IsFiniteSet(Bounds(i, B)) /\ Bounds(i, B) \subseteq Int
           /\ IsFiniteSet(Nexts(i, s, B)) /\ Nexts(i, s, B) \subseteq Int
<1> DEFINE X == {x \in {b.start : b \in B} : s < x /\ x < i.end}
<1>1. IsFiniteSet({b.start : b \in B}) /\ IsFiniteSet({b.end : b \in B})
  BY BoundsAreFinite
<1>2. IsFiniteSet(X)
  BY <1>1, FS_Subset
<1>3. IsFiniteSet({i.start}) /\ IsFiniteSet({i.end})
  BY FS_Singleton
<1>4. IsFiniteSet({i.start} \cup {b.end : b \in B}) /\ IsFiniteSet({i.end} \cup X)
  <2> HIDE DEF X
  <2> QED  BY <1>1, <1>2, <1>3, FS_Union
<1> QED  BY <1>4 DEF Bounds, Nexts, Spans

\* What is left touches no closure, and lies in an opening.
LEMMA SubtractAvoids ==
    ASSUME NEW from, Spans(from), NEW remove, Spans(remove),
           NEW n \in Subtract(from, remove), NEW a \in Int, NEW b \in Int, a < b,
           n.start <= a, n.end >= b
    PROVE  /\ \E i \in from : i.start <= a /\ i.end >= b
           /\ \A t \in a .. (b - 1) : ~Covers(remove, t)
<1> DEFINE B == Normalize(remove)
<1>1. Spans(B) /\ \A x \in B : Run(remove, x)
  BY NormalizeIs
<1>2. \A t \in Int : Covers(remove, t) <=> Covers(B, t)
  BY NormalizeIs
<1>3. PICK i \in from : \E s \in Bounds(i, B) : /\ n = Interval(s, Least(Nexts(i, s, B)))
                                               /\ i.start <= s /\ s < i.end /\ ~Covers(B, s)
  BY SubtractIs
<1> HIDE DEF B
<1>4. PICK s \in Bounds(i, B) : /\ n = Interval(s, Least(Nexts(i, s, B)))
                                /\ i.start <= s /\ s < i.end /\ ~Covers(B, s)
  BY <1>3
<1>5. i.start \in Int /\ i.end \in Int
  BY DEF Spans
<1>6. s \in Int /\ IsFiniteSet(Nexts(i, s, B)) /\ Nexts(i, s, B) \subseteq Int
  BY <1>1, <1>5, BoundsAreSpans
<1>7. n.start = s /\ n.end = Least(Nexts(i, s, B))
  BY <1>4 DEF Interval
<1>8. i.end \in Nexts(i, s, B)
  BY DEF Nexts
<1>9. n.end \in Nexts(i, s, B) /\ \A y \in Nexts(i, s, B) : n.end <= y
  BY <1>6, <1>7, <1>8, FiniteLeast
<1>10. n.end \in Int /\ n.end <= i.end
  BY <1>6, <1>8, <1>9
<1>11. i.start <= a /\ i.end >= b
  BY <1>4, <1>5, <1>6, <1>7, <1>10
<1>12. ASSUME NEW t \in a .. (b - 1), Covers(remove, t) PROVE FALSE
  <2>1. PICK x \in B : x.start <= t /\ t < x.end
    BY <1>2, <1>12 DEF Covers
  <2>2. x.start \in Int /\ x.end \in Int
    BY <1>1 DEF Spans
  <2>3. ~(x.start <= s /\ s < x.end)
    BY <1>4 DEF Covers
  <2>4. s < x.start
    BY <1>6, <1>7, <2>1, <2>2, <2>3
  <2>5. x.start < i.end
    BY <1>5, <1>11, <2>1, <2>2
  <2>6. x.start \in Nexts(i, s, B)
    BY <2>4, <2>5 DEF Nexts
  <2>7. n.end <= x.start
    BY <1>9, <2>6
  <2> QED  BY <1>10, <2>1, <2>2, <2>7
<1> QED  BY <1>11, <1>12

\* What is open and not closed is left.
LEMMA SubtractKeeps ==
    ASSUME NEW from, Spans(from), NEW remove, Spans(remove),
           NEW i \in from, NEW a \in Int, NEW b \in Int, a < b,
           i.start <= a, i.end >= b, \A t \in a .. (b - 1) : ~Covers(remove, t)
    PROVE  \E n \in Subtract(from, remove) : n.start <= a /\ n.end >= b
<1> DEFINE B == Normalize(remove)
           S == {s \in Bounds(i, B) : i.start <= s /\ s <= a}
<1>1. Spans(B) /\ \A x \in B : Run(remove, x)
  BY NormalizeIs
<1>2. \A t \in Int : Covers(remove, t) <=> Covers(B, t)
  BY NormalizeIs
<1>0. Subtract(from, remove) =
           UNION {{Interval(s, Least(Nexts(k, s, B))) :
                      s \in {s \in Bounds(k, B) : /\ k.start <= s /\ s < k.end
                                                  /\ ~Covers(B, s)}} : k \in from}
  BY SubtractIs
<1> HIDE DEF B
<1>3. i.start \in Int /\ i.end \in Int
  BY DEF Spans
<1>4. IsFiniteSet(S) /\ S \subseteq Int /\ i.start \in S
  <2>1. IsFiniteSet(Bounds(i, B)) /\ Bounds(i, B) \subseteq Int /\ i.start \in Bounds(i, B)
    BY <1>1, <1>3, BoundsAreSpans DEF Bounds
  <2> QED  BY <1>3, <2>1, FS_Subset
<1>5. PICK s \in S : IsGreatest(S, s)
  BY <1>4, FiniteHasGreatest
<1>6. s \in Int /\ i.start <= s /\ s <= a /\ s \in Bounds(i, B) /\ s < i.end
  BY <1>3, <1>4
<1>7. \A x \in B : x.end <= a /\ s <= x.end => x.end = s
  <2> TAKE x \in B
  <2> HAVE x.end <= a /\ s <= x.end
  <2>1. x.end \in Int
    BY <1>1 DEF Spans
  <2>2. x.end \in S
    BY <1>3, <1>6, <2>1 DEF Bounds
  <2> QED  BY <1>5, <1>6, <2>1, <2>2 DEF IsGreatest
<1>8. \A x \in B : x.start <= a => x.end <= a
  <2> TAKE x \in B
  <2>1. ~Covers(B, a)
    BY <1>2
  <2>2. x.start \in Int /\ x.end \in Int
    BY <1>1 DEF Spans
  <2> QED  BY <2>1, <2>2 DEF Covers
<1>9. ~Covers(B, s)
  <2> SUFFICES ASSUME NEW x \in B, x.start <= s, s < x.end PROVE FALSE
    BY DEF Covers
  <2>1. x.start \in Int /\ x.end \in Int
    BY <1>1 DEF Spans
  <2> QED  BY <1>6, <1>7, <1>8, <2>1
<1> DEFINE N == Nexts(i, s, B)
           n == Interval(s, Least(N))
<1>10. n \in Subtract(from, remove)
  BY <1>0, <1>6, <1>9
<1>11. IsFiniteSet(N) /\ N \subseteq Int /\ N # {}
  BY <1>1, <1>3, BoundsAreSpans DEF Nexts
<1>12. \A y \in N : b <= y
  <2> TAKE y \in N
  <2>1. CASE y = i.end
    BY <1>3, <2>1
  <2>2. CASE s < y /\ y < i.end /\ \E x \in B : y = x.start
    <3>1. PICK x \in B : y = x.start
      BY <2>2
    <3>2. x.start \in Int /\ x.end \in Int /\ x.start < x.end
      BY <1>1 DEF Spans, Run
    <3>3. ASSUME y < b PROVE FALSE
      <4>1. CASE a <= y
        <5>1. Covers(B, y) /\ y \in a .. (b - 1)
          BY <3>1, <3>2, <3>3, <4>1 DEF Covers
        <5> QED  BY <1>2, <5>1
      <4>2. CASE y < a
        <5>1. x.end <= a /\ s < x.end
          BY <1>6, <1>8, <2>2, <3>1, <3>2, <4>2
        <5> QED  BY <1>6, <1>7, <3>2, <5>1
      <4> QED  BY <3>1, <3>2, <4>1, <4>2
    <3> QED  BY <3>1, <3>2, <3>3
  <2> QED  BY <2>1, <2>2 DEF Nexts
<1>13. Least(N) \in N
  <2> HIDE DEF N
  <2> QED  BY <1>11, FiniteLeast
<1>14. n.start <= a /\ n.end >= b
  <2>1. n.start = s /\ n.end = Least(N)
    BY DEF Interval
  <2> QED  BY <1>6, <1>11, <1>12, <1>13, <2>1
<1> QED  BY <1>10, <1>14

(***************************************************************************)
(* Clocks.                                                                 *)
(***************************************************************************)

\* The first instant at which the clock shows the reading or a later one.
FirstAt(r, zone) ==
    IF r < zone.change + zone.before THEN r - zone.before
                                     ELSE Later(zone.change, r - zone.after)

LEMMA ReadingIs ==
    ASSUME NEW zone, Followed(zone), NEW i \in Int
    PROVE  Reading(i, zone) = (IF i < zone.change THEN i + zone.before ELSE i + zone.after)
BY DEF Reading, OffsetAt

LEMMA ZoneIs ==
    ASSUME NEW zone, Followed(zone)
    PROVE  /\ DayLength \in Int /\ 0 < DayLength /\ MaxGap \in Int /\ 0 <= MaxGap
           /\ zone.change \in Int /\ zone.before \in Int /\ zone.after \in Int
           /\ -DayLength <= zone.before /\ zone.before <= DayLength
           /\ -DayLength <= zone.after /\ zone.after <= DayLength
           /\ zone.after - zone.before <= MaxGap /\ zone.before - zone.after <= DayLength
<1>1. DayLength \in Nat \ {0} /\ MaxGap \in Nat
  BY SlotsAssumption
<1>2. zone.before \in -DayLength .. DayLength /\ zone.after \in -DayLength .. DayLength
  BY DEF Followed
<1> QED  BY <1>1, <1>2 DEF Followed

\* The candidates miss no instant.
LEMMA InstantsForIs ==
    ASSUME NEW zone, Followed(zone), NEW r \in Int
    PROVE  InstantsFor(r, zone) = {i \in Int : Reading(i, zone) = r}
<1> DEFINE c == zone.change
           p == zone.before
           q == zone.after
           D == DayLength
<1>1. /\ D \in Int /\ 0 < D /\ c \in Int /\ p \in Int /\ q \in Int
      /\ -D <= p /\ p <= D /\ -D <= q /\ q <= D
  BY ZoneIs
<1>2. Candidates(r, zone) =
        {r - (IF r - D < c THEN p ELSE q), r - (IF r + D < c THEN p ELSE q)}
  BY DEF Candidates, OffsetAt
<1>3. Candidates(r, zone) \subseteq Int
  BY <1>1, <1>2
<1>4. ASSUME NEW i \in Int, Reading(i, zone) = r
      PROVE  i \in Candidates(r, zone)
  <2>1. r = (IF i < c THEN i + p ELSE i + q)
    BY <1>4, ReadingIs
  <2> HIDE DEF c, p, q, D
  <2>2. CASE i < c
    <3>1. i = r - p /\ r - D < c
      BY <1>1, <2>1, <2>2
    <3> QED  BY <1>2, <3>1
  <2>3. CASE ~(i < c)
    <3>1. i = r - q /\ ~(r + D < c)
      BY <1>1, <2>1, <2>3
    <3> QED  BY <1>2, <3>1
  <2> QED  BY <2>2, <2>3
<1> QED  BY <1>3, <1>4 DEF InstantsFor

\* The engine's two corrections of a first guess find that instant, ...
LEMMA ResolveIs ==
    ASSUME NEW zone, Followed(zone), NEW r \in Int
    PROVE  Resolve(r, zone) = FirstAt(r, zone)
<1> DEFINE c == zone.change
           p == zone.before
           q == zone.after
           shown == {k \in 0 .. MaxGap : InstantsFor(r + k, zone) # {}}
<1>1. /\ c \in Int /\ p \in Int /\ q \in Int /\ MaxGap \in Int /\ 0 <= MaxGap
      /\ q - p <= MaxGap
  BY ZoneIs
<1>2. \A i \in Int : Reading(i, zone) = (IF i < c THEN i + p ELSE i + q)
  BY ReadingIs
<1>3. \A k \in Int : InstantsFor(r + k, zone) = {i \in Int : Reading(i, zone) = r + k}
  BY InstantsForIs
<1>4. Resolve(r, zone) = Least(InstantsFor(r + Least(shown), zone))
  BY DEF Resolve
<1>5. FirstAt(r, zone) = (IF r < c + p THEN r - p ELSE IF c > r - q THEN c ELSE r - q)
  BY DEF FirstAt, Later
<1>6. shown \subseteq Int
  OBVIOUS
<1>7. \A k \in 0 .. MaxGap : k \in shown <=> \E i \in Int : Reading(i, zone) = r + k
  BY <1>3
<1> HIDE DEF shown, c, p, q
<1>8. CASE r < c + p
  <2>1. Reading(r - p, zone) = r
    BY <1>1, <1>2, <1>8
  <2>2. 0 \in shown
    <3>1. r - p \in Int /\ Reading(r - p, zone) = r + 0 /\ 0 \in 0 .. MaxGap
      BY <1>1, <2>1
    <3> QED  BY <1>7, <3>1
  <2>3. \A k \in shown : 0 <= k
    BY <1>1 DEF shown
  <2>4. Least(shown) = 0
    BY <1>6, <2>2, <2>3, LeastIs DEF IsLeast
  <2> DEFINE S == InstantsFor(r + 0, zone)
  <2>5. S = {i \in Int : Reading(i, zone) = r}
    BY <1>3
  <2>6. r - p \in S
    BY <1>1, <2>1, <2>5
  <2>7. \A i \in S : r - p <= i
    <3> TAKE i \in S
    <3>1. i \in Int /\ r = (IF i < c THEN i + p ELSE i + q)
      BY <1>2, <2>5
    <3> QED  BY <1>1, <1>8, <3>1
  <2>8. S \subseteq Int
    BY <2>5
  <2> HIDE DEF S
  <2>9. Least(S) = r - p
    BY <2>6, <2>7, <2>8, LeastIs DEF IsLeast
  <2> QED  BY <1>4, <1>5, <1>8, <2>4, <2>9 DEF S
<1>9. CASE ~(r < c + p)
  <2> DEFINE m == IF c > r - q THEN c ELSE r - q
             k == m + q - r
             S == InstantsFor(r + k, zone)
  <2>1. m \in Int /\ k \in 0 .. MaxGap /\ c <= m
    BY <1>1, <1>9
  <2>2. Reading(m, zone) = r + k
    BY <1>1, <1>2, <2>1
  <2>3. k \in shown
    BY <1>7, <2>1, <2>2
  <2>4. \A h \in shown : k <= h
    <3> TAKE h \in shown
    <3>1. h \in 0 .. MaxGap
      BY DEF shown
    <3>2. PICK i \in Int : Reading(i, zone) = r + h
      BY <1>7, <3>1
    <3>3. r + h = (IF i < c THEN i + p ELSE i + q)
      BY <1>2, <3>2
    <3>4. ~(i < c)
      BY <1>1, <1>9, <3>1, <3>3
    <3> QED  BY <1>1, <1>9, <3>1, <3>3, <3>4
  <2>5. k \in Int
    BY <2>1
  <2>6. S = {i \in Int : Reading(i, zone) = r + k}
    BY <1>3, <2>5
  <2>7. m \in S /\ S \subseteq Int
    BY <2>1, <2>2, <2>6
  <2>8. \A i \in S : m <= i
    <3> TAKE i \in S
    <3>1. i \in Int /\ r + k = (IF i < c THEN i + p ELSE i + q)
      BY <1>2, <2>6
    <3>2. ~(i < c)
      BY <1>1, <1>9, <2>1, <3>1
    <3> QED  BY <1>1, <3>1, <3>2
  <2>10. FirstAt(r, zone) = m
    BY <1>5, <1>9
  <2> HIDE DEF k, m, S
  <2>11. Least(shown) = k
    BY <1>6, <2>3, <2>4, LeastIs DEF IsLeast
  <2>12. Least(S) = m
    BY <2>7, <2>8, LeastIs DEF IsLeast
  <2> QED  BY <1>4, <2>10, <2>11, <2>12 DEF S
<1> QED  BY <1>8, <1>9

\* ... and so does the search through all instants.
LEMMA RefResolveIs ==
    ASSUME NEW zone, Followed(zone), NEW r \in Int
    PROVE  RefResolve(r, zone) = FirstAt(r, zone)
<1> DEFINE c == zone.change
           p == zone.before
           q == zone.after
           D == DayLength
           near == {i \in (r - 2 * D) .. (r + 2 * D) : Reading(i, zone) >= r}
           seen == {Reading(i, zone) : i \in near}
           m == FirstAt(r, zone)
           first == {i \in near : Reading(i, zone) = Reading(m, zone)}
<1>1. /\ D \in Int /\ 0 < D /\ c \in Int /\ p \in Int /\ q \in Int
      /\ -D <= p /\ p <= D /\ -D <= q /\ q <= D
  BY ZoneIs
<1>2. \A i \in Int : Reading(i, zone) = (IF i < c THEN i + p ELSE i + q)
  BY ReadingIs
<1>3. m = (IF r < c + p THEN r - p ELSE IF c > r - q THEN c ELSE r - q)
  BY DEF FirstAt, Later
<1>4. RefResolve(r, zone) = Least({i \in near : Reading(i, zone) = Least(seen)})
  BY DEF RefResolve
<1>5. \A i : i \in near <=> i \in (r - 2 * D) .. (r + 2 * D) /\ Reading(i, zone) >= r
  OBVIOUS
<1>6. near \subseteq Int
  BY <1>1
<1>7. seen \subseteq Int
  <2> SUFFICES ASSUME NEW i \in near PROVE Reading(i, zone) \in Int
    OBVIOUS
  <2> QED  BY <1>1, <1>2, <1>6
<1>8. m \in Int /\ m \in near
  <2> HIDE DEF near, seen, m, c, p, q, D
  <2>1. m \in Int
    BY <1>1, <1>3
  <2>2. m \in (r - 2 * D) .. (r + 2 * D)
    BY <1>1, <1>3, <2>1
  <2>3. Reading(m, zone) >= r
    BY <1>1, <1>2, <1>3, <2>1
  <2> QED  BY <1>5, <2>1, <2>2, <2>3
<1>9. \A i \in near : /\ Reading(m, zone) <= Reading(i, zone)
                      /\ Reading(i, zone) = Reading(m, zone) => m <= i
  <2> TAKE i \in near
  <2>1. i \in Int /\ Reading(i, zone) >= r
    BY <1>5, <1>6
  <2>2. Reading(i, zone) = (IF i < c THEN i + p ELSE i + q)
        /\ Reading(m, zone) = (IF m < c THEN m + p ELSE m + q)
    BY <1>2, <1>8, <2>1
  <2> HIDE DEF near, seen, m, c, p, q, D
  <2> QED  BY <1>1, <1>3, <1>8, <2>1, <2>2
<1>10. Reading(m, zone) \in seen
  BY <1>8
<1>11. \A x \in seen : Reading(m, zone) <= x
  BY <1>9
<1>12. Least(seen) = Reading(m, zone)
  <2> HIDE DEF seen, m, near
  <2> QED  BY <1>7, <1>10, <1>11, LeastIs DEF IsLeast
<1>13. m \in first /\ first \subseteq Int /\ \A x \in first : m <= x
  BY <1>6, <1>8, <1>9
<1>14. Least(first) = m
  <2> HIDE DEF first, m
  <2> QED  BY <1>13, LeastIs DEF IsLeast
<1> QED  BY <1>4, <1>12, <1>14

\* It is within a day of its reading.
LEMMA FirstAtIs ==
    ASSUME NEW zone, Followed(zone), NEW r \in Int
    PROVE  FirstAt(r, zone) \in r - DayLength .. r + DayLength
<1>1. FirstAt(r, zone) = (IF r < zone.change + zone.before THEN r - zone.before
             ELSE IF zone.change > r - zone.after THEN zone.change ELSE r - zone.after)
  BY DEF FirstAt, Later
<1> QED  BY <1>1, ZoneIs

\* Before the first instant of a reading the clock has not come to it; from there
\* on it has, but for the readings it goes back over.
LEMMA BeforeFirst ==
    ASSUME NEW zone, Followed(zone), NEW r \in Int, NEW t \in Int, t < FirstAt(r, zone)
    PROVE  Reading(t, zone) < r
<1>1. FirstAt(r, zone) = (IF r < zone.change + zone.before THEN r - zone.before
             ELSE IF zone.change > r - zone.after THEN zone.change ELSE r - zone.after)
  BY DEF FirstAt, Later
<1>2. Reading(t, zone) = (IF t < zone.change THEN t + zone.before ELSE t + zone.after)
  BY ReadingIs
<1> QED  BY <1>1, <1>2, ZoneIs

LEMMA SinceFirst ==
    ASSUME NEW zone, Followed(zone), NEW r \in Int, NEW t \in Int, FirstAt(r, zone) <= t
    PROVE  Reading(t, zone) >= r - DayLength
<1>1. FirstAt(r, zone) = (IF r < zone.change + zone.before THEN r - zone.before
             ELSE IF zone.change > r - zone.after THEN zone.change ELSE r - zone.after)
  BY DEF FirstAt, Later
<1>2. Reading(t, zone) = (IF t < zone.change THEN t + zone.before ELSE t + zone.after)
  BY ReadingIs
<1> QED  BY <1>1, <1>2, ZoneIs

LEMMA SinceFirstOnce ==
    ASSUME NEW zone, Followed(zone), NEW r \in Int, NEW t \in Int, FirstAt(r, zone) <= t,
           ~(zone.change + zone.after < r /\ r < zone.change + zone.before)
    PROVE  Reading(t, zone) >= r
<1>1. FirstAt(r, zone) = (IF r < zone.change + zone.before THEN r - zone.before
             ELSE IF zone.change > r - zone.after THEN zone.change ELSE r - zone.after)
  BY DEF FirstAt, Later
<1>2. Reading(t, zone) = (IF t < zone.change THEN t + zone.before ELSE t + zone.after)
  BY ReadingIs
<1> QED  BY <1>1, <1>2, ZoneIs

LEMMA ReadingIsInt ==
    ASSUME NEW zone, Followed(zone), NEW t \in Int
    PROVE  Reading(t, zone) \in Int
BY ReadingIs, ZoneIs

\* The reading of a date's midnight and the date of a reading.
LEMMA DateIs ==
    ASSUME NEW x \in Int, NEW d \in Int
    PROVE  /\ x \div DayLength \in Int
           /\ DayLength * d \in Int
           /\ (x >= DayLength * d) <=> (x \div DayLength >= d)
<1> DEFINE D == DayLength
           k == x \div D
<1>1. D \in Int /\ 0 < D
  BY SlotsAssumption
<1> HIDE DEF D
<1>2. k \in Int /\ D * k <= x /\ x < D * k + D
  BY <1>1
<1> HIDE DEF k
<1>3. D * d \in Int
  BY <1>1
<1>4. ASSUME d <= k PROVE D * d <= x
  <2>1. D * d <= D * k
    BY <1>1, <1>2, <1>4
  <2> QED  BY <1>1, <1>2, <1>3, <2>1
<1>5. ASSUME k < d PROVE x < D * d
  <2>1. k + 1 <= d
    BY <1>2, <1>5
  <2>2. D * (k + 1) <= D * d
    BY <1>1, <1>2, <2>1
  <2>3. D * (k + 1) = D * k + D
    BY <1>1, <1>2
  <2> QED  BY <1>1, <1>2, <1>3, <2>2, <2>3
<1>6. (x >= D * d) <=> (k >= d)
  BY <1>1, <1>2, <1>3, <1>4, <1>5
<1> QED  BY <1>2, <1>3, <1>6 DEF D, k

\* No midnight is among the readings the clock goes back over.
MidnightOnce(zone) ==
    \A date \in Int : ~(/\ zone.change + zone.after < DayLength * date
                        /\ DayLength * date < zone.change + zone.before)

\* Where midnights come once, a date has begun when the clock shows it.
LEMMA MidnightsPartDays ==
    ASSUME NEW zone, Followed(zone), MidnightOnce(zone), NEW d \in Int, NEW t \in Int
    PROVE  /\ StartOfDay(d, zone) \in Int
           /\ DateAt(t, zone) \in Int
           /\ (StartOfDay(d, zone) <= t) <=> (d <= DateAt(t, zone))
<1>1. DayLength * d \in Int /\ DayLength * d + 0 = DayLength * d
  BY SlotsAssumption
<1>2. StartOfDay(d, zone) = FirstAt(DayLength * d, zone)
  BY <1>1, ResolveIs DEF StartOfDay, InstantOf
<1>3. StartOfDay(d, zone) \in Int
  BY <1>1, <1>2, FirstAtIs, ZoneIs
<1>4. Reading(t, zone) \in Int
  BY ReadingIsInt
<1>5. DateAt(t, zone) \in Int
      /\ ((Reading(t, zone) >= DayLength * d) <=> (DateAt(t, zone) >= d))
  BY <1>4, DateIs DEF DateAt
<1>6. StartOfDay(d, zone) <= t => Reading(t, zone) >= DayLength * d
  BY <1>1, <1>2, SinceFirstOnce DEF MidnightOnce
<1>7. ~(StartOfDay(d, zone) <= t) => Reading(t, zone) < DayLength * d
  BY <1>1, <1>2, <1>3, BeforeFirst
<1> QED  BY <1>1, <1>3, <1>4, <1>5, <1>6, <1>7

(***************************************************************************)
(* Shifts.                                                                 *)
(***************************************************************************)
Times(periods) ==
    IsFiniteSet(periods) /\ \A p \in periods : p.from \in 0 .. DayLength - 1 /\ p.to \in 0 .. DayLength
Begins(p, date) == DayLength * date + p.from
Finishes(p, date) == DayLength * (IF p.to <= p.from THEN date + 1 ELSE date) + p.to

\* A shift runs between the two instants of its readings; a night shift ends on
\* the next date.
LEMMA ShiftIs ==
    ASSUME NEW zone, Followed(zone), NEW periods, Times(periods),
           NEW p \in periods, NEW date \in Int
    PROVE  /\ Begins(p, date) \in Int /\ Finishes(p, date) \in Int
           /\ PeriodToInterval(p, date, zone) =
                 Interval(FirstAt(Begins(p, date), zone), FirstAt(Finishes(p, date), zone))
           /\ RefResolve(Begins(p, date), zone) = FirstAt(Begins(p, date), zone)
           /\ RefResolve(Finishes(p, date), zone) = FirstAt(Finishes(p, date), zone)
           /\ PeriodToInterval(p, date, zone).start \in Int
           /\ PeriodToInterval(p, date, zone).end \in Int
<1>1. DayLength \in Int /\ p.from \in Int /\ p.to \in Int
  BY SlotsAssumption DEF Times
<1>2. DayLength * date \in Int /\ DayLength * (date + 1) \in Int
  BY <1>1
<1>3. Begins(p, date) \in Int /\ Finishes(p, date) \in Int
  BY <1>1, <1>2 DEF Begins, Finishes
<1>4. InstantOf(date, p.from, zone) = Resolve(Begins(p, date), zone)
      /\ InstantOf(IF p.to <= p.from THEN date + 1 ELSE date, p.to, zone)
         = Resolve(Finishes(p, date), zone)
  BY DEF InstantOf, Begins, Finishes
<1>5. /\ Resolve(Begins(p, date), zone) = FirstAt(Begins(p, date), zone)
      /\ Resolve(Finishes(p, date), zone) = FirstAt(Finishes(p, date), zone)
      /\ RefResolve(Begins(p, date), zone) = FirstAt(Begins(p, date), zone)
      /\ RefResolve(Finishes(p, date), zone) = FirstAt(Finishes(p, date), zone)
  BY <1>3, ResolveIs, RefResolveIs
<1>6. FirstAt(Begins(p, date), zone) \in Int /\ FirstAt(Finishes(p, date), zone) \in Int
  BY <1>1, <1>3, FirstAtIs
<1>7. PeriodToInterval(p, date, zone) =
                 Interval(FirstAt(Begins(p, date), zone), FirstAt(Finishes(p, date), zone))
  BY <1>4, <1>5 DEF PeriodToInterval
<1> QED  BY <1>3, <1>5, <1>6, <1>7 DEF Interval

LEMMA ShiftsSpan ==
    ASSUME NEW zone, Followed(zone), NEW periods, Times(periods),
           NEW dates, IsFiniteSet(dates), dates \subseteq Int
    PROVE  Spans(Working(periods, dates, zone))
<1> DEFINE P == periods \X dates
           T == {x \in P : AppliesOn(x[1], x[2])}
           f == [pd \in T |-> PeriodToInterval(pd[1], pd[2], zone)]
<1>1. Working(periods, dates, zone) = {f[pd] : pd \in T}
  BY DEF Working
<1>2. IsFiniteSet(P)
  BY FS_Product DEF Times
<1>3. IsFiniteSet(T)
  BY <1>2, FS_Subset
<1>4. IsFiniteSet({f[pd] : pd \in T})
  <2> HIDE DEF T, f
  <2> QED  BY <1>3, ImageIsFinite
<1>5. ASSUME NEW pd \in T
      PROVE  f[pd].start \in Int /\ f[pd].end \in Int
  <2>1. pd[1] \in periods /\ pd[2] \in Int
    OBVIOUS
  <2>2. PeriodToInterval(pd[1], pd[2], zone).start \in Int
        /\ PeriodToInterval(pd[1], pd[2], zone).end \in Int
    BY <2>1, ShiftIs
  <2> QED  BY <2>2
<1> QED  BY <1>1, <1>4, <1>5 DEF Spans

LEMMA SpansUnion ==
    ASSUME NEW I, NEW J, Spans(I), Spans(J)
    PROVE  Spans(I \cup J)
BY FS_Union DEF Spans

LEMMA CoversUnion ==
    ASSUME NEW I, NEW J, NEW t
    PROVE  Covers(I \cup J, t) <=> Covers(I, t) \/ Covers(J, t)
BY DEF Covers

\* The ticks of intervals are what they cover.
LEMMA TicksAre ==
    ASSUME NEW I, Spans(I)
    PROVE  Ticks(I) \subseteq Int /\ \A t \in Int : t \in Ticks(I) <=> Covers(I, t)
<1>1. \A t : t \in Ticks(I) <=> \E i \in I : t \in i.start .. (i.end - 1)
  BY DEF Ticks
<1>2. \A i \in I : i.start \in Int /\ i.end \in Int
  BY DEF Spans
<1> QED  BY <1>1, <1>2 DEF Covers

(***************************************************************************)
(* What is offered.                                                        *)
(***************************************************************************)
QueryIsMeant(q) ==
    /\ Times(q.periods) /\ Followed(q.zone)
    /\ Spans(q.openings) /\ Spans(q.closures) /\ Spans(q.taken)
    /\ q.step \in Nat \ {0} /\ q.dateFrom \in Int /\ q.dateTo \in Int
    /\ q.now \in Int /\ q.notice \in Int /\ q.advance \in Int
    /\ q.service.duration \in Int /\ 0 < q.service.duration
    /\ q.service.before \in Nat /\ q.service.after \in Nat

\* What a search finds open and what it finds taken.
OpenOf(q) == Working(q.periods, (q.dateFrom - 1) .. q.dateTo, q.zone) \cup q.openings
BusyOf(q) == q.closures \cup q.taken

LEMMA QuerySpans ==
    ASSUME NEW q, QueryIsMeant(q)
    PROVE  Spans(OpenOf(q)) /\ Spans(BusyOf(q))
<1>0. q.dateFrom - 1 \in Int /\ q.dateTo \in Int
  BY DEF QueryIsMeant
<1>1. IsFiniteSet((q.dateFrom - 1) .. q.dateTo) /\ (q.dateFrom - 1) .. q.dateTo \subseteq Int
  BY <1>0, FS_Interval
<1>2. Spans(Working(q.periods, (q.dateFrom - 1) .. q.dateTo, q.zone))
  BY <1>1, ShiftsSpan DEF QueryIsMeant
<1> QED  BY <1>2, SpansUnion DEF QueryIsMeant, OpenOf, BusyOf

\* The time a slot occupies is free throughout exactly when Subtract says so.
LEMMA FreeIs ==
    ASSUME NEW I, Spans(I), NEW J, Spans(J), NEW n, n.start \in Int, n.end \in Int,
           n.start < n.end
    PROVE  Inside(Subtract(Normalize(I), J), n)
           <=> \A t \in n.start .. (n.end - 1) : Covers(I, t) /\ ~Covers(J, t)
<1>1. Spans(Normalize(I))
  BY NormalizeIs
<1>2. ASSUME NEW x \in Subtract(Normalize(I), J), x.start <= n.start, x.end >= n.end
      PROVE  \A t \in n.start .. (n.end - 1) : Covers(I, t) /\ ~Covers(J, t)
  <2>1. /\ \E i \in Normalize(I) : i.start <= n.start /\ i.end >= n.end
        /\ \A t \in n.start .. (n.end - 1) : ~Covers(J, t)
    BY <1>1, <1>2, SubtractAvoids
  <2> QED  BY <2>1, NormalizeHolds
<1>3. ASSUME \A t \in n.start .. (n.end - 1) : Covers(I, t) /\ ~Covers(J, t)
      PROVE  \E x \in Subtract(Normalize(I), J) : x.start <= n.start /\ x.end >= n.end
  <2>1. PICK i \in Normalize(I) : i.start <= n.start /\ i.end >= n.end
    BY <1>3, NormalizeHolds
  <2> QED  BY <1>1, <1>3, <2>1, SubtractKeeps
<1> QED  BY <1>2, <1>3 DEF Inside

OnGrid(I, start, last, step) ==
    \E r \in Int : /\ Covers(I, r) /\ ~Covers(I, r - 1)
                   /\ \A t \in r .. (last - 1) : Covers(I, t)
                   /\ r <= start /\ (start - r) % step = 0

\* To be on the grid of a maximal run, with room before its end.
LEMMA GridIs ==
    ASSUME NEW I, Spans(I), NEW start \in Int, NEW last \in Int, start < last, NEW step
    PROVE  (\E n \in Normalize(I) : n.start <= start /\ (start - n.start) % step = 0 /\ last <= n.end)
           <=> OnGrid(I, start, last, step)
<1>1. \A n \in Normalize(I) : Run(I, n)
  BY NormalizeIs
<1>2. ASSUME NEW n \in Normalize(I), n.start <= start, (start - n.start) % step = 0,
             last <= n.end
      PROVE  OnGrid(I, start, last, step)
  <2>1. n.start \in Int /\ n.end \in Int /\ ~Covers(I, n.start - 1)
    BY <1>1 DEF Run
  <2>2. \A t \in n.start .. (last - 1) : Covers(I, t)
    BY <1>1, <1>2, <2>1 DEF Run
  <2>3. Covers(I, n.start)
    BY <1>2, <2>1, <2>2
  <2> QED  BY <1>2, <2>1, <2>2, <2>3 DEF OnGrid
<1>3. ASSUME NEW r \in Int, Covers(I, r), ~Covers(I, r - 1),
             \A t \in r .. (last - 1) : Covers(I, t), r <= start, (start - r) % step = 0
      PROVE  \E n \in Normalize(I) : /\ n.start <= start /\ (start - n.start) % step = 0
                                     /\ last <= n.end
  <2>1. PICK n \in Normalize(I) : n.start <= r /\ n.end >= last
    <3>1. r < last
      BY <1>3
    <3> QED  BY <1>3, <3>1, NormalizeHolds
  <2>2. n.start \in Int /\ n.end \in Int /\ \A t \in n.start .. (n.end - 1) : Covers(I, t)
    BY <1>1 DEF Run
  <2>3. ~(n.start <= r - 1)
    BY <1>3, <2>1, <2>2
  <2>4. n.start = r
    BY <1>3, <2>1, <2>2, <2>3
  <2> QED  BY <1>3, <2>1, <2>2, <2>4
<1> QED  BY <1>2, <1>3 DEF OnGrid

Busied(q, start) == (start - q.service.before) .. (start + q.service.duration + q.service.after - 1)
Free(q, t) == Covers(OpenOf(q), t) /\ ~Covers(BusyOf(q), t)

\* A slot, tick by tick.
LEMMA SlotIs ==
    ASSUME NEW q, QueryIsMeant(q), NEW start \in Int
    PROVE  start \in GenerateSlots(q) <=>
           /\ start \in BookingWindow(q).start .. BookingWindow(q).end
           /\ OnGrid(OpenOf(q), start, start + q.service.duration, q.step)
           /\ \A t \in Busied(q, start) : Free(q, t)
<1> DEFINE n == Occupied(q.service, start)
           last == start + q.service.duration
<1>1. Spans(OpenOf(q)) /\ Spans(BusyOf(q))
  BY QuerySpans
<1>2. Available(q) = Normalize(OpenOf(q)) /\ Anchors(q) = Normalize(OpenOf(q))
  BY DEF Anchors, Available, OpenOf
<1>3. last \in Int /\ start < last /\ n.start \in Int /\ n.end \in Int /\ n.start < n.end
      /\ n.start .. (n.end - 1) = Busied(q, start)
  <2>1. /\ q.service.duration \in Int /\ 0 < q.service.duration
        /\ q.service.before \in Nat /\ q.service.after \in Nat
    BY DEF QueryIsMeant
  <2>2. n.start = start - q.service.before
        /\ n.end = start + q.service.duration + q.service.after
    BY DEF Occupied, Interval
  <2> HIDE DEF n
  <2>3. last \in Int /\ start < last
    BY <2>1
  <2>4. n.start \in Int /\ n.end \in Int /\ n.start < n.end
    BY <2>1, <2>2
  <2>5. n.end - 1 = start + q.service.duration + q.service.after - 1
    BY <2>1, <2>2
  <2>6. n.start .. (n.end - 1) = Busied(q, start)
    BY <2>2, <2>5 DEF Busied
  <2> QED  BY <2>3, <2>4, <2>6
<1>4. start \in GenerateSlots(q) <=>
        /\ start \in BookingWindow(q).start .. BookingWindow(q).end
        /\ \E anchor \in Anchors(q) :
              /\ anchor.start <= start
              /\ (start - anchor.start) % q.step = 0
              /\ start + q.service.duration <= anchor.end
        /\ Inside(Subtract(Available(q), q.closures \cup q.taken), Occupied(q.service, start))
  BY DEF GenerateSlots
<1>5. (\E anchor \in Anchors(q) :
              /\ anchor.start <= start
              /\ (start - anchor.start) % q.step = 0
              /\ start + q.service.duration <= anchor.end)
      <=> OnGrid(OpenOf(q), start, last, q.step)
  BY <1>1, <1>2, <1>3, GridIs
<1> HIDE DEF n
<1>6. Inside(Subtract(Normalize(OpenOf(q)), BusyOf(q)), n)
      <=> \A t \in n.start .. (n.end - 1) : Covers(OpenOf(q), t) /\ ~Covers(BusyOf(q), t)
  BY <1>1, <1>3, FreeIs
<1>7. Inside(Subtract(Available(q), q.closures \cup q.taken), Occupied(q.service, start))
      <=> \A t \in Busied(q, start) : Free(q, t)
  BY <1>2, <1>3, <1>6 DEF n, BusyOf, Free
<1> QED  BY <1>4, <1>5, <1>7

LEMMA WindowIs ==
    ASSUME NEW q, QueryIsMeant(q), MidnightOnce(q.zone), NEW start \in Int
    PROVE  start \in BookingWindow(q).start .. BookingWindow(q).end <=>
           /\ DateAt(start, q.zone) \in q.dateFrom .. q.dateTo
           /\ DateAt(start, q.zone) <= DateAt(q.now, q.zone) + q.advance
           /\ start >= q.now + q.notice
<1> DEFINE z == q.zone
           d == DateAt(start, z)
           today == DateAt(q.now, z)
           A == StartOfDay(q.dateFrom, z)
           B == StartOfDay(q.dateTo + 1, z)
           C == StartOfDay(today + q.advance + 1, z)
           w == BookingWindow(q)
<1>1. Followed(z) /\ q.dateFrom \in Int /\ q.dateTo + 1 \in Int /\ q.dateTo \in Int
      /\ q.now \in Int /\ q.notice \in Int /\ q.advance \in Int
  BY DEF QueryIsMeant
<1>2. today \in Int
  BY <1>1, MidnightsPartDays
<1>3. today + q.advance + 1 \in Int
  BY <1>1, <1>2
<1>4. A \in Int /\ d \in Int /\ (A <= start <=> q.dateFrom <= d)
  BY <1>1, MidnightsPartDays
<1>5. B \in Int /\ (B <= start <=> q.dateTo + 1 <= d)
  BY <1>1, MidnightsPartDays
<1>6. C \in Int /\ (C <= start <=> today + q.advance + 1 <= d)
  BY <1>1, <1>3, MidnightsPartDays
<1>7. w.start = (IF A > q.now + q.notice THEN A ELSE q.now + q.notice)
      /\ w.end = (IF B < C THEN B ELSE C) - 1
  BY DEF BookingWindow, Interval, Later, Sooner
<1> HIDE DEF z, d, today, A, B, C, w
<1>8. start \in w.start .. w.end <=>
           /\ d \in q.dateFrom .. q.dateTo
           /\ d <= today + q.advance
           /\ start >= q.now + q.notice
  BY <1>1, <1>2, <1>4, <1>5, <1>6, <1>7
<1> QED  BY <1>8 DEF z, d, today, w

RefShifts(q) ==
    LET begins(pd) == DayLength * pd[2] + pd[1].from
        ends(pd) == DayLength * (IF pd[1].to <= pd[1].from THEN pd[2] + 1 ELSE pd[2]) + pd[1].to
    IN  {Interval(RefResolve(begins(pd), q.zone), RefResolve(ends(pd), q.zone)) :
            pd \in {x \in q.periods \X ((q.dateFrom - 1) .. q.dateTo) : x[1].weekday = x[2] % Week}}

LEMMA RefShiftsAre ==
    ASSUME NEW q, QueryIsMeant(q)
    PROVE  RefShifts(q) = Working(q.periods, (q.dateFrom - 1) .. q.dateTo, q.zone)
<1> DEFINE T == {x \in q.periods \X ((q.dateFrom - 1) .. q.dateTo) : x[1].weekday = x[2] % Week}
           g(pd) == Interval(RefResolve(Begins(pd[1], pd[2]), q.zone),
                             RefResolve(Finishes(pd[1], pd[2]), q.zone))
           h(pd) == PeriodToInterval(pd[1], pd[2], q.zone)
<1>1. RefShifts(q) = {g(pd) : pd \in T}
  BY DEF RefShifts, Begins, Finishes
<1>2. Working(q.periods, (q.dateFrom - 1) .. q.dateTo, q.zone) = {h(pd) : pd \in T}
  BY DEF Working, AppliesOn, WeekdayOf
<1>3. ASSUME NEW pd \in T PROVE g(pd) = h(pd)
  <2>1. pd[1] \in q.periods /\ pd[2] \in Int
    BY DEF QueryIsMeant
  <2>2. Followed(q.zone) /\ Times(q.periods)
    BY DEF QueryIsMeant
  <2> QED  BY <2>1, <2>2, ShiftIs
<1> QED  BY <1>1, <1>2, <1>3

\* The engine's search and the tick-by-tick one agree.
LEMMA SlotsAreReference ==
    ASSUME NEW q, QueryIsMeant(q), MidnightOnce(q.zone)
    PROVE  GenerateSlots(q) = RefSlots(q)
<1> DEFINE open == Ticks(RefShifts(q) \cup q.openings)
           free == open \ Ticks(q.closures \cup q.taken)
           onGrid(s) == \E r \in open : /\ r - 1 \notin open
                                        /\ r .. (s + q.service.duration - 1) \subseteq open
                                        /\ r <= s /\ (s - r) % q.step = 0
           today == DateAt(q.now, q.zone)
<1>1. Spans(OpenOf(q)) /\ Spans(BusyOf(q))
  BY QuerySpans
<1>2. open = Ticks(OpenOf(q)) /\ free = open \ Ticks(BusyOf(q))
  BY RefShiftsAre DEF OpenOf, BusyOf
<1>3. open \subseteq Int /\ free \subseteq Int
      /\ \A t \in Int : (t \in open <=> Covers(OpenOf(q), t)) /\ (t \in free <=> Free(q, t))
  BY <1>1, <1>2, TicksAre DEF Free
<1>4. RefSlots(q) =
        {s \in free :
            /\ (s - q.service.before) .. (s + q.service.duration + q.service.after - 1) \subseteq free
            /\ DateAt(s, q.zone) \in q.dateFrom .. q.dateTo
            /\ DateAt(s, q.zone) <= today + q.advance
            /\ s >= q.now + q.notice
            /\ onGrid(s)}
  BY DEF RefSlots, RefShifts
<1>5. q.service.duration \in Int /\ 0 < q.service.duration /\ q.service.before \in Nat
      /\ q.service.after \in Nat
  BY DEF QueryIsMeant
<1>6. GenerateSlots(q) \subseteq Int
  BY DEF GenerateSlots
<1> HIDE DEF free
<1>7. ASSUME NEW s \in Int PROVE onGrid(s) <=> OnGrid(OpenOf(q), s, s + q.service.duration, q.step)
  <2> HIDE DEF open
  <2> DEFINE last == s + q.service.duration
  <2>1. last \in Int
    BY <1>5
  <2> HIDE DEF last
  <2>2. ASSUME NEW r \in Int
        PROVE  r .. (last - 1) \subseteq open <=> \A t \in r .. (last - 1) : Covers(OpenOf(q), t)
    BY <1>3, <2>1
  <2>3. ASSUME NEW r \in Int
        PROVE  (r - 1 \notin open <=> ~Covers(OpenOf(q), r - 1)) /\ (r \in open <=> Covers(OpenOf(q), r))
    BY <1>3
  <2>4. onGrid(s) <=> \E r \in Int : /\ r \in open /\ r - 1 \notin open
                                     /\ r .. (last - 1) \subseteq open
                                     /\ r <= s /\ (s - r) % q.step = 0
    <3>0. s + q.service.duration - 1 = last - 1
      BY <1>5 DEF last
    <3>1. onGrid(s) <=> \E r \in open : /\ r - 1 \notin open
                                        /\ r .. (last - 1) \subseteq open
                                        /\ r <= s /\ (s - r) % q.step = 0
      BY ONLY <3>0 DEF onGrid
    <3> HIDE DEF onGrid
    <3> QED  BY <1>3, <3>1
  <2>5. OnGrid(OpenOf(q), s, last, q.step) <=>
          \E r \in Int : /\ r \in open /\ r - 1 \notin open
                         /\ r .. (last - 1) \subseteq open
                         /\ r <= s /\ (s - r) % q.step = 0
    BY <2>2, <2>3 DEF OnGrid
  <2> QED  BY <2>4, <2>5 DEF last
<1>8. ASSUME NEW s \in Int
      PROVE  /\ (\A t \in Busied(q, s) : Free(q, t)) <=> Busied(q, s) \subseteq free
             /\ Busied(q, s) \subseteq free => s \in free
  <2>1. Busied(q, s) \subseteq Int /\ s \in Busied(q, s)
    BY <1>5 DEF Busied
  <2> QED  BY <1>3, <2>1
<1>9. ASSUME NEW s \in Int PROVE s \in GenerateSlots(q) <=> s \in RefSlots(q)
  <2>1. s \in RefSlots(q) <=>
          /\ s \in free
          /\ Busied(q, s) \subseteq free
          /\ DateAt(s, q.zone) \in q.dateFrom .. q.dateTo
          /\ DateAt(s, q.zone) <= today + q.advance
          /\ s >= q.now + q.notice
          /\ onGrid(s)
    <3> HIDE DEF today, onGrid
    <3> QED  BY <1>4 DEF Busied
  <2> HIDE DEF onGrid
  <2> QED  BY <1>7, <1>8, <2>1, SlotIs, WindowIs
<1>10. RefSlots(q) \subseteq Int
  <2> HIDE DEF onGrid, today
  <2> QED  BY <1>3, <1>4
<1> QED  BY <1>6, <1>9, <1>10

(***************************************************************************)
(* What is covered.                                                        *)
(***************************************************************************)

\* Some shift, of whatever date, is on.
OnShift(periods, zone, t) ==
    \E p \in periods, date \in Int :
        /\ AppliesOn(p, date)
        /\ PeriodToInterval(p, date, zone).start <= t
        /\ t < PeriodToInterval(p, date, zone).end

\* A shift that is on between two instants is one of the dates looked at.
LEMMA ShiftDates ==
    ASSUME NEW zone, Followed(zone), NEW periods, Times(periods), NEW p \in periods,
           NEW date \in Int, NEW s \in Int, NEW t \in Int, NEW e \in Int, s <= t, t < e,
           PeriodToInterval(p, date, zone).start <= t, t < PeriodToInterval(p, date, zone).end
    PROVE  /\ DateAt(s, zone) - 1 <= date /\ date <= DateAt(e, zone) + 1
           /\ DateAt(s, zone) \in Int /\ DateAt(e, zone) \in Int
<1> DEFINE b == Begins(p, date)
           f == Finishes(p, date)
           D == DayLength
<1>1. D \in Int /\ 0 < D /\ p.from \in 0 .. D - 1 /\ p.to \in 0 .. D
  BY SlotsAssumption DEF Times
<1>2. b \in Int /\ f \in Int
      /\ PeriodToInterval(p, date, zone) = Interval(FirstAt(b, zone), FirstAt(f, zone))
  BY ShiftIs
<1>3. b = D * date + p.from /\ f = D * (IF p.to <= p.from THEN date + 1 ELSE date) + p.to
  BY DEF Begins, Finishes
<1>4. D * date \in Int /\ D * (date + 1) = D * date + D
      /\ D * (date - 1) = D * date - D /\ D * (date + 2) = D * date + 2 * D
  BY <1>1
<1>5. FirstAt(b, zone) \in Int /\ FirstAt(f, zone) \in Int
  BY <1>1, <1>2, FirstAtIs
<1>6. FirstAt(b, zone) <= e /\ s < FirstAt(f, zone)
  BY <1>2, <1>5 DEF Interval
<1>7. Reading(e, zone) \in Int /\ Reading(s, zone) \in Int
  BY ReadingIsInt
<1> HIDE DEF b, f, D
<1>8. Reading(e, zone) >= D * (date - 1)
  <2>1. Reading(e, zone) >= b - D
    BY <1>2, <1>6, SinceFirst DEF D
  <2> QED  BY <1>1, <1>2, <1>3, <1>4, <1>7, <2>1
<1>9. ~(Reading(s, zone) >= D * (date + 2))
  <2>1. Reading(s, zone) < f
    BY <1>2, <1>6, BeforeFirst
  <2>2. f <= D * date + 2 * D
    BY <1>1, <1>3, <1>4
  <2> QED  BY <1>1, <1>2, <1>4, <1>7, <2>1, <2>2
<1>10. DateAt(e, zone) \in Int /\ DateAt(e, zone) >= date - 1
  BY <1>7, <1>8, DateIs DEF DateAt, D
<1>11. DateAt(s, zone) \in Int /\ ~(DateAt(s, zone) >= date + 2)
  BY <1>7, <1>9, DateIs DEF DateAt, D
<1> QED  BY <1>10, <1>11

\* A shift that has a tick of an appointment begins on a date the check looks at.
LEMMA DatesSuffice ==
    ASSUME NEW zone, Followed(zone), NEW periods, Times(periods), NEW dates, dates \subseteq Int,
           NEW s \in Int, NEW t \in Int, NEW e \in Int, s <= t, t < e,
           (DateAt(s, zone) - 1) .. (DateAt(e, zone) + 1) \subseteq dates
    PROVE  Covers(Working(periods, dates, zone), t) <=> OnShift(periods, zone, t)
<1>1. ASSUME NEW p \in periods, NEW date \in Int, AppliesOn(p, date),
             PeriodToInterval(p, date, zone).start <= t, t < PeriodToInterval(p, date, zone).end
      PROVE  Covers(Working(periods, dates, zone), t)
  <2>0. /\ DateAt(s, zone) - 1 <= date /\ date <= DateAt(e, zone) + 1
        /\ DateAt(s, zone) \in Int /\ DateAt(e, zone) \in Int
    BY <1>1, ShiftDates
  <2>1. date \in dates
    BY <2>0
  <2>2. <<p, date>> \in {x \in periods \X dates : AppliesOn(x[1], x[2])}
    BY <1>1, <2>1
  <2>3. PeriodToInterval(p, date, zone) \in Working(periods, dates, zone)
    BY <2>2 DEF Working
  <2> QED  BY <1>1, <2>3 DEF Covers
<1>2. ASSUME Covers(Working(periods, dates, zone), t)
      PROVE  OnShift(periods, zone, t)
  <2>1. PICK i \in Working(periods, dates, zone) : i.start <= t /\ t < i.end
    BY <1>2 DEF Covers
  <2>2. PICK pd \in periods \X dates : AppliesOn(pd[1], pd[2])
                                       /\ i = PeriodToInterval(pd[1], pd[2], zone)
    BY <2>1 DEF Working
  <2>3. pd[1] \in periods /\ pd[2] \in Int
    BY <2>2
  <2> QED  BY <2>1, <2>2, <2>3 DEF OnShift
<1> QED  BY <1>1, <1>2 DEF OnShift

\* Worked or opened throughout, and nowhere closed.
Kept(periods, openings, closures, zone, start, end) ==
    \A t \in start .. (end - 1) : /\ OnShift(periods, zone, t) \/ Covers(openings, t)
                                  /\ ~Covers(closures, t)

CoverageIsMeant(q) ==
    /\ Times(q.periods) /\ Followed(q.zone) /\ Spans(q.openings) /\ Spans(q.closures)
    /\ Spans(q.appointments) /\ \A a \in q.appointments : a.start < a.end

\* What strands an appointment does not depend on the others it is judged with.
LEMMA UncoveredIs ==
    ASSUME NEW q, CoverageIsMeant(q)
    PROVE  FindUncovered(q) =
           {a.id : a \in {x \in q.appointments :
                             ~Kept(q.periods, q.openings, q.closures, q.zone, x.start, x.end)}}
<1>1. CASE q.appointments = {}
  BY <1>1 DEF FindUncovered
<1>2. CASE q.appointments # {}
  <2> DEFINE starts == {a.start : a \in q.appointments}
             ends == {a.end : a \in q.appointments}
             first == Least(starts)
             last == CHOOSE e \in ends : \A a \in q.appointments : a.end <= e
             dates == CoverageDates(DateAt(first, q.zone), DateAt(last, q.zone))
             I == Working(q.periods, dates, q.zone) \cup q.openings
  <2>1. Followed(q.zone) /\ Times(q.periods) /\ Spans(q.openings) /\ Spans(q.closures)
        /\ Spans(q.appointments)
    BY DEF CoverageIsMeant
  <2>2. IsFiniteSet(starts) /\ IsFiniteSet(ends)
    BY <2>1, BoundsAreFinite
  <2>3. starts \subseteq Int /\ ends \subseteq Int /\ starts # {} /\ ends # {}
    BY <1>2, <2>1 DEF Spans
  <2>4. first \in Int /\ \A a \in q.appointments : first <= a.start
    <3>1. Least(starts) \in starts /\ \A y \in starts : Least(starts) <= y
      <4> HIDE DEF starts
      <4> QED  BY <2>2, <2>3, FiniteLeast
    <3> QED  BY <2>3, <3>1
  <2>5. last \in Int /\ \A a \in q.appointments : a.end <= last
    <3>1. \E e \in ends : IsGreatest(ends, e)
      <4> HIDE DEF ends
      <4> QED  BY <2>2, <2>3, FiniteHasGreatest
    <3>2. \E e \in ends : \A a \in q.appointments : a.end <= e
      BY <3>1 DEF IsGreatest
    <3>3. last \in ends /\ \A a \in q.appointments : a.end <= last
      BY <3>2
    <3> QED  BY <2>3, <3>3
  <2> HIDE DEF first, last
  <2>6. DateAt(first, q.zone) \in Int /\ DateAt(last, q.zone) \in Int
    <3>1. Reading(first, q.zone) \in Int /\ Reading(last, q.zone) \in Int
      BY <2>1, <2>4, <2>5, ReadingIsInt
    <3> QED  BY <3>1, DateIs DEF DateAt
  <2>7. dates = (DateAt(first, q.zone) - 1) .. (DateAt(last, q.zone) + 1)
    BY DEF CoverageDates
  <2>8. IsFiniteSet(dates) /\ dates \subseteq Int
    <3>1. DateAt(first, q.zone) - 1 \in Int /\ DateAt(last, q.zone) + 1 \in Int
      BY <2>6
    <3> QED  BY <2>7, <3>1, FS_Interval
  <2> HIDE DEF dates
  <2>9. Spans(Working(q.periods, dates, q.zone))
    BY <2>1, <2>8, ShiftsSpan
  <2>10. Spans(I)
    BY <2>1, <2>9, SpansUnion
  <2>11. ASSUME NEW a \in q.appointments
         PROVE  Inside(Subtract(Normalize(I), q.closures), a)
                <=> Kept(q.periods, q.openings, q.closures, q.zone, a.start, a.end)
    <3>1. a.start \in Int /\ a.end \in Int /\ a.start < a.end
      BY <2>1 DEF CoverageIsMeant, Spans
    <3>2. ASSUME NEW t \in a.start .. (a.end - 1)
          PROVE  Covers(I, t) <=> OnShift(q.periods, q.zone, t) \/ Covers(q.openings, t)
      <4>1. t \in Int /\ first <= t /\ t < last
        BY <2>4, <2>5, <3>1
      <4>2. Covers(Working(q.periods, dates, q.zone), t) <=> OnShift(q.periods, q.zone, t)
        BY <2>1, <2>4, <2>5, <2>7, <2>8, <4>1, DatesSuffice
      <4> QED  BY <4>2, CoversUnion
    <3> HIDE DEF I
    <3>3. Inside(Subtract(Normalize(I), q.closures), a)
          <=> \A t \in a.start .. (a.end - 1) : Covers(I, t) /\ ~Covers(q.closures, t)
      BY <2>1, <2>10, <3>1, FreeIs
    <3> QED  BY <3>2, <3>3 DEF Kept
  <2>12. FindUncovered(q) = {a.id : a \in {x \in q.appointments :
                                 ~Inside(Subtract(Normalize(I), q.closures), x)}}
    BY <1>2 DEF FindUncovered, first, last, dates
  <2> HIDE DEF I
  <2> QED  BY <2>11, <2>12
<1> QED  BY <1>1, <1>2

LEMMA WorkingIsOnShift ==
    ASSUME NEW zone, NEW periods, NEW dates, dates \subseteq Int, NEW t,
           Covers(Working(periods, dates, zone), t)
    PROVE  OnShift(periods, zone, t)
<1>1. PICK i \in Working(periods, dates, zone) : i.start <= t /\ t < i.end
  BY DEF Covers
<1>2. PICK pd \in periods \X dates : AppliesOn(pd[1], pd[2])
                                     /\ i = PeriodToInterval(pd[1], pd[2], zone)
  BY <1>1 DEF Working
<1>3. pd[1] \in periods /\ pd[2] \in Int
  BY <1>2
<1> QED  BY <1>1, <1>2, <1>3 DEF OnShift

\* What is offered is kept: the buffers around it are free as well.
LEMMA OfferIsKept ==
    ASSUME NEW q, QueryIsMeant(q), NEW start \in GenerateSlots(q)
    PROVE  start \in Int
           /\ Kept(q.periods, q.openings, q.closures, q.zone, start, start + q.service.duration)
<1>1. start \in Int
  BY DEF GenerateSlots
<1>2. \A t \in Busied(q, start) : Free(q, t)
  BY <1>1, SlotIs
<1>3. q.service.duration \in Int /\ q.service.before \in Nat /\ q.service.after \in Nat
      /\ q.dateFrom \in Int /\ q.dateTo \in Int
  BY DEF QueryIsMeant
<1>4. start .. (start + q.service.duration - 1) \subseteq Busied(q, start)
  BY <1>1, <1>3 DEF Busied
<1>5. ASSUME NEW t \in start .. (start + q.service.duration - 1)
      PROVE  /\ OnShift(q.periods, q.zone, t) \/ Covers(q.openings, t)
             /\ ~Covers(q.closures, t)
  <2>1. Covers(OpenOf(q), t) /\ ~Covers(BusyOf(q), t)
    BY <1>2, <1>4 DEF Free
  <2>2. ~Covers(q.closures, t)
    BY <2>1, CoversUnion DEF BusyOf
  <2>3. CASE Covers(q.openings, t)
    BY <2>2, <2>3
  <2>4. CASE ~Covers(q.openings, t)
    <3>1. Covers(Working(q.periods, (q.dateFrom - 1) .. q.dateTo, q.zone), t)
      BY <2>1, <2>4, CoversUnion DEF OpenOf
    <3>2. (q.dateFrom - 1) .. q.dateTo \subseteq Int
      OBVIOUS
    <3>3. OnShift(q.periods, q.zone, t)
      BY <3>1, <3>2, WorkingIsOnShift
    <3> QED  BY <2>2, <3>3
  <2> QED  BY <2>3, <2>4
<1>6. (start + q.service.duration) - 1 = start + q.service.duration - 1
  BY <1>1, <1>3
<1>7. Kept(q.periods, q.openings, q.closures, q.zone, start, start + q.service.duration)
  BY ONLY <1>5, <1>6 DEF Kept
<1> QED  BY <1>1, <1>7

(***************************************************************************)
(* The state.                                                              *)
(***************************************************************************)
Row == Drafts \cup {NoException}
\* Appointments and edits, and what is known of one by where it stands.
BookingRecord ==
    [at : {"none", "checked", "booked"}, service : Services \cup {None}, site : Places,
     start : Int, stale : BOOLEAN]
EditorRecord ==
    [at : {"idle", "reading", "refused", "write"}, week : Weeks \cup {{}}, seen : Weeks \cup {{}},
     row : Row, id : Exceptions \cup {New, None}, listed : SUBSET Bookings, stale : BOOLEAN]

Shaped ==
    /\ hours \in Weeks /\ now \in Int
    /\ exception \in [Exceptions -> Row]
    /\ booking \in [Bookings -> BookingRecord]
    /\ editor \in [Editors -> EditorRecord]

\* What a booking and an editor have with them, by where they stand.
BookingMeans(r) ==
    /\ r.at # "none" => r.service \in Services
    /\ r.stale => r.at = "checked"
EditorMeans(r) ==
    /\ r.at = "idle" => r = Idle
    /\ r.at = "reading" => r.id = None
    /\ r.at # "idle" /\ r.id = None => r.week \in Weeks
    /\ r.at # "idle" /\ r.id # None => r.row \in Drafts
    /\ r.at = "refused" => r.listed # {}

Typing ==
    /\ Shaped
    /\ \A b \in Bookings : BookingMeans(booking[b])
    /\ \A e \in Editors : EditorMeans(editor[e])
    /\ unlisted \subseteq excused
    /\ \A b \in excused : b \in Bookings /\ booking[b].at = "booked"

LEMMA TypingImpliesTypeOK == Typing => TypeOK
<1> SUFFICES ASSUME Typing PROVE TypeOK
  OBVIOUS
<1>1. \A x \in Exceptions : exception[x] \in Drafts \cup {NoException}
  BY DEF Typing, Shaped, Row
<1>2. \A b \in Bookings :
          /\ booking[b].at \in {"none", "checked", "booked"}
          /\ booking[b].at # "none" => booking[b].service \in Services /\ booking[b].site \in Places
          /\ booking[b].stale => booking[b].at = "checked"
  BY DEF Typing, Shaped, BookingRecord, BookingMeans
<1>3. \A e \in Editors :
          /\ editor[e].at \in {"idle", "reading", "refused", "write"}
          /\ editor[e].at = "refused" => editor[e].listed # {}
  BY DEF Typing, Shaped, EditorRecord, EditorMeans
<1>4. hours \in Weeks /\ unlisted \subseteq excused
  BY DEF Typing, Shaped
<1>5. \A b \in excused : booking[b].at = "booked"
  BY DEF Typing
<1> QED  BY ONLY <1>1, <1>2, <1>3, <1>4, <1>5 DEF TypeOK

LEMMA Distinct ==
    /\ New \notin Exceptions /\ New # None /\ None \notin Exceptions
    /\ \A row \in Drafts : row # NoException /\ row.start \in Int /\ row.end \in Int
                           /\ row.type \in Kinds
    /\ NoException.start \in Int /\ NoException.end \in Int /\ NoException.type \notin Kinds
    /\ None \in Places
<1>1. NoException.type = None /\ NoException.start = 0 /\ NoException.end = 0
  BY DEF NoException
<1> QED  BY <1>1, ScheduleAssumption DEF Places

LEMMA WeekHasTimes ==
    ASSUME NEW week \in Weeks, NEW periods, periods \subseteq week
    PROVE  Times(periods)
<1>1. IsFiniteSet(periods)
  BY ScheduleAssumption, FS_Subset
<1>2. \A p \in periods : p \in Periods
  BY DEF Periods
<1> QED  BY <1>1, <1>2, ScheduleAssumption DEF Times

LEMMA TermsAre ==
    ASSUME NEW service \in Services
    PROVE  /\ Terms[service].duration \in Int /\ 0 < Terms[service].duration
           /\ Terms[service].duration <= DayLength
           /\ Terms[service].before \in Nat /\ Terms[service].after \in Nat
           /\ Terms[service].notice \in Nat /\ Terms[service].advance \in Nat
<1>1. Terms[service].duration \in 1 .. DayLength
      /\ {Terms[service].before, Terms[service].after} \subseteq Nat
      /\ {Terms[service].notice, Terms[service].advance} \subseteq Nat
  BY ScheduleAssumption
<1> QED  BY <1>1, SlotsAssumption

LEMMA RowsSpan ==
    ASSUME Shaped, NEW ids, ids \subseteq Exceptions
    PROVE  Spans({exception[x] : x \in ids})
<1>1. IsFiniteSet(ids)
  BY ScheduleAssumption, FS_Subset
<1>2. IsFiniteSet({exception[x] : x \in ids})
  BY <1>1, ImageIsFinite
<1>3. \A x \in ids : exception[x] \in Drafts \cup {NoException}
  BY DEF Shaped, Row
<1>4. \A x \in ids : exception[x].start \in Int /\ exception[x].end \in Int
  BY <1>3, Distinct
<1> QED  BY <1>2, <1>4 DEF Spans

LEMMA SpansSubset ==
    ASSUME NEW I, Spans(I), NEW J, J \subseteq I
    PROVE  Spans(J)
BY FS_Subset DEF Spans

\* Searches ask what the engine is meant to answer.
LEMMA QueryMeans ==
    ASSUME Typing, NEW service \in Services, NEW site \in Places,
           NEW dateFrom \in Int, NEW dateTo \in Int
    PROVE  LET q == Query(service, site, dateFrom, dateTo)
           IN  /\ QueryIsMeant(q) /\ q.zone = Zones[site] /\ q.service = Terms[service]
<1> DEFINE q == Query(service, site, dateFrom, dateTo)
           ids == Spanning(DayLength * (dateFrom - 2), DayLength * (dateTo + 2))
           relevant == {exception[x] : x \in ids}
           inScope == {r \in relevant : r.site \in {None, site} /\ r.service \in {None, service}}
<1>1. /\ q.periods = PeriodsFor(site)
      /\ q.openings = {r \in inScope : r.type = "ADDITIONAL_AVAILABILITY"}
      /\ q.closures = {r \in inScope : r.type = "UNAVAILABLE"}
      /\ q.taken = {OccupiedBy(b) : b \in Booked}
      /\ q.service = Terms[service] /\ q.step = Step /\ q.zone = Zones[site]
      /\ q.dateFrom = dateFrom /\ q.dateTo = dateTo /\ q.now = now
      /\ q.notice = Terms[service].notice /\ q.advance = Terms[service].advance
  BY DEF Query
<1>2. Times(q.periods)
  BY <1>1, WeekHasTimes DEF PeriodsFor, Typing, Shaped
<1>3. Followed(q.zone) /\ q.step \in Nat \ {0}
  BY <1>1, ScheduleAssumption
<1>4. Spans(relevant)
  BY RowsSpan DEF Spanning, Typing
<1>5. Spans(q.openings) /\ Spans(q.closures)
  BY <1>1, <1>4, SpansSubset
<1>6. Spans(q.taken)
  <2> DEFINE f == [b \in Booked |-> OccupiedBy(b)]
  <2>1. q.taken = {f[b] : b \in Booked}
    BY <1>1
  <2>2. IsFiniteSet(Booked)
    BY ScheduleAssumption, FS_Subset DEF Booked
  <2>3. IsFiniteSet(q.taken)
    <3> HIDE DEF f, q
    <3> QED  BY <2>1, <2>2, ImageIsFinite
  <2>4. ASSUME NEW b \in Booked
        PROVE  OccupiedBy(b).start \in Int /\ OccupiedBy(b).end \in Int
    <3>1. booking[b].start \in Int /\ booking[b].service \in Services
      BY DEF Booked, Typing, BookingMeans, Shaped, BookingRecord
    <3> QED  BY <3>1, TermsAre DEF OccupiedBy, Occupied, Interval
  <2> HIDE DEF q, f
  <2> QED  BY <1>1, <2>3, <2>4 DEF Spans
<1>7. q.dateFrom \in Int /\ q.dateTo \in Int /\ q.now \in Int /\ q.notice \in Int
      /\ q.advance \in Int
  BY <1>1, TermsAre DEF Typing, Shaped
<1>8. q.service.duration \in Int /\ 0 < q.service.duration
      /\ q.service.before \in Nat /\ q.service.after \in Nat
  BY <1>1, TermsAre
<1> HIDE DEF q
<1>9. QueryIsMeant(q)
  BY <1>2, <1>3, <1>5, <1>6, <1>7, <1>8 DEF QueryIsMeant
<1> QED  BY <1>1, <1>9 DEF q

LEMMA SearchesMatch ==
    (\A site \in Places : MidnightOnce(Zones[site])) /\ Typing => SlotsMatchReference
<1> SUFFICES ASSUME \A site \in Places : MidnightOnce(Zones[site]), Typing,
                    NEW service \in Services, NEW site \in Places
             PROVE  Offers(service, site) = RefSlots(Search(service, site))
  BY DEF SlotsMatchReference
<1> DEFINE q == Query(service, site, 1, 2)
<1>1. QueryIsMeant(q) /\ q.zone = Zones[site]
  BY QueryMeans
<1>2. MidnightOnce(q.zone)
  BY <1>1
<1> HIDE DEF q
<1>3. GenerateSlots(q) = RefSlots(q)
  BY <1>1, <1>2, SlotsAreReference
<1> QED  BY <1>3 DEF q, Offers, Search

LEMMA ReadingsResolve == Typing => EveryReadingResolves
<1> SUFFICES ASSUME Typing, NEW site \in Places, NEW p \in hours, NEW date \in 0 .. 3,
                    NEW time \in {p.from, p.to}
             PROVE  InstantOf(date, time, Zones[site])
                    = RefResolve(DayLength * date + time, Zones[site])
  BY DEF EveryReadingResolves
<1>1. Times(hours)
  BY WeekHasTimes DEF Typing, Shaped
<1>2. time \in Int /\ DayLength \in Int
  BY <1>1, SlotsAssumption DEF Times
<1>3. DayLength * date + time \in Int
  BY <1>2
<1>4. Followed(Zones[site])
  BY ScheduleAssumption
<1> QED  BY <1>3, <1>4, ResolveIs, RefResolveIs DEF InstantOf

LEMMA OffersCovered == Typing => OffersAreCovered
<1> SUFFICES ASSUME Typing, NEW service \in Services, NEW site \in Places,
                    NEW start \in Offers(service, site)
             PROVE  Strands(Search(service, site), start) = {}
  BY DEF OffersAreCovered
<1> DEFINE q == Query(service, site, 1, 2)
           a == [id |-> start, start |-> start, end |-> start + q.service.duration]
           c == [periods |-> q.periods, openings |-> q.openings, closures |-> q.closures,
                 zone |-> q.zone, appointments |-> {a}]
<1>1. QueryIsMeant(q)
  BY QueryMeans
<1>2. start \in GenerateSlots(q) /\ Strands(Search(service, site), start) = FindUncovered(c)
  BY DEF Offers, Search, Strands
<1> HIDE DEF q
<1>3. c.periods = q.periods /\ c.openings = q.openings /\ c.closures = q.closures
      /\ c.zone = q.zone /\ c.appointments = {a}
      /\ a.start = start /\ a.end = start + q.service.duration
  OBVIOUS
<1>4. start \in Int
      /\ Kept(q.periods, q.openings, q.closures, q.zone, start, start + q.service.duration)
  BY <1>1, <1>2, OfferIsKept
<1>5. a.end \in Int /\ a.start < a.end
  BY <1>1, <1>3, <1>4 DEF QueryIsMeant
<1> HIDE DEF a, c
<1>6. IsFiniteSet(c.appointments)
  BY <1>3, FS_Singleton
<1>7. CoverageIsMeant(c)
  BY <1>1, <1>3, <1>4, <1>5, <1>6 DEF CoverageIsMeant, QueryIsMeant, Spans
<1>8. \A x \in c.appointments : Kept(c.periods, c.openings, c.closures, c.zone, x.start, x.end)
  BY <1>3, <1>4
<1>9. FindUncovered(c) = {}
  BY <1>7, <1>8, UncoveredIs
<1> QED  BY <1>2, <1>9

(***************************************************************************)
(* What a schedule strands.                                                *)
(***************************************************************************)
\* What a week and exceptions say of a place, and whether they keep an appointment.
Opened(rows, site) ==
    {r \in rows : r.site \in {None, site} /\ r.type = "ADDITIONAL_AVAILABILITY"}
Closed(rows, site) == {r \in rows : r.site \in {None, site} /\ r.type = "UNAVAILABLE"}
At(week, site) == {p \in week : p.site \in {None, site}}
Safe(week, rows, site, start, end) ==
    Kept(At(week, site), Opened(rows, site), Closed(rows, site), Zones[site], start, end)
SafeOf(week, rows, b) ==
    Safe(week, rows, booking[b].site, booking[b].start,
         booking[b].start + Terms[booking[b].service].duration)

\* Every exception concerns all services.
ForEveryService == \A row \in Drafts : row.service = None

\* The check of a group of appointments judges each by itself, as long as no
\* exception is of one service: those count for the whole group.
LEMMA JudgeIs ==
    ASSUME Typing, NEW week \in Weeks, NEW rows, Spans(rows), \A r \in rows : r.service = None,
           NEW site \in Places, NEW group \in SUBSET Booked,
           \A b \in group : booking[b].site = site
    PROVE  Judge(week, rows, group, site) = {b \in group : ~SafeOf(week, rows, b)}
<1> DEFINE inScope == {r \in rows : /\ r.site \in {None, site}
                                    /\ r.service \in {None} \cup {booking[b].service : b \in group}}
           q == [periods |-> {p \in week : p.site \in {None, site}},
                 openings |-> {r \in inScope : r.type = "ADDITIONAL_AVAILABILITY"},
                 closures |-> {r \in inScope : r.type = "UNAVAILABLE"},
                 appointments |-> {AppointmentOf(b) : b \in group},
                 zone |-> Zones[site]]
           f == [b \in group |-> AppointmentOf(b)]
<1>1. Judge(week, rows, group, site) = FindUncovered(q)
  BY DEF Judge
<1>2. /\ q.periods = At(week, site) /\ q.openings = Opened(rows, site)
      /\ q.closures = Closed(rows, site) /\ q.zone = Zones[site]
      /\ q.appointments = {AppointmentOf(b) : b \in group}
  BY DEF At, Opened, Closed
<1>3. \A b \in group : booking[b].start \in Int /\ booking[b].service \in Services
  BY DEF Booked, Typing, BookingMeans, Shaped, BookingRecord
<1>4. \A b \in group : /\ AppointmentOf(b).id = b
                       /\ AppointmentOf(b).start = booking[b].start
                       /\ AppointmentOf(b).end = booking[b].start + Terms[booking[b].service].duration
  BY DEF AppointmentOf
<1>5. \A b \in group : AppointmentOf(b).start \in Int /\ AppointmentOf(b).end \in Int
                       /\ AppointmentOf(b).start < AppointmentOf(b).end
  BY <1>3, <1>4, TermsAre
<1>6. IsFiniteSet({AppointmentOf(b) : b \in group})
  <2>1. IsFiniteSet(group)
    BY ScheduleAssumption, FS_Subset DEF Booked
  <2>2. {AppointmentOf(b) : b \in group} = {f[b] : b \in group}
    OBVIOUS
  <2> HIDE DEF f
  <2>3. IsFiniteSet({f[b] : b \in group})
    BY <2>1, ImageIsFinite
  <2> QED  BY <2>2, <2>3
<1> HIDE DEF q
<1>7. CoverageIsMeant(q)
  <2>1. Times(q.periods)
    BY <1>2, WeekHasTimes DEF At
  <2>2. Followed(q.zone)
    BY <1>2, ScheduleAssumption
  <2>3. Spans(q.openings) /\ Spans(q.closures)
    BY <1>2, SpansSubset DEF Opened, Closed
  <2>4. Spans(q.appointments) /\ \A a \in q.appointments : a.start < a.end
    BY <1>2, <1>5, <1>6 DEF Spans
  <2> QED  BY <2>1, <2>2, <2>3, <2>4 DEF CoverageIsMeant
<1>8. FindUncovered(q) =
        {a.id : a \in {x \in q.appointments :
                          ~Kept(q.periods, q.openings, q.closures, q.zone, x.start, x.end)}}
  BY <1>7, UncoveredIs
<1>9. ASSUME NEW b \in group
      PROVE  SafeOf(week, rows, b) <=>
             Kept(q.periods, q.openings, q.closures, q.zone,
                  AppointmentOf(b).start, AppointmentOf(b).end)
  BY <1>2, <1>4 DEF SafeOf, Safe
<1>10. FindUncovered(q) = {b \in group : ~SafeOf(week, rows, b)}
  <2>1. \A b : b \in FindUncovered(q) <=>
               \E g \in group : b = AppointmentOf(g).id /\ ~SafeOf(week, rows, g)
    BY <1>2, <1>8, <1>9
  <2> QED  BY <1>4, <2>1
<1> QED  BY <1>1, <1>10

\* The check of all of them, place by place, does too.
LEMMA StrandedAre ==
    ASSUME Typing, NEW week \in Weeks, NEW rows, Spans(rows), \A r \in rows : r.service = None,
           NEW bs \in SUBSET Booked
    PROVE  Uncovered(week, rows, bs) = {b \in bs : ~SafeOf(week, rows, b)}
<1>1. ASSUME NEW site \in Places
      PROVE  Judge(week, rows, AtSite(bs, site), site)
             = {b \in AtSite(bs, site) : ~SafeOf(week, rows, b)}
  BY JudgeIs DEF AtSite
<1>2. \A b \in bs : booking[b].site \in Places
  BY DEF Booked, Typing, Shaped, BookingRecord
<1>3. \A b : b \in Uncovered(week, rows, bs) <=>
             \E site \in Places : b \in bs /\ booking[b].site = site /\ ~SafeOf(week, rows, b)
  BY <1>1 DEF Uncovered, AtSite
<1> QED  BY <1>2, <1>3

\* More openings and fewer closures keep what was kept.
LEMMA SafeGrows ==
    ASSUME NEW week, NEW rows, NEW more,
           \A r \in rows : r.type = "ADDITIONAL_AVAILABILITY" => r \in more,
           \A r \in more : r.type = "UNAVAILABLE" => r \in rows,
           NEW site, NEW start, NEW end, Safe(week, rows, site, start, end)
    PROVE  Safe(week, more, site, start, end)
<1>1. Opened(rows, site) \subseteq Opened(more, site) /\ Closed(more, site) \subseteq Closed(rows, site)
  BY DEF Opened, Closed
<1>2. \A t : /\ Covers(Opened(rows, site), t) => Covers(Opened(more, site), t)
             /\ Covers(Closed(more, site), t) => Covers(Closed(rows, site), t)
  BY <1>1 DEF Covers
<1> QED  BY <1>2 DEF Safe, Kept

(***************************************************************************)
(* Types.                                                                  *)
(***************************************************************************)
LEMMA TypingNext ==
    /\ hours' \in Weeks /\ now' \in Int
    /\ exception' \in [Exceptions -> Row]
    /\ booking' \in [Bookings -> BookingRecord]
    /\ editor' \in [Editors -> EditorRecord]
    /\ \A b \in Bookings : BookingMeans(booking'[b])
    /\ \A e \in Editors : EditorMeans(editor'[e])
    /\ unlisted' \subseteq excused'
    /\ \A b \in excused' : b \in Bookings /\ booking'[b].at = "booked"
    => Typing'
BY DEF Typing, Shaped, BookingMeans, EditorMeans

LEMMA StaleEditorsMean ==
    ASSUME NEW f \in [Editors -> EditorRecord], \A e \in Editors : EditorMeans(f[e])
    PROVE  /\ StaleEditors(f) \in [Editors -> EditorRecord]
           /\ \A e \in Editors : EditorMeans(StaleEditors(f)[e])
<1> SUFFICES ASSUME NEW e \in Editors
             PROVE  LET r == IF f[e].at = "write" /\ f[e].listed = {}
                             THEN [f[e] EXCEPT !.stale = TRUE] ELSE f[e]
                    IN  r \in EditorRecord /\ EditorMeans(r)
  BY DEF StaleEditors
<1>1. f[e] \in EditorRecord /\ EditorMeans(f[e])
  OBVIOUS
<1> QED  BY <1>1 DEF EditorRecord, EditorMeans

LEMMA StaleBookingsMean ==
    ASSUME NEW f \in [Bookings -> BookingRecord], \A b \in Bookings : BookingMeans(f[b])
    PROVE  /\ StaleBookings(f) \in [Bookings -> BookingRecord]
           /\ \A b \in Bookings : /\ BookingMeans(StaleBookings(f)[b])
                                  /\ StaleBookings(f)[b].at = f[b].at
                                  /\ StaleBookings(f)[b].site = f[b].site
                                  /\ StaleBookings(f)[b].service = f[b].service
                                  /\ StaleBookings(f)[b].start = f[b].start
                                  /\ f[b].at = "checked" => StaleBookings(f)[b].stale
<1> SUFFICES ASSUME NEW b \in Bookings
             PROVE  LET r == IF f[b].at = "checked" THEN [f[b] EXCEPT !.stale = TRUE] ELSE f[b]
                    IN  /\ r \in BookingRecord /\ BookingMeans(r)
                        /\ r.at = f[b].at /\ r.site = f[b].site /\ r.service = f[b].service
                        /\ r.start = f[b].start
                        /\ f[b].at = "checked" => r.stale
  BY DEF StaleBookings
<1>1. f[b] \in BookingRecord /\ BookingMeans(f[b])
  OBVIOUS
<1> QED  BY <1>1 DEF BookingRecord, BookingMeans

LEMMA IdleMeans == Idle \in EditorRecord /\ EditorMeans(Idle)
BY DEF Idle, EditorRecord, EditorMeans, Row

LEMMA NoBookingMeans == NoBooking \in BookingRecord /\ BookingMeans(NoBooking)
BY Distinct DEF NoBooking, BookingRecord, BookingMeans

\* The check names appointments it was asked about.
LEMMA UncoveredAre ==
    ASSUME NEW week, NEW rows, NEW bs
    PROVE  Uncovered(week, rows, bs) \subseteq bs
<1> SUFFICES ASSUME NEW site \in Places, NEW b \in Judge(week, rows, AtSite(bs, site), site)
             PROVE  b \in bs
  BY DEF Uncovered
<1> DEFINE group == AtSite(bs, site)
           apps == {AppointmentOf(x) : x \in group}
<1>1. \A q : \A x \in FindUncovered(q) : \E y \in q.appointments : x = y.id
  BY DEF FindUncovered
<1>2. \E y \in apps : b = y.id
  BY <1>1 DEF Judge
<1>3. PICK x \in group : b = AppointmentOf(x).id
  BY <1>2
<1> QED  BY <1>3 DEF AppointmentOf, AtSite

LEMMA AffectedAre ==
    /\ \A week : AffectedByWeek(week) \subseteq Booked
    /\ \A x, row : /\ AffectedByRow(x, row) \subseteq Booked
                   /\ row.type # "UNAVAILABLE" => AffectedByRow(x, row) = {}
BY UncoveredAre DEF AffectedByWeek, AffectedByRow, Future

LEMMA InitTyping == Init => Typing
<1> SUFFICES ASSUME Init PROVE Typing
  OBVIOUS
<1>1. hours \in Weeks /\ now \in Int
  BY ScheduleAssumption DEF Init
<1>2. exception \in [Exceptions -> Row]
  BY DEF Init, Row
<1>3. booking \in [Bookings -> BookingRecord] /\ \A b \in Bookings : BookingMeans(booking[b])
  BY NoBookingMeans DEF Init
<1>4. editor \in [Editors -> EditorRecord] /\ \A e \in Editors : EditorMeans(editor[e])
  BY IdleMeans DEF Init
<1>5. unlisted \subseteq excused /\ \A b \in excused : b \in Bookings /\ booking[b].at = "booked"
  BY DEF Init
<1> QED  BY <1>1, <1>2, <1>3, <1>4, <1>5 DEF Typing, Shaped

\* Each action keeps the types.
LEMMA CheckTypes ==
    ASSUME Typing, NEW b \in Bookings, NEW service \in Services, NEW site \in Places,
           Check(b, service, site)
    PROVE  Typing'
<1>1. PICK day \in Days : \E start \in IsOffered(service, site, day) :
          booking' = [booking EXCEPT ![b] = [at |-> "checked", service |-> service, site |-> site,
                                             start |-> start, stale |-> FALSE]]
  BY DEF Check
<1>2. PICK start \in IsOffered(service, site, day) :
          booking' = [booking EXCEPT ![b] = [at |-> "checked", service |-> service, site |-> site,
                                             start |-> start, stale |-> FALSE]]
  BY <1>1
<1>3. start \in Int
  BY DEF IsOffered, GenerateSlots
<1> DEFINE r == [at |-> "checked", service |-> service, site |-> site,
                 start |-> start, stale |-> FALSE]
<1>4. r \in BookingRecord /\ BookingMeans(r)
  BY <1>3 DEF BookingRecord, BookingMeans
<1> HIDE DEF r
<1>5. booking' \in [Bookings -> BookingRecord] /\ \A x \in Bookings : BookingMeans(booking'[x])
  BY <1>2, <1>4 DEF r, Typing, Shaped
<1>6. \A x \in excused' : x \in Bookings /\ booking'[x].at = "booked"
  BY <1>2 DEF Check, Typing, Shaped, ghosts
<1> QED  BY <1>5, <1>6, TypingNext DEF Check, Typing, Shaped, ghosts

LEMMA BookTypes ==
    ASSUME Typing, NEW b \in Bookings, Book(b)
    PROVE  Typing'
<1>1. CASE booking' = [booking EXCEPT ![b] = NoBooking] /\ UNCHANGED <<editor, exposed>>
  <2>1. booking' \in [Bookings -> BookingRecord] /\ \A x \in Bookings : BookingMeans(booking'[x])
    BY <1>1, NoBookingMeans DEF Typing, Shaped
  <2>2. \A x \in excused' : x \in Bookings /\ booking'[x].at = "booked"
    BY <1>1 DEF Book, Typing, Shaped
  <2> QED  BY <1>1, <2>1, <2>2, TypingNext DEF Book, Typing, Shaped
<1>2. CASE /\ booking' = [booking EXCEPT ![b].at = "booked", ![b].stale = FALSE]
           /\ editor' = StaleEditors(editor)
  <2> DEFINE r == [booking[b] EXCEPT !.at = "booked", !.stale = FALSE]
  <2>1. booking' = [booking EXCEPT ![b] = r]
    BY <1>2 DEF Typing, Shaped
  <2>a. booking[b] \in BookingRecord /\ BookingMeans(booking[b]) /\ booking[b].at = "checked"
    BY DEF Book, Typing, Shaped
  <2>b. r \in BookingRecord
    BY <2>a DEF BookingRecord
  <2>c. r.at = "booked" /\ r.stale = FALSE /\ r.service = booking[b].service
    BY <2>a DEF BookingRecord
  <2>2. r \in BookingRecord /\ BookingMeans(r) /\ r.at = "booked"
    BY <2>a, <2>b, <2>c DEF BookingMeans
  <2> HIDE DEF r
  <2>3. booking' \in [Bookings -> BookingRecord] /\ \A x \in Bookings : BookingMeans(booking'[x])
    BY <2>1, <2>2 DEF Typing, Shaped
  <2>4. \A x \in excused' : x \in Bookings /\ booking'[x].at = "booked"
    BY <2>1, <2>2 DEF Book, Typing, Shaped
  <2>5. editor' \in [Editors -> EditorRecord] /\ \A e \in Editors : EditorMeans(editor'[e])
    BY <1>2, StaleEditorsMean DEF Typing, Shaped
  <2> QED  BY <2>3, <2>4, <2>5, TypingNext DEF Book, Typing, Shaped
<1> QED  BY <1>1, <1>2 DEF Book

LEMMA CancelTypes ==
    ASSUME Typing, NEW b \in Bookings, Cancel(b)
    PROVE  Typing'
<1>1. booking' \in [Bookings -> BookingRecord] /\ \A x \in Bookings : BookingMeans(booking'[x])
  BY NoBookingMeans DEF Typing, Shaped, Cancel
<1>2. \A x \in excused' : x \in Bookings /\ booking'[x].at = "booked"
  BY DEF Cancel, Typing, Shaped
<1>3. unlisted' \subseteq excused'
  BY DEF Cancel, Typing
<1> QED  BY <1>1, <1>2, <1>3, TypingNext DEF Cancel, Typing, Shaped

\* A step of one editor that leaves the diary alone.
LEMMA EditorTypes ==
    ASSUME Typing, NEW e \in Editors, NEW r, r \in EditorRecord, EditorMeans(r),
           editor' = [editor EXCEPT ![e] = r],
           UNCHANGED <<hours, exception, booking, now, ghosts>>
    PROVE  Typing'
<1>1. editor' \in [Editors -> EditorRecord] /\ \A x \in Editors : EditorMeans(editor'[x])
  BY DEF Typing, Shaped
<1> QED  BY <1>1, TypingNext DEF Typing, Shaped, ghosts

LEMMA ReadTypes ==
    ASSUME Typing, NEW e \in Editors, NEW week \in Weeks, Read(e, week)
    PROVE  Typing'
<1> DEFINE r == [editor[e] EXCEPT !.at = "reading", !.seen = hours, !.week = week]
<1>1. editor[e] \in EditorRecord /\ editor[e] = Idle /\ hours \in Weeks
  BY DEF Typing, Shaped, Read, EditorMeans
<1>2. editor' = [editor EXCEPT ![e] = r]
  BY DEF Read, Typing, Shaped
<1>3. r \in EditorRecord /\ r.at = "reading" /\ r.id = None /\ r.week = week
  <2>1. editor[e].id = None
    BY <1>1 DEF Idle
  <2>2. r \in EditorRecord /\ r.at = "reading" /\ r.week = week /\ r.id = editor[e].id
    BY <1>1 DEF EditorRecord
  <2> QED  BY <2>1, <2>2
<1> HIDE DEF r
<1>4. EditorMeans(r)
  BY <1>3 DEF EditorMeans
<1>5. UNCHANGED <<hours, exception, booking, now, ghosts>>
  BY DEF Read
<1> QED  BY <1>2, <1>3, <1>4, <1>5, EditorTypes

\* A first sending, judged.
LEMMA JudgedTypes ==
    ASSUME Typing, NEW e \in Editors, NEW sent \in EditorRecord, NEW affected \in SUBSET Bookings,
           sent.id = None => sent.week \in Weeks, sent.id # None => sent.row \in Drafts,
           Judged(e, sent, affected)
    PROVE  Typing'
<1> DEFINE r == [sent EXCEPT !.at = IF affected = {} THEN "write" ELSE "refused",
                             !.listed = affected]
<1>1. r \in EditorRecord /\ r.listed = affected /\ r.id = sent.id /\ r.week = sent.week
      /\ r.row = sent.row /\ r.at = (IF affected = {} THEN "write" ELSE "refused")
  BY DEF EditorRecord
<1>2. editor' = [editor EXCEPT ![e] = r]
  BY DEF Judged
<1> HIDE DEF r
<1>3. EditorMeans(r)
  BY <1>1 DEF EditorMeans
<1>4. UNCHANGED <<hours, exception, booking, now, ghosts>>
  BY DEF Judged
<1> QED  BY <1>1, <1>2, <1>3, <1>4, EditorTypes

LEMMA SendWeekTypes ==
    ASSUME Typing, NEW e \in Editors, SendWeek(e)
    PROVE  Typing'
<1>1. editor[e] \in EditorRecord /\ editor[e].id = None /\ editor[e].week \in Weeks
  BY DEF SendWeek, Typing, Shaped, EditorMeans
<1>2. AffectedByWeek(editor[e].week) \in SUBSET Bookings
  BY AffectedAre DEF Booked
<1>3. Judged(e, editor[e], AffectedByWeek(editor[e].week))
  BY DEF SendWeek
<1> HIDE DEF Judged, AffectedByWeek
<1> QED  BY <1>1, <1>2, <1>3, JudgedTypes

LEMMA SendRowTypes ==
    ASSUME Typing, NEW e \in Editors, NEW x \in Exceptions \cup {New}, NEW row \in Drafts,
           SendRow(e, x, row)
    PROVE  Typing'
<1> DEFINE sent == [Idle EXCEPT !.id = x, !.row = row]
<1>1. sent \in EditorRecord /\ sent.id = x /\ sent.row = row
  BY IdleMeans DEF EditorRecord, Row, Idle
<1>2. x # None
  BY Distinct
<1>3. AffectedByRow(x, row) \in SUBSET Bookings
  BY AffectedAre DEF Booked
<1>4. Judged(e, sent, AffectedByRow(x, row))
  BY DEF SendRow
<1> HIDE DEF sent
<1> QED  BY <1>1, <1>2, <1>3, <1>4, JudgedTypes

LEMMA AcknowledgeTypes ==
    ASSUME Typing, NEW e \in Editors, Acknowledge(e)
    PROVE  Typing'
<1> DEFINE r == [editor[e] EXCEPT !.at = "write"]
<1>1. editor' = [editor EXCEPT ![e] = r]
  BY DEF Acknowledge, Typing, Shaped
<1>2. r \in EditorRecord /\ EditorMeans(r)
  BY DEF Acknowledge, Typing, Shaped, EditorRecord, EditorMeans
<1>3. UNCHANGED <<hours, exception, booking, now, ghosts>>
  BY DEF Acknowledge
<1> HIDE DEF r
<1> QED  BY <1>1, <1>2, <1>3, EditorTypes

LEMMA GiveUpTypes ==
    ASSUME Typing, NEW e \in Editors, GiveUp(e)
    PROVE  Typing'
BY IdleMeans, EditorTypes DEF GiveUp

\* What a write leaves behind.
LEMMA WrittenTypes ==
    ASSUME Typing, NEW e \in Editors, NEW stranded, stranded \subseteq Booked, Written(e, stranded)
    PROVE  /\ booking' \in [Bookings -> BookingRecord]
           /\ editor' \in [Editors -> EditorRecord]
           /\ \A b \in Bookings : BookingMeans(booking'[b])
           /\ \A x \in Editors : EditorMeans(editor'[x])
           /\ unlisted' \subseteq excused'
           /\ \A b \in excused' : b \in Bookings /\ booking'[b].at = "booked"
           /\ now' \in Int
<1>1. /\ booking' \in [Bookings -> BookingRecord]
      /\ \A b \in Bookings : BookingMeans(booking'[b]) /\ booking'[b].at = booking[b].at
  BY StaleBookingsMean DEF Written, Typing, Shaped
<1>2. /\ editor' \in [Editors -> EditorRecord]
      /\ \A x \in Editors : EditorMeans(editor'[x])
  <2> DEFINE f == [editor EXCEPT ![e] = Idle]
  <2>1. f \in [Editors -> EditorRecord] /\ \A x \in Editors : EditorMeans(f[x])
    BY IdleMeans DEF Typing, Shaped
  <2>2. editor' = StaleEditors(f)
    BY DEF Written
  <2> HIDE DEF f
  <2> QED  BY <2>1, <2>2, StaleEditorsMean
<1>3. unlisted' \subseteq excused' /\ excused' \subseteq excused \cup stranded
  BY DEF Written, Typing
<1>4. \A b \in excused' : b \in Bookings /\ booking'[b].at = "booked"
  BY <1>1, <1>3 DEF Typing, Booked
<1>5. now' \in Int
  BY DEF Written, Typing, Shaped
<1> QED  BY <1>1, <1>2, <1>3, <1>4, <1>5

LEMMA WriteWeekTypes ==
    ASSUME Typing, NEW e \in Editors, WriteWeek(e)
    PROVE  Typing'
<1>1. CASE SeenIsStored(e)
  <2>1. Written(e, AffectedByWeek(editor[e].week)) /\ hours' = editor[e].week
        /\ UNCHANGED exception
    BY <1>1 DEF WriteWeek
  <2>2. hours' \in Weeks /\ exception' \in [Exceptions -> Row]
    BY <2>1 DEF WriteWeek, Typing, Shaped, EditorMeans
  <2> QED  BY <2>1, <2>2, AffectedAre, WrittenTypes, TypingNext
<1>2. CASE ~SeenIsStored(e)
  <2>1. editor' = [editor EXCEPT ![e] = Idle]
        /\ UNCHANGED <<hours, exception, booking, now, ghosts>>
    BY <1>2 DEF WriteWeek
  <2> QED  BY <2>1, IdleMeans, EditorTypes
<1> QED  BY <1>1, <1>2

LEMMA StoreRowTypes ==
    ASSUME Typing, NEW e \in Editors, NEW x \in Exceptions, editor[e].row \in Drafts,
           StoreRow(e, x)
    PROVE  Typing'
<1>1. Written(e, AffectedByRow(x, editor[e].row)) /\ UNCHANGED hours
      /\ exception' = [exception EXCEPT ![x] = editor[e].row]
  BY DEF StoreRow, Sent
<1>2. hours' \in Weeks /\ exception' \in [Exceptions -> Row]
  BY <1>1 DEF Typing, Shaped, Row
<1> QED  BY <1>1, <1>2, AffectedAre, WrittenTypes, TypingNext

LEMMA CreateRowTypes ==
    ASSUME Typing, NEW e \in Editors, NEW x \in Exceptions, CreateRow(e, x)
    PROVE  Typing'
<1>1. editor[e].row \in Drafts
  BY Distinct DEF CreateRow, Typing, EditorMeans
<1> QED  BY <1>1, StoreRowTypes DEF CreateRow

LEMMA UpdateRowTypes ==
    ASSUME Typing, NEW e \in Editors, UpdateRow(e)
    PROVE  Typing'
<1>1. editor[e].row \in Drafts /\ editor[e].id \in Exceptions
  BY Distinct DEF UpdateRow, Typing, EditorMeans
<1>2. CASE exception[editor[e].id] # NoException
  BY <1>1, <1>2, StoreRowTypes DEF UpdateRow
<1>3. CASE exception[editor[e].id] = NoException
  <2>1. editor' = [editor EXCEPT ![e] = Idle]
        /\ UNCHANGED <<hours, exception, booking, now, ghosts>>
    BY <1>3 DEF UpdateRow
  <2> QED  BY <2>1, IdleMeans, EditorTypes
<1> QED  BY <1>2, <1>3

LEMMA DeleteRowTypes ==
    ASSUME Typing, NEW x \in Exceptions, DeleteRow(x)
    PROVE  Typing'
<1>1. exception' \in [Exceptions -> Row]
  BY DEF DeleteRow, Typing, Shaped, Row
<1>2. /\ booking' \in [Bookings -> BookingRecord]
      /\ \A b \in Bookings : BookingMeans(booking'[b]) /\ booking'[b].at = booking[b].at
  BY StaleBookingsMean DEF DeleteRow, Typing, Shaped
<1>3. editor' \in [Editors -> EditorRecord] /\ \A e \in Editors : EditorMeans(editor'[e])
  BY StaleEditorsMean DEF DeleteRow, Typing, Shaped
<1>4. UNCHANGED <<hours, now, excused, unlisted>>
  BY DEF DeleteRow
<1>5. \A b \in excused' : b \in Bookings /\ booking'[b].at = "booked"
  BY <1>2, <1>4 DEF Typing
<1> QED  BY <1>1, <1>2, <1>3, <1>4, <1>5, TypingNext DEF Typing, Shaped

LEMMA TickTypes ==
    ASSUME Typing, Tick
    PROVE  Typing'
<1>1. now' \in Int
  BY ScheduleAssumption DEF Tick
<1> QED  BY <1>1, TypingNext DEF Tick, Typing, Shaped, ghosts

LEMMA StepTypes == Typing /\ [Next]_vars => Typing'
<1> SUFFICES ASSUME Typing, [Next]_vars PROVE Typing'
  OBVIOUS
<1>1. ASSUME NEW b \in Bookings, NEW service \in Services, NEW site \in Places,
             Check(b, service, site)
      PROVE  Typing'
  BY <1>1, CheckTypes
<1>2. ASSUME NEW b \in Bookings, Book(b) \/ Cancel(b) PROVE Typing'
  BY <1>2, BookTypes, CancelTypes
<1>3. ASSUME NEW e \in Editors, SendWeek(e) \/ Acknowledge(e) \/ GiveUp(e) PROVE Typing'
  BY <1>3, SendWeekTypes, AcknowledgeTypes, GiveUpTypes
<1>4. ASSUME NEW e \in Editors, WriteWeek(e) \/ UpdateRow(e) PROVE Typing'
  BY <1>4, WriteWeekTypes, UpdateRowTypes
<1>5. ASSUME NEW e \in Editors, NEW week \in Weeks, Read(e, week) PROVE Typing'
  BY <1>5, ReadTypes
<1>6. ASSUME NEW e \in Editors, NEW x \in Exceptions \cup {New}, NEW row \in Drafts,
             SendRow(e, x, row)
      PROVE  Typing'
  BY <1>6, SendRowTypes
<1>7. ASSUME NEW e \in Editors, NEW x \in Exceptions, CreateRow(e, x) PROVE Typing'
  BY <1>7, CreateRowTypes
<1>8. ASSUME NEW x \in Exceptions, DeleteRow(x) PROVE Typing'
  BY <1>8, DeleteRowTypes
<1>9. ASSUME Tick PROVE Typing'
  BY <1>9, TickTypes
<1>10. ASSUME UNCHANGED vars PROVE Typing'
  BY <1>10, TypingNext DEF vars, Typing, Shaped
<1> QED  BY <1>1, <1>2, <1>3, <1>4, <1>5, <1>6, <1>7, <1>8, <1>9, <1>10 DEF Next

LEMMA Typed == Spec => []Typing
BY InitTyping, StepTypes, PTL DEF Spec

(***************************************************************************)
(* Saving a week.                                                          *)
(***************************************************************************)
Builds == hours' # hours => \E e \in Editors : /\ editor[e].at = "write" /\ editor'[e] = Idle
                                            /\ editor[e].week = hours' /\ editor[e].seen = hours

\* Only an editor's own write saves a week, over the week the editor read.
LEMMA OnlyWriteWeekSaves == Typing /\ [Next]_vars => Builds
<1> SUFFICES ASSUME Typing, [Next]_vars, hours' # hours
             PROVE  \E e \in Editors : /\ editor[e].at = "write" /\ editor'[e] = Idle
                                       /\ editor[e].week = hours' /\ editor[e].seen = hours
  BY DEF Builds
<1>1. \E e \in Editors : WriteWeek(e)
  <2>1. ASSUME NEW b \in Bookings, NEW service, NEW site, Check(b, service, site)
        PROVE  UNCHANGED hours
    BY <2>1 DEF Check
  <2>2. ASSUME NEW b \in Bookings, Book(b) \/ Cancel(b) PROVE UNCHANGED hours
    BY <2>2 DEF Book, Cancel
  <2>3. ASSUME NEW e \in Editors, SendWeek(e) \/ Acknowledge(e) \/ GiveUp(e)
        PROVE  UNCHANGED hours
    BY <2>3 DEF SendWeek, Judged, Acknowledge, GiveUp
  <2>4. ASSUME NEW e \in Editors, UpdateRow(e) PROVE UNCHANGED hours
    BY <2>4 DEF UpdateRow, StoreRow
  <2>5. ASSUME NEW e \in Editors, NEW week, Read(e, week) PROVE UNCHANGED hours
    BY <2>5 DEF Read
  <2>6. ASSUME NEW e \in Editors, NEW x, NEW row, SendRow(e, x, row) PROVE UNCHANGED hours
    BY <2>6 DEF SendRow, Judged
  <2>7. ASSUME NEW e \in Editors, NEW x, CreateRow(e, x) PROVE UNCHANGED hours
    BY <2>7 DEF CreateRow, StoreRow
  <2>8. ASSUME NEW x, DeleteRow(x) \/ Tick \/ UNCHANGED vars PROVE UNCHANGED hours
    BY <2>8 DEF DeleteRow, Tick, vars
  <2> QED  BY <2>1, <2>2, <2>3, <2>4, <2>5, <2>6, <2>7, <2>8 DEF Next
<1>2. PICK e \in Editors : WriteWeek(e)
  BY <1>1
<1>3. editor[e].at = "write" /\ editor[e].seen = hours /\ hours' = editor[e].week
      /\ editor' = StaleEditors([editor EXCEPT ![e] = Idle])
  BY <1>2 DEF WriteWeek, SeenIsStored, Written
<1>4. Idle.at = "idle"
  BY DEF Idle
<1>5. editor'[e] = Idle
  BY <1>3, <1>4 DEF StaleEditors, Typing, Shaped
<1> QED  BY <1>3, <1>5

(***************************************************************************)
(* Nobody is stranded unnoticed.                                           *)
(***************************************************************************)
\* The same of any tables, so that one can speak of the next state's.
RowsIn(f, ids) == {f[x] : x \in {y \in ids : f[y] # NoException}}
SafeIn(week, rows, r) ==
    Safe(week, rows, r.site, r.start, r.start + Terms[r.service].duration)
Coming(r, t) == r.at = "booked" /\ r.start > t
JudgedAt(site, h) == site # None \/ \A p \in h : p.site = None

\* An appointment that is not covered is excused; what an editor or a booking has
\* checked, and nothing has put out of date since, still holds.
Excused(h, f, bk, t, ex) ==
    \A b \in Bookings : Coming(bk[b], t) => SafeIn(h, RowsIn(f, Exceptions), bk[b]) \/ b \in ex
FreshEdit(r, h, f, bk, t) ==
    r.at = "write" /\ r.listed = {} /\ ~r.stale =>
        \A b \in Bookings : Coming(bk[b], t) =>
            /\ r.id = None => SafeIn(r.week, RowsIn(f, Exceptions), bk[b])
            /\ r.id # None /\ r.row.type = "UNAVAILABLE" =>
                  SafeIn(h, RowsIn(f, Exceptions \ {r.id}) \cup {r.row}, bk[b])
FreshCheck(r, h, f) ==
    r.at = "checked" /\ ~r.stale /\ JudgedAt(r.site, h) => SafeIn(h, RowsIn(f, Exceptions), r)

Trusted ==
    /\ Excused(hours, exception, booking, now, excused)
    /\ \A e \in Editors : FreshEdit(editor[e], hours, exception, booking, now)
    /\ \A b \in Bookings : FreshCheck(booking[b], hours, exception)

\* Stored rows, with or without one about to be written, are fit to judge by.
LEMMA RowsAre ==
    ASSUME Typing, ForEveryService, NEW ids, ids \subseteq Exceptions
    PROVE  /\ Rows(ids) = RowsIn(exception, ids) /\ Spans(RowsIn(exception, ids))
           /\ \A r \in RowsIn(exception, ids) : r \in Drafts /\ r.service = None
<1> DEFINE S == {y \in ids : exception[y] # NoException}
<1>1. Rows(ids) = RowsIn(exception, ids)
  BY DEF Rows, RowsIn
<1>2. Spans({exception[x] : x \in S})
  BY RowsSpan DEF Typing
<1>3. \A r \in RowsIn(exception, ids) : r \in Drafts
  BY DEF RowsIn, Typing, Shaped, Row
<1> QED  BY <1>1, <1>2, <1>3 DEF RowsIn, ForEveryService

LEMMA RowsAndOne ==
    ASSUME Typing, ForEveryService, NEW ids, ids \subseteq Exceptions, NEW row \in Drafts
    PROVE  /\ Spans(RowsIn(exception, ids) \cup {row})
           /\ \A r \in RowsIn(exception, ids) \cup {row} : r.service = None
<1>1. Spans({row})
  BY FS_Singleton, Distinct DEF Spans
<1>2. Spans(RowsIn(exception, ids)) /\ \A r \in RowsIn(exception, ids) : r.service = None
  BY RowsAre
<1>3. row.service = None
  BY DEF ForEveryService
<1> QED  BY <1>1, <1>2, <1>3, SpansUnion

LEMMA ComingAre ==
    ASSUME NEW b
    PROVE  b \in Future <=> b \in Bookings /\ Coming(booking[b], now)
BY DEF Future, Booked, Coming

\* What the two conflict checks list is whoever would no longer be kept.
LEMMA WeekStrands ==
    ASSUME Typing, ForEveryService, NEW week \in Weeks, NEW b
    PROVE  b \in AffectedByWeek(week) <=>
           /\ b \in Bookings /\ Coming(booking[b], now)
           /\ ~SafeIn(week, RowsIn(exception, Exceptions), booking[b])
<1>1. /\ Rows(Exceptions) = RowsIn(exception, Exceptions)
      /\ Spans(Rows(Exceptions)) /\ \A r \in Rows(Exceptions) : r.service = None
  BY RowsAre
<1>2. Future \in SUBSET Booked
  BY DEF Future
<1>3. AffectedByWeek(week) = {x \in Future : ~SafeOf(week, Rows(Exceptions), x)}
  BY <1>1, <1>2, StrandedAre DEF AffectedByWeek
<1>4. SafeOf(week, Rows(Exceptions), b) <=> SafeIn(week, RowsIn(exception, Exceptions), booking[b])
  BY <1>1 DEF SafeOf, SafeIn
<1> QED  BY <1>3, <1>4, ComingAre

LEMMA RowStrands ==
    ASSUME Typing, ForEveryService, NEW x, NEW row \in Drafts, row.type = "UNAVAILABLE", NEW b
    PROVE  b \in AffectedByRow(x, row) <=>
           /\ b \in Bookings /\ Coming(booking[b], now)
           /\ ~SafeIn(hours, RowsIn(exception, Exceptions \ {x}) \cup {row}, booking[b])
<1> DEFINE rows == Rows(Exceptions \ {x}) \cup {row}
<1>1. /\ rows = RowsIn(exception, Exceptions \ {x}) \cup {row}
      /\ Spans(rows) /\ \A r \in rows : r.service = None
  BY RowsAre, RowsAndOne
<1>2. Future \in SUBSET Booked /\ hours \in Weeks
  BY DEF Future, Typing, Shaped
<1>3. AffectedByRow(x, row) = Uncovered(hours, rows, Future)
  BY DEF AffectedByRow
<1> HIDE DEF rows
<1>4. Uncovered(hours, rows, Future) = {y \in Future : ~SafeOf(hours, rows, y)}
  <2>1. Spans(rows) /\ \A r \in rows : r.service = None
    BY <1>1
  <2> QED  BY <1>2, <2>1, StrandedAre
<1>5. SafeOf(hours, rows, b) <=> SafeIn(hours, rows, booking[b])
  BY DEF SafeOf, SafeIn
<1> QED  BY <1>1, <1>3, <1>4, <1>5, ComingAre

\* In a trusted state whoever is stranded is excused.
LEMMA TrustedExcuses ==
    ASSUME Typing, ForEveryService, Trusted
    PROVE  Stranded \subseteq excused
<1>1. Stranded = AffectedByWeek(hours)
  BY DEF Stranded, AffectedByWeek
<1>2. hours \in Weeks
  BY DEF Typing, Shaped
<1> QED  BY <1>1, <1>2, WeekStrands DEF Trusted, Excused

LEMMA TrustedNext ==
    /\ Excused(hours', exception', booking', now', excused')
    /\ \A e \in Editors : FreshEdit(editor'[e], hours', exception', booking', now')
    /\ \A b \in Bookings : FreshCheck(booking'[b], hours', exception')
    => Trusted'
BY DEF Trusted

\* What was checked before a commit counts no more.
LEMMA StaleIsNotFresh ==
    ASSUME NEW f \in [Editors -> EditorRecord], NEW e \in Editors, NEW h, NEW g, NEW bk, NEW t
    PROVE  FreshEdit(StaleEditors(f)[e], h, g, bk, t)
<1> DEFINE r == IF f[e].at = "write" /\ f[e].listed = {}
                THEN [f[e] EXCEPT !.stale = TRUE] ELSE f[e]
<1>1. StaleEditors(f)[e] = r
  BY DEF StaleEditors
<1>2. ~(r.at = "write" /\ r.listed = {} /\ ~r.stale)
  BY DEF EditorRecord
<1> HIDE DEF r
<1> QED  BY <1>1, <1>2 DEF FreshEdit

LEMMA IdleIsFresh ==
    ASSUME NEW h, NEW g, NEW bk, NEW t
    PROVE  FreshEdit(Idle, h, g, bk, t)
BY DEF Idle, FreshEdit

\* Fewer appointments to come endanger nothing.
LEMMA FewerComing ==
    ASSUME NEW r, NEW h, NEW g, NEW bk, NEW t, NEW ck, NEW u, FreshEdit(r, h, g, bk, t),
           \A b \in Bookings : Coming(ck[b], u) => Coming(bk[b], t) /\ ck[b] = bk[b]
    PROVE  FreshEdit(r, h, g, ck, u)
<1> SUFFICES ASSUME r.at = "write", r.listed = {}, ~r.stale,
                    NEW b \in Bookings, Coming(ck[b], u)
             PROVE  /\ r.id = None => SafeIn(r.week, RowsIn(g, Exceptions), ck[b])
                    /\ r.id # None /\ r.row.type = "UNAVAILABLE" =>
                          SafeIn(h, RowsIn(g, Exceptions \ {r.id}) \cup {r.row}, ck[b])
  BY DEF FreshEdit
<1> QED  BY DEF FreshEdit

\* What assertSlotIsOffered lets through is covered.
LEMMA OfferedIsSafe ==
    ASSUME Typing, ForEveryService, NEW service \in Services, NEW site \in Places,
           NEW day \in Days, NEW start \in IsOffered(service, site, day), JudgedAt(site, hours)
    PROVE  Safe(hours, RowsIn(exception, Exceptions), site, start, start + Terms[service].duration)
<1> DEFINE q == Query(service, site, day - 1, day + 1)
           D == DayLength
           from == D * (day - 1 - 2)
           to == D * (day + 1 + 2)
           relevant == {exception[x] : x \in Spanning(from, to)}
           inScope == {r \in relevant : r.site \in {None, site} /\ r.service \in {None, service}}
           rows == RowsIn(exception, Exceptions)
           end == start + Terms[service].duration
<1>1. day - 1 \in Int /\ day + 1 \in Int /\ day \in Int
  BY DEF Days
<1>2. QueryIsMeant(q) /\ q.zone = Zones[site] /\ q.service = Terms[service]
  BY <1>1, QueryMeans
<1>3. /\ q.periods = PeriodsFor(site)
      /\ q.openings = {r \in inScope : r.type = "ADDITIONAL_AVAILABILITY"}
      /\ q.closures = {r \in inScope : r.type = "UNAVAILABLE"}
  BY DEF Query
<1>4. start \in GenerateSlots(q) /\ start \div DayLength = day
  BY DEF IsOffered
<1> HIDE DEF q
<1>5. start \in Int /\ Kept(q.periods, q.openings, q.closures, Zones[site], start, end)
  BY <1>2, <1>4, OfferIsKept
<1>6. D \in Int /\ 0 < D
  BY SlotsAssumption
<1>7. D * day <= start /\ start < D * day + D
  <2>1. start \div D = day
    BY <1>4
  <2> HIDE DEF D
  <2>2. D * (start \div D) <= start /\ start < D * (start \div D) + D
    BY <1>5, <1>6
  <2> QED  BY <2>1, <2>2
<1>8. Terms[service].duration \in Int /\ Terms[service].duration <= D
  BY TermsAre
<1>9. end \in Int /\ end < D * day + 2 * D /\ D * day \in Int
  BY <1>1, <1>5, <1>6, <1>7, <1>8
<1>10. from = D * day - 3 * D /\ to = D * day + 3 * D
  BY <1>1, <1>6
<1>11. At(hours, site) = q.periods
  BY <1>3 DEF At, PeriodsFor, JudgedAt
<1>12. \A r \in rows : r \in Drafts /\ r.service = None /\ r.start \in Int /\ r.end \in Int
  BY RowsAre, Distinct
<1>13. q.openings \subseteq Opened(rows, site)
  BY <1>3 DEF Spanning, RowsIn, Opened
<1>14. ASSUME NEW t \in start .. (end - 1), Covers(Closed(rows, site), t)
       PROVE  Covers(q.closures, t)
  <2>1. PICK r \in Closed(rows, site) : r.start <= t /\ t < r.end
    BY <1>14 DEF Covers
  <2>2. PICK x \in Exceptions : exception[x] # NoException /\ exception[x] = r
    BY <2>1 DEF Closed, RowsIn
  <2>3. r \in rows /\ r.site \in {None, site} /\ r.type = "UNAVAILABLE"
    BY <2>1 DEF Closed
  <2>4. r.start \in Int /\ r.end \in Int /\ r.service = None
    BY <1>12, <2>3
  <2> HIDE DEF from, to, rows, end
  <2>5. r.start < to /\ from < r.end
    BY <1>5, <1>6, <1>7, <1>9, <1>10, <2>1, <2>4
  <2>6. x \in Spanning(from, to)
    BY <2>2, <2>4, <2>5 DEF Spanning
  <2>7. r \in q.closures
    BY <1>3, <2>2, <2>3, <2>4, <2>6
  <2> QED  BY <2>1, <2>7 DEF Covers
<1> HIDE DEF rows, end, relevant, inScope, from, to
<1>15. \A t : Covers(q.openings, t) => Covers(Opened(rows, site), t)
  BY <1>13 DEF Covers
<1>16. Kept(At(hours, site), Opened(rows, site), Closed(rows, site), Zones[site], start, end)
  BY <1>5, <1>11, <1>14, <1>15 DEF Kept
<1> QED  BY <1>16 DEF Safe, rows, end

\* Each action keeps the trust, or exposes.
LEMMA CheckKeeps ==
    ASSUME Typing, ForEveryService, Trusted, NEW b \in Bookings, NEW service \in Services,
           NEW site \in Places, Check(b, service, site)
    PROVE  Trusted'
<1>1. PICK day \in Days : \E start \in IsOffered(service, site, day) :
          booking' = [booking EXCEPT ![b] = [at |-> "checked", service |-> service, site |-> site,
                                             start |-> start, stale |-> FALSE]]
  BY DEF Check
<1>2. PICK start \in IsOffered(service, site, day) :
          booking' = [booking EXCEPT ![b] = [at |-> "checked", service |-> service, site |-> site,
                                             start |-> start, stale |-> FALSE]]
  BY <1>1
<1> DEFINE r == [at |-> "checked", service |-> service, site |-> site,
                 start |-> start, stale |-> FALSE]
<1>3. UNCHANGED <<hours, exception, editor, now, excused>>
  BY DEF Check, ghosts
<1>4. \A x \in Bookings : booking'[x] = (IF x = b THEN r ELSE booking[x])
  BY <1>2 DEF Typing, Shaped
<1>5. r.at = "checked" /\ r.service = service /\ r.site = site /\ r.start = start
  OBVIOUS
<1> HIDE DEF r
<1>6. \A x \in Bookings : Coming(booking'[x], now) => Coming(booking[x], now) /\ booking'[x] = booking[x]
  BY <1>4, <1>5 DEF Coming
<1>7. FreshCheck(r, hours, exception)
  BY <1>5, OfferedIsSafe DEF FreshCheck, SafeIn
<1>8. \A x \in Bookings : FreshCheck(booking'[x], hours, exception)
  BY <1>4, <1>7 DEF Trusted
<1>9. Excused(hours, exception, booking', now, excused)
  BY <1>6 DEF Trusted, Excused
<1>10. \A e \in Editors : FreshEdit(editor[e], hours, exception, booking', now)
  BY <1>6, FewerComing DEF Trusted
<1> QED  BY <1>3, <1>8, <1>9, <1>10, TrustedNext

LEMMA BookKeeps ==
    ASSUME Typing, ForEveryService, Trusted, NEW b \in Bookings, Book(b), ~exposed'
    PROVE  Trusted'
<1>1. UNCHANGED <<hours, exception, now, excused>> /\ booking[b].at = "checked"
  BY DEF Book
<1>2. CASE booking' = [booking EXCEPT ![b] = NoBooking] /\ UNCHANGED <<editor, exposed>>
  <2>1. \A x \in Bookings : booking'[x] = (IF x = b THEN NoBooking ELSE booking[x])
    BY <1>2 DEF Typing, Shaped
  <2>2. NoBooking.at = "none"
    BY DEF NoBooking
  <2>3. \A x \in Bookings : Coming(booking'[x], now) => Coming(booking[x], now) /\ booking'[x] = booking[x]
    BY <2>1, <2>2 DEF Coming
  <2>4. \A x \in Bookings : FreshCheck(booking'[x], hours, exception)
    <3>1. FreshCheck(NoBooking, hours, exception)
      BY <2>2 DEF FreshCheck
    <3> QED  BY <2>1, <3>1 DEF Trusted
  <2>5. Excused(hours, exception, booking', now, excused)
    BY <2>3 DEF Trusted, Excused
  <2>6. \A e \in Editors : FreshEdit(editor[e], hours, exception, booking', now)
    BY <2>3, FewerComing DEF Trusted
  <2> QED  BY <1>1, <1>2, <2>4, <2>5, <2>6, TrustedNext
<1>3. CASE /\ booking' = [booking EXCEPT ![b].at = "booked", ![b].stale = FALSE]
           /\ editor' = StaleEditors(editor)
           /\ exposed' = (exposed \/ booking[b].stale \/ ~Judgeable(booking[b].site))
  <2> DEFINE r == [booking[b] EXCEPT !.at = "booked", !.stale = FALSE]
  <2>1. \A x \in Bookings : booking'[x] = (IF x = b THEN r ELSE booking[x])
    BY <1>3 DEF Typing, Shaped
  <2>2. /\ r.at = "booked" /\ r.service = booking[b].service /\ r.site = booking[b].site
        /\ r.start = booking[b].start
    BY DEF Typing, Shaped, BookingRecord
  <2> HIDE DEF r
  <2>3. ~booking[b].stale /\ JudgedAt(booking[b].site, hours)
    BY <1>3 DEF Judgeable, JudgedAt
  <2>4. SafeIn(hours, RowsIn(exception, Exceptions), booking[b])
    BY <1>1, <2>3 DEF Trusted, FreshCheck
  <2>5. SafeIn(hours, RowsIn(exception, Exceptions), r)
    BY <2>2, <2>4 DEF SafeIn
  <2>6. Excused(hours, exception, booking', now, excused)
    BY <2>1, <2>5 DEF Trusted, Excused
  <2>7. \A x \in Bookings : FreshCheck(booking'[x], hours, exception)
    <3>1. FreshCheck(r, hours, exception)
      BY <2>2 DEF FreshCheck
    <3> QED  BY <2>1, <3>1 DEF Trusted
  <2>8. \A e \in Editors : FreshEdit(editor'[e], hours, exception, booking', now)
    BY <1>3, StaleIsNotFresh DEF Typing, Shaped
  <2> QED  BY <1>1, <2>6, <2>7, <2>8, TrustedNext
<1> QED  BY <1>2, <1>3 DEF Book

LEMMA CancelKeeps ==
    ASSUME Typing, Trusted, NEW b \in Bookings, Cancel(b)
    PROVE  Trusted'
<1>1. UNCHANGED <<hours, exception, editor, now>> /\ excused' = excused \ {b}
  BY DEF Cancel
<1>2. \A x \in Bookings : booking'[x] = (IF x = b THEN NoBooking ELSE booking[x])
  BY DEF Cancel, Typing, Shaped
<1>3. NoBooking.at = "none"
  BY DEF NoBooking
<1>4. \A x \in Bookings : Coming(booking'[x], now) =>
                             Coming(booking[x], now) /\ booking'[x] = booking[x] /\ x # b
  BY <1>2, <1>3 DEF Coming
<1>5. \A x \in Bookings : FreshCheck(booking'[x], hours, exception)
  <2>1. FreshCheck(NoBooking, hours, exception)
    BY <1>3 DEF FreshCheck
  <2> QED  BY <1>2, <2>1 DEF Trusted
<1>6. Excused(hours, exception, booking', now, excused \ {b})
  BY <1>4 DEF Trusted, Excused
<1>7. \A e \in Editors : FreshEdit(editor[e], hours, exception, booking', now)
  BY <1>4, FewerComing DEF Trusted
<1> QED  BY <1>1, <1>5, <1>6, <1>7, TrustedNext

\* A step of one editor that leaves the diary alone.
LEMMA EditorKeeps ==
    ASSUME Typing, Trusted, NEW e \in Editors, NEW r, FreshEdit(r, hours, exception, booking, now),
           editor' = [editor EXCEPT ![e] = r],
           UNCHANGED <<hours, exception, booking, now, ghosts>>
    PROVE  Trusted'
<1>1. UNCHANGED <<hours, exception, booking, now, excused>>
  BY DEF ghosts
<1>2. \A x \in Editors : editor'[x] = (IF x = e THEN r ELSE editor[x])
  BY DEF Typing, Shaped
<1>3. \A x \in Editors : FreshEdit(editor'[x], hours, exception, booking, now)
  BY <1>2 DEF Trusted
<1> QED  BY <1>1, <1>3, TrustedNext DEF Trusted

LEMMA ReadKeeps ==
    ASSUME Typing, Trusted, NEW e \in Editors, NEW week \in Weeks, Read(e, week)
    PROVE  Trusted'
<1> DEFINE r == [editor[e] EXCEPT !.at = "reading", !.seen = hours, !.week = week]
<1>1. editor' = [editor EXCEPT ![e] = r]
  BY DEF Read, Typing, Shaped
<1>2. r.at = "reading"
  BY DEF Typing, Shaped, EditorRecord
<1>3. UNCHANGED <<hours, exception, booking, now, ghosts>>
  BY DEF Read
<1> HIDE DEF r
<1>4. FreshEdit(r, hours, exception, booking, now)
  BY <1>2 DEF FreshEdit
<1> QED  BY <1>1, <1>3, <1>4, EditorKeeps

LEMMA SendWeekKeeps ==
    ASSUME Typing, ForEveryService, Trusted, NEW e \in Editors, SendWeek(e)
    PROVE  Trusted'
<1> DEFINE affected == AffectedByWeek(editor[e].week)
           r == [editor[e] EXCEPT !.at = IF affected = {} THEN "write" ELSE "refused",
                                  !.listed = affected]
<1>1. editor' = [editor EXCEPT ![e] = r] /\ UNCHANGED <<hours, exception, booking, now, ghosts>>
  BY DEF SendWeek, Judged
<1>2. editor[e].id = None /\ editor[e].week \in Weeks
  BY DEF SendWeek, Typing, Shaped, EditorMeans
<1>3. r.listed = affected /\ r.id = None /\ r.week = editor[e].week
  BY <1>2 DEF Typing, Shaped, EditorRecord
<1> HIDE DEF r
<1>4. FreshEdit(r, hours, exception, booking, now)
  BY <1>2, <1>3, WeekStrands DEF FreshEdit
<1> QED  BY <1>1, <1>4, EditorKeeps

LEMMA SendRowKeeps ==
    ASSUME Typing, ForEveryService, Trusted, NEW e \in Editors, NEW x \in Exceptions \cup {New},
           NEW row \in Drafts, SendRow(e, x, row)
    PROVE  Trusted'
<1> DEFINE sent == [Idle EXCEPT !.id = x, !.row = row]
           affected == AffectedByRow(x, row)
           r == [sent EXCEPT !.at = IF affected = {} THEN "write" ELSE "refused",
                             !.listed = affected]
<1>1. editor' = [editor EXCEPT ![e] = r] /\ UNCHANGED <<hours, exception, booking, now, ghosts>>
  BY DEF SendRow, Judged
<1>2. r.listed = affected /\ r.id = x /\ r.row = row
  BY DEF Idle
<1> HIDE DEF r
<1>3. x # None
  BY Distinct
<1>4. FreshEdit(r, hours, exception, booking, now)
  <2> SUFFICES ASSUME r.listed = {}, NEW b \in Bookings, Coming(booking[b], now),
                      row.type = "UNAVAILABLE"
               PROVE  SafeIn(hours, RowsIn(exception, Exceptions \ {x}) \cup {row}, booking[b])
    BY <1>2, <1>3 DEF FreshEdit
  <2>1. b \notin AffectedByRow(x, row)
    BY <1>2
  <2> QED  BY <2>1, RowStrands
<1> QED  BY <1>1, <1>4, EditorKeeps

LEMMA AcknowledgeKeeps ==
    ASSUME Typing, Trusted, NEW e \in Editors, Acknowledge(e)
    PROVE  Trusted'
<1> DEFINE r == [editor[e] EXCEPT !.at = "write"]
<1>1. editor' = [editor EXCEPT ![e] = r]
  BY DEF Acknowledge, Typing, Shaped
<1>2. r.listed # {}
  BY DEF Acknowledge, Typing, Shaped, EditorRecord, EditorMeans
<1>3. UNCHANGED <<hours, exception, booking, now, ghosts>>
  BY DEF Acknowledge
<1> HIDE DEF r
<1>4. FreshEdit(r, hours, exception, booking, now)
  BY <1>2 DEF FreshEdit
<1> QED  BY <1>1, <1>3, <1>4, EditorKeeps

LEMMA GiveUpKeeps ==
    ASSUME Typing, Trusted, NEW e \in Editors, GiveUp(e)
    PROVE  Trusted'
BY IdleIsFresh, EditorKeeps DEF GiveUp

\* A commit puts every check out of date, and leaves the bookings where they were.
LEMMA CommitKeeps ==
    ASSUME Typing, NEW f \in [Editors -> EditorRecord], editor' = StaleEditors(f),
           booking' = StaleBookings(booking), UNCHANGED now,
           \A b \in Bookings : Coming(booking[b], now) =>
              SafeIn(hours', RowsIn(exception', Exceptions), booking[b]) \/ b \in excused'
    PROVE  Trusted'
<1>1. \A x \in Editors : FreshEdit(editor'[x], hours', exception', booking', now')
  BY StaleIsNotFresh
<1>2. \A b \in Bookings : /\ booking'[b].at = booking[b].at
                          /\ booking'[b].site = booking[b].site
                          /\ booking'[b].service = booking[b].service
                          /\ booking'[b].start = booking[b].start
                          /\ booking[b].at = "checked" => booking'[b].stale
  BY StaleBookingsMean DEF Typing, Shaped
<1>3. \A b \in Bookings : FreshCheck(booking'[b], hours', exception')
  BY <1>2 DEF FreshCheck
<1>4. Excused(hours', exception', booking', now', excused')
  <2> SUFFICES ASSUME NEW b \in Bookings, Coming(booking'[b], now')
               PROVE  SafeIn(hours', RowsIn(exception', Exceptions), booking'[b]) \/ b \in excused'
    BY DEF Excused
  <2>1. Coming(booking[b], now)
    BY <1>2 DEF Coming
  <2> QED  BY <1>2, <2>1 DEF SafeIn
<1> QED  BY <1>1, <1>3, <1>4, TrustedNext

LEMMA WrittenKeeps ==
    ASSUME Typing, NEW e \in Editors, NEW stranded, Written(e, stranded),
           \A b \in Bookings : Coming(booking[b], now) =>
              SafeIn(hours', RowsIn(exception', Exceptions), booking[b]) \/ b \in excused'
    PROVE  Trusted'
<1> DEFINE f == [editor EXCEPT ![e] = Idle]
<1>1. f \in [Editors -> EditorRecord]
  BY IdleMeans DEF Typing, Shaped
<1>2. editor' = StaleEditors(f) /\ booking' = StaleBookings(booking) /\ UNCHANGED now
  BY DEF Written
<1> HIDE DEF f
<1> QED  BY <1>1, <1>2, CommitKeeps

LEMMA WriteWeekKeeps ==
    ASSUME Typing, ForEveryService, Trusted, NEW e \in Editors, WriteWeek(e), ~exposed'
    PROVE  Trusted'
<1>1. CASE SeenIsStored(e)
  <2> DEFINE week == editor[e].week
  <2>1. /\ Written(e, AffectedByWeek(week)) /\ hours' = week
        /\ UNCHANGED exception /\ ~editor[e].stale
        /\ editor[e].at = "write" /\ editor[e].id = None
    BY <1>1 DEF WriteWeek
  <2>2. week \in Weeks
    BY <2>1 DEF Typing, Shaped, EditorMeans
  <2> HIDE DEF week
  <2>3. ASSUME NEW b \in Bookings, Coming(booking[b], now)
        PROVE  SafeIn(week, RowsIn(exception, Exceptions), booking[b]) \/ b \in excused'
    <3>1. CASE editor[e].listed = {}
      BY <2>1, <2>3, <3>1 DEF week, Trusted, FreshEdit
    <3>2. CASE editor[e].listed # {}
      <4>1. AffectedByWeek(week) \subseteq excused'
        BY <2>1, <3>2 DEF Written
      <4> QED  BY <2>2, <2>3, <4>1, WeekStrands
    <3> QED  BY <3>1, <3>2
  <2> QED  BY <2>1, <2>3, WrittenKeeps
<1>2. CASE ~SeenIsStored(e)
  <2>1. editor' = [editor EXCEPT ![e] = Idle]
        /\ UNCHANGED <<hours, exception, booking, now, ghosts>>
    BY <1>2 DEF WriteWeek
  <2> QED  BY <2>1, IdleIsFresh, EditorKeeps
<1> QED  BY <1>1, <1>2

\* Writing a row over another changes the rows by these two.
LEMMA RowReplaced ==
    ASSUME Typing, NEW x \in Exceptions, NEW row, exception' = [exception EXCEPT ![x] = row]
    PROVE  /\ row # NoException =>
                 RowsIn(exception', Exceptions) = RowsIn(exception, Exceptions \ {x}) \cup {row}
           /\ row = NoException =>
                 RowsIn(exception', Exceptions) = RowsIn(exception, Exceptions \ {x})
<1>1. \A y \in Exceptions : exception'[y] = (IF y = x THEN row ELSE exception[y])
  BY DEF Typing, Shaped
<1>2. \A r : r \in RowsIn(exception', Exceptions) <=>
             \E y \in Exceptions : exception'[y] # NoException /\ r = exception'[y]
  BY DEF RowsIn
<1>3. \A r : r \in RowsIn(exception, Exceptions \ {x}) <=>
             \E y \in Exceptions : y # x /\ exception[y] # NoException /\ r = exception[y]
  BY DEF RowsIn
<1>4. \A r : r \in RowsIn(exception', Exceptions) <=>
             r \in RowsIn(exception, Exceptions \ {x}) \/ (row # NoException /\ r = row)
  <2> TAKE r
  <2>1. r \in RowsIn(exception', Exceptions) <=>
          \/ exception'[x] # NoException /\ r = exception'[x]
          \/ \E y \in Exceptions : y # x /\ exception'[y] # NoException /\ r = exception'[y]
    BY <1>2
  <2> QED  BY <1>1, <1>3, <2>1
<1>5. CASE row # NoException
  <2>1. \A r : r \in RowsIn(exception', Exceptions) <=>
               r \in RowsIn(exception, Exceptions \ {x}) \cup {row}
    BY <1>4, <1>5
  <2> QED  BY <1>5, <2>1
<1>6. CASE row = NoException
  <2>1. \A r : r \in RowsIn(exception', Exceptions) <=> r \in RowsIn(exception, Exceptions \ {x})
    BY <1>4, <1>6
  <2> QED  BY <1>6, <2>1
<1> QED  BY <1>5, <1>6

\* Without a row that is no opening, and with one more, what was safe is safe.
LEMMA WithoutRow ==
    ASSUME Typing, NEW x \in Exceptions, exception[x].type # "ADDITIONAL_AVAILABILITY",
           NEW rows, RowsIn(exception, Exceptions \ {x}) \subseteq rows,
           \A r \in rows : r \in RowsIn(exception, Exceptions \ {x}) \/ r.type # "UNAVAILABLE",
           NEW r, SafeIn(hours, RowsIn(exception, Exceptions), r)
    PROVE  SafeIn(hours, rows, r)
<1>1. \A k \in RowsIn(exception, Exceptions) : k.type = "ADDITIONAL_AVAILABILITY" => k \in rows
  BY DEF RowsIn
<1>2. \A k \in rows : k.type = "UNAVAILABLE" => k \in RowsIn(exception, Exceptions)
  BY DEF RowsIn
<1> QED  BY <1>1, <1>2, SafeGrows DEF SafeIn

LEMMA StoreRowKeeps ==
    ASSUME Typing, ForEveryService, Trusted, NEW e \in Editors, NEW x \in Exceptions,
           editor[e].at = "write", editor[e].row \in Drafts,
           editor[e].id = x \/ (editor[e].id = New /\ exception[x] = NoException),
           StoreRow(e, x), ~exposed'
    PROVE  Trusted'
<1> DEFINE row == editor[e].row
           rows == RowsIn(exception, Exceptions \ {x})
<1>1. /\ exception' = [exception EXCEPT ![x] = row] /\ UNCHANGED hours
      /\ Written(e, AffectedByRow(x, row)) /\ ~editor[e].stale /\ ~Unjudged(x, row)
  BY DEF StoreRow, Sent
<1>2. row \in Drafts /\ row # NoException /\ row.type \in Kinds
  BY Distinct
<1>3. RowsIn(exception', Exceptions) = rows \cup {row}
  BY <1>1, <1>2, RowReplaced
<1>4. excused \subseteq excused' /\ (editor[e].listed # {} => AffectedByRow(x, row) \subseteq excused')
  BY <1>1 DEF Written
<1>5. ASSUME NEW b \in Bookings, Coming(booking[b], now)
      PROVE  SafeIn(hours, rows \cup {row}, booking[b]) \/ b \in excused'
  <2>1. CASE row.type = "UNAVAILABLE" /\ editor[e].listed = {}
    <3>1. editor[e].id # None
      BY Distinct
    <3>2. SafeIn(hours, RowsIn(exception, Exceptions \ {editor[e].id}) \cup {row}, booking[b])
      BY <1>1, <1>5, <2>1, <3>1 DEF Trusted, FreshEdit
    <3>3. RowsIn(exception, Exceptions \ {editor[e].id}) = rows
      BY Distinct DEF RowsIn
    <3> QED  BY <3>2, <3>3
  <2>2. CASE row.type = "UNAVAILABLE" /\ editor[e].listed # {}
    BY <1>2, <1>4, <1>5, <2>2, RowStrands
  <2>3. CASE row.type # "UNAVAILABLE"
    <3>1. exception[x].type # "ADDITIONAL_AVAILABILITY"
      BY <1>1, <2>3 DEF Unjudged
    <3>2. SafeIn(hours, RowsIn(exception, Exceptions), booking[b]) => SafeIn(hours, rows \cup {row}, booking[b])
      <4> DEFINE more == rows \cup {row}
      <4>1. rows \subseteq more /\ \A r \in more : r \in rows \/ r.type # "UNAVAILABLE"
        BY <2>3
      <4> HIDE DEF more
      <4> QED  BY <3>1, <4>1, WithoutRow DEF more
    <3> QED  BY <1>4, <1>5, <3>2 DEF Trusted, Excused
  <2> QED  BY <2>1, <2>2, <2>3
<1> HIDE DEF row, rows
<1> QED  BY <1>1, <1>3, <1>5, WrittenKeeps

LEMMA CreateRowKeeps ==
    ASSUME Typing, ForEveryService, Trusted, NEW e \in Editors, NEW x \in Exceptions,
           CreateRow(e, x), ~exposed'
    PROVE  Trusted'
<1>1. editor[e].row \in Drafts
  BY Distinct DEF CreateRow, Typing, EditorMeans
<1> QED  BY <1>1, StoreRowKeeps DEF CreateRow

LEMMA UpdateRowKeeps ==
    ASSUME Typing, ForEveryService, Trusted, NEW e \in Editors, UpdateRow(e), ~exposed'
    PROVE  Trusted'
<1>1. editor[e].row \in Drafts /\ editor[e].id \in Exceptions /\ editor[e].at = "write"
  BY Distinct DEF UpdateRow, Typing, EditorMeans
<1>2. CASE exception[editor[e].id] # NoException
  <2>1. StoreRow(e, editor[e].id)
    BY <1>2 DEF UpdateRow
  <2> QED  BY <1>1, <2>1, StoreRowKeeps
<1>3. CASE exception[editor[e].id] = NoException
  <2>1. editor' = [editor EXCEPT ![e] = Idle]
        /\ UNCHANGED <<hours, exception, booking, now, ghosts>>
    BY <1>3 DEF UpdateRow
  <2> QED  BY <2>1, IdleIsFresh, EditorKeeps
<1> QED  BY <1>2, <1>3

LEMMA DeleteRowKeeps ==
    ASSUME Typing, ForEveryService, Trusted, NEW x \in Exceptions, DeleteRow(x), ~exposed'
    PROVE  Trusted'
<1> DEFINE rows == RowsIn(exception, Exceptions \ {x})
<1>1. /\ exception' = [exception EXCEPT ![x] = NoException]
      /\ UNCHANGED <<hours, now, excused>> /\ ~Unjudged(x, NoException)
      /\ editor' = StaleEditors(editor) /\ booking' = StaleBookings(booking)
  BY DEF DeleteRow
<1>2. RowsIn(exception', Exceptions) = rows
  BY <1>1, RowReplaced
<1>3. exception[x].type # "ADDITIONAL_AVAILABILITY"
  BY <1>1, Distinct DEF Unjudged, Kinds
<1>4. ASSUME NEW b \in Bookings, Coming(booking[b], now)
      PROVE  SafeIn(hours, rows, booking[b]) \/ b \in excused
  <2>1. SafeIn(hours, RowsIn(exception, Exceptions), booking[b]) => SafeIn(hours, rows, booking[b])
    BY <1>3, WithoutRow
  <2> QED  BY <1>4, <2>1 DEF Trusted, Excused
<1>5. editor \in [Editors -> EditorRecord]
  BY DEF Typing, Shaped
<1> HIDE DEF rows
<1> QED  BY <1>1, <1>2, <1>4, <1>5, CommitKeeps

LEMMA TickKeeps ==
    ASSUME Typing, Trusted, Tick
    PROVE  Trusted'
<1>1. UNCHANGED <<hours, exception, booking, editor, excused>> /\ now < now' /\ now \in Int
      /\ now' \in Int
  BY ScheduleAssumption DEF Tick, ghosts, Typing, Shaped
<1>2. \A b \in Bookings : Coming(booking[b], now') => Coming(booking[b], now)
  BY <1>1 DEF Coming, Typing, Shaped, BookingRecord
<1>3. Excused(hours, exception, booking, now', excused)
  BY <1>2 DEF Trusted, Excused
<1>4. \A e \in Editors : FreshEdit(editor[e], hours, exception, booking, now')
  BY <1>2, FewerComing DEF Trusted
<1> QED  BY <1>1, <1>3, <1>4, TrustedNext DEF Trusted

LEMMA StutterKeeps ==
    ASSUME Trusted, UNCHANGED vars
    PROVE  Trusted'
BY TrustedNext DEF vars, Trusted

LEMMA ExposedStays == [Next]_vars /\ exposed => exposed'
<1> SUFFICES ASSUME [Next]_vars, exposed PROVE exposed'
  OBVIOUS
<1>1. ASSUME NEW b, NEW service, NEW site, Check(b, service, site) PROVE exposed'
  BY <1>1 DEF Check, ghosts
<1>2. ASSUME NEW b, Book(b) \/ Cancel(b) PROVE exposed'
  BY <1>2 DEF Book, Cancel
<1>3. ASSUME NEW e, SendWeek(e) \/ Acknowledge(e) \/ GiveUp(e) PROVE exposed'
  BY <1>3 DEF SendWeek, Judged, Acknowledge, GiveUp, ghosts
<1>4. ASSUME NEW e, WriteWeek(e) PROVE exposed'
  BY <1>4 DEF WriteWeek, ghosts
<1>5. ASSUME NEW e, NEW x, StoreRow(e, x) PROVE exposed'
  BY <1>5 DEF StoreRow
<1>6. ASSUME NEW e, UpdateRow(e) PROVE exposed'
  BY <1>5, <1>6 DEF UpdateRow, ghosts
<1>7. ASSUME NEW e, NEW week, Read(e, week) PROVE exposed'
  BY <1>7 DEF Read, ghosts
<1>8. ASSUME NEW e, NEW x, NEW row, SendRow(e, x, row) PROVE exposed'
  BY <1>8 DEF SendRow, Judged, ghosts
<1>9. ASSUME NEW e, NEW x, CreateRow(e, x) PROVE exposed'
  BY <1>5, <1>9 DEF CreateRow
<1>10. ASSUME NEW x, DeleteRow(x) PROVE exposed'
  BY <1>10 DEF DeleteRow
<1>11. ASSUME Tick \/ UNCHANGED vars PROVE exposed'
  BY <1>11 DEF Tick, vars, ghosts
<1> QED  BY <1>1, <1>2, <1>3, <1>4, <1>6, <1>7, <1>8, <1>9, <1>10, <1>11 DEF Next

LEMMA TrustHoldsAtFirst == Init => Trusted
<1> SUFFICES ASSUME Init PROVE Trusted
  OBVIOUS
<1>1. NoBooking.at = "none" /\ Idle.at = "idle"
  BY DEF NoBooking, Idle
<1>2. \A b \in Bookings : booking[b].at = "none"
  BY <1>1 DEF Init
<1>3. \A e \in Editors : editor[e].at = "idle"
  BY <1>1 DEF Init
<1> QED  BY <1>2, <1>3 DEF Trusted, Excused, FreshEdit, FreshCheck, Coming

LEMMA StepKeepsTrust ==
    ForEveryService /\ Typing /\ [Next]_vars /\ Trusted => Trusted' \/ exposed'
<1> SUFFICES ASSUME ForEveryService, Typing, [Next]_vars, Trusted, ~exposed' PROVE Trusted'
  OBVIOUS
<1>1. ASSUME NEW b \in Bookings, NEW service \in Services, NEW site \in Places,
             Check(b, service, site)
      PROVE  Trusted'
  BY <1>1, CheckKeeps
<1>2. ASSUME NEW b \in Bookings, Book(b) \/ Cancel(b) PROVE Trusted'
  BY <1>2, BookKeeps, CancelKeeps
<1>3. ASSUME NEW e \in Editors, SendWeek(e) \/ Acknowledge(e) \/ GiveUp(e) PROVE Trusted'
  BY <1>3, SendWeekKeeps, AcknowledgeKeeps, GiveUpKeeps
<1>4. ASSUME NEW e \in Editors, WriteWeek(e) \/ UpdateRow(e) PROVE Trusted'
  BY <1>4, WriteWeekKeeps, UpdateRowKeeps
<1>5. ASSUME NEW e \in Editors, NEW week \in Weeks, Read(e, week) PROVE Trusted'
  BY <1>5, ReadKeeps
<1>6. ASSUME NEW e \in Editors, NEW x \in Exceptions \cup {New}, NEW row \in Drafts,
             SendRow(e, x, row)
      PROVE  Trusted'
  BY <1>6, SendRowKeeps
<1>7. ASSUME NEW e \in Editors, NEW x \in Exceptions, CreateRow(e, x) PROVE Trusted'
  BY <1>7, CreateRowKeeps
<1>8. ASSUME NEW x \in Exceptions, DeleteRow(x) PROVE Trusted'
  BY <1>8, DeleteRowKeeps
<1>9. ASSUME Tick PROVE Trusted'
  BY <1>9, TickKeeps
<1>10. ASSUME UNCHANGED vars PROVE Trusted'
  BY <1>10, StutterKeeps
<1> QED  BY <1>1, <1>2, <1>3, <1>4, <1>5, <1>6, <1>7, <1>8, <1>9, <1>10 DEF Next

LEMMA TrustExcuses == ForEveryService /\ Typing /\ (exposed \/ Trusted) => StrandedWereExcused
BY TrustedExcuses DEF StrandedWereExcused

----------------------------------------------------------------------------
\* The stored rows are rows somebody sent, a refusal names appointments, and what
\* is excused is booked.
THEOREM ScheduleIsWellTyped == Spec => []TypeOK
BY Typed, TypingImpliesTypeOK, PTL

\* Whatever time of day a stored week asks for has an instant in the zone of every
\* place: the first that shows it, or that shows the next reading when it is
\* skipped (localToInstant).
THEOREM ReadingsHaveInstants == Spec => []EveryReadingResolves
BY Typed, ReadingsResolve, PTL

\* What the search offers where it can be judged, the coverage check would find
\* covered: generateSlots and findUncoveredAppointments read one schedule alike.
THEOREM OffersAreAlwaysCovered == Spec => []OffersAreCovered
BY Typed, OffersCovered, PTL

\* generateSlots offers exactly the starts a tick-by-tick reading of the schedule
\* allows, in every zone whose clock goes back over no midnight.
THEOREM SearchesAreExact ==
    ASSUME \A site \in Places : MidnightOnce(Zones[site])
    PROVE  Spec => []SlotsMatchReference
<1>1. Typing => SlotsMatchReference
  BY SearchesMatch
<1> QED  BY <1>1, Typed, PTL

\* Unless a check and a write were run past each other, or an opening was taken
\* away, an appointment is stranded only under an acknowledgement; where every
\* exception concerns all services (assertNoAppointmentsStranded).
THEOREM NobodyIsStrandedUnnoticed ==
    ASSUME ForEveryService
    PROVE  Spec => []StrandedWereExcused
<1>1. Init => exposed \/ Trusted
  BY TrustHoldsAtFirst
<1>2. Typing /\ [Next]_vars /\ (exposed \/ Trusted) => (exposed \/ Trusted)'
  BY StepKeepsTrust, ExposedStays
<1>3. Typing /\ (exposed \/ Trusted) => StrandedWereExcused
  BY TrustExcuses
<1> QED  BY <1>1, <1>2, <1>3, Typed, PTL DEF Spec

\* A saved week replaces the week its editor had read (replaceWorkingHours).
THEOREM WeeksBuildOnWhatWasRead == Spec => SavesBuildOnWhatWasRead
<1>1. Typing /\ [Next]_vars =>
        [hours' # hours => \E e \in Editors : /\ editor[e].at = "write" /\ editor'[e] = Idle
                                              /\ editor[e].week = hours' /\ editor[e].seen = hours]_vars
  BY OnlyWriteWeekSaves DEF Builds
<1> QED  BY <1>1, Typed, PTL DEF Spec, SavesBuildOnWhatWasRead
=============================================================================
