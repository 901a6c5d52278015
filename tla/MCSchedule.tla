----------------------------- MODULE MCSchedule -----------------------------
EXTENDS Schedule, TLC

CONSTANTS cut, north, b1, b2, e1, e2, x1

\* The clocks go forward on day 1 at the provider's, and back on day 2 at the
\* site: readings are skipped in one zone and repeated in the other.
McZones == [s \in {north, None} |->
               IF s = None THEN [change |-> 8, before |-> 0, after |-> 1]
                           ELSE [change |-> 14, before |-> 1, after |-> 0]]

McTerms == cut :> [duration |-> 2, before |-> 0, after |-> 1, notice |-> 1, advance |-> 1]

Shift(weekday, from, to, site) == [weekday |-> weekday, from |-> from, to |-> to, site |-> site]

\* A night shift that runs into a morning which it touches; a day shift and hours
\* kept at the site only; and two shifts with a break between them.
McWeeks == {{Shift(1, 4, 2, None), Shift(0, 2, 4, None)},
            {Shift(1, 1, 5, None), Shift(0, 0, 3, north)},
            {Shift(1, 0, 2, None), Shift(1, 3, 0, None)}}

Row(type, site, start, end) ==
    [type |-> type, site |-> site, service |-> None, start |-> start, end |-> end]

McDrafts == {Row("UNAVAILABLE", None, 9, 11), Row("ADDITIONAL_AVAILABILITY", north, 10, 13)}

EditorSymmetry == Permutations({e1, e2})
BookingSymmetry == Permutations({b1, b2})
=============================================================================
