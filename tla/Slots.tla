------------------------------- MODULE Slots -------------------------------
(***************************************************************************)
(* The availability engine: wall-clock readings turned into instants,      *)
(* interval algebra, the slots a schedule offers, and the appointments it  *)
(* no longer covers.  Pure operators; Schedule asks them.                  *)
(*                                                                         *)
(* Time is counted in ticks.  An instant and a reading are both integers:  *)
(* the reading of a clock is DayLength * date + time of day, and a zone    *)
(* adds one offset to the instant before its change and another after it.  *)
(***************************************************************************)
EXTENDS Integers

CONSTANTS
    DayLength,  \* ticks of a day
    Week,       \* days of a week
    MaxGap      \* how far a skipped reading is followed, the engine's 180 minutes

ASSUME SlotsAssumption ==
    /\ DayLength \in Nat \ {0}
    /\ Week \in Nat \ {0}
    /\ MaxGap \in Nat

Least(S) == CHOOSE x \in S : \A y \in S : x <= y
Later(a, b) == IF a > b THEN a ELSE b
Sooner(a, b) == IF a < b THEN a ELSE b

----------------------------------------------------------------------------
(* Zones.                                                                  *)

\* A zone the engine can follow: offsets within a day, no more skipped than it
\* looks for, and no more than a day repeated.
Followed(zone) ==
    /\ zone.change \in Int
    /\ {zone.before, zone.after} \subseteq -DayLength .. DayLength
    /\ zone.after - zone.before <= MaxGap
    /\ zone.before - zone.after <= DayLength

OffsetAt(instant, zone) == IF instant < zone.change THEN zone.before ELSE zone.after
Reading(instant, zone) == instant + OffsetAt(instant, zone)
DateAt(instant, zone) == Reading(instant, zone) \div DayLength
WeekdayOf(date) == date % Week

\* The offsets a day before and a day after the reading taken as an instant;
\* only the candidates that read back are kept.
CorrectedTwice(reading, zone) ==  \* a slip: one probe, at the reading itself
    {reading - OffsetAt(reading - OffsetAt(reading, zone), zone)}
Candidates(reading, zone) ==
    {reading - OffsetAt(reading - DayLength, zone), reading - OffsetAt(reading + DayLength, zone)}
InstantsFor(reading, zone) ==
    {i \in Candidates(reading, zone) : Reading(i, zone) = reading}

\* A repeated reading is its earlier instant; a skipped one is followed to the
\* first reading the clock does show.
Resolve(reading, zone) ==
    LET shown == {k \in 0 .. MaxGap : InstantsFor(reading + k, zone) # {}}
    IN  Least(InstantsFor(reading + Least(shown), zone))

InstantOf(date, time, zone) == Resolve(DayLength * date + time, zone)
StartOfDay(date, zone) == InstantOf(date, 0, zone)

----------------------------------------------------------------------------
(* Half-open intervals.                                                    *)

Interval(start, end) == [start |-> start, end |-> end]
Holds(i) == i.end > i.start

TouchesStrictly(i, j) == j.start < i.end  \* a slip: a seam between neighbours
Touches(i, j) == j.start <= i.end         \* j, which does not start before i

\* The empty ones left out and all that touches merged: an interval starts where
\* none reaches from before, and ends where none goes on.
Normalize(intervals) ==
    LET held == {i \in intervals : Holds(i)}
        starts == {i.start : i \in {x \in held : ~\E j \in held : j.start < x.start /\ Touches(j, x)}}
        ends == {i.end : i \in {x \in held : ~\E j \in held : Touches(x, j) /\ x.end < j.end}}
    IN  {Interval(start, Least({end \in ends : end > start})) : start \in starts}

\* What the blockers leave of each interval: from its start and from the end of
\* every blocker to the next one, or to its own end.  from is normalized.
Subtract(from, remove) ==
    LET blockers == Normalize(remove)
        blocked(s) == \E b \in blockers : b.start <= s /\ s < b.end
        starts(i) == {s \in {i.start} \cup {b.end : b \in blockers} :
                        i.start <= s /\ s < i.end /\ ~blocked(s)}
        end(i, s) == Least({i.end} \cup {x \in {b.start : b \in blockers} : s < x /\ x < i.end})
    IN  UNION {{Interval(s, end(i, s)) : s \in starts(i)} : i \in from}

Inside(intervals, i) ==
    \E around \in intervals : around.start <= i.start /\ around.end >= i.end

----------------------------------------------------------------------------
(* Working periods: a weekday and two times of day.  One that ends at or   *)
(* before its start runs into the next day.                                *)

AppliesOn(period, date) == period.weekday = WeekdayOf(date)

PeriodToInterval(period, date, zone) ==
    Interval(InstantOf(date, period.from, zone),
             InstantOf(IF period.to <= period.from THEN date + 1 ELSE date, period.to, zone))

Working(periods, dates, zone) ==
    {PeriodToInterval(pd[1], pd[2], zone) : pd \in {x \in periods \X dates : AppliesOn(x[1], x[2])}}

----------------------------------------------------------------------------
(* The slots a query is offered, as their starts.                          *)

\* The requested days, the minimum notice and the maximum advance.
BookingWindow(q) ==
    Interval(Later(StartOfDay(q.dateFrom, q.zone), q.now + q.notice),
             Sooner(StartOfDay(q.dateTo + 1, q.zone),
                    StartOfDay(DateAt(q.now, q.zone) + q.advance + 1, q.zone)) - 1)

Occupied(service, start) ==
    Interval(start - service.before, start + service.duration + service.after)

\* The day before the range is looked at too, for its night shift.
Available(q) ==
    Normalize(Working(q.periods, (q.dateFrom - 1) .. q.dateTo, q.zone) \cup q.openings)

\* The grid steps from the start of the availability, not of the gap.
Anchors(q) == Available(q)

GenerateSlots(q) ==
    LET available == Available(q)
        free == Subtract(available, q.closures \cup q.taken)
        window == BookingWindow(q)
        anchors == Anchors(q)
    IN  {start \in window.start .. window.end :
            /\ \E anchor \in anchors :
                  /\ anchor.start <= start
                  /\ (start - anchor.start) % q.step = 0
                  /\ start + q.service.duration <= anchor.end
            /\ Inside(free, Occupied(q.service, start))}

----------------------------------------------------------------------------
(* The appointments a schedule does not cover; without their buffers.      *)

\* A day either side of the appointments, for the night shift before and the
\* zone.
CoverageDatesTight(first, last) == first .. last  \* a slip
CoverageDates(first, last) == (first - 1) .. (last + 1)

FindUncovered(q) ==
    LET dates == CoverageDates(DateAt(Least({a.start : a \in q.appointments}), q.zone),
                               DateAt(CHOOSE e \in {a.end : a \in q.appointments} :
                                          \A a \in q.appointments : a.end <= e, q.zone))
        open == Normalize(Working(q.periods, dates, q.zone) \cup q.openings)
        free == Subtract(open, q.closures)
    IN  IF q.appointments = {} THEN {} ELSE {a.id : a \in {x \in q.appointments : ~Inside(free, x)}}

----------------------------------------------------------------------------
(* The same, tick by tick: what the engine has to agree with.              *)

\* The first instant at which the clock shows the reading, or else the first
\* later reading it shows.
RefResolve(reading, zone) ==
    LET near == {i \in (reading - 2 * DayLength) .. (reading + 2 * DayLength) :
                    Reading(i, zone) >= reading}
        first == Least({Reading(i, zone) : i \in near})
    IN  Least({i \in near : Reading(i, zone) = first})

Ticks(intervals) == UNION {i.start .. (i.end - 1) : i \in intervals}

RefSlots(q) ==
    LET begins(pd) == DayLength * pd[2] + pd[1].from
        ends(pd) == DayLength * (IF pd[1].to <= pd[1].from THEN pd[2] + 1 ELSE pd[2]) + pd[1].to
        shifts == {Interval(RefResolve(begins(pd), q.zone), RefResolve(ends(pd), q.zone)) :
                      pd \in {x \in q.periods \X ((q.dateFrom - 1) .. q.dateTo) :
                                 x[1].weekday = x[2] % Week}}
        open == Ticks(shifts \cup q.openings)
        free == open \ Ticks(q.closures \cup q.taken)
        onGrid(s) == \E r \in open : /\ r - 1 \notin open
                                     /\ r .. (s + q.service.duration - 1) \subseteq open
                                     /\ r <= s /\ (s - r) % q.step = 0
        today == DateAt(q.now, q.zone)
    IN  {s \in free :
            /\ (s - q.service.before) .. (s + q.service.duration + q.service.after - 1) \subseteq free
            /\ DateAt(s, q.zone) \in q.dateFrom .. q.dateTo
            /\ DateAt(s, q.zone) <= today + q.advance
            /\ s >= q.now + q.notice
            /\ onGrid(s)}
=============================================================================
