------------------------------ MODULE Schedule ------------------------------
(***************************************************************************)
(* One provider's schedule: the week and the exceptions, edited by several *)
(* people, and the appointments customers book into what it offers.        *)
(*                                                                         *)
(* A change that would strand appointments is refused once, with their     *)
(* list, and goes through when it is sent again acknowledged.  The check   *)
(* and the write are two steps, and so are a booking's check that its slot *)
(* is offered and its commit.  Holds, statuses and the capacity table are  *)
(* modelled in Booking.                                                    *)
(***************************************************************************)
EXTENDS Slots, FiniteSets

CONSTANTS
    Services,    \* the services the provider offers
    Terms,       \* each service's duration, buffers and booking window
    Sites,       \* the locations
    Zones,       \* the zone a search is read in, per site or none
    Weeks,       \* bound: the weeks an editor may save
    Exceptions,  \* ids of exception rows
    Drafts,      \* bound: the exceptions an editor may save
    Editors,
    Bookings,    \* ids of appointments
    Step,        \* spacing of the offered starts
    Clock,       \* bound: the instants at which things happen
    New,         \* stands for the id of a row not created yet
    None

Places == Sites \cup {None}
Periods == UNION Weeks
Kinds == {"UNAVAILABLE", "ADDITIONAL_AVAILABILITY"}

\* Times of day, durations of at most a day, and clocks that skip no more than
\* the engine follows and repeat no more than a day.
ASSUME ScheduleAssumption ==
    /\ IsFiniteSet(Bookings) /\ IsFiniteSet(Exceptions)
    /\ New \notin Exceptions /\ None \notin Exceptions \cup Kinds \cup {New}
    /\ \A week \in Weeks : IsFiniteSet(week)
    /\ \A p \in Periods : p.from \in 0 .. DayLength - 1 /\ p.to \in 0 .. DayLength
    /\ \A row \in Drafts : row.type \in Kinds /\ row.start \in Int /\ row.end \in Int
    /\ \A service \in Services :
          /\ Terms[service].duration \in 1 .. DayLength
          /\ {Terms[service].before, Terms[service].after} \subseteq Nat
          /\ {Terms[service].notice, Terms[service].advance} \subseteq Nat
    /\ \A site \in Places : Followed(Zones[site])
    /\ Step \in Nat \ {0}
    /\ Clock \subseteq Int

VARIABLES
    hours,       \* the week: periods, each of one site or of any
    exception,   \* the exception rows
    booking,     \* the appointments
    editor,      \* what each editor is doing
    now,
    excused,     \* history: appointments stranded under an acknowledgement
    unlisted,    \* history: of those, the ones the refusal had not listed
    exposed      \* history: something changed that no check had seen

vars == <<hours, exception, booking, editor, now, excused, unlisted, exposed>>
ghosts == <<excused, unlisted, exposed>>

NoException == [type |-> None, site |-> None, service |-> None, start |-> 0, end |-> 0]
NoBooking == [at |-> "none", service |-> None, site |-> None, start |-> 0, stale |-> FALSE]
Idle == [at |-> "idle", week |-> {}, seen |-> {}, row |-> NoException, id |-> None,
         listed |-> {}, stale |-> FALSE]

----------------------------------------------------------------------------
(* What is offered.                                                        *)

Booked == {b \in Bookings : booking[b].at = "booked"}
OccupiedBy(b) == Occupied(Terms[booking[b].service], booking[b].start)
AppointmentOf(b) ==
    [id |-> b, start |-> booking[b].start,
     end |-> booking[b].start + Terms[booking[b].service].duration]

\* A search that names no site takes the week of every site.
PeriodsFor(site) == {p \in hours : site = None \/ p.site \in {None, site}}

Spanning(from, to) ==
    {x \in Exceptions : exception[x] # NoException
                        /\ exception[x].start < to /\ exception[x].end > from}

\* planFor and searchSlots: the query for one service at one place.
Query(service, site, dateFrom, dateTo) ==
    LET relevant == {exception[x] : x \in Spanning(DayLength * (dateFrom - 2),
                                                   DayLength * (dateTo + 2))}
        inScope == {r \in relevant : r.site \in {None, site} /\ r.service \in {None, service}}
    IN  [periods |-> PeriodsFor(site),
         openings |-> {r \in inScope : r.type = "ADDITIONAL_AVAILABILITY"},
         closures |-> {r \in inScope : r.type = "UNAVAILABLE"},
         taken |-> {OccupiedBy(b) : b \in Booked},
         service |-> Terms[service], step |-> Step, zone |-> Zones[site],
         dateFrom |-> dateFrom, dateTo |-> dateTo, now |-> now,
         notice |-> Terms[service].notice, advance |-> Terms[service].advance]

Days == 1 .. 2  \* bound: the days that are searched and booked
Search(service, site) == Query(service, site, 1, 2)
Offers(service, site) == GenerateSlots(Search(service, site))

\* assertSlotIsOffered: the starts of a day are looked for in a search of that
\* day and one either side.
IsOffered(service, site, day) ==
    {start \in GenerateSlots(Query(service, site, day - 1, day + 1)) : start \div DayLength = day}

----------------------------------------------------------------------------
(* What a schedule would strand.                                           *)

Future == {b \in Booked : booking[b].start > now}

\* judge: findUncoveredAppointments, asked once for each place.  An exception of one
\* service counts for the whole group when any of the group has that service.
Judge(week, rows, group, site) ==
    LET inScope == {r \in rows : /\ r.site \in {None, site}
                                 /\ r.service \in {None} \cup {booking[b].service : b \in group}}
    IN  FindUncovered(
            [periods |-> {p \in week : p.site \in {None, site}},
             openings |-> {r \in inScope : r.type = "ADDITIONAL_AVAILABILITY"},
             closures |-> {r \in inScope : r.type = "UNAVAILABLE"},
             appointments |-> {AppointmentOf(b) : b \in group},
             zone |-> Zones[site]])

AtSite(bs, site) == {b \in bs : booking[b].site = site}
Uncovered(week, rows, bs) ==
    UNION {Judge(week, rows, AtSite(bs, site), site) : site \in Places}

Rows(ids) == {exception[x] : x \in {y \in ids : exception[y] # NoException}}

\* The stored week is judged by the proposed one, an exception is laid over the
\* stored ones without the row it replaces.  An opening is not judged.
AffectedByStoredWeek(week) == Uncovered(hours, Rows(Exceptions), Future)  \* a slip
AffectedByWeek(week) == Uncovered(week, Rows(Exceptions), Future)
AffectedByRow(x, row) ==
    IF row.type = "UNAVAILABLE"
    THEN Uncovered(hours, Rows(Exceptions \ {x}) \cup {row}, Future)
    ELSE {}

----------------------------------------------------------------------------
Init ==
    /\ hours \in Weeks
    /\ exception = [x \in Exceptions |-> NoException]
    /\ booking = [b \in Bookings |-> NoBooking]
    /\ editor = [e \in Editors |-> Idle]
    /\ now \in Clock
    /\ excused = {}
    /\ unlisted = {}
    /\ exposed = FALSE

\* After a commit every check made before it is out of date.
StaleEditors(f) ==
    [e \in Editors |-> IF f[e].at = "write" /\ f[e].listed = {}
                       THEN [f[e] EXCEPT !.stale = TRUE] ELSE f[e]]
StaleBookings(f) ==
    [b \in Bookings |-> IF f[b].at = "checked" THEN [f[b] EXCEPT !.stale = TRUE] ELSE f[b]]

----------------------------------------------------------------------------
(* Booking.                                                                *)

Check(b, service, site) ==
    /\ booking[b].at = "none"
    /\ \E day \in Days : \E start \in IsOffered(service, site, day) :
          booking' = [booking EXCEPT ![b] = [at |-> "checked", service |-> service, site |-> site,
                                             start |-> start, stale |-> FALSE]]
    /\ UNCHANGED <<hours, exception, editor, now, ghosts>>

Overlap(i, j) == i.start < j.end /\ j.start < i.end

\* Site hours are not counted for an appointment of no site, although the
\* search offers them to it.
Judgeable(site) == site # None \/ \A p \in hours : p.site = None

\* The exclusion constraint decides between two bookings, and nothing asks
\* again whether the slot is still offered.
Book(b) ==
    /\ booking[b].at = "checked"
    /\ IF \E other \in Booked : Overlap(OccupiedBy(b), OccupiedBy(other))
       THEN /\ booking' = [booking EXCEPT ![b] = NoBooking]
            /\ UNCHANGED <<editor, exposed>>
       ELSE /\ booking' = [booking EXCEPT ![b].at = "booked", ![b].stale = FALSE]
            /\ editor' = StaleEditors(editor)
            /\ exposed' = (exposed \/ booking[b].stale \/ ~Judgeable(booking[b].site))
    /\ UNCHANGED <<hours, exception, now, excused, unlisted>>

\* Cancelled, or not gone on with after the check.
Cancel(b) ==
    /\ booking[b].at # "none"
    /\ booking' = [booking EXCEPT ![b] = NoBooking]
    /\ excused' = excused \ {b}
    /\ unlisted' = unlisted \ {b}
    /\ UNCHANGED <<hours, exception, editor, now, exposed>>

----------------------------------------------------------------------------
(* Editing.                                                                *)

\* The editor reads the week, whose fingerprint comes with it, and changes it.
Read(e, week) ==
    /\ editor[e].at = "idle"
    /\ week # hours
    /\ editor' = [editor EXCEPT ![e].at = "reading", ![e].seen = hours, ![e].week = week]
    /\ UNCHANGED <<hours, exception, booking, now, ghosts>>

\* The first sending: refused with the list, or on to the write.
Judged(e, sent, affected) ==
    /\ editor' = [editor EXCEPT
           ![e] = [sent EXCEPT !.at = IF affected = {} THEN "write" ELSE "refused",
                               !.listed = affected]]
    /\ UNCHANGED <<hours, exception, booking, now, ghosts>>

SendWeek(e) ==
    /\ editor[e].at = "reading"
    /\ Judged(e, editor[e], AffectedByWeek(editor[e].week))

\* A new row, or a stored one with every field of it sent.
SendRow(e, x, row) ==
    /\ editor[e].at = "idle"
    /\ x # New => exception[x] \notin {NoException, row}
    /\ Judged(e, [Idle EXCEPT !.id = x, !.row = row], AffectedByRow(x, row))

\* Sent again with the acknowledgement, it is not checked any more.
Acknowledge(e) ==
    /\ editor[e].at = "refused"
    /\ editor' = [editor EXCEPT ![e].at = "write"]
    /\ UNCHANGED <<hours, exception, booking, now, ghosts>>

\* The editor does not go on, or the request dies before its write.
GiveUp(e) ==
    /\ editor[e].at # "idle"
    /\ editor' = [editor EXCEPT ![e] = Idle]
    /\ UNCHANGED <<hours, exception, booking, now, ghosts>>

\* What a write leaves behind: the checks of the others are out of date, and
\* what it strands is excused if something was acknowledged.
Written(e, stranded) ==
    /\ editor' = StaleEditors([editor EXCEPT ![e] = Idle])
    /\ booking' = StaleBookings(booking)
    /\ IF editor[e].listed = {} THEN UNCHANGED <<excused, unlisted>>
       ELSE /\ excused' = excused \cup stranded
            /\ unlisted' = (unlisted \cup stranded) \ editor[e].listed
    /\ UNCHANGED now

\* replaceWorkingHours, with the provider's row locked: the whole week, if its
\* fingerprint is still the one that was read.
SeenAnything(e) == TRUE  \* a slip
SeenIsStored(e) == editor[e].seen = hours

WriteWeek(e) ==
    /\ editor[e].at = "write"
    /\ editor[e].id = None
    /\ IF SeenIsStored(e)
       THEN /\ hours' = editor[e].week
            /\ exposed' = (exposed \/ editor[e].stale)
            /\ Written(e, AffectedByWeek(editor[e].week))
       ELSE /\ editor' = [editor EXCEPT ![e] = Idle]     \* SCHEDULE_MODIFIED
            /\ UNCHANGED <<hours, booking, now, ghosts>>
    /\ UNCHANGED exception

\* An opening moved, shrunk or taken away is not checked.
Unjudged(x, row) ==
    exception[x].type = "ADDITIONAL_AVAILABILITY" /\ row.type # "UNAVAILABLE"

SentWithoutSite(e, x) == [editor[e].row EXCEPT !.site = exception[x].site]  \* a slip
Sent(e, x) == editor[e].row

StoreRow(e, x) ==
    /\ exception' = [exception EXCEPT ![x] = Sent(e, x)]
    /\ exposed' = (\/ exposed \/ Unjudged(x, editor[e].row)
                   \/ editor[e].stale)
    /\ Written(e, AffectedByRow(x, editor[e].row))
    /\ UNCHANGED hours

CreateRow(e, x) ==
    /\ editor[e].at = "write" /\ editor[e].id = New
    /\ exception[x] = NoException
    /\ StoreRow(e, x)

\* A row deleted since then is not found.
UpdateRow(e) ==
    /\ editor[e].at = "write" /\ editor[e].id \in Exceptions
    /\ IF exception[editor[e].id] # NoException
       THEN StoreRow(e, editor[e].id)
       ELSE /\ editor' = [editor EXCEPT ![e] = Idle]
            /\ UNCHANGED <<hours, exception, booking, now, ghosts>>

DeleteRow(x) ==
    /\ exception[x] # NoException
    /\ exception' = [exception EXCEPT ![x] = NoException]
    /\ exposed' = (exposed \/ Unjudged(x, NoException))
    /\ editor' = StaleEditors(editor)
    /\ booking' = StaleBookings(booking)
    /\ UNCHANGED <<hours, now, excused, unlisted>>

Tick ==
    /\ \E later \in Clock : later > now /\ now' = later
    /\ UNCHANGED <<hours, exception, booking, editor, ghosts>>

Next ==
    \/ \E b \in Bookings :
          \/ \E service \in Services, site \in Places : Check(b, service, site)
          \/ Book(b) \/ Cancel(b)
    \/ \E e \in Editors :
          \/ SendWeek(e) \/ Acknowledge(e) \/ GiveUp(e) \/ WriteWeek(e) \/ UpdateRow(e)
          \/ \E week \in Weeks : Read(e, week)
          \/ \E x \in Exceptions \cup {New}, row \in Drafts : SendRow(e, x, row)
          \/ \E x \in Exceptions : CreateRow(e, x)
    \/ \E x \in Exceptions : DeleteRow(x)
    \/ Tick

Spec == Init /\ [][Next]_vars

----------------------------------------------------------------------------
\* The stored rows are rows that were sent; a refusal names appointments; what is
\* excused is booked.
TypeOK ==
    /\ hours \in Weeks
    /\ \A x \in Exceptions : exception[x] \in Drafts \cup {NoException}
    /\ \A b \in Bookings :
          /\ booking[b].at \in {"none", "checked", "booked"}
          /\ booking[b].at # "none" => booking[b].service \in Services /\ booking[b].site \in Places
          /\ booking[b].stale => booking[b].at = "checked"
    /\ \A e \in Editors :
          /\ editor[e].at \in {"idle", "reading", "refused", "write"}
          /\ editor[e].at = "refused" => editor[e].listed # {}
    /\ unlisted \subseteq excused
    /\ \A b \in excused : booking[b].at = "booked"

\* Nobody is in the middle of anything.  An edit or a booking under way leaves
\* the diary as it is and can be given up, so that every diary is seen settled.
Settled ==
    /\ \A e \in Editors : editor[e].at = "idle"
    /\ \A b \in Bookings : booking[b].at # "checked"

Stranded == Uncovered(hours, Rows(Exceptions), Future)

\* An appointment that the schedule no longer covers was there when somebody
\* acknowledged stranding appointments; or else a check and a write were run
\* past each other, or an opening was taken away.  The check judges the week
\* that is being saved, and the exceptions without the row being replaced.
StrandedWereExcused == exposed \/ Stranded \subseteq excused

\* The coverage check of one more appointment, by the schedule a search reads.
Strands(q, start) ==
    FindUncovered([periods |-> q.periods, openings |-> q.openings, closures |-> q.closures,
                   zone |-> q.zone,
                   appointments |-> {[id |-> start, start |-> start,
                                      end |-> start + q.service.duration]}])

\* What is offered where it can be judged would be covered once it is booked:
\* the search and the coverage check, two readings of one schedule, agree.
OffersAreCovered ==
    Settled => \A service \in Services, site \in {s \in Places : Judgeable(s)} :
        \A start \in Offers(service, site) :
            Strands(Search(service, site), start) = {}

\* A search returns what a tick-by-tick reading of the schedule allows: the
\* engine's intervals lose no seam, no night shift and no changed hour.
SlotsMatchReference ==
    Settled => \A service \in Services, site \in Places :
        Offers(service, site) = RefSlots(Search(service, site))

\* Every reading of a clock a schedule can ask for has an instant, the first
\* that shows it, or that shows the next reading when it is skipped.
EveryReadingResolves ==
    Settled => \A site \in Places, p \in hours, date \in 0 .. 3 : \A time \in {p.from, p.to} :
        InstantOf(date, time, Zones[site]) = RefResolve(DayLength * date + time, Zones[site])

\* A saved week replaces the week its editor had read: nobody's edit is lost
\* under a form that was opened before it.
SavesBuildOnWhatWasRead ==
    [][hours' # hours => \E e \in Editors : /\ editor[e].at = "write" /\ editor'[e] = Idle
                                            /\ editor[e].week = hours' /\ editor[e].seen = hours]_vars

\* What an acknowledged save strands had been listed in the refusal it answers.
StrandedWereListed == exposed \/ Stranded \cap unlisted = {}
=============================================================================
