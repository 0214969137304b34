---------------------------- MODULE CalendarView ----------------------------
(***************************************************************************)
(* A calendar window (calendar/src): the month that is viewed, the event   *)
(* editor and the database behind them, with the expansion of recurring    *)
(* events into the day list and the month grid. A day has DaySlots         *)
(* instants, the first midnight; other windows edit the database too.      *)
(***************************************************************************)
EXTENDS Integers, Sequences, FiniteSets, Folds

CONSTANTS
    MonthLengths, \* the months the calendar reaches, in days
    DaySlots,     \* instants of a day
    Gaps,         \* instants that the clock skips
    Drafts,       \* events that a user may enter: [start, end, allDay, every, until]
    Margin,       \* days of the neighbours that the grid of a month shows
    MaxSaves      \* bound: changes of the database

ASSUME CalendarAssumption ==
    /\ MonthLengths \in Seq(Nat \ {0}) /\ DaySlots \in Nat \ {0} /\ Margin \in Nat /\ MaxSaves \in Nat

VARIABLES
    event,    \* the row of the database, or NoEvent
    month, selectedDay, \* CalState
    form,     \* the editor: the interval it was opened with and the one it holds
    saves     \* counter of the bound

calendarVars == <<event, month, selectedDay, form, saves>>

Months == 1..Len(MonthLengths)
MonthStart == [m \in 1..Len(MonthLengths) + 1 |->
                  MapThenFoldSet(+, 0, LAMBDA n : MonthLengths[n], LAMBDA T : CHOOSE n \in T : TRUE, 1..m - 1)]
LastDay == MonthStart[Len(MonthLengths) + 1]
MonthOf(day) == CHOOSE m \in Months : MonthStart[m] <= day /\ day < MonthStart[m + 1]
DayOf(instant) == instant \div DaySlots
Least(a, b) == IF a < b THEN a ELSE b

NoEvent == [every |-> <<"gone">>]
NoForm == [open |-> FALSE]
Once == <<"none">>
Forever == LastDay

-----------------------------------------------------------------------------
(***************************************************************************)
(* recurrence::starts                                                      *)
(***************************************************************************)
(* Mutant: a month that is too short shortens all that follow. *)
RepeatedClamp(ev, k) ==
    LET anchor == DayOf(ev.start)
        m == MonthOf(anchor)
        shortest == CHOOSE n \in {MonthLengths[i] : i \in m..m + k} : \A i \in m..m + k : n <= MonthLengths[i]
    IN  IF ev.every[1] = "days" THEN anchor + k * ev.every[2]
        ELSE MonthStart[m + k] + Least(anchor - MonthStart[m], shortest - 1)

(* The k-th date, counted from the first: a date that a month does not have is its last. *)
Repeated(ev, k) ==
    LET anchor == DayOf(ev.start)
        m == MonthOf(anchor) + k * ev.every[2]
    IN  IF ev.every[1] = "days" THEN anchor + k * ev.every[2]
        ELSE MonthStart[m] + Least(anchor - MonthStart[MonthOf(anchor)], MonthLengths[m] - 1)

Reaches(ev, k) == IF ev.every[1] = "days" THEN Repeated(ev, k) < LastDay
                  ELSE MonthOf(DayOf(ev.start)) + k * ev.every[2] \in Months
Instant(ev, k) == Repeated(ev, k) * DaySlots + (ev.start % DaySlots)
Exists(ev, k) == k = 0 \/ Instant(ev, k) \notin Gaps

(* Mutant: the search starts at the date after the one that may overlap. *)
FirstIndexLate(ev, from) ==
    LET anchor == DayOf(ev.start)
        steps == IF ev.every[1] = "days" THEN (DayOf(from) - anchor) \div ev.every[2] + 1 ELSE MonthOf(DayOf(from)) - MonthOf(anchor)
    IN  IF steps < 0 THEN 0 ELSE steps

(* Where the search starts: a repetition before the first date of the range. *)
FirstIndex(ev, from) ==
    LET anchor == DayOf(ev.start)
        steps == IF ev.every[1] = "days" THEN (DayOf(from) - anchor) \div ev.every[2]
                 ELSE (MonthOf(DayOf(from)) - MonthOf(anchor)) \div ev.every[2]
    IN  IF steps < 1 THEN 0 ELSE steps - 1

(* The repetitions whose start is in from..to-1, found by going on until one is
   past the range or past the end of the series. *)
Starts(ev, from, to) ==
    LET first == FirstIndex(ev, from)
        Past(k) == ~Reaches(ev, k) \/ Repeated(ev, k) > DayOf(to - 1) \/ Repeated(ev, k) > ev.until
                   \/ (Exists(ev, k) /\ Instant(ev, k) >= to)
    IN  {k \in first..LastDay : /\ \A j \in first..k : ~Past(j)
                                /\ Exists(ev, k) /\ Instant(ev, k) >= from}

-----------------------------------------------------------------------------
(***************************************************************************)
(* LocalProvider: what is in a range, of a day and of a month.             *)
(***************************************************************************)
Occurrence(ev, k) == [start |-> Instant(ev, k), end |-> Instant(ev, k) + (ev.end - ev.start)]

(* Mutant: only what starts in the range is expanded. *)
NoLookback(ev) == 0

(* An occurrence that started before the range may reach into it. *)
Lookback(ev) == (ev.end - ev.start) + (IF ev.allDay THEN DaySlots ELSE 0)

ExpandRecurring(ev, from, to) ==
    LET early == IF from > Lookback(ev) THEN from - Lookback(ev) ELSE 0 IN
    {o \in {Occurrence(ev, k) : k \in Starts(ev, early, to)} : o.end > from}

Queried(from, to) ==
    event # NoEvent /\ event.start < to /\ (event.end > from \/ event.every # Once)

InRange(from, to) ==
    IF ~Queried(from, to) THEN {}
    ELSE IF event.every = Once THEN {[start |-> event.start, end |-> event.end]}
    ELSE ExpandRecurring(event, from, to)

EventsForDay(day) == InRange(day * DaySlots, (day + 1) * DaySlots)
EventsForMonth(m) == InRange(MonthStart[m] * DaySlots, MonthStart[m + 1] * DaySlots)

(* The grid: the events of three months, each once, on the days they reach. *)
Covers(o, day) ==
    \/ DayOf(o.start) = day
    \/ /\ DayOf(o.start) < day
       /\ \/ DayOf(o.end) > day
          \/ DayOf(o.end) = day /\ o.end % DaySlots > 0
GridDays == MonthStart[month] - Margin..MonthStart[month + 1] + Margin - 1
Fetched == UNION {EventsForMonth(m) : m \in month - 1..month + 1}
OnGrid == LET fetched == Fetched IN [day \in GridDays |-> {o \in fetched : Covers(o, day)}]

-----------------------------------------------------------------------------
(***************************************************************************)
(* The window. The first and the last month are not viewed.                *)
(***************************************************************************)
Viewable == 2..Len(MonthLengths) - 1
ViewedDay == MonthStart[month] + selectedDay - 1

CalendarInit ==
    /\ event \in Drafts \cup {NoEvent}
    /\ month = 2 /\ selectedDay = 1 /\ form = NoForm /\ saves = 0

(* Mutant: the day is kept when the month is left. *)
DayKept(day, m) == day

Clamped(day, m) == Least(day, MonthLengths[m])

GoTo(m, day) ==
    /\ ~form.open /\ m \in Viewable
    /\ month' = m /\ selectedDay' = Clamped(day, m)
    /\ UNCHANGED <<event, form, saves>>

PrevMonth == GoTo(month - 1, selectedDay)
NextMonth == GoTo(month + 1, selectedDay)
SelectDay(day) == day \in 1..MonthLengths[month] /\ GoTo(month, day)

(* A cell of the grid that belongs to a neighbouring month. *)
NavigateToMonthDay(day) ==
    /\ day \in GridDays /\ MonthOf(day) # month
    /\ GoTo(MonthOf(day), day - MonthStart[MonthOf(day)] + 1)

Changed(how) == saves < MaxSaves /\ saves' = saves + 1 /\ event' = how

NewEvent(draft) ==
    /\ ~form.open /\ event = NoEvent
    /\ form' = [open |-> TRUE, editing |-> FALSE, from |-> draft, draft |-> draft, touched |-> TRUE]
    /\ UNCHANGED <<event, month, selectedDay, saves>>

(* The form holds the occurrence that was clicked, not the series. *)
EditEvent(o) ==
    /\ ~form.open
    /\ LET draft == [event EXCEPT !.start = o.start, !.end = o.end] IN
       form' = [open |-> TRUE, editing |-> TRUE, from |-> draft, draft |-> draft, touched |-> FALSE]
    /\ UNCHANGED <<event, month, selectedDay, saves>>

(* The end follows a start that is moved behind it, by the shortest event. *)
ChangeForm(start, every) ==
    /\ form.open /\ ~form.touched
    /\ form' = [form EXCEPT !.draft.start = start, !.draft.every = every, !.touched = TRUE,
                            !.draft.end = IF form.draft.end > start THEN form.draft.end ELSE start + 1]
    /\ UNCHANGED <<event, month, selectedDay, saves>>

CancelForm == form.open /\ form' = NoForm /\ UNCHANGED <<event, month, selectedDay, saves>>

(* Mutant: the row is written as a new event's, which has no end of the series. *)
RowAsNew == [form.draft EXCEPT !.until = Forever]

(* What the form does not show is kept from the row. *)
Row == IF form.editing THEN [form.draft EXCEPT !.until = event.until] ELSE form.draft

(* The event is looked up on the day that is viewed; if it is gone, nothing is saved. *)
SaveEvent ==
    /\ form.open
    /\ form.editing => EventsForDay(ViewedDay) # {}
    /\ Changed(Row)
    /\ form' = NoForm
    /\ LET day == DayOf(form.draft.start) IN
       IF MonthOf(day) \in Viewable THEN month' = MonthOf(day) /\ selectedDay' = day - MonthStart[MonthOf(day)] + 1
       ELSE UNCHANGED <<month, selectedDay>>

DeleteEvent ==
    /\ ~form.open /\ EventsForDay(ViewedDay) # {}
    /\ Changed(NoEvent) /\ UNCHANGED <<month, selectedDay, form>>

(* Another calendar window. *)
SavedElsewhere(draft) == draft # event /\ Changed(draft) /\ UNCHANGED <<month, selectedDay, form>>

CalendarNext ==
    \/ PrevMonth \/ NextMonth \/ CancelForm \/ SaveEvent \/ DeleteEvent
    \/ \E day \in 0..LastDay - 1 : SelectDay(day) \/ NavigateToMonthDay(day)
    \/ \E draft \in Drafts : NewEvent(draft) \/ SavedElsewhere(draft)
    \/ \E o \in EventsForDay(ViewedDay) : EditEvent(o)
    \/ \E draft \in Drafts : ChangeForm(draft.start, draft.every)
    \/ SavedElsewhere(NoEvent)

-----------------------------------------------------------------------------
(* The occurrences there are, by what a series is: no index, no range. A month has
   the date of the first one, or else its last. *)
DaysOfMonth(m) == MonthStart[m]..MonthStart[m + 1] - 1
SeriesDays(ev) ==
    LET anchor == DayOf(ev.start)
        first == MonthOf(anchor)
        May(m) == {day \in DaysOfMonth(m) : day - MonthStart[m] <= anchor - MonthStart[first]}
    IN  IF ev.every[1] = "days" THEN {day \in anchor..LastDay - 1 : (day - anchor) % ev.every[2] = 0}
        ELSE {CHOOSE day \in May(m) : \A d \in May(m) : d <= day :
                 m \in {n \in Months : n >= first /\ (n - first) % ev.every[2] = 0}}

Occurrences(ev) ==
    IF ev = NoEvent THEN {}
    ELSE IF ev.every = Once THEN {[start |-> ev.start, end |-> ev.end]}
    ELSE {o \in {LET start == day * DaySlots + (ev.start % DaySlots) IN
                    [start |-> start, end |-> start + (ev.end - ev.start)] :
                     day \in {d \in SeriesDays(ev) : d <= ev.until}} :
             o.start = ev.start \/ o.start \notin Gaps}

CalendarTypeOK ==
    /\ month \in Viewable /\ selectedDay \in 1..MonthLengths[month]
    /\ event # NoEvent => event.end > event.start

(* The list of a day holds every occurrence that reaches into the day, and no
   other, however the expansion searches for it; and a cell of the grid counts what
   the list of its day holds, also for the days of the neighbouring months and what
   goes on over midnight or the end of a month. An open editor leaves the event and
   the month, and so the views, as they are. *)
ViewsAreExact ==
    ~form.open =>
    LET all == Occurrences(event)
        grid == OnGrid
    IN  \A day \in GridDays :
            /\ EventsForDay(day) = {o \in all : o.start < (day + 1) * DaySlots /\ o.end > day * DaySlots}
            /\ grid[day] = EventsForDay(day)

(* Saving an occurrence's form as it was opened changes nothing from that occurrence
   on (those before it are gone: the series then starts with it), unless the
   occurrence had been moved to the end of a shorter month. *)
InPlace(ev, start) == ev.every[1] # "months"
                      \/ start \div DaySlots - MonthStart[MonthOf(DayOf(start))] = DayOf(ev.start) - MonthStart[MonthOf(DayOf(ev.start))]
SaveKeepsWhatFollows ==
    [][(form.open /\ form.editing /\ ~form.touched /\ saves' # saves /\ ~form'.open
        /\ [event EXCEPT !.start = form.from.start, !.end = form.from.end] = form.from
        /\ InPlace(event, form.from.start)) =>
           Occurrences(event') = {o \in Occurrences(event) : o.start >= form.from.start}]_calendarVars
=============================================================================
