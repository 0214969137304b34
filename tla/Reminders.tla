----------------------------- MODULE Reminders -----------------------------
(***************************************************************************)
(* The calendar's reminder daemon (calendar/src/alarm.rs, bin/alertd.rs):  *)
(* every poll it lists the events, and for each occurrence whose reminder  *)
(* is due, or was at most five minutes ago, it notifies the user and       *)
(* stamps the occurrence in the database that the calendar's window edits  *)
(* meanwhile.  A unit of time is one poll.                                 *)
(***************************************************************************)
EXTENDS Integers, FiniteSets, FiniteSetsExt

CONSTANTS
    Events,     \* the ids events may have
    Schedules,  \* what an event's schedule may be: [start, alert, every], every = 0 for a single one
    Titles,     \* what an event may be called
    Lateness,   \* MAX_LATENESS_SECONDS, in polls
    MaxTime,    \* bound: the time the runs end at
    MaxEdits,   \* bound: edits by the user
    MaxAlertFaults \* bound: deliveries and stamps that fail, timeouts, crashes

ASSUME RemindersAssumption ==
    /\ Events \subseteq Nat /\ Lateness \in Nat \ {0} /\ MaxTime \in Nat /\ MaxEdits \in Nat /\ MaxAlertFaults \in Nat
    /\ \A s \in Schedules : s.start \in Nat /\ s.alert \in Nat \ {0} /\ s.every \in Nat

VARIABLES
    clock,     \* the time
    events,    \* the events table
    stamps,    \* the sent_alerts table: [id, at, revision]
    daemon,    \* "down", "asleep" or "ticking"
    polled,    \* when the daemon last began a poll
    todo,      \* the occurrences this poll has still to look at, with their event as it was read
    sending,   \* the occurrence that was delivered and is not stamped yet
    edits,     \* how many edits there were
    alertFaults, \* how many faults there were
    notified,  \* history: what the user was shown
    forgotten, \* history: what was shown and lost its stamp, or never got it
    steady     \* history: since when the daemon is up and each event is as it is

reminderVars == <<clock, events, stamps, daemon, polled, todo, sending, edits, alertFaults, notified, forgotten, steady>>

NotThere == [title |-> "none"]
Nothing == [id |-> -1]
Legacy == [start |-> -1, alert |-> 0, every |-> 0]   \* the NULL of a row that an older version stamped

Schedule(e) == [start |-> e.start, alert |-> e.alert, every |-> e.every]
Revision(e) == Schedule(e)
Event(s, title) == [title |-> title, start |-> s.start, alert |-> s.alert, every |-> s.every]
EventExists(id) == events[id] # NotThere

StartsOf(e) == IF e.every = 0 THEN {e.start} ELSE {t \in e.start..(MaxTime + e.alert) : (t - e.start) % e.every = 0}
Due(e, t) == t - e.alert
(* Mutant: only what is due at this poll. *)
DueNow(e, time) == {t \in StartsOf(e) : Due(e, t) = time}

(* occurrences: the reminder is due in the window that ends now. *)
DueOccurrences(e, time) == {t \in StartsOf(e) : Due(e, t) >= time - Lateness /\ Due(e, t) <= time}

Shown(id, t, e) == [id |-> id, at |-> t, revision |-> Revision(e)]

RemindersInit ==
    /\ clock = 0
    /\ events \in [Events -> {NotThere} \cup {Event(s, title) : s \in Schedules, title \in Titles}]
    /\ \E old \in BOOLEAN :
          LET rows == {r \in Events \X (0..MaxTime) : old /\ EventExists(r[1]) /\ r[2] = events[r[1]].start} IN
          /\ stamps = {[id |-> r[1], at |-> r[2], revision |-> Legacy] : r \in rows}
          /\ notified = {Shown(r[1], r[2], events[r[1]]) : r \in rows}
    /\ daemon = "down" /\ polled = 0 /\ todo = {} /\ sending = Nothing
    /\ edits = 0 /\ alertFaults = 0 /\ forgotten = {} /\ steady = [id \in Events |-> 0]

-----------------------------------------------------------------------------
(***************************************************************************)
(* The daemon.                                                             *)
(***************************************************************************)
(* It takes the lock, opens the database and polls at once. *)
StartDaemon ==
    /\ daemon = "down"
    /\ daemon' = "asleep" /\ polled' = clock - 1
    /\ steady' = [id \in Events |-> clock]
    /\ UNCHANGED <<clock, events, stamps, todo, sending, edits, alertFaults, notified, forgotten>>

BeginPoll ==
    /\ daemon = "asleep" /\ polled < clock
    /\ daemon' = "ticking" /\ polled' = clock
    /\ todo' = UNION {{[id |-> id, at |-> t, event |-> events[id]] : t \in DueOccurrences(events[id], clock)}
                      : id \in {i \in Events : EventExists(i)}}
    /\ UNCHANGED <<clock, events, stamps, sending, edits, alertFaults, notified, forgotten, steady>>

(* Events in the order of the table, occurrences in the order of time. *)
Before(a, b) == a.id < b.id \/ (a.id = b.id /\ a.at < b.at)
IsFirst(o) == o \in todo /\ \A other \in todo \ {o} : Before(o, other)

AlreadySent(o) ==
    \E s \in stamps : s.id = o.id /\ s.at = o.at /\ s.revision \in {Legacy, Revision(o.event)}
Unchanged(o) == events[o.id] = o.event
InWindow(o) == clock >= Due(o.event, o.at) /\ clock - Due(o.event, o.at) <= Lateness

AlertFault == alertFaults < MaxAlertFaults /\ alertFaults' = alertFaults + 1

(* Stamped already, edited since it was listed, or too late by now: not delivered. *)
SkipOccurrence(o) ==
    /\ daemon = "ticking" /\ sending = Nothing /\ IsFirst(o)
    /\ AlreadySent(o) \/ ~Unchanged(o) \/ ~InWindow(o)
    /\ todo' = todo \ {o}
    /\ UNCHANGED <<clock, events, stamps, daemon, polled, sending, edits, alertFaults, notified, forgotten, steady>>

Deliverable(o) == daemon = "ticking" /\ sending = Nothing /\ IsFirst(o) /\ ~AlreadySent(o) /\ Unchanged(o) /\ InWindow(o)

DeliverReminder(o) ==
    /\ Deliverable(o)
    /\ notified' = notified \cup {Shown(o.id, o.at, o.event)}
    /\ sending' = o
    /\ UNCHANGED <<clock, events, stamps, daemon, polled, todo, edits, alertFaults, forgotten, steady>>

(* notify-send is refused, or hangs and is killed, perhaps after it showed. *)
DeliveryFails(o) ==
    /\ Deliverable(o) /\ AlertFault
    /\ \/ UNCHANGED <<notified, forgotten>>
       \/ /\ notified' = notified \cup {Shown(o.id, o.at, o.event)}
          /\ forgotten' = forgotten \cup {<<o.id, o.at>>}
    /\ todo' = todo \ {o}
    /\ UNCHANGED <<clock, events, stamps, daemon, polled, sending, edits, steady>>

(* Mutant: a title that was corrected meanwhile leaves the occurrence unstamped. *)
SameEvent(o) == events[o.id] = o.event

(* Only the schedule that was delivered is stamped. *)
StillScheduled(o) == EventExists(o.id) /\ Schedule(events[o.id]) = Schedule(o.event)

(* Mutant: the row is stamped with the schedule the event has by now. *)
StampWhatIsThere ==
    /\ sending # Nothing
    /\ stamps' = IF EventExists(sending.id)
                 THEN {s \in stamps : s.id # sending.id \/ s.at # sending.at}
                          \cup {Shown(sending.id, sending.at, events[sending.id])}
                 ELSE stamps
    /\ todo' = todo \ {sending}
    /\ sending' = Nothing
    /\ UNCHANGED <<clock, events, daemon, polled, edits, alertFaults, notified, forgotten, steady>>

Stamp ==
    /\ sending # Nothing
    /\ stamps' = IF StillScheduled(sending)
                 THEN {s \in stamps : s.id # sending.id \/ s.at # sending.at}
                          \cup {Shown(sending.id, sending.at, sending.event)}
                 ELSE stamps
    /\ todo' = todo \ {sending}
    /\ sending' = Nothing
    /\ UNCHANGED <<clock, events, daemon, polled, edits, alertFaults, notified, forgotten, steady>>

(* The database fails the stamp: the poll ends there. *)
StampFails ==
    /\ sending # Nothing /\ AlertFault
    /\ forgotten' = forgotten \cup {<<sending.id, sending.at>>}
    /\ todo' = {} /\ sending' = Nothing
    /\ UNCHANGED <<clock, events, stamps, daemon, polled, edits, notified, steady>>

EndPoll ==
    /\ daemon = "ticking" /\ todo = {} /\ sending = Nothing
    /\ daemon' = "asleep"
    /\ UNCHANGED <<clock, events, stamps, polled, todo, sending, edits, alertFaults, notified, forgotten, steady>>

AlertdCrash ==
    /\ daemon # "down" /\ AlertFault
    /\ daemon' = "down" /\ todo' = {} /\ sending' = Nothing
    /\ forgotten' = IF sending = Nothing THEN forgotten ELSE forgotten \cup {<<sending.id, sending.at>>}
    /\ UNCHANGED <<clock, events, stamps, polled, edits, notified, steady>>

-----------------------------------------------------------------------------
(***************************************************************************)
(* The user, and time.  The triggers take the stamps of an event whose     *)
(* schedule changes, or that is deleted.                                   *)
(***************************************************************************)
Edit == edits < MaxEdits /\ edits' = edits + 1

(* Mutant: the trigger is only run for a new start. *)
StampsAfterStart(id, e) ==
    IF e # NotThere /\ EventExists(id) /\ e.start = events[id].start THEN stamps ELSE {s \in stamps : s.id # id}

StampsAfter(id, e) ==
    IF e # NotThere /\ EventExists(id) /\ Schedule(e) = Schedule(events[id]) THEN stamps ELSE {s \in stamps : s.id # id}

ChangeEvent(id, e) ==
    /\ Edit /\ EventExists(id) /\ e # events[id]
    /\ events' = [events EXCEPT ![id] = e]
    /\ stamps' = StampsAfter(id, e)
    /\ forgotten' = IF e # NotThere /\ Schedule(e) = Schedule(events[id]) THEN forgotten
                    ELSE forgotten \cup {<<s.id, s.at>> : s \in {n \in notified : n.id = id}}
    /\ steady' = [steady EXCEPT ![id] = clock]
    /\ UNCHANGED <<clock, daemon, polled, todo, sending, alertFaults, notified>>

(* Time: a poll is never more than one unit late. *)
Pass ==
    /\ clock < MaxTime /\ clock' = clock + 1
    /\ daemon = "down" \/ polled = clock
    /\ UNCHANGED <<events, stamps, daemon, polled, todo, sending, edits, alertFaults, notified, forgotten, steady>>

RemindersNext ==
    \/ StartDaemon \/ BeginPoll
    \/ \E o \in todo : SkipOccurrence(o) \/ DeliverReminder(o) \/ DeliveryFails(o)
    \/ Stamp \/ StampFails \/ EndPoll \/ AlertdCrash \/ Pass
    \/ \E id \in Events : ChangeEvent(id, NotThere)
    \/ \E id \in Events, s \in Schedules, title \in Titles : ChangeEvent(id, Event(s, title))

-----------------------------------------------------------------------------
RemindersTypeOK ==
    /\ clock \in 0..MaxTime /\ polled \in -1..MaxTime /\ edits \in 0..MaxEdits /\ alertFaults \in 0..MaxAlertFaults
    /\ daemon \in {"down", "asleep", "ticking"} /\ DOMAIN events = Events
    /\ \A s \in stamps : s.id \in Events /\ s.revision \in Schedules \cup {Legacy}
    /\ \A s, t \in stamps : (s.id = t.id /\ s.at = t.at) => s = t
    /\ sending # Nothing => sending \in todo

(* A stamp of the schedule an event has now stands for a reminder that was shown. *)
StampsAreTrue == \A s \in stamps : (s.revision # Legacy /\ EventExists(s.id)) => s \in notified

(* A reminder whose window is over was shown, if the daemon ran and nobody edited
   the event since before it was due; even if one delivery or one stamp failed. *)
NoneMissed ==
    \A id \in Events : EventExists(id) =>
        \A t \in StartsOf(events[id]) :
            LET due == Due(events[id], t) IN
            (daemon # "down" /\ steady[id] < due /\ clock > due + Lateness + 1 /\ alertFaults <= 1)
                => Shown(id, t, events[id]) \in notified

(* Nobody is reminded twice of an occurrence of one schedule, unless the stamp
   of the first time was lost to a crash, an error or an edit of the schedule. *)
NotTwice ==
    [][(sending' # Nothing /\ sending' # sending) =>
          \/ Shown(sending'.id, sending'.at, sending'.event) \notin notified
          \/ <<sending'.id, sending'.at>> \in forgotten]_reminderVars
=============================================================================
