------------------------------- MODULE MCApps -------------------------------
(* The windows that show what other programs keep, each with what it shows:  *)
(* the start menu's lists, the app centre and its update of the system, the  *)
(* radios, the settings that are files, the calendar's views and reminders;   *)
(* and the hints, which are shown over the windows of all programs.          *)
(* They share no state, so a behaviour is one of one of them; the variables  *)
(* of the others keep a first value.                                         *)
EXTENDS MenuLauncher, AppCenter, Connections, Preferences, CalendarView, Reminders,
        HintsDaemon, HintsStart

VARIABLE part

vars == <<part, launcherVars, appVars, osVars, connVars, prefVars, calendarVars, reminderVars,
          hintVars, startVars>>

MCSearches == {<<"a", "b">>, <<"a", "b", "a">>}
MCFilters == {{"a", "b"}, {"b"}}
MCLengths == <<2, 3, 2, 3, 2>>
Draft(s, e, allDay, every, until) == [start |-> s, end |-> e, allDay |-> allDay, every |-> every, until |-> until]
MCDrafts ==
    {Draft(p[1], p[2], FALSE, e, Forever) : p \in {<<7, 8>>, <<7, 11>>, <<14, 18>>}, e \in {<<"days", 2>>, <<"months", 1>>}}
    \cup {Draft(1, 4, FALSE, <<"days", 2>>, 7), Draft(1, 4, FALSE, <<"days", 1>>, Forever),
          Draft(7, 8, FALSE, Once, Forever), Draft(3, 6, TRUE, <<"days", 2>>, Forever)}
MCSchedules == {[start |-> 3, alert |-> a, every |-> 0] : a \in {1, 2}} \cup {[start |-> 2, alert |-> 1, every |-> 1]}

MCAlphabet == <<"f", "j">>
MCScreens == {<<>>, <<"a", "b">>, <<"b", "c", "d">>, <<"a", "b", "c", "d", "e">>}

Init ==
    /\ part \in {"launcher", "app centre", "update", "connections", "preferences", "calendar", "reminders",
                "hints", "hints start"}
    /\ LauncherInit /\ AppInit /\ UpdateInit /\ ConnInit /\ PrefInit /\ CalendarInit /\ RemindersInit
    /\ HintsInit /\ HintsStartInit
    /\ part # "app centre" => world = {}
    /\ IF part = "connections" THEN real["wifi"] # "missing" ELSE real = [r \in Radio |-> "missing"]
    /\ part # "preferences" => page = "power" /\ \A s, t \in Settings : stored[s] = (CHOOSE v \in Values : TRUE)
    /\ part # "calendar" => event = NoEvent
    /\ part # "reminders" => events = [id \in Events |-> NotThere] /\ stamps = {} /\ notified = {}

Next ==
    /\ UNCHANGED part
    /\ \/ part = "launcher" /\ LauncherNext
       \/ part # "launcher" /\ UNCHANGED launcherVars
    /\ \/ part = "app centre" /\ AppNext
       \/ part # "app centre" /\ UNCHANGED appVars
    /\ \/ part = "update" /\ UpdateNext
       \/ part # "update" /\ UNCHANGED osVars
    /\ \/ part = "connections" /\ ConnNext
       \/ part # "connections" /\ UNCHANGED connVars
    /\ \/ part = "preferences" /\ PrefNext
       \/ part # "preferences" /\ UNCHANGED prefVars
    /\ \/ part = "calendar" /\ CalendarNext
       \/ part # "calendar" /\ UNCHANGED calendarVars
    /\ \/ part = "reminders" /\ RemindersNext
       \/ part # "reminders" /\ UNCHANGED reminderVars
    /\ \/ part = "hints" /\ HintsNext
       \/ part # "hints" /\ UNCHANGED hintVars
    /\ \/ part = "hints start" /\ HintsStartNext
       \/ part # "hints start" /\ UNCHANGED startVars

Spec == Init /\ [][Next]_vars

TypeOK ==
    /\ part = "launcher" => LauncherTypeOK
    /\ part = "app centre" => AppCenterTypeOK
    /\ part = "update" => UpdateTypeOK
    /\ part = "connections" => ConnTypeOK
    /\ part = "preferences" => PrefTypeOK
    /\ part = "calendar" => CalendarTypeOK
    /\ part = "reminders" => RemindersTypeOK
    /\ part = "hints" => HintsTypeOK
    /\ part = "hints start" => StartTypeOK

(* What the windows show is what is there: see each of them.                 *)
WindowsTellTheTruth ==
    /\ part = "launcher" => StampIsNotAhead /\ ViewsAreCurrent /\ ZombiesAreReaped
    /\ part = "app centre" => RowsTellTheTruth /\ ListHoldsNoRemoved
    /\ part = "connections" => ShowsNoOldReading /\ NoRadioStuckAfterOne
    /\ part = "preferences" => ChoicesHold
    /\ part = "reminders" => StampsAreTrue
    /\ part = "hints" => OverlayIsTheMode /\ DoneIsAsked
    /\ part = "hints start" => OneDaemonUnlessTheyMet /\ DaemonKnowsTheSetting

(* What should be shown is shown, by those that count to find it: each day   *)
(* of a recurring event, each reminder that is due, and a label on each      *)
(* widget that can be typed.                                                 *)
NothingIsLeftOut ==
    /\ part = "calendar" => ViewsAreExact
    /\ part = "reminders" => NoneMissed
    /\ part = "hints" => LabelsCanBeTyped

(* What is stored or run changes only as asked: see each of them.            *)
ChangesAreAsked == RestartsTheVerified /\ SavesChangeTheirSetting /\ NotTwice
=============================================================================
