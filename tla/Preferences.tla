----------------------------- MODULE Preferences -----------------------------
(***************************************************************************)
(* The Power and Taskbar pages (power.rs, taskbar.rs and their folders):   *)
(* the queue of the user's choices, one worker at a time that edits the    *)
(* shared file and has the service load it, and what the page shows. They  *)
(* differ in how the queue takes a choice, the checks and the messages.    *)
(***************************************************************************)
EXTENDS Integers, Sequences, FiniteSets, SequencesExt

CONSTANTS
    Settings,      \* the settings of the page; "profile" is not in the file
    Values,        \* the choices of a setting
    MaxPrefEvents  \* bound: choices of the user, edits by others and failures, together

ASSUME PreferencesAssumption == MaxPrefEvents \in Nat

VARIABLES
    page,      \* "power" or "taskbar"
    stored,    \* the values on disk (of the profile: the system's)
    pageLoaded,    \* the values that hypridle or the bar runs with
    panel,     \* the values that the page shows
    running, pendingSaves, \* the scheduler
    worker,    \* the thread of the running request
    told,      \* the settings with a message that their last change failed or is not applied
    unreadable, \* the settings that the page says it could not read
    prefEvents, \* the choices, edits and failures there were
    wanted,    \* history: the user's last choice that was not refused, cancelled or edited by others
    raced,     \* history: the file was edited between the last check and the rename
    unread,    \* history: the file was edited, or a request cancelled, since the page last showed it
    hushed     \* history: on the Power page, a later success took the message of another setting away

prefVars == <<page, stored, pageLoaded, panel, running, pendingSaves, worker, told, unreadable, prefEvents, wanted,
              raced, unread, hushed>>

None == "none"
Refresh == <<"refresh">>
Sets(request) == Len(request) = 2
NoWorker == [stage |-> None]
Work(request) ==
    [stage |-> IF ~Sets(request) THEN "snapshot" ELSE IF request[1] = "profile" THEN "set" ELSE "read",
     base |-> stored, ok |-> TRUE, void |-> FALSE, saw |-> stored]

PrefEvent == prefEvents < MaxPrefEvents /\ prefEvents' = prefEvents + 1

PrefInit ==
    /\ page \in {"power", "taskbar"}
    /\ stored \in {[s \in Settings |-> v] : v \in Values} /\ pageLoaded = stored /\ panel = [s \in Settings |-> None]
    /\ running = Refresh /\ pendingSaves = <<>> /\ worker = Work(Refresh)
    /\ told = {} /\ unreadable = {} /\ prefEvents = 0
    /\ wanted = [s \in Settings |-> None] /\ raced = FALSE /\ unread = FALSE /\ hushed = FALSE

-----------------------------------------------------------------------------
(***************************************************************************)
(* The schedulers.                                                         *)
(***************************************************************************)
Last2(queue) == IF queue = <<>> THEN running ELSE queue[Len(queue)]

(* Mutant: a choice that is queued already is dropped, later choices or not. *)
TakesQueued(request) ==
    IF request \in ToSet(pendingSaves) \/ Last2(pendingSaves) = request THEN pendingSaves ELSE Append(pendingSaves, request)

(* Power: first in, first out; only a repetition of the last request is dropped. *)
PowerTakes(request) == IF Last2(pendingSaves) = request THEN pendingSaves ELSE Append(pendingSaves, request)

(* Mutant: an older choice of the same setting stays in the queue. *)
TakesAll(request) == IF running = request THEN pendingSaves ELSE Append(pendingSaves, request)

(* retain: of each setting one choice waits at most (PrefTypeOK), and it goes. *)
Without(queue, s) ==
    LET at == {i \in 1..Len(queue) : queue[i][1] = s}
    IN  IF at = {} THEN queue ELSE RemoveAt(queue, CHOOSE i \in at : TRUE)

(* Taskbar: the newest choice of a setting replaces the one that waits. *)
TaskbarTakes(request) ==
    LET others == Without(pendingSaves, request[1])
    IN  IF running = request THEN others ELSE Append(others, request)

Enqueue(request) ==
    IF running = <<>> THEN running' = request /\ worker' = Work(request) /\ UNCHANGED pendingSaves
    ELSE /\ pendingSaves' = IF ~Sets(request) THEN pendingSaves
                       ELSE IF page = "power" THEN PowerTakes(request) ELSE TaskbarTakes(request)
         /\ UNCHANGED <<running, worker>>

Mutating == (running # <<>> /\ Sets(running)) \/ pendingSaves # <<>>

Choose(s, v) ==
    /\ PrefEvent
    /\ Enqueue(<<s, v>>)
    /\ panel' = [panel EXCEPT ![s] = v]
    /\ wanted' = [wanted EXCEPT ![s] = IF running = <<s, v>> /\ worker.void THEN None ELSE v]
    /\ UNCHANGED <<page, stored, pageLoaded, told, unreadable, raced, unread, hushed>>

Poll ==
    /\ running = <<>> /\ Enqueue(Refresh)
    /\ UNCHANGED <<page, stored, pageLoaded, panel, told, unreadable, prefEvents, wanted, raced, unread, hushed>>

-----------------------------------------------------------------------------
(***************************************************************************)
(* The worker: save_timer and change, then a snapshot.                     *)
(***************************************************************************)
Fails == PrefEvent
Setting == running[1]
Text == [worker.base EXCEPT ![Setting] = running[2]]
StepTo(stage) == worker' = [worker EXCEPT !.stage = stage] /\ UNCHANGED wanted
Unconfirmed == worker' = [worker EXCEPT !.stage = "snapshot", !.ok = FALSE] /\ UNCHANGED wanted
Refused == /\ worker' = [worker EXCEPT !.stage = "snapshot", !.ok = FALSE, !.void = TRUE]
           /\ wanted' = [wanted EXCEPT ![Setting] = IF @ = running[2] THEN None ELSE @]

ReadFile ==
    /\ worker.stage = "read"
    /\ \/ worker' = [worker EXCEPT !.stage = "compare", !.base = stored] /\ UNCHANGED <<wanted, prefEvents>>
       \/ Fails /\ Refused
    /\ UNCHANGED <<page, stored, pageLoaded, panel, running, pendingSaves, told, unreadable, raced, unread, hushed>>

(* Mutant: the file is not read again before it is replaced. *)
StillAsAssumed == TRUE

StillAsRead == stored = worker.base

CompareFile ==
    /\ worker.stage = "compare" /\ raced' = FALSE
    /\ IF StillAsRead THEN StepTo("rename") ELSE Refused
    /\ UNCHANGED <<page, stored, pageLoaded, panel, running, pendingSaves, told, unreadable, prefEvents, unread, hushed>>

RenameFile ==
    /\ worker.stage = "rename"
    /\ \/ stored' = Text /\ StepTo(IF page = "power" THEN "unchanged" ELSE "apply") /\ UNCHANGED prefEvents
       \/ Fails /\ Refused /\ UNCHANGED stored
    /\ UNCHANGED <<page, pageLoaded, panel, running, pendingSaves, told, unreadable, raced, unread, hushed>>

(* The file is still what was saved, before hypridle restarts and after. *)
RecheckFile ==
    /\ worker.stage \in {"unchanged", "applied"}
    /\ IF stored = Text THEN StepTo(IF worker.stage = "unchanged" THEN "apply" ELSE "snapshot") ELSE Unconfirmed
    /\ UNCHANGED <<page, stored, pageLoaded, panel, running, pendingSaves, told, unreadable, prefEvents, raced, unread, hushed>>

(* restart loads the whole file; bar-ctl apply or eww update what the setting concerns. *)
ApplyFile ==
    /\ worker.stage = "apply"
    /\ \/ /\ pageLoaded' = IF page = "power" THEN [stored EXCEPT !["profile"] = pageLoaded["profile"]]
                       ELSE [pageLoaded EXCEPT ![Setting] = stored[Setting]]
          /\ StepTo("applied") /\ UNCHANGED prefEvents
       \/ Fails /\ Unconfirmed /\ UNCHANGED pageLoaded
    /\ UNCHANGED <<page, stored, panel, running, pendingSaves, told, unreadable, raced, unread, hushed>>

(* set_profile sets it and reads it back. *)
SetProfile ==
    /\ worker.stage = "set"
    /\ \/ /\ stored' = [stored EXCEPT !["profile"] = running[2]] /\ pageLoaded' = [pageLoaded EXCEPT !["profile"] = running[2]]
          /\ StepTo("snapshot") /\ UNCHANGED prefEvents
       \/ Fails /\ Refused /\ UNCHANGED <<stored, pageLoaded>>
    /\ UNCHANGED <<page, panel, running, pendingSaves, told, unreadable, raced, unread, hushed>>

(* What one read can miss: bar.conf, or of the Power page hypridle.conf, the profile or both. *)
Misses == IF page = "power" THEN {{"profile"}, Settings \ {"profile"}, Settings} ELSE {Settings}

TakeSnapshotOfFile ==
    /\ worker.stage = "snapshot" /\ unread' = FALSE
    /\ \E missed \in {{}} \cup Misses :
          /\ worker' = [worker EXCEPT !.stage = "deliver", !.saw = [s \in Settings \ missed |-> stored[s]]]
          /\ IF missed = {} THEN UNCHANGED prefEvents ELSE Fails
    /\ UNCHANGED <<page, stored, pageLoaded, panel, running, pendingSaves, told, unreadable, wanted, raced, hushed>>

StartNext ==
    IF pendingSaves = <<>> THEN running' = <<>> /\ worker' = NoWorker /\ UNCHANGED pendingSaves
    ELSE running' = Head(pendingSaves) /\ pendingSaves' = Tail(pendingSaves) /\ worker' = Work(Head(pendingSaves))

Tells == IF ~Sets(running) THEN told
         ELSE IF page = "power" THEN (IF worker.ok THEN {} ELSE {Setting})
         ELSE IF worker.ok THEN told \ {Setting} ELSE told \cup {Setting}

(* Mutant: only a refresh shows what it read, a change shows nothing. *)
PublishesRefreshes == ~Sets(running)

(* A refresh that choices wait behind publishes nothing. *)
Publishes == Sets(running) \/ pendingSaves = <<>>

(* What could not be read: the Power page shows no choice, the Taskbar page what it
   showed before, a choice that was refused included. *)
PageShows(s) ==
    IF s \in DOMAIN worker.saw THEN worker.saw[s] ELSE IF page = "power" THEN None ELSE panel[s]

Deliver ==
    /\ worker.stage = "deliver"
    /\ IF Publishes THEN panel' = [s \in Settings |-> PageShows(s)] /\ unreadable' = Settings \ DOMAIN worker.saw
       ELSE UNCHANGED <<panel, unreadable>>
    /\ told' = Tells
    /\ hushed' = (hushed \/ (page = "power" /\ told \ (Tells \cup {Setting}) # {}))
    /\ StartNext
    /\ UNCHANGED <<page, stored, pageLoaded, prefEvents, wanted, raced, unread>>

(* The worker or its delivery is lost: DeliveryGuard::drop, and the queue is cancelled. *)
Abort ==
    /\ running # <<>> /\ Fails
    /\ running' = <<>> /\ pendingSaves' = <<>> /\ worker' = NoWorker
    /\ wanted' = [s \in Settings |-> None] /\ unread' = TRUE
    /\ UNCHANGED <<page, stored, pageLoaded, panel, told, unreadable, raced, hushed>>

(* An editor or another program. *)
EditElsewhere(s, v) ==
    /\ PrefEvent
    /\ stored[s] # v /\ stored' = [stored EXCEPT ![s] = v]
    /\ wanted' = [wanted EXCEPT ![s] = None]
    /\ worker' = IF running # <<>> /\ running[1] = s THEN [worker EXCEPT !.void = TRUE] ELSE worker
    /\ raced' = TRUE /\ unread' = TRUE
    /\ UNCHANGED <<page, pageLoaded, panel, running, pendingSaves, told, unreadable, hushed>>

PrefNext ==
    \/ \E s \in Settings, v \in Values : (page = "power" \/ s # "profile") /\ (Choose(s, v) \/ EditElsewhere(s, v))
    \/ Poll \/ ReadFile \/ CompareFile \/ RenameFile \/ RecheckFile \/ ApplyFile \/ SetProfile
    \/ TakeSnapshotOfFile \/ Deliver \/ Abort

-----------------------------------------------------------------------------
PrefTypeOK ==
    /\ stored \in [Settings -> Values] /\ pageLoaded \in [Settings -> Values] /\ panel \in [Settings -> Values \cup {None}]
    /\ (running = <<>>) = (worker = NoWorker) /\ (running = <<>> => pendingSaves = <<>>)
    /\ told \cup unreadable \subseteq Settings
    /\ page = "taskbar" =>
         \A i, j \in DOMAIN pendingSaves : pendingSaves[i][1] = pendingSaves[j][1] => i = j

(* Whatever was queued, replaced or dropped meanwhile: once no change is running or
   waiting, the user's last choice of each setting is what is on disk, unless it was
   refused, cancelled or edited elsewhere, or repeats one that just was. *)
LastChoiceStands ==
    ~Mutating => \A s \in Settings : wanted[s] # None => stored[s] = wanted[s]

(* A choice without a message is also what the service runs with. *)
SilenceMeansApplied ==
    (~Mutating /\ ~hushed) =>
        \A s \in Settings \ told : wanted[s] # None => pageLoaded[s] = wanted[s]

(* Once nothing runs, the page shows of each setting what is on disk, however reads
   and choices overlapped, or says that it could not be read; the Power page then
   shows no choice. *)
ShowsTheFile ==
    (running = <<>> /\ ~unread) =>
        \A s \in Settings :
            panel[s] = stored[s] \/ (s \in unreadable /\ (page = "power" => panel[s] = None))

ChoicesHold == LastChoiceStands /\ SilenceMeansApplied /\ ShowsTheFile

(* A save changes its own setting only: an edit that was made elsewhere after the
   file was read is not undone, but for the moment between the last check and the
   rename. *)
SavesChangeTheirSetting ==
    [][(worker.stage = "rename" /\ stored' # stored /\ prefEvents' = prefEvents /\ ~raced) =>
           \A s \in Settings \ {running[1]} : stored'[s] = stored[s]]_prefVars
=============================================================================
