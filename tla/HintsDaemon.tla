----------------------------- MODULE HintsDaemon -----------------------------
(***************************************************************************)
(* The hints daemon (hints/src/bin/daemon.rs): the mode machine on the     *)
(* main thread, the overlay with its labels, and the thread that owns the  *)
(* virtual pointer (inject.rs).  An enumeration of the accessibility bus   *)
(* blocks the main thread, so a command or a key is one step.              *)
(***************************************************************************)
EXTENDS Integers, SequencesExt, FiniteSetsExt

CONSTANTS
    Alphabet,     \* Config::hint_chars
    Screens,      \* what an enumeration may find: sequences of widgets, top to bottom
    Width,        \* columns the virtual cursor may be in
    MaxCommands,  \* bound: commands
    MaxKeys,      \* bound: keys
    MaxUiFaults   \* bound: enumerations and windows that fail

ASSUME HintsAssumption ==
    /\ Len(Alphabet) > 1 /\ IsInjective(Alphabet) /\ Width \in Nat \ {0}
    /\ {MaxCommands, MaxKeys, MaxUiFaults} \subseteq Nat
    /\ \A ws \in Screens : ws \in Seq(ToSet(ws))

VARIABLES
    mode,        \* Daemon::mode: its kind, target, prefix, labels and drag_source
    widgets, cursor,
    overlay,     \* the window: whether it is shown, for which mode, with which hints
    queue,       \* the channel to the pointer thread
    pump,        \* that thread: at recv, draining, or gone
    buffer,      \* events not flushed to the compositor yet
    done,        \* what the compositor got
    asked,       \* history: what the user chose on the overlay
    commands, keys, uiFaults

hintVars == <<mode, widgets, cursor, overlay, queue, pump, buffer, done, asked, commands, keys, uiFaults>>
pointerVars == <<queue, pump, buffer, done>>

Targets == {"click", "hover", "drag"}
Idle == [kind |-> "idle"]
Letters == ToSet(Alphabet)

-----------------------------------------------------------------------------
(* The n-th word of k letters. *)
Word(k, n) == [d \in 1..k |-> Alphabet[(((n - 1) \div Len(Alphabet)^(k - d)) % Len(Alphabet)) + 1]]

(* Mutant: the letters that are left over label one widget each. *)
GenerateMixed(count) ==
    LET size == Len(Alphabet)
    IN [n \in 1..count |-> IF n <= size THEN Word(1, n) ELSE Word(2, n - size)]

(* One letter if that is enough; otherwise two letters, and three for what
   is left after all pairs. *)
Generate(count) ==
    LET size == Len(Alphabet)
    IN [n \in 1..count |-> CASE count <= size -> Word(1, n)
                             [] count > size /\ n <= size * size -> Word(2, n)
                             [] OTHER -> Word(3, n - size * size)]

Candidates(labels, prefix) == {n \in DOMAIN labels : IsPrefix(prefix, labels[n])}

(* Mutant: labels are filtered before they are paired with the widgets. *)
HintLabelsShifted(ws, labels, prefix) ==
    LET left == SelectSeq(labels, LAMBDA l : IsPrefix(prefix, l))
    IN {[at |-> ws[n], label |-> left[n]] : n \in DOMAIN left \cap DOMAIN ws}

(* The labels that can still be typed, each on its widget. *)
HintLabels(ws, labels, prefix) ==
    {[at |-> ws[n], label |-> labels[n]] : n \in Candidates(labels, prefix) \cap DOMAIN ws}

Hidden == [shown |-> FALSE, kind |-> "idle", hints |-> {}]
HintsInit ==
    /\ mode = Idle /\ widgets = <<>> /\ cursor = Width \div 2
    /\ overlay = Hidden
    /\ queue = <<>> /\ pump = "recv" /\ buffer = <<>> /\ done = <<>> /\ asked = <<>>
    /\ commands = 0 /\ keys = 0 /\ uiFaults = 0

-----------------------------------------------------------------------------
(***************************************************************************)
(* The commands.  Reload and Ping change no mode; a daemon that is         *)
(* disabled answers so.                                                    *)
(***************************************************************************)
UiFails == uiFaults < MaxUiFaults /\ uiFaults' = uiFaults + 1
UiWorks == UNCHANGED uiFaults

Select(target, labels, source) ==
    [kind |-> "select", target |-> target, prefix |-> <<>>, labels |-> labels, source |-> source]

(* The bus or the window fails, or nothing is found: the mode stays.  The
   labels of the window are set before it is shown; only a hidden window
   can fail to be shown. *)
EnterHintMode(target) ==
    \/ UiFails /\ UNCHANGED <<mode, widgets, cursor, overlay>>
    \/ \E ws \in Screens :
        LET labels == Generate(Len(ws))
            drawn == [shown |-> TRUE, kind |-> "select", hints |-> HintLabels(ws, labels, <<>>)]
        IN \/ ws = <<>> /\ UiWorks /\ UNCHANGED <<mode, widgets, cursor, overlay>>
           \/ /\ ws # <<>> /\ UiFails /\ ~overlay.shown
              /\ overlay' = [drawn EXCEPT !.shown = FALSE] /\ UNCHANGED <<mode, widgets, cursor>>
           \/ /\ ws # <<>> /\ UiWorks
              /\ mode' = Select(target, labels, 0) /\ widgets' = ws
              /\ overlay' = drawn /\ UNCHANGED cursor

EnterMode(kind) ==
    LET drawn == [shown |-> TRUE, kind |-> kind, hints |-> {}]
    IN /\ UNCHANGED <<widgets, cursor>>
       /\ \/ UiWorks /\ mode' = [kind |-> kind] /\ overlay' = drawn
          \/ ~overlay.shown /\ UiFails /\ overlay' = [drawn EXCEPT !.shown = FALSE] /\ UNCHANGED mode

Dispatch ==
    /\ commands < MaxCommands /\ commands' = commands + 1
    /\ \/ \E target \in Targets : EnterHintMode(target)
       \/ \E kind \in {"cursor", "scroll"} : EnterMode(kind)
    /\ UNCHANGED <<keys, asked>> /\ UNCHANGED pointerVars

-----------------------------------------------------------------------------
(***************************************************************************)
(* The keys.  Every use of the pointer but a motion of the cursor is made  *)
(* through a clone of the handle, and dropping a handle sends a shutdown.  *)
(***************************************************************************)
Shutdown == [what |-> "shutdown"]
Act(what, at) == [what |-> what, at |-> at]

ThroughClone(acts) == queue' = IF pump = "gone" THEN queue ELSE queue \o acts \o <<Shutdown>>
Directly(act) == queue' = IF pump = "gone" THEN queue ELSE Append(queue, act)

Close == mode' = Idle /\ widgets' = <<>> /\ overlay' = [overlay EXCEPT !.shown = FALSE]

(* What the user means: the widget under the label that was typed in full. *)
Meant(typed) ==
    LET under == {hint \in overlay.hints : hint.label = typed}
    IN IF under = {} THEN 0 ELSE (CHOOSE hint \in under : TRUE).at

(* The widget a label leads to.  A drag is a click on its second widget. *)
Commit(n, typed) ==
    /\ asked' = Append(asked, Act(mode.target, Meant(typed)))
    /\ Close
    /\ ThroughClone(IF n \in DOMAIN widgets
                    THEN <<Act(IF mode.target = "hover" THEN "hover" ELSE "click", widgets[n])>> ELSE <<>>)
    /\ UNCHANGED <<cursor, uiFaults>>

(* The source goes in front of the widgets that the bus gives now. *)
DragSourceChosen(n) ==
    /\ \/ UiFails /\ Close
       \/ \E ws \in Screens :
            LET labels == Generate(Len(ws))
            IN /\ UiWorks
               /\ mode' = Select("drag", labels, n)
               /\ widgets' = <<widgets[n]>> \o ws
               /\ overlay' = [overlay EXCEPT !.hints = HintLabels(ws, labels, <<>>)]
    /\ UNCHANGED <<cursor, asked>> /\ UNCHANGED pointerVars

(* Mutant: a wrong letter is left in the prefix that is kept. *)
WrongLetterStays(prefix) ==
    /\ mode' = [mode EXCEPT !.prefix = prefix]
    /\ overlay' = [overlay EXCEPT !.hints = HintLabels(widgets, mode.labels, <<>>)]

WrongLetter(prefix) ==
    /\ mode' = [mode EXCEPT !.prefix = <<>>]
    /\ overlay' = [overlay EXCEPT !.hints = HintLabels(widgets, mode.labels, <<>>)]

SelectKey(key) ==
    LET typed == Append(mode.prefix, key)
        found == Candidates(mode.labels, typed)
    IN \/ /\ found = {} /\ WrongLetter(typed)
          /\ UNCHANGED <<widgets, cursor, asked, uiFaults>> /\ UNCHANGED pointerVars
       \/ /\ \E n \in found : Cardinality(found) > 1 \/ mode.labels[n] # typed
          /\ mode' = [mode EXCEPT !.prefix = typed]
          /\ overlay' = [overlay EXCEPT !.hints = HintLabels(widgets, mode.labels, typed)]
          /\ UNCHANGED <<widgets, cursor, asked, uiFaults>> /\ UNCHANGED pointerVars
       \/ \E n \in found :
            /\ found = {n} /\ mode.labels[n] = typed
            /\ IF mode.target = "drag" /\ mode.source = 0 THEN DragSourceChosen(n)
               ELSE Commit(n, typed) /\ UNCHANGED <<pump, buffer, done>>

CursorKey(key) ==
    /\ \/ \E step \in {-1, 1} :
            /\ key = IF step = 1 THEN "right" ELSE "left"
            /\ cursor' = Max({0, Min({Width - 1, cursor + step})})
            /\ Directly(Act("hover", cursor')) /\ asked' = Append(asked, Act("hover", cursor'))
       \/ /\ key = "enter"
          /\ ThroughClone(<<Act("click", cursor)>>) /\ asked' = Append(asked, Act("click", cursor))
          /\ UNCHANGED cursor
       \/ key \notin {"left", "right", "enter"} /\ UNCHANGED <<cursor, queue, asked>>
    /\ UNCHANGED <<mode, widgets, overlay, uiFaults>> /\ UNCHANGED <<pump, buffer, done>>

ScrollKey(key) ==
    /\ LET acts == IF key \in {"left", "right"} THEN <<Act("scroll", key)>> ELSE <<>>
       IN ThroughClone(acts) /\ asked' = asked \o acts
    /\ UNCHANGED <<mode, widgets, cursor, overlay, uiFaults>> /\ UNCHANGED <<pump, buffer, done>>

Escape ==
    /\ Close
    /\ UNCHANGED <<cursor, asked, uiFaults>> /\ UNCHANGED pointerVars

(* Keys reach the window while it is shown. *)
Key(key) ==
    /\ overlay.shown /\ keys < MaxKeys /\ keys' = keys + 1
    /\ UNCHANGED commands
    /\ \/ key = "escape" /\ Escape
       \/ key # "escape" /\ mode.kind = "select" /\ SelectKey(key)
       \/ key # "escape" /\ mode.kind = "cursor" /\ CursorKey(key)
       \/ key # "escape" /\ mode.kind = "scroll" /\ ScrollKey(key)

-----------------------------------------------------------------------------
(***************************************************************************)
(* The pointer thread.  What was queued meanwhile is drained before the    *)
(* flush; a shutdown ends the thread without one.  The better case is      *)
(* modelled: closing the connection delivers what was not flushed.         *)
(***************************************************************************)
Recv ==
    /\ pump = "recv" /\ queue # <<>>
    /\ queue' = Tail(queue)
    /\ IF Head(queue) = Shutdown THEN pump' = "gone" /\ UNCHANGED buffer
       ELSE pump' = "drain" /\ buffer' = Append(buffer, Head(queue))
    /\ UNCHANGED done

Drain ==
    /\ pump = "drain" /\ queue # <<>>
    /\ queue' = Tail(queue)
    /\ IF Head(queue) # Shutdown
       THEN buffer' = Append(buffer, Head(queue)) /\ UNCHANGED <<pump, done>>
       ELSE pump' = "gone" /\ buffer' = <<>> /\ done' = done \o buffer

Flush ==
    /\ pump = "drain" /\ queue = <<>>
    /\ pump' = "recv" /\ buffer' = <<>> /\ done' = done \o buffer
    /\ UNCHANGED queue

Pump ==
    /\ Recv \/ Drain \/ Flush
    /\ UNCHANGED <<mode, widgets, cursor, overlay, asked, commands, keys, uiFaults>>

HintsNext ==
    \/ Dispatch \/ Pump
    \/ \E key \in Letters \cup {"left", "right", "enter", "escape"} : Key(key)

-----------------------------------------------------------------------------
HintsTypeOK ==
    /\ mode.kind \in {"idle", "select", "cursor", "scroll"}
    /\ cursor \in 0..(Width - 1)
    /\ pump \in {"recv", "drain", "gone"} /\ (pump = "recv" => buffer = <<>>)
    /\ mode.kind = "select" =>
         /\ mode.target \in Targets /\ mode.source \in Nat
         /\ Len(mode.labels) = Len(widgets) - (IF mode.source = 0 THEN 0 ELSE 1)
         /\ \A letter \in ToSet(mode.prefix) : letter \in Letters

(* The keyboard is taken as long as a mode is on and no longer, and the
   labels on the screen are those that can still be typed, over the widgets
   they lead to; but the second labels of a drag (handle_select_key). *)
OverlayIsTheMode ==
    /\ overlay.shown <=> mode.kind # "idle"
    /\ overlay.shown => overlay.kind = mode.kind
    /\ (mode.kind = "select" /\ mode.source = 0) =>
         overlay.hints = HintLabels(widgets, mode.labels, mode.prefix)

(* "Every label is a valid prefix-free code" (hint.rs generate), as far as
   there are pairs: each can be typed in full, and leads to one widget. *)
LabelsCanBeTyped ==
    (mode.kind = "select" /\ Len(mode.labels) <= Len(Alphabet)^2) =>
        \A n \in DOMAIN mode.labels : Candidates(mode.labels, mode.labels[n]) = {n}

(* The compositor gets nothing but what the user chose, in that order; a
   drag is not compared. *)
DoneIsAsked ==
    /\ Len(done) <= Len(asked)
    /\ \A n \in DOMAIN done : done[n] = asked[n] \/ asked[n].what = "drag"

(* "on selection, single left-click the target" (ipc.rs Command::Click): what
   the user chose has reached the compositor when the thread is at rest. *)
AskedIsDone == (queue = <<>> /\ buffer = <<>>) => Len(done) = Len(asked)
=============================================================================
