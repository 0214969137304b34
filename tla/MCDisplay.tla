------------------------------- MODULE MCDisplay -------------------------------
(* The pages of the settings that change the running Hyprland: the Display tab, *)
(* its page with the worker and the three computations it rests on, the         *)
(* arrangement, the scales and the file; and the pointer card of the Mouse tab. *)
(* A behaviour is one of a part; the variables of the other parts keep a value, *)
(* where nothing that is fair is enabled.                                       *)
EXTENDS DisplayPage, DisplayLayout, DisplayConf, PointerCard

VARIABLE part

vars == <<part, displayVars, layoutVars, scaleVars, confVars, cardVars>>

Rect(x, y, w, h) == [x |-> x, y |-> y, w |-> w, h |-> h]
MCLiveLayouts ==
    {<<Rect(0, 0, 4, 2), Rect(4, 0, 4, 2), Rect(8, 0, 2, 4)>>,
     <<Rect(0, 0, 4, 2), Rect(0, 0, 4, 2), Rect(9, 9, 2, 2)>>,
     <<Rect(0, 0, 4, 4), Rect(1, 4, 2, 2), Rect(5, 7, 3, 2)>>}
MCSizes == {<<4, 2>>, <<2, 4>>, <<2, 1>>, <<6, 3>>}
MCDropAt == {<<x, y>> : x \in {-3, 0, 2, 5, 9}, y \in {-3, 0, 2, 5}}
MCModes == {<<1920, 1080>>, <<2560, 1600>>, <<3840, 2160>>, <<1366, 768>>, <<3456, 2160>>,
            <<2880, 1800>>, <<3000, 2000>>, <<5120, 2880>>, <<2256, 1504>>}
MCDescribes == [d \in Descriptions |-> IF d = "descA" THEN {"A"} ELSE {"A", "B"}]
MCComment == [sel |-> "none", form |-> "comment", value |-> 0]

In == Open("input")
MCTexts ==
    {t \in UNION {[1..n -> Lines] : n \in 0..1} : Balanced(t)} \cup
    {<<In, CloseLine>>, <<In, Option("speed", "1"), CloseLine, In, Option("speed", "0"), CloseLine>>,
     <<In, Open("touchpad"), Option("speed", "1"), CloseLine, Option("accel", "flat"), CloseLine>>,
     <<Open("touchpad"), In, Option("speed", "1"), CloseLine, CloseLine, In, OtherLine, Option("speed", "odd"), CloseLine>>}
MCEdits == {<<>>, <<In, Option("speed", "1"), OtherLine, CloseLine>>}

CardOff == /\ conf = <<>> /\ cardShown = DefaultPointer /\ liveOptions = cardShown /\ fromFile = FALSE
           /\ touched = FALSE /\ saved = TRUE /\ cardApplied = "no" /\ generation = 0 /\ sent = 0
           /\ cardRunning = FALSE /\ waiting = FALSE /\ delay = FALSE /\ job = NoCardJob /\ asked = NotAsked
           /\ strangers = 0

PartInit ==
    \/ part = "page" /\ DisplayInit /\ layout = <<>> /\ edits = 0 /\ mode = <<0, 0>> /\ scale = 0
       /\ text = <<>> /\ written = <<>>
    \/ part \in {"layout", "scale", "conf", "card"} /\ live = 1 /\ file = NoFile /\ holds = (CHOOSE d \in Displays : TRUE)
       /\ backups = {} /\ bar = "up" /\ loaded = FALSE /\ baseline = NoBase /\ original = 0 /\ monitors = 0 /\ stale = FALSE
       /\ details = holds /\ running = "None" /\ queued = NoJob /\ worker = Idle /\ outside = 0 /\ ioFaults = 0
       /\ \/ part = "layout" /\ LayoutInit /\ mode = <<0, 0>> /\ scale = 0 /\ text = <<>> /\ written = <<>>
          \/ part = "scale" /\ ScaleInit /\ layout = <<>> /\ edits = 0 /\ text = <<>> /\ written = <<>>
          \/ part = "conf" /\ ConfInit /\ layout = <<>> /\ edits = 0 /\ mode = <<0, 0>> /\ scale = 0
          \/ part = "card" /\ layout = <<>> /\ edits = 0 /\ mode = <<0, 0>> /\ scale = 0 /\ text = <<>> /\ written = <<>>

Init == PartInit /\ IF part = "card" THEN CardInit ELSE CardOff

Next ==
    /\ UNCHANGED part
    /\ \/ part = "page" /\ DisplayNext /\ UNCHANGED <<layoutVars, scaleVars, confVars, cardVars>>
       \/ part = "layout" /\ LayoutNext /\ UNCHANGED <<displayVars, scaleVars, confVars, cardVars>>
       \/ part = "scale" /\ ScaleNext /\ UNCHANGED <<displayVars, layoutVars, confVars, cardVars>>
       \/ part = "conf" /\ ConfNext /\ UNCHANGED <<displayVars, layoutVars, scaleVars, cardVars>>
       \/ part = "card" /\ CardNext /\ UNCHANGED <<displayVars, layoutVars, scaleVars, confVars>>

Spec == Init /\ [][Next]_vars /\ DisplayFair /\ CardFairness

TypeOK == DisplayTypeOK /\ CardTypeOK

(* A layout that is valid and a scale that Hyprland keeps are shown and written *)
(* as they are, what the card says of its options is so, and the taskbar is     *)
(* asked for again before a worker is done.                                     *)
ShownAsWritten ==
    /\ CardTellsTheTruth
    /\ part = "page" => BarIsRestarted
    /\ part = "layout" => ValidLayoutsStay
    /\ part = "scale" => ScaleIsKept

(* Nothing of the user's is lost: edits are given up by the user only, and what *)
(* a save replaces is among the backups.                                        *)
EditsAreSafe == EditsAreTheUsers /\ ReplacedIsBackedUp

(* What a save writes is a valid layout, and it changes its own lines only, on  *)
(* either page.                                                                 *)
SavesAreSound == EditsGiveValidLayouts /\ SaveChangesOnlyItsDisplays /\ CardKeepsOtherLines

(* What the user changes is applied or refused in the end.                      *)
ChangesEnd == JobsEnd /\ ChangesGetAnswered
=============================================================================
