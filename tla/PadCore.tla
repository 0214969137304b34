------------------------------ MODULE PadCore ------------------------------
(***************************************************************************)
(* The pad's core (control-surface/firmware/src/padlogic.c with the output *)
(* hooks of padfw.c): slots go down and up, knobs turn, layers change, and *)
(* the pad either types its keymap or reports raw events.                  *)
(*                                                                         *)
(* One pass of the main loop is Task, Clock, Keys, Turn, Taps in that      *)
(* order (the variable "phase"); a pass is never interrupted by another.   *)
(* Raw mode must look like RawPad from outside (RawContract).              *)
(***************************************************************************)
EXTENDS Integers, Sequences, FiniteSets, SequencesExt

CONSTANTS
  GpioKey, GpioLevels, TmKeys, NoKey, Dirs,              \* as in RawPad
  Timeout, EpochWrap, SeqWrap, CountWrap, MaxTake,        \* as in RawPad
  Layers,       (* 0 and 1                                                   *)
  NoLayer,      (* momentary = 0xFF                                          *)
  Mods,         (* the modifiers: usages 0xE0-0xE7 and bits of the mask      *)
  NoAction,     (* packed = 0                                                *)
  Defaults,     (* PAD_defaultAction: layer -> slot -> action                *)
  EditActions,  (* actions the host may store with SET_ACTION                *)
  QueueRuns,    (* 16 in the code: PAD_QUEUE_RUNS                            *)
  RunMax,       (* 200 in the code: PAD_RUN_MAX                              *)
  TapGap,       (* 5 in the code: PAD_TAP_GAP_MS                             *)
  MaxEdits      (* bound: SET_ACTION and RESET commands in one behaviour     *)

ASSUME CoreAssumption ==
  /\ {QueueRuns, RunMax, TapGap} \subseteq Nat \ {0}
  /\ MaxTake <= RunMax
  /\ MaxEdits \in Nat
  /\ {0, 1} \subseteq Layers /\ NoLayer \notin Layers
  /\ GpioKey \notin TmKeys /\ Dirs \cap ({GpioKey} \cup TmKeys) = {}
  /\ NoKey \notin {GpioKey} \cup TmKeys \cup Dirs
  /\ FALSE \in GpioLevels /\ GpioLevels \subseteq BOOLEAN
  /\ {Timeout, EpochWrap, SeqWrap, CountWrap, MaxTake} \subseteq Nat \ {0}

VARIABLES
  gpio, tm, left, epoch, rawHeld, seq, total,             \* as in RawPad
  keymap,     (* Keymap of padstore.c                                        *)
  held,       (* Pad.held: the action each slot went down with               *)
  layer,      (* Pad.layers.base                                             *)
  momentary,  (* Pad.layers.momentary and .momentarySlot                     *)
  runs,       (* the detent queue: runs of one slot and a count              *)
  tap,        (* the detent being typed: slot, action, milliseconds so far   *)
  host,       (* the pad's HID reports: usages and modifiers down            *)
  phase,      (* where the main loop is in its pass                          *)
  took,       (* directions whose detents this pass has taken                *)
  owed,       (* history: detents accepted and not yet typed, in order       *)
  edits

Raw == INSTANCE RawPad

rawVars == <<gpio, tm, left, epoch, rawHeld, seq, total>>
keyVars == <<held, layer, momentary, host>>
tapVars == <<runs, tap, owed>>
vars == <<rawVars, keymap, keyVars, tapVars, phase, took, edits>>

Slots == {GpioKey} \cup TmKeys \cup Dirs
NoTap == [slot |-> NoKey, action |-> NoAction, age |-> 0]

(* KEY stands for keyboard, consumer and mouse-button actions (only the      *)
(* first have modifiers); SHOT for wheel, pan and movement.                  *)
IsKey(a) == a # NoAction /\ a.type = "KEY"
IsLayer(a) == a # NoAction /\ a.type = "LAYER"
IsShot(a) == a # NoAction /\ a.type = "SHOT"
Actions == {NoAction} \cup EditActions
             \cup {Defaults[l][s] : l \in Layers, s \in Slots}
Usages == {a.usage : a \in {b \in Actions : IsKey(b)}}
ModsOf(a) == IF IsKey(a) THEN a.mods ELSE {}

(* PAD_validPacked.                                                          *)
ASSUME ActionAssumption ==
  /\ Defaults \in [Layers -> [Slots -> Actions]]
  /\ \A a \in Actions :
       /\ IsKey(a) => a.mods \subseteq Mods
       /\ IsLayer(a) => a.op \in {"TOGGLE", "SET", "MOMENTARY"} /\ a.target \in Layers

PadActive == left > 0
ActiveLayer == IF momentary.layer # NoLayer THEN momentary.layer ELSE layer

TypeOK ==
  /\ Raw!PadTypeOK
  /\ keymap \in [Layers -> [Slots -> Actions]]
  /\ held \in [Slots -> Actions]
  /\ layer \in Layers
  /\ momentary \in [layer : Layers \cup {NoLayer}, slot : Slots \cup {NoKey}]
  /\ runs \in Seq([slot : Dirs, n : 1..RunMax])
  /\ Len(runs) <= QueueRuns
  /\ tap \in [slot : Dirs \cup {NoKey}, action : Actions, age : 0..TapGap]
  /\ host \in [down : SUBSET (Usages \ Mods), mods : SUBSET Mods]
  /\ phase \in {"task", "clock", "keys", "turn", "taps"}
  /\ took \in SUBSET Dirs
  /\ owed \in Seq(Dirs)
  /\ edits \in 0..MaxEdits

KeymapInit ==
  /\ keymap = Defaults
  /\ held = [s \in Slots |-> NoAction]
  /\ layer = 0
  /\ momentary = [layer |-> NoLayer, slot |-> NoKey]
  /\ runs = <<>> /\ tap = NoTap /\ owed = <<>>
  /\ host = [down |-> {}, mods |-> {}]
  /\ phase = "task" /\ took = {}
  /\ edits = 0

Init == Raw!PadInit /\ KeymapInit

-----------------------------------------------------------------------------
(* What the passes do to the keyboard side, as functions of a record k with  *)
(* fields held, layer, momentary, host, tap, rawHeld and sent (raw events).  *)
Side == [held |-> held, layer |-> layer, momentary |-> momentary,
         host |-> host, tap |-> tap, rawHeld |-> rawHeld, sent |-> 0]

(* PAD_hwPress and KBD_pressUsage.                                           *)
HwPress(k, a) ==
  IF ~IsKey(a) THEN k
  ELSE [k EXCEPT !.host =
         [down |-> @.down \cup ({a.usage} \ Mods),
          mods |-> @.mods \cup a.mods \cup ({a.usage} \cap Mods)]]

(* PAD_hwRelease and KBD_releaseUsage: modifiers of the chords still held,   *)
(* and of the detent being typed, stay down.                                 *)
(* Mutant: only the detent being typed counts.                               *)
NeededByTap(k) == ModsOf(k.tap.action)

Needed(k) == (UNION {ModsOf(k.held[s]) : s \in Slots}) \cup ModsOf(k.tap.action)

HwRelease(k, a) ==
  IF ~IsKey(a) THEN k
  ELSE [k EXCEPT !.host =
         [down |-> @.down \ {a.usage},
          mods |-> (@.mods \ {a.usage}) \ (a.mods \ Needed(k))]]

(* Mutant: the first slot to go momentary keeps the layer.                   *)
LayerDownKeepsSlot(k, a, s) ==
  CASE a.op = "TOGGLE" -> [k EXCEPT !.layer = IF @ # 0 THEN 0 ELSE 1]
    [] a.op = "SET" -> [k EXCEPT !.layer = a.target]
    [] a.op = "MOMENTARY" ->
         [k EXCEPT !.momentary =
           [layer |-> a.target, slot |-> IF @.slot = NoKey THEN s ELSE @.slot]]

(* PAD_layerAction.                                                          *)
LayerDown(k, a, s) ==
  CASE a.op = "TOGGLE" -> [k EXCEPT !.layer = IF @ # 0 THEN 0 ELSE 1]
    [] a.op = "SET" -> [k EXCEPT !.layer = a.target]
    [] a.op = "MOMENTARY" ->
         [k EXCEPT !.momentary = [layer |-> a.target, slot |-> s]]

LayerUp(k, a, s) ==
  IF a.op = "MOMENTARY" /\ k.momentary.slot = s
  THEN [k EXCEPT !.momentary = [layer |-> NoLayer, slot |-> NoKey]] ELSE k

ActionUp(k, s) ==
  LET a == k.held[s]
      up == [k EXCEPT !.held[s] = NoAction]
  IN IF IsLayer(a) THEN LayerUp(up, a, s) ELSE HwRelease(up, a)

LayerOf(k) == IF k.momentary.layer # NoLayer THEN k.momentary.layer ELSE k.layer

(* Mutant: every UP is sent in raw mode.                                     *)
RawEventAnyUp(k, e) ==
  IF e.kind = "DOWN"
  THEN IF k.held[e.slot] # NoAction THEN k
       ELSE [k EXCEPT !.rawHeld = @ \cup {e.slot}, !.sent = @ + 1]
  ELSE [k EXCEPT !.rawHeld = @ \ {e.slot}, !.sent = @ + 1]

(* PAD_event in raw mode: a DOWN of a slot held since keymap mode, and an UP *)
(* whose DOWN was not sent, are ignored.                                     *)
RawEvent(k, e) ==
  IF e.kind = "DOWN"
  THEN IF k.held[e.slot] # NoAction THEN k
       ELSE [k EXCEPT !.rawHeld = @ \cup {e.slot}, !.sent = @ + 1]
  ELSE IF e.slot \notin k.rawHeld THEN k
       ELSE [k EXCEPT !.rawHeld = @ \ {e.slot}, !.sent = @ + 1]

(* Mutant: an UP releases what the keymap says now.                          *)
KeymapEventNow(k, e) ==
  LET a == keymap[LayerOf(k)][e.slot]
      down == [k EXCEPT !.held[e.slot] = a]
  IN IF e.kind = "UP"
     THEN IF k.held[e.slot] = NoAction THEN k ELSE ActionUp(down, e.slot)
     ELSE IF k.held[e.slot] # NoAction \/ a = NoAction THEN k
          ELSE IF IsLayer(a) THEN LayerDown(down, a, e.slot)
               ELSE HwPress(down, a)

(* PAD_event on the keymap: an UP releases what the DOWN pressed.            *)
KeymapEvent(k, e) ==
  LET a == keymap[LayerOf(k)][e.slot]
      down == [k EXCEPT !.held[e.slot] = a]
  IN IF e.kind = "UP"
     THEN IF k.held[e.slot] = NoAction THEN k ELSE ActionUp(k, e.slot)
     ELSE IF k.held[e.slot] # NoAction \/ a = NoAction THEN k
          ELSE IF IsLayer(a) THEN LayerDown(down, a, e.slot)
               ELSE HwPress(down, a)

PadEvent(k, e) == IF PadActive THEN RawEvent(k, e) ELSE KeymapEvent(k, e)

(* Mutant: the sequence number does not wrap.                                *)
SetSideUnwrapped(k) ==
  /\ held' = k.held
  /\ layer' = k.layer
  /\ momentary' = k.momentary
  /\ host' = k.host
  /\ tap' = k.tap
  /\ rawHeld' = k.rawHeld
  /\ seq' = seq + k.sent

SetSide(k) ==
  /\ held' = k.held
  /\ layer' = k.layer
  /\ momentary' = k.momentary
  /\ host' = k.host
  /\ tap' = k.tap
  /\ rawHeld' = k.rawHeld
  /\ seq' = (seq + k.sent) % SeqWrap

(* Mutant: the detent's release clears the whole report.                     *)
DropTapAndKeys(k) ==
  [k EXCEPT !.tap = NoTap, !.host = [down |-> {}, mods |-> {}]]

(* dropTaps.                                                                 *)
DropTap(k) == HwRelease([k EXCEPT !.tap = NoTap], k.tap.action)

(* PAD_releaseAll: dropTaps and every slot's release, the one after the      *)
(* other, after which no chord needs a modifier any more.                    *)
Released(k, as) ==
  LET up == {a \in as : IsKey(a)}
  IN [down |-> k.host.down \ {a.usage : a \in up},
      mods |-> k.host.mods \ ((UNION {a.mods : a \in up}) \cup {a.usage : a \in up})]

(* Mutant: the detent being typed stays.                                     *)
ReleaseSlots(k) ==
  [k EXCEPT !.held = [s \in Slots |-> NoAction],
            !.momentary = IF @.slot \in Slots /\ IsLayer(k.held[@.slot])
                          THEN [layer |-> NoLayer, slot |-> NoKey] ELSE @,
            !.host = Released(k, {k.held[s] : s \in Slots})]

ReleaseAll(k) ==
  [k EXCEPT !.tap = NoTap,
            !.held = [s \in Slots |-> NoAction],
            !.momentary = IF @.slot \in Slots /\ IsLayer(k.held[@.slot])
                             /\ k.held[@.slot].op = "MOMENTARY"
                          THEN [layer |-> NoLayer, slot |-> NoKey] ELSE @,
            !.host = Released(k, {k.held[s] : s \in Slots} \cup {k.tap.action})]

-----------------------------------------------------------------------------
(* PADCFG_task: at most one host command, before the clock.                  *)
At(p, q) == phase = p /\ phase' = q /\ took' = {}

NoCommand ==
  /\ At("task", "clock")
  /\ UNCHANGED <<rawVars, keymap, keyVars, tapVars, edits>>

(* RAW_MODE with a timeout: entering raw mode releases everything.           *)
RawOn ==
  /\ At("task", "clock")
  /\ left' = Timeout
  /\ IF PadActive
     THEN UNCHANGED <<epoch, rawHeld, seq, keyVars, tapVars>>
     ELSE /\ SetSide([ReleaseAll(Side) EXCEPT !.rawHeld = {}])
          /\ runs' = <<>> /\ owed' = <<>>
          /\ epoch' = (epoch + 1) % EpochWrap
  /\ UNCHANGED <<gpio, tm, total, keymap, edits>>

RawOff ==
  /\ At("task", "clock")
  /\ left' = 0
  /\ rawHeld' = IF PadActive THEN {} ELSE rawHeld
  /\ UNCHANGED <<gpio, tm, epoch, seq, total, keymap, keyVars, tapVars, edits>>

(* SET_ACTION: held slots keep the action they went down with.               *)
SetAction(l, s, a) ==
  /\ At("task", "clock")
  /\ edits < MaxEdits /\ edits' = edits + 1
  /\ keymap' = [keymap EXCEPT ![l][s] = a]
  /\ UNCHANGED <<rawVars, keyVars, tapVars>>

(* PAD_setLayer, for SET_LAYER and RESET.                                    *)
GoToLayer(l) ==
  /\ layer' = l
  /\ momentary' = [layer |-> NoLayer, slot |-> NoKey]
  /\ UNCHANGED <<rawVars, held, host, tapVars>>

SetLayer(l) ==
  /\ At("task", "clock")
  /\ GoToLayer(l)
  /\ UNCHANGED <<keymap, edits>>

Reset ==
  /\ At("task", "clock")
  /\ edits < MaxEdits /\ edits' = edits + 1
  /\ keymap' = Defaults
  /\ GoToLayer(0)

(* Power cut, or BOOTLOADER (which releases everything) and back: PAD_init.  *)
Restart ==
  /\ At("task", "task")
  /\ Raw!ResetPad
  /\ held' = [s \in Slots |-> NoAction]
  /\ layer' \in Layers
  /\ momentary' = [layer |-> NoLayer, slot |-> NoKey]
  /\ runs' = <<>> /\ tap' = NoTap /\ owed' = <<>>
  /\ host' = [down |-> {}, mods |-> {}]
  /\ UNCHANGED <<keymap, edits>>

(* PAD_tick: some milliseconds; a heartbeat interval may end with them.      *)
Clock(ms) ==
  /\ At("clock", "keys")
  /\ tap' = IF tap.slot = NoKey THEN tap
            ELSE [tap EXCEPT !.age = IF @ + ms > TapGap THEN TapGap ELSE @ + ms]
  /\ \/ UNCHANGED rawVars
     \/ PadActive /\ Raw!TickRaw
  /\ UNCHANGED <<keymap, keyVars, runs, owed, edits>>

(* PAD_poll, the keys: the GPIO key first, then the TM1650, whose new code   *)
(* releases the slot it showed before.                                       *)
Event(on, k, kind, slot) == IF on THEN PadEvent(k, [kind |-> kind, slot |-> slot]) ELSE k

KeyScan(g, t) ==
  /\ At("keys", "turn")
  /\ gpio' = g /\ tm' = t
  /\ LET first == Event(g # gpio, Side, Raw!GpioKind(g), GpioKey)
         second == Event(t # tm /\ tm # NoKey, first, "UP", tm)
     IN SetSide(Event(t # tm /\ t # NoKey, second, "DOWN", t))
  /\ UNCHANGED <<left, epoch, total, keymap, runs, owed, edits>>

(* PAD_turn: n detents of one direction, onto the queue's last run if it is  *)
(* of the same slot, else as a new run; what fits neither is dropped.        *)
Room(d) == IF runs # <<>> /\ Last(runs).slot = d THEN RunMax - Last(runs).n ELSE 0
Least(a, b) == IF a < b THEN a ELSE b
(* Mutant: the new run gets all the detents, also those that were joined.    *)
NewRunOfAll(d, n) ==
  IF n > Room(d) /\ Len(runs) < QueueRuns THEN <<[slot |-> d, n |-> n]>> ELSE <<>>

NewRun(d, n) ==
  IF n > Room(d) /\ Len(runs) < QueueRuns
  THEN <<[slot |-> d, n |-> n - Room(d)]>> ELSE <<>>
Joined(d, n) ==
  IF Room(d) = 0 THEN runs
  ELSE [runs EXCEPT ![Len(runs)] = [slot |-> d, n |-> Last(runs).n + Least(n, Room(d))]]
Accepted(d, n) ==
  IF n > Room(d) /\ Len(runs) >= QueueRuns THEN Room(d) ELSE n

Turn(d, n) ==
  /\ phase = "turn" /\ phase' = "turn"
  /\ d \notin took /\ took' = took \cup {d}
  /\ IF PadActive
     THEN Raw!TurnRaw(d, n) /\ UNCHANGED tapVars
     ELSE /\ runs' = Joined(d, n) \o NewRun(d, n)
          /\ owed' = owed \o [i \in 1..Accepted(d, n) |-> d]
          /\ UNCHANGED <<rawVars, tap>>
  /\ UNCHANGED <<keymap, keyVars, edits>>

EndTurns ==
  /\ At("turn", "taps")
  /\ UNCHANGED <<rawVars, keymap, keyVars, tapVars, edits>>

(* runTaps: one press or one release of a queued detent per pass.            *)
TapRelease ==
  /\ tap.slot # NoKey
  /\ IF tap.age < TapGap THEN UNCHANGED <<keyVars, rawHeld, seq, tap>>
     ELSE SetSide(DropTap(Side))
  /\ UNCHANGED <<runs, owed>>

TapPress ==
  /\ tap.slot = NoKey
  /\ runs # <<>>
  /\ LET s == Head(runs).slot
         a == keymap[ActiveLayer][s]
         typed == HwPress(Side, a)
     IN /\ runs' = IF Head(runs).n = 1 THEN Tail(runs)
                   ELSE [runs EXCEPT ![1] = [slot |-> s, n |-> Head(runs).n - 1]]
        /\ owed' = Tail(owed)
        /\ SetSide(IF IsLayer(a) THEN LayerUp(LayerDown(Side, a, s), a, s)
                   ELSE IF ~IsKey(a) THEN typed
                   ELSE [typed EXCEPT !.tap = [slot |-> s, action |-> a, age |-> 0]])

Taps ==
  /\ At("taps", "task")
  /\ IF PadActive \/ (tap.slot = NoKey /\ runs = <<>>)
     THEN UNCHANGED <<keyVars, rawHeld, seq, tapVars>>
     ELSE TapRelease \/ TapPress
  /\ UNCHANGED <<gpio, tm, left, epoch, total, keymap, edits>>

Next ==
  \/ NoCommand
  \/ RawOn
  \/ RawOff
  \/ \E l \in Layers, s \in Slots, a \in EditActions \cup {NoAction} : SetAction(l, s, a)
  \/ \E l \in Layers : SetLayer(l)
  \/ Reset
  \/ Restart
  \/ \E ms \in {1, TapGap} : Clock(ms)
  \/ \E g \in GpioLevels, t \in TmKeys \cup {NoKey} : KeyScan(g, t)
  \/ \E d \in Dirs, n \in 1..MaxTake : Turn(d, n)
  \/ EndTurns
  \/ Taps

Spec == Init /\ [][Next]_vars

-----------------------------------------------------------------------------
(* Outside the pad, raw mode is RawPad's: the keymap state never changes     *)
(* what a raw session reports or holds (PAD_event ignores DOWN only for      *)
(* slots PAD_setRaw has already released).                                   *)
RawContract == Raw!PadSpec

(* With no slot held and no detent being typed, nothing is down on the host, *)
(* whatever layers, commands, raw sessions and queue drops came in between.  *)
Idle == tap = NoTap /\ \A s \in Slots : held[s] = NoAction
NothingStuck == Idle => host = [down |-> {}, mods |-> {}]

(* While raw mode is on the pad types nothing and keeps nothing of its       *)
(* keymap: no slot held, no detent queued, no momentary layer (PAD_setRaw).  *)
RawIsSilent ==
  PadActive => /\ Idle
               /\ runs = <<>>
               /\ momentary.layer = NoLayer
               /\ host = [down |-> {}, mods |-> {}]

(* A momentary layer lasts only while the slot that switched to it is held.  *)
MomentaryIsHeld ==
  momentary.layer # NoLayer =>
    LET a == held[momentary.slot]
    IN IsLayer(a) /\ a.op = "MOMENTARY" /\ a.target = momentary.layer

(* A key the user holds, or a detent being typed, is down on the host until  *)
(* it is released, even when its action or layer changed meanwhile.  (Where  *)
(* two slots may type one key, the release of the one lifts it for both.)    *)
Typing == {held[s] : s \in Slots} \cup {tap.action}
Carriers(u) == {s \in Slots : \E l \in Layers : IsKey(Defaults[l][s]) /\ Defaults[l][s].usage = u}
Own(u) ==
  /\ u \notin Mods
  /\ \A a \in EditActions : IsKey(a) => a.usage # u
  /\ \A s, t \in Carriers(u) : s = t
HeldIsDown == \A a \in Typing : IsKey(a) /\ Own(a.usage) => a.usage \in host.down

(* A modifier that a held chord or the detent being typed still needs stays  *)
(* down when another chord is released (PAD_hwRelease), unless it is also a  *)
(* key of its own.                                                           *)
NeededModsStay == \A a \in Typing : ModsOf(a) \ Usages \subseteq host.mods

(* The detents ds are those of the runs rs, one run after the other: at[i]   *)
(* of them are of the first i runs.                                          *)
InOrder(rs, ds) ==
  \E at \in [0..Len(rs) -> 0..Len(ds)] :
    /\ at[0] = 0 /\ at[Len(rs)] = Len(ds)
    /\ \A i \in 1..Len(rs) :
         /\ at[i] = at[i - 1] + rs[i].n
         /\ \A j \in at[i - 1] + 1..at[i] : ds[j] = rs[i].slot

(* Detents are typed in the order they were turned, none twice; only those   *)
(* counted in queueDrops are missing (PAD_turn, runTaps).                    *)
TapsInOrder == InOrder(runs, owed)
=============================================================================
