------------------------------- MODULE MCPad -------------------------------
(* The pad's firmware for TLC: its core with keys and layers ("chords") and  *)
(* with its detent queue at its limits ("queue"), its stored keymap, one of  *)
(* its knobs, and its session with the daemon when a knob is turned          *)
(* ("detents").  A behaviour is one of a part; the variables of the others   *)
(* keep a value.                                                             *)
EXTENDS PadCore, PadStore, PadInput

CONSTANTS g, t1, t2, cw, ccw, Ctrl, Shift, s1, s2, NoEpoch

(* What the small instances below need to be instances: the slots they name   *)
(* are the pad's, the modifiers of their chords are modifiers, and the mark   *)
(* of a daemon that follows no session is no number.                          *)
ASSUME PadAssumption ==
  /\ Layers = {0, 1} /\ GpioKey = g /\ TmKeys = {t1, t2} /\ Dirs = {cw, ccw}
  /\ cw # ccw
  /\ {Ctrl, Shift} \subseteq Mods
  /\ NoEpoch \notin Nat

VARIABLES
  part,
  cmd, chan, linked, dstate, dActive, dEpoch, dSeq, dHeld, base, recv, quiet, due, (* RawSession *)
  eng, turned, seen, synced, losses, restarts

keymapVars == <<keymap, keyVars, tapVars, phase, took, edits>>
sessionVars == <<cmd, chan, linked, dstate, dActive, dEpoch, dSeq, dHeld, base, recv, quiet, due,
                 eng, turned, seen, synced, losses, restarts>>
padVariables == <<part, vars, storeVars, inputVars, sessionVars>>

Key(u, ms) == [type |-> "KEY", usage |-> u, mods |-> ms]
LayerKey(o, t) == [type |-> "LAYER", op |-> o, target |-> t]
Wheel == [type |-> "SHOT"]

(* Chords that share modifiers, every layer operation, a slot that changes   *)
(* its action with the layer and one that has none on layer 1.               *)
ChordMap ==
  [l \in {0, 1} |->
    [s \in {g, t1, t2, cw, ccw} |->
      CASE s = g -> IF l = 0 THEN Key("a", {Ctrl}) ELSE Key("b", {Ctrl, Shift})
        [] s = t1 -> IF l = 0 THEN LayerKey("MOMENTARY", 1) ELSE LayerKey("TOGGLE", 0)
        [] s = t2 -> IF l = 0 THEN Key("c", {Shift}) ELSE LayerKey("MOMENTARY", 0)
        [] s = cw -> IF l = 0 THEN Key("d", {Shift}) ELSE Wheel
        [] s = ccw -> IF l = 0 THEN LayerKey("SET", 1) ELSE LayerKey("MOMENTARY", 0)]]
ChordEdits == {Key("e", {Ctrl})}

(* Two slots, bytes of two bits, and a sum as the CRC, which like a CRC-8 may *)
(* be any byte, notices every change of one byte and misses some of two.     *)
TwoBits == 0..3
Inverted(b) == 3 - b
SomeActions == {<<1, 1>>, <<2, 1>>, <<2, 2>>, <<1, 0>>}
TwoSlots == <<<<s1, "lo">>, <<s1, "hi">>, <<s2, "lo">>, <<s2, "hi">>>>
Plain == [s \in {s1, s2} |-> <<1, 1>>]
Sum(m) == (m[<<s1, "lo">>] + m[<<s1, "hi">>] + m[<<s2, "lo">>] + m[<<s2, "hi">>]) % 4

(* The same core with one key, no edits, and a queue of two runs of three.   *)
QueueMap == [l \in {0, 1} |-> [s \in {g, cw, ccw} |-> ChordMap[l][s]]]
Queue == INSTANCE PadCore WITH
           TmKeys <- {}, Defaults <- QueueMap, CountWrap <- 4, MaxTake <- 3, EditActions <- {},
           QueueRuns <- 2, RunMax <- 3, MaxEdits <- 0

(* A counter of four, more detents than it holds, and taps that are lost.    *)
Detents == INSTANCE RawSession WITH
             GpioLevels <- {FALSE}, TmKeys <- {}, Dirs <- {cw}, Timeout <- 1, EpochWrap <- 3,
             SeqWrap <- 2, CountWrap <- 4, MaxTake <- 1, ChanCap <- 2, MaxLoss <- 2,
             MaxTurned <- 5, MaxRestarts <- 0

NoSession ==
  /\ cmd = "NONE" /\ chan = <<>> /\ linked = FALSE /\ dstate = "closed" /\ dActive = FALSE
  /\ dEpoch = NoEpoch /\ dSeq = 0 /\ dHeld = {} /\ base = <<>> /\ recv = <<>> /\ quiet = 0
  /\ due = FALSE /\ eng = {} /\ turned = <<>> /\ seen = <<>> /\ synced = FALSE
  /\ losses = 0 /\ restarts = 0

PadInit ==
  /\ part \in {"chords", "queue", "store", "input", "detents"}
  /\ CASE part = "queue" -> Queue!Init /\ NoSession
       [] part = "detents" -> Detents!Init /\ KeymapInit
       [] OTHER -> Init /\ NoSession
  /\ StoreInit /\ InputInit
  /\ part # "store" => flash[CrcByte] = 0
  /\ part # "input" => pos = 0 /\ ~switch

PadNext ==
  /\ UNCHANGED part
  /\ \/ part = "chords" /\ Next /\ UNCHANGED <<storeVars, inputVars, sessionVars>>
     \/ part = "queue" /\ Queue!Next /\ UNCHANGED <<storeVars, inputVars, sessionVars>>
     \/ part = "store" /\ StoreNext /\ UNCHANGED <<vars, inputVars, sessionVars>>
     \/ part = "input" /\ InputNext /\ UNCHANGED <<vars, storeVars, sessionVars>>
     \/ part = "detents" /\ Detents!Next /\ UNCHANGED <<keymapVars, storeVars, inputVars>>

PadSpec == PadInit /\ [][PadNext]_padVariables

PadTypeOK ==
  /\ CASE part = "queue" -> Queue!TypeOK
       [] part = "detents" -> Detents!TypeOK
       [] OTHER -> TypeOK
  /\ StoreTypeOK /\ InputTypeOK

(* The keys and layers: see each of the five in PadCore.                     *)
KeysAreSound ==
  part = "chords" =>
    NothingStuck /\ RawIsSilent /\ MomentaryIsHeld /\ HeldIsDown /\ NeededModsStay

(* RawContract of the core's small instance.                                 *)
RawIsRawPad ==
  /\ part = "chords" => Raw!PadInit
  /\ [][part = "chords" => Raw!PadNext \/ UNCHANGED rawVars]_padVariables

(* TapsInOrder of the instance with the queue at its limits.                 *)
QueueInOrder == part = "queue" => Queue!TapsInOrder

(* No detent reaches the engine twice, whatever is lost: see RawSession.     *)
NoDetentTwice == part = "detents" => Detents!NoDetentTwice

(* An answer restores the detents that were lost: see RawSession.            *)
DetentsRestored == [][part = "detents" => Detents!AnswerRestoresDetents]_padVariables

(* What is stored survives power cuts, and survives them whole.              *)
FlashIsSafe == [][part = "store" => BootFindsWhole /\ Durable]_padVariables

(* A knob sends what it was turned, in the order it was turned.              *)
KnobIsTrue == [][part = "input" => RestIsExact /\ OlderFirst]_padVariables
=============================================================================
