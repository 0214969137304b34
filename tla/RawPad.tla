------------------------------- MODULE RawPad -------------------------------
(***************************************************************************)
(* Raw mode of the pad's firmware (control-surface/firmware/src/padlogic.c *)
(* and the RAW_MODE command of padstore.c), seen from outside: which slots *)
(* are down, which of them the host was told about, the session's epoch,   *)
(* the sequence number of the last raw report and the detent totals.       *)
(*                                                                         *)
(* It is the contract the daemon relies on.  PadCore implements it with    *)
(* the keymap, layers and the tap queue around it; RawSession puts the     *)
(* daemon at the other end of the cable.                                   *)
(***************************************************************************)
EXTENDS Integers, Sequences, FiniteSets

CONSTANTS
  GpioKey,    (* slot 0: the key wired to its own pin (SLOT_GPIO_KEY)        *)
  GpioLevels, (* the levels that key takes: BOOLEAN, or {FALSE} to leave it out *)
  TmKeys,     (* slots read through the TM1650, which shows one at a time    *)
  NoKey,      (* SLOT_NONE                                                   *)
  Dirs,       (* knob directions: the slots that only ever send TAP          *)
  Timeout,    (* the raw timeout, in heartbeat intervals (1500 ms / 500 ms)  *)
  EpochWrap,   (* 256 in the code: uint8_t rawEpoch                           *)
  SeqWrap,     (* 256 in the code: uint8_t rawSeq                             *)
  CountWrap,   (* 256 in the code: uint8_t knobRaw[], count                   *)
  MaxTake     (* 100 in the code: ENC_ACC_MAX, detents one pass can take     *)

ASSUME KeysAssumption == /\ NoKey \notin TmKeys
                         /\ GpioKey \notin TmKeys
                         /\ GpioKey # NoKey
                         /\ FALSE \in GpioLevels /\ GpioLevels \subseteq BOOLEAN
ASSUME ModAssumption == /\ Timeout \in Nat \ {0}
                        /\ EpochWrap \in Nat \ {0}
                        /\ SeqWrap \in Nat \ {0}
                        /\ CountWrap \in Nat \ {0}
                        /\ MaxTake \in Nat \ {0}

VARIABLES
  gpio,       (* the debounced GPIO key is down (Pad.gpioKey.stable)         *)
  tm,         (* the slot the debounced TM1650 shows, or NoKey (Pad.tmSlot)  *)
  left,       (* intervals of raw mode left; 0 = keymap mode (rawmode_t)     *)
  epoch,      (* Pad.rawEpoch                                                *)
  rawHeld,    (* Pad.rawHeld: slots whose DOWN went out and UP did not       *)
  seq,        (* Pad.rawSeq                                                  *)
  total       (* Pad.knobRaw: detents sent per direction                     *)

padVars == <<gpio, tm, left, epoch, rawHeld, seq, total>>

Keys == {GpioKey} \cup TmKeys
PadActive == left > 0
PadDown == (IF gpio THEN {GpioKey} ELSE {}) \cup ({tm} \ {NoKey})

PadTypeOK ==
  /\ gpio \in GpioLevels
  /\ tm \in TmKeys \cup {NoKey}
  /\ left \in 0..Timeout
  /\ epoch \in 0..EpochWrap - 1
  /\ rawHeld \in SUBSET Keys
  /\ seq \in 0..SeqWrap - 1
  /\ total \in [Dirs -> 0..CountWrap - 1]

(* PAD_init: whatever is down at start-up is the resting state.  A key down  *)
(* earlier starts the bootloader instead (main), so only one pressed between *)
(* that check and PAD_init's own reading of the TM1650 gets here.            *)
PadInit ==
  /\ gpio = FALSE
  /\ tm \in TmKeys \cup {NoKey}
  /\ left = 0
  /\ epoch = 0
  /\ rawHeld = {}
  /\ seq = 0
  /\ total = [d \in Dirs |-> 0]

-----------------------------------------------------------------------------
(* One pass of PAD_poll over the keys: the GPIO key first, then the TM1650,  *)
(* whose new code releases the slot it showed before.                        *)
Edge(on, kind, slot) == IF on THEN <<[kind |-> kind, slot |-> slot]>> ELSE <<>>
GpioKind(g) == IF g THEN "DOWN" ELSE "UP"

(* The raw branch of PAD_event: an UP goes out only after its DOWN did.      *)
RawKeyEvents(g, t) ==
  IF ~PadActive THEN <<>>
  ELSE Edge(g # gpio /\ (g \/ GpioKey \in rawHeld), GpioKind(g), GpioKey)
    \o Edge(t # tm /\ tm \in rawHeld, "UP", tm)
    \o Edge(t # tm /\ t # NoKey, "DOWN", t)

ScanKeys(g, t) ==
  /\ <<g, t>> # <<gpio, tm>>
  /\ gpio' = g
  /\ tm' = t
  /\ rawHeld' = IF PadActive
                THEN (rawHeld \cap PadDown') \cup (PadDown' \ PadDown)
                ELSE rawHeld
  /\ seq' = (seq + Len(RawKeyEvents(g, t))) % SeqWrap
  /\ UNCHANGED <<left, epoch, total>>

(* PAD_turn in raw mode: one report for all the detents taken at once.       *)
TurnRaw(d, n) ==
  /\ PadActive
  /\ total' = [total EXCEPT ![d] = (@ + n) % CountWrap]
  /\ seq' = (seq + 1) % SeqWrap
  /\ UNCHANGED <<gpio, tm, left, epoch, rawHeld>>

(* Mutant: the epoch is widened before it is stored, as SDCC once did.       *)
SetRawOnWidened ==
  /\ left' = Timeout
  /\ epoch' = IF PadActive THEN epoch ELSE epoch + 1
  /\ rawHeld' = IF PadActive THEN rawHeld ELSE {}
  /\ UNCHANGED <<gpio, tm, seq, total>>

(* PAD_setRaw with the daemon's timeout: a heartbeat, or a new session.      *)
SetRawOn ==
  /\ left' = Timeout
  /\ epoch' = IF PadActive THEN epoch ELSE (epoch + 1) % EpochWrap
  /\ rawHeld' = IF PadActive THEN rawHeld ELSE {}
  /\ UNCHANGED <<gpio, tm, seq, total>>

(* PAD_setRaw(0): the host stops raw mode.                                   *)
SetRawOff ==
  /\ left' = 0
  /\ rawHeld' = IF PadActive THEN {} ELSE rawHeld
  /\ UNCHANGED <<gpio, tm, epoch, seq, total>>

(* Mutant: the expiry forgets to clear rawHeld.                              *)
TickRawKeepsHeld ==
  /\ left' = IF PadActive THEN left - 1 ELSE 0
  /\ UNCHANGED <<gpio, tm, epoch, rawHeld, seq, total>>

(* PAD_tick: the heartbeat's timeout runs out.                               *)
TickRaw ==
  /\ left' = IF PadActive THEN left - 1 ELSE 0
  /\ rawHeld' = IF left = 1 THEN {} ELSE rawHeld
  /\ UNCHANGED <<gpio, tm, epoch, seq, total>>

(* Power cut or unplug, then PAD_init.                                       *)
ResetPad ==
  /\ gpio' = FALSE
  /\ tm' \in TmKeys \cup {NoKey}
  /\ left' = 0
  /\ epoch' = 0
  /\ rawHeld' = {}
  /\ seq' = 0
  /\ total' = [d \in Dirs |-> 0]

PadNext ==
  \/ \E g \in GpioLevels, t \in TmKeys \cup {NoKey} : ScanKeys(g, t)
  \/ \E d \in Dirs, n \in 1..MaxTake : TurnRaw(d, n)
  \/ SetRawOn
  \/ SetRawOff
  \/ TickRaw
  \/ ResetPad

PadSpec == PadInit /\ [][PadNext]_padVars

-----------------------------------------------------------------------------
(* Outside raw mode nothing is held in the session's name, and inside it a   *)
(* slot is held only while its key is down: an expired heartbeat leaves no   *)
(* DOWN whose UP will be sent in a later session (PAD_event, PAD_tick).      *)
RawHeldIsDown ==
  /\ ~PadActive => rawHeld = {}
  /\ rawHeld \subseteq PadDown
=============================================================================
