---------------------------- MODULE KeypadWizard ----------------------------
(***************************************************************************)
(* The Keypad page's firmware wizard, over KeypadPage: seven steps, some   *)
(* of which go forward by themselves when a status worker reports the      *)
(* hardware they wait for, a flash that runs on a thread of its own, and   *)
(* the input mode borrowed from "Unplug the keypad" to the end.            *)
(*                                                                         *)
(* The hardware is what a status worker sees on the USB bus: the keypad,   *)
(* nothing, one device in update mode, or two of them.                     *)
(***************************************************************************)
EXTENDS KeypadPage

CONSTANT MaxOpens       \* times the wizard is opened

VARIABLES step,         \* the wizard's step; Closed when there is none
          backed,       \* the step was reached with Back
          ack,          \* the box of the first step
          image,        \* the image chosen
          listings,     \* workers still listing the images
          flashing, flashOk,
          hardware,     \* what is plugged in
          sample,       \* what the status worker read
          seenHw,       \* what the page was told last
          opens

wizardVars == <<step, backed, ack, image, listings, flashing, flashOk, hardware, sample, seenHw, opens>>

Closed == -1
Hardware == {"keypad", "nothing", "update", "two"}
Images == {"none", "good", "mismatch"}

WizardTypeOK ==
  /\ step \in Closed..6
  /\ {backed, ack, flashing, flashOk} \subseteq BOOLEAN
  /\ image \in Images /\ listings \in 0..MaxOpens
  /\ hardware \in Hardware /\ {sample, seenHw} \subseteq Hardware \cup {None}
  /\ opens \in 0..MaxOpens

WizardInit ==
  /\ step = Closed /\ backed = FALSE /\ ack = FALSE /\ image = "none" /\ listings = 0
  /\ flashing = FALSE /\ flashOk = FALSE
  /\ hardware = "keypad" /\ sample = None /\ seenHw = None /\ opens = 0

(* wizard_can_next, `hw` being the hardware of the last status.            *)
CanNext(hw) ==
  CASE step = 0 -> ack
    [] step = 1 -> image = "good"
    [] step = 2 -> hw = "nothing"
    [] step = 3 -> hw = "update"
    [] step = 4 -> flashOk /\ ~flashing
    [] step = 5 -> hw = "keypad"
    [] OTHER -> TRUE

(* Opening it starts a worker that lists the images.                       *)
OpenWizard ==
  /\ step = Closed /\ opens < MaxOpens
  /\ opens' = opens + 1 /\ listings' = listings + 1
  /\ step' = 0 /\ backed' = FALSE /\ ack' = FALSE /\ image' = "none"
  /\ flashing' = FALSE /\ flashOk' = FALSE
  /\ UNCHANGED <<hardware, sample, seenHw, pageVars>>

(* A listing goes to whatever wizard is open when it arrives.              *)
ImagesArrive ==
  /\ listings > 0 /\ listings' = listings - 1
  /\ IF step = Closed THEN UNCHANGED image ELSE image' \in Images \ {"none"}
  /\ UNCHANGED <<step, backed, ack, flashing, flashOk, hardware, sample, seenHw, opens, pageVars>>

Acknowledge ==
  /\ step = 0 /\ ack' = ~ack
  /\ UNCHANGED <<step, backed, image, listings, flashing, flashOk, hardware, sample, seenHw, opens, pageVars>>

SelectImage ==
  /\ step = 1 /\ image # "none"
  /\ image' \in Images \ {"none", image}
  /\ UNCHANGED <<step, backed, ack, listings, flashing, flashOk, hardware, sample, seenHw, opens, pageVars>>

(* Entering "Flash" forgets an earlier flash.                              *)
EnterNext == step' = step + 1 /\ flashOk' = IF step' = 4 THEN FALSE ELSE flashOk

(* Next: at the last step the wizard ends and the mode is put back; from   *)
(* "Unplug the keypad" on the keypad app reads the keymap.                 *)
WizardForward ==
  /\ step # Closed /\ CanNext(seenHw)
  /\ IF step = 6
       THEN /\ step' = Closed /\ EndInput /\ UNCHANGED <<backed, flashOk, want>> /\ NoteChoice
       ELSE /\ EnterNext /\ backed' = FALSE
            /\ IF step' = 2 /\ restore = None
                 THEN BeginInput /\ NoteChoice
                 ELSE UNCHANGED <<config, dirty, pending, armed, restore, want, excused>>
  /\ UNCHANGED <<ack, image, listings, flashing, hardware, sample, seenHw, opens,
                 file, loadedText, senders, saver, daemonUp, seenUp, acts>>

(* Mutant: Back also works while a flash is running.                       *)
BackAnyTime ==
  /\ step # Closed
  /\ step' = (IF step = 0 THEN 0 ELSE step - 1) /\ backed' = TRUE
  /\ UNCHANGED <<ack, image, listings, flashing, flashOk, hardware, sample, seenHw, opens, pageVars>>

Back ==
  /\ step # Closed /\ ~flashing
  /\ step' = (IF step = 0 THEN 0 ELSE step - 1) /\ backed' = TRUE
  /\ UNCHANGED <<ack, image, listings, flashing, flashOk, hardware, sample, seenHw, opens, pageVars>>

Close ==
  /\ step # Closed /\ ~flashing
  /\ step' = Closed /\ EndInput /\ NoteChoice
  /\ UNCHANGED <<backed, ack, image, listings, flashing, flashOk, hardware, sample, seenHw, opens,
                 file, loadedText, senders, saver, daemonUp, seenUp, acts, want>>

StartFlash ==
  /\ step = 4 /\ ~flashing /\ image # "none"
  /\ flashing' = TRUE /\ flashOk' = FALSE
  /\ UNCHANGED <<step, backed, ack, image, listings, hardware, sample, seenHw, opens, pageVars>>

(* The worker's last word, into whatever wizard is open.                   *)
FlashEnds ==
  /\ flashing /\ flashing' = FALSE
  /\ flashOk' \in BOOLEAN
  /\ UNCHANGED <<step, backed, ack, image, listings, hardware, sample, seenHw, opens, pageVars>>

(* load_status on a worker ...                                             *)
ReadStatus ==
  /\ sample = None /\ sample' = hardware
  /\ UNCHANGED <<step, backed, ack, image, listings, flashing, flashOk, hardware, seenHw, opens, pageVars>>

(* ... and its delivery, which may move the wizard forward by itself.      *)
StatusArrives ==
  /\ sample # None /\ sample' = None
  /\ seenHw' = sample /\ seenUp' = daemonUp
  /\ IF step \in {2, 3, 5} /\ ~backed /\ CanNext(sample) THEN EnterNext ELSE UNCHANGED <<step, flashOk>>
  /\ UNCHANGED <<backed, ack, image, listings, flashing, hardware, opens,
                 file, config, loadedText, dirty, pending, armed, senders, saver, daemonUp,
                 restore, acts, want, excused>>

(* The user plugs, unplugs or resets it.                                   *)
Replug ==
  /\ hardware' \in Hardware \ {hardware}
  /\ UNCHANGED <<step, backed, ack, image, listings, flashing, flashOk, sample, seenHw, opens, pageVars>>

WizardNext ==
  \/ OpenWizard \/ ImagesArrive \/ Acknowledge \/ SelectImage
  \/ WizardForward \/ Back \/ Close \/ StartFlash \/ FlashEnds
  \/ ReadStatus \/ StatusArrives \/ Replug

(* A flash runs only with the wizard at "Flash", the steps after it are    *)
(* reached only when the last flash ended well, and no input mode stays    *)
(* borrowed once the wizard is gone, whatever the hardware, late status    *)
(* reports and late results do.                                            *)
FlashIsSupervised ==
  /\ flashing => step = 4
  /\ step >= 5 => flashOk
  /\ step = Closed => restore = None
=============================================================================
