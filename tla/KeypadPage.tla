----------------------------- MODULE KeypadPage -----------------------------
(***************************************************************************)
(* The Keypad page's config: the copy being edited, the file it came from, *)
(* the two ways a change reaches that file (Save, and SetOption for the    *)
(* simple options) and the firmware wizard's borrowing of the input mode.  *)
(*                                                                         *)
(* The page runs on the UI thread; every Save and every batch of options   *)
(* is a worker thread of its own that posts its result back.  A config is  *)
(* [input, keys]: `input` stands for the options SetOption can write,      *)
(* `keys` for everything only Save writes (bindings, layers, profiles,     *)
(* layout); each change of `keys` takes a fresh number.                    *)
(***************************************************************************)
EXTENDS Integers, FiniteSets

CONSTANTS Modes,        \* the input modes
          Keymap,       \* the one the wizard needs ("evdev")
          MaxActs       \* things the user, the keypad app and others do

ASSUME KeypadAssumption == Keymap \in Modes /\ MaxActs \in Nat

VARIABLES file,         \* the config file
          config,       \* the page's copy
          loadedText,   \* the text Save expects to find
          dirty,        \* the page says "not saved"
          pending,      \* the option waiting for the timer
          armed,        \* OPTION_TIMER runs
          senders,      \* option batches on their threads
          saver,        \* the Save on its thread
          daemonUp,     \* the keypad app is on the bus
          seenUp,       \* ... as the page last saw it
          restore,      \* the input mode the wizard will put back
          acts,     \* what is left of the bounds
          want,         \* the mode the user chose last (history)
          excused       \* windows of the code that were hit since the file was last read at rest (history)

pageVars == <<file, config, loadedText, dirty, pending, armed, senders, saver,
              daemonUp, seenUp, restore, acts, want, excused>>

None == "none"
Configs == [input : Modes, keys : 0..MaxActs]
Outcomes == {"set", "already", "unapplied", "refused", "unsupported"}

Senders == [id : 1..2, mode : Modes, snapshot : Configs, same : BOOLEAN, after : Configs,
            at : {"read", "set", "after", "done"}, outcome : Outcomes]
Savers == [text : Configs, expected : Configs,
           at : {"idle", "check", "validate", "backup", "rename", "saved", "failed"}]

(* Windows of the code: a change of the page's copy while a Save runs; a batch of  *)
(* options that overlaps with another or with a Save; a reload while either goes   *)
(* on, or an option waits; another program's write between the two reads of a      *)
(* batch; and a choice that must wait for Save with an earlier one still queued.   *)
Windows == {"midsave", "overlap", "reload", "between", "queued"}
When(hit, window) == IF hit THEN {window} ELSE {}

NoSave(text) == [text |-> text, expected |-> text, at |-> "idle"]
Saving == saver.at # "idle"

PageTypeOK ==
  /\ {file, config, loadedText} \subseteq Configs
  /\ {dirty, armed, daemonUp, seenUp} \subseteq BOOLEAN /\ excused \subseteq Windows
  /\ {pending, restore} \subseteq Modes \cup {None}
  /\ senders \subseteq Senders /\ Cardinality(senders) <= 2
  /\ saver \in Savers
  /\ want \in Modes

PageInit ==
  \E m \in Modes :
    /\ file = [input |-> m, keys |-> 0] /\ config = file /\ loadedText = file
    /\ dirty = FALSE /\ pending = None /\ armed = FALSE
    /\ senders = {} /\ saver = NoSave(file)
    /\ daemonUp = TRUE /\ seenUp = TRUE /\ restore = None
    /\ acts \in 0..MaxActs
    /\ want = m /\ excused = {}

Act == acts > 0 /\ acts' = acts - 1

(* A change made while a Save is running is not in the text it writes.     *)
NoteEdit == excused' = excused \cup When(Saving, "midsave")

(* A change that must wait for Save leaves the option's queued value where *)
(* it is.                                                                  *)
NoteChoice == excused' = excused \cup When(Saving, "midsave") \cup When(~seenUp /\ pending # None, "queued")

(* Mutant: the wizard and the mode buttons queue the option even though    *)
(* the keypad app is away, and the change is not marked unsaved.           *)
CommitUnmarked(mode) ==
  IF seenUp THEN pending' = mode /\ armed' = TRUE /\ UNCHANGED dirty
            ELSE UNCHANGED <<pending, armed, dirty>>

(* Where a simple option goes: to the keypad app when the page thinks it   *)
(* is on the bus, else into the unsaved changes.                           *)
Commit(mode) ==
  IF seenUp THEN pending' = mode /\ armed' = TRUE /\ UNCHANGED dirty
            ELSE dirty' = TRUE /\ UNCHANGED <<pending, armed>>

(* apply_binding, set_layout, the profile and layer buttons.               *)
Edit ==
  /\ Act
  /\ config' = [config EXCEPT !.keys = acts]
  /\ dirty' = TRUE
  /\ NoteEdit
  /\ UNCHANGED <<file, loadedText, pending, armed, senders, saver, daemonUp, seenUp, restore, want>>

(* The mode buttons; the page's other simple options take the same way.    *)
ChooseMode(mode) ==
  /\ restore = None /\ mode # config.input
  /\ Act
  /\ config' = [config EXCEPT !.input = mode]
  /\ want' = mode
  /\ Commit(mode)
  /\ NoteChoice
  /\ UNCHANGED <<file, loadedText, senders, saver, daemonUp, seenUp, restore>>

(* The timer: the options queued by then leave on a thread, with the text  *)
(* the page has loaded.                                                    *)
FlushOptions ==
  /\ armed /\ armed' = FALSE
  /\ IF pending = None THEN UNCHANGED <<pending, senders, excused>>
     ELSE /\ Cardinality(senders) < 2
          /\ pending' = None
          /\ senders' = senders \cup
               {[id |-> CHOOSE i \in 1..2 : \A s \in senders : s.id # i,
                 mode |-> pending, snapshot |-> loadedText, same |-> TRUE,
                 after |-> loadedText, at |-> "read", outcome |-> "set"]}
          /\ excused' = excused \cup When(senders # {} \/ Saving, "overlap")
  /\ UNCHANGED <<file, config, loadedText, dirty, saver, daemonUp, seenUp, restore, acts, want>>

Advance(s, t) == senders' = (senders \ {s}) \cup {t}

(* The worker reads the file before the first option ...                   *)
ReadBefore(s) ==
  /\ s.at = "read"
  /\ Advance(s, [s EXCEPT !.at = "set", !.same = file = s.snapshot])
  /\ UNCHANGED <<file, config, loadedText, dirty, pending, armed, saver, daemonUp, seenUp,
                 restore, acts, want, excused>>

(* ... the keypad app writes and applies the option, cannot apply it, or   *)
(* refuses it; with nobody on the bus it is unsupported ...                *)
SendOption(s) ==
  /\ s.at = "set"
  /\ \E outcome \in IF daemonUp THEN Outcomes ELSE {"unsupported"} :
       /\ (outcome = "already") => (file.input = s.mode)
       /\ (outcome = "set") => (file.input # s.mode)
       /\ Advance(s, [s EXCEPT !.at = "after", !.outcome = outcome])
       /\ file' = IF outcome \in {"set", "unapplied"} THEN [file EXCEPT !.input = s.mode] ELSE file
  /\ UNCHANGED <<config, loadedText, dirty, pending, armed, saver, daemonUp, seenUp, restore,
                 acts, want, excused>>

(* ... and reads the file again before it posts the results.               *)
ReadAfter(s) ==
  /\ s.at = "after"
  /\ Advance(s, [s EXCEPT !.at = "done", !.after = file])
  /\ UNCHANGED <<file, config, loadedText, dirty, pending, armed, saver, daemonUp, seenUp,
                 restore, acts, want, excused>>

AtRest == pending = None /\ senders = {} /\ ~Saving

(* What reading the file again makes of the choice the user made last: the *)
(* page gives it up, unless the mode shown is the wizard's own.            *)
(* With an option on its way, or a Save, the outcome is open; else the page *)
(* shows the file again, whatever went wrong before.                       *)
NoteReload ==
  /\ want' = IF restore = None THEN file.input ELSE want
  /\ excused' = IF ~AtRest THEN excused \cup {"reload"} ELSE IF restore = None THEN {} ELSE excused

(* load_config: the copy is the file's text again.                         *)
LoadConfig == config' = file /\ loadedText' = file

NotWritten == {"refused", "unsupported"}
Written == {"set", "unapplied"}

(* Mutant: what the keypad app couldn't set is not marked unsaved.         *)
OptionResultsForget(s) ==
  /\ s.at = "done" /\ senders' = senders \ {s}
  /\ IF s.same /\ loadedText = s.snapshot
       THEN /\ loadedText' = s.after
            /\ config' = IF ~dirty /\ pending = None /\ s.outcome \notin NotWritten
                           THEN s.after ELSE config
       ELSE IF s.outcome \in Written /\ ~dirty /\ pending = None THEN LoadConfig
       ELSE UNCHANGED <<config, loadedText>>
  /\ UNCHANGED <<file, dirty, pending, armed, saver, daemonUp, seenUp, restore, acts, want,
                 excused>>

(* Mutant: the copy is read again over a change the keypad app refused.    *)
OptionResultsReread(s) ==
  /\ s.at = "done" /\ senders' = senders \ {s}
  /\ dirty' = (dirty \/ s.outcome \in NotWritten)
  /\ IF s.same /\ loadedText = s.snapshot
       THEN /\ loadedText' = s.after
            /\ config' = IF ~dirty /\ pending = None THEN s.after ELSE config
       ELSE IF s.outcome \in Written /\ ~dirty' /\ pending = None THEN LoadConfig
       ELSE UNCHANGED <<config, loadedText>>
  /\ UNCHANGED <<file, pending, armed, saver, daemonUp, seenUp, restore, acts, want, excused>>

(* option_results: what was not written becomes an unsaved change; the     *)
(* text read after becomes the baseline of Save unless something else      *)
(* changed the file or the page meanwhile; a clean copy is read again.     *)
OptionResults(s) ==
  /\ s.at = "done" /\ senders' = senders \ {s}
  /\ dirty' = (dirty \/ s.outcome \in NotWritten)
  /\ IF s.same /\ loadedText = s.snapshot
       THEN /\ loadedText' = s.after
            /\ config' = IF ~dirty' /\ pending = None THEN s.after ELSE config
       ELSE IF s.outcome \in Written /\ ~dirty' /\ pending = None THEN LoadConfig
       ELSE UNCHANGED <<config, loadedText>>
  /\ IF config' = config THEN UNCHANGED excused ELSE NoteEdit
  /\ UNCHANGED <<file, pending, armed, saver, daemonUp, seenUp, restore, acts, want>>

(* Revert reads the file over whatever was edited.                         *)
Revert ==
  /\ restore = None /\ Act
  /\ LoadConfig /\ dirty' = FALSE
  /\ NoteReload
  /\ UNCHANGED <<file, pending, armed, senders, saver, daemonUp, seenUp, restore>>

(* Coming back to the tab reads it unless something is unsaved.            *)
Reenter ==
  /\ Act
  /\ ~dirty
  /\ LoadConfig
  /\ NoteReload
  /\ UNCHANGED <<file, dirty, pending, armed, senders, saver, daemonUp, seenUp, restore>>

StartSave ==
  /\ ~Saving /\ restore = None /\ Act
  /\ saver' = [text |-> config, expected |-> loadedText, at |-> "check"]
  /\ excused' = excused \cup When(senders # {}, "overlap")
  /\ UNCHANGED <<file, config, loadedText, dirty, pending, armed, senders, daemonUp, seenUp,
                 restore, want>>

(* save_config on its thread: compare, let the keypad app check the text,  *)
(* copy the file that is there to the backups, rename the new one over it. *)
SaveStep ==
  /\ Saving
  /\ \E next \in {"validate", "backup", "rename", "saved", "failed"} :
       /\ \/ saver.at = "check" /\ next = (IF file = saver.expected THEN "validate" ELSE "failed")
          \/ saver.at = "validate" /\ next \in {"backup", "failed"}
          \/ saver.at = "backup" /\ next \in {"rename", "failed"}
          \/ saver.at = "rename" /\ next \in {"saved", "failed"}
       /\ saver' = [saver EXCEPT !.at = next]
       /\ file' = IF next = "saved" THEN saver.text ELSE file
  /\ UNCHANGED <<config, loadedText, dirty, pending, armed, senders, daemonUp, seenUp, restore,
                 acts, want, excused>>

(* The result: the page is clean, and the text just written its baseline.  *)
SaveResult ==
  /\ saver.at \in {"saved", "failed"}
  /\ saver' = NoSave(saver.text)
  /\ IF saver.at = "saved" THEN dirty' = FALSE /\ loadedText' = saver.text
                           ELSE UNCHANGED <<dirty, loadedText>>
  /\ UNCHANGED <<file, config, pending, armed, senders, daemonUp, seenUp, restore, acts, want,
                 excused>>

(* wizard_input_begin: the input mode in the file is kept aside and the    *)
(* keypad app told to read the keymap, if it can be told.                  *)
BeginInput ==
  IF loadedText.input = Keymap \/ ~seenUp
    THEN UNCHANGED <<config, dirty, pending, armed, restore, want>>
    ELSE /\ restore' = loadedText.input
         /\ config' = [config EXCEPT !.input = Keymap]
         /\ want' = loadedText.input
         /\ Commit(Keymap)

(* Mutant: the wizard puts the keymap back, the mode shown at the end.     *)
EndInputStays ==
  IF restore = None THEN UNCHANGED <<config, dirty, pending, armed, restore>>
  ELSE /\ restore' = None /\ UNCHANGED config /\ Commit(config.input)

(* wizard_input_end: the mode kept aside is chosen again.                  *)
EndInput ==
  IF restore = None THEN UNCHANGED <<config, dirty, pending, armed, restore>>
  ELSE /\ restore' = None
       /\ config' = [config EXCEPT !.input = restore]
       /\ Commit(restore)

(* Another program or the user's editor writes the file; the keypad app    *)
(* comes and goes, and the page's poll notices.                            *)
OutsideWrite ==
  /\ Act
  /\ file' = [file EXCEPT !.keys = acts]
  /\ excused' = excused \cup When(\E s \in senders : s.at \notin {"read", "done"}, "between")
  /\ UNCHANGED <<config, loadedText, dirty, pending, armed, senders, saver, daemonUp, seenUp,
                 restore, want>>

DaemonComesOrGoes ==
  /\ Act
  /\ daemonUp' = ~daemonUp
  /\ UNCHANGED <<file, config, loadedText, dirty, pending, armed, senders, saver, seenUp, restore,
                 want, excused>>

StatusSeen ==
  /\ seenUp # daemonUp /\ seenUp' = daemonUp
  /\ UNCHANGED <<file, config, loadedText, dirty, pending, armed, senders, saver, daemonUp, restore,
                 acts, want, excused>>

PageNext ==
  \/ Edit \/ \E m \in Modes : ChooseMode(m)
  \/ FlushOptions
  \/ \E s \in senders : ReadBefore(s) \/ SendOption(s) \/ ReadAfter(s) \/ OptionResults(s)
  \/ Revert \/ Reenter
  \/ StartSave \/ SaveStep \/ SaveResult
  \/ OutsideWrite \/ DaemonComesOrGoes \/ StatusSeen

(* At rest, a page that says nothing is unsaved shows the text it last     *)
(* read or wrote, but for an option the file has by now; and the mode it   *)
(* shows is the one the user chose last, also when the keypad app refused  *)
(* it or was away, or the wizard borrowed the option in between.  Defects  *)
(* of the code may end that until the page reads the file again: the       *)
(* result of a Save marks as saved what was changed while it ran, a reload *)
(* shows what an option or a Save on its way changes at once, of batches   *)
(* and Saves that overlap an older answer is taken for the newer, what     *)
(* another program writes between the two reads of a batch is taken for    *)
(* the keypad app's; and an option still queued when a later choice had to *)
(* wait for Save is sent after it.                                         *)
NothingLostUnsaid ==
  AtRest =>
    /\ ~dirty /\ excused \cap {"midsave", "overlap", "reload", "between"} = {} =>
          config \in {loadedText, [loadedText EXCEPT !.input = file.input]}
    /\ restore = None /\ excused \cap {"overlap", "reload", "queued"} = {} => config.input = want
=============================================================================
