---------------------------- MODULE KeyBindings ----------------------------
(***************************************************************************)
(* bindings.conf, the file of Hyprland's key bindings, and the programs    *)
(* that write it (smpl-common/src/keybindings.rs): the Keybindings tab of  *)
(* the settings (settings/src/main.rs), which keeps the list it read in    *)
(* memory and writes it whole, and the web app centre (webapp-center/src), *)
(* which reads the file again for each change.  Somebody may also edit the *)
(* file in an editor, which the tab offers.                                *)
(*                                                                         *)
(* A binding is what it starts, with which arguments, and its combo; ""    *)
(* stands for no key.  A web app is named by its slug, its arguments are   *)
(* its flags.  The centre looks for the text of a slug in what a binding   *)
(* starts: with quotes, as it writes it itself, or without, where a longer *)
(* slug that begins with it is found too, and a flag in front of the name  *)
(* hides it.  Sections, submaps and the order of lines are left out: a new *)
(* binding comes last.                                                     *)
(***************************************************************************)
EXTENDS Integers, SequencesExt

CONSTANTS
    Slugs,      \* the web apps' slugs
    Begins,     \* the pairs of them of which the second is longer and begins with the first
    Flags,      \* the flags a web app may have
    Commands,   \* what other bindings start
    NewCommand, \* what a binding added in the tab starts
    Combos,     \* the combos that may be pressed
    Confs,      \* what the file may hold at first
    MaxKeyActs  \* bound: changes by either user

ASSUME KeyBindingsAssumption ==
    Begins \subseteq Slugs \X Slugs /\ NewCommand \notin Commands /\ "" \notin Combos /\ MaxKeyActs \in Nat

VARIABLES
    conf,       \* the file
    webApps,    \* the desktop file of each slug: its flags, or "none"
    submap,     \* Hyprland's: "reset", or "kb-capture" in which no binding works
    mem,        \* the tab's list: file
    original,   \* the tab's list as last loaded or saved: original_serial
    capture,    \* the row whose combo is being captured, and what it was at the click
    appsShown,  \* the centre's list, as of its last scan
    form,       \* the centre's form
    keyActs,
    unseen,     \* history: what others put into the file since the tab read or wrote it
    givenUp,    \* history: what the user removed in the tab
    warned,     \* history: what the form warned of; anything, if it couldn't read the file, or
                \* once the file was written since
    current,    \* history: the slugs whose binding the centre wrote last
    shifted,    \* history: rows were removed or read again under a capture
    leftOver    \* history: a capture ended without a reset

keyVars == <<conf, webApps, submap, mem, original, capture, appsShown, form, keyActs,
             unseen, givenUp, warned, current, shifted, leftOver>>

NoCapture == [row |-> 0, what |-> ""]
NoForm == [open |-> FALSE, editing |-> "", key |-> "", cleared |-> FALSE, capturing |-> FALSE]
Whats == Slugs \cup Commands \cup {NewCommand}
Writings == {"quoted", "bare", "flagged"}
Bound(what, args, combo) == [what |-> what, args |-> args, combo |-> combo, written |-> "quoted"]
Unloaded == <<Bound("", "", "")>>
WhatsOf(list) == {list[i].what : i \in DOMAIN list}
Installed == {s \in Slugs : webApps[s] # "none"}
Loaded == mem # Unloaded

KeysInit ==
    /\ conf \in Confs /\ webApps \in [Slugs -> Flags \cup {"none"}] /\ submap = "reset"
    /\ mem = Unloaded /\ original = Unloaded /\ capture = NoCapture
    /\ appsShown = Installed /\ form = NoForm /\ keyActs = 0
    /\ unseen = {} /\ givenUp = {} /\ warned = {} /\ current = {} /\ shifted = FALSE /\ leftOver = FALSE

Changes == keyActs < MaxKeyActs /\ keyActs' = keyActs + 1
OnTab == UNCHANGED <<webApps, appsShown, form>>
OnCentre == UNCHANGED <<mem, original, capture, givenUp, shifted>>

EnterSubmap == submap' = "kb-capture" /\ leftOver' = FALSE
ResetSubmap == submap' = "reset" /\ leftOver' = FALSE
LeaveSubmap == UNCHANGED submap /\ leftOver' = (submap = "kb-capture")
KeepSubmap == UNCHANGED <<submap, leftOver>>

(* find_conflict: the first binding with the combo, if there is one.       *)
(* Mutant: the binding that is edited counts for all.                      *)
ConflictsAfter(list, combo, but) == {i \in DOMAIN list : i > but /\ list[i].combo = combo}

Conflicts(list, combo, but) == {i \in DOMAIN list : i # but /\ list[i].combo = combo}

(* What a key press may come to: a combo, or none that Hyprland has a name for. *)
Pressed == Combos \cup {"unknown"}

-----------------------------------------------------------------------------
(***************************************************************************)
(* The Keybindings tab.                                                    *)
(***************************************************************************)
(* What the tab's write of the file means for the others.                  *)
TabWrote(list) ==
    /\ unseen' = {} /\ givenUp' = {}
    /\ current' = {s \in current : \A b \in ToSet(list) : b.what = s => b \in ToSet(conf)}
    /\ warned' = IF form.key = "" THEN warned ELSE Whats

(* save_and_reload: the write or the reload may fail, and either counts as failed. *)
SaveAndReload(list) ==
    \/ conf' = list /\ original' = list /\ TabWrote(list)
    \/ conf' = list /\ UNCHANGED original /\ TabWrote(list)
    \/ UNCHANGED <<conf, original, unseen, givenUp, current, warned>>

(* kb_load on entering the tab, once; kb_revert at any time there are changes.     *)
Read == /\ mem' = conf /\ original' = conf /\ unseen' = {} /\ givenUp' = {}
        /\ shifted' = (capture # NoCapture)
        /\ UNCHANGED <<conf, current, warned>>
KbLoad == ~Loaded /\ Read /\ KeepSubmap /\ OnTab /\ UNCHANGED <<capture, keyActs>>
HasChanges == Loaded /\ mem # original
KbRevert == HasChanges /\ Read /\ KeepSubmap /\ OnTab /\ UNCHANGED <<capture, keyActs>>

KbEditArgs(i, args) ==
    /\ Loaded /\ args # mem[i].args /\ Changes
    /\ mem' = [mem EXCEPT ![i].args = args]
    /\ KeepSubmap /\ OnTab
    /\ UNCHANGED <<conf, original, capture, unseen, givenUp, warned, current, shifted>>
KbRemove(i) ==
    /\ Loaded /\ Changes
    /\ mem' = RemoveAt(mem, i) /\ givenUp' = givenUp \cup {mem[i].what}
    /\ shifted' = (capture # NoCapture)
    /\ KeepSubmap /\ OnTab
    /\ UNCHANGED <<conf, original, capture, unseen, warned, current>>
KbAdd ==
    /\ Loaded /\ NewCommand \notin WhatsOf(mem) /\ Changes
    /\ mem' = Append(mem, Bound(NewCommand, CHOOSE f \in Flags : TRUE, ""))
    /\ givenUp' = givenUp \ {NewCommand}
    /\ KeepSubmap /\ OnTab
    /\ UNCHANGED <<conf, original, capture, unseen, warned, current, shifted>>
KbSave ==
    /\ HasChanges /\ SaveAndReload(mem)
    /\ KeepSubmap /\ OnTab
    /\ UNCHANGED <<mem, capture, keyActs, shifted>>

KbEditCombo(i) ==
    /\ Loaded /\ capture = NoCapture /\ Changes
    /\ capture' = [row |-> i, what |-> mem[i].what] /\ shifted' = FALSE
    /\ EnterSubmap /\ OnTab
    /\ UNCHANGED <<conf, mem, original, unseen, givenUp, warned, current>>

(* Mutant: a combo that is in use leaves the submap as it is.              *)
KbSaveComboUnreset(combo) ==
    /\ Loaded /\ capture # NoCapture
    /\ capture' = NoCapture
    /\ IF combo = "unknown" \/ Conflicts(mem, combo, capture.row) # {}
       THEN KeepSubmap /\ UNCHANGED <<conf, mem, original, unseen, givenUp, warned, current>>
       ELSE /\ mem' = IF capture.row \in DOMAIN mem THEN [mem EXCEPT ![capture.row].combo = combo] ELSE mem
            /\ SaveAndReload(mem') /\ ResetSubmap
    /\ shifted' = FALSE /\ OnTab /\ UNCHANGED keyActs

(* A key was pressed: unless it is unknown or its combo in use, the whole list is  *)
(* written at once.                                                        *)
KbSaveCombo(combo) ==
    /\ Loaded /\ capture # NoCapture
    /\ capture' = NoCapture /\ ResetSubmap
    /\ IF combo = "unknown" \/ Conflicts(mem, combo, capture.row) # {}
       THEN UNCHANGED <<conf, mem, original, unseen, givenUp, warned, current>>
       ELSE /\ mem' = IF capture.row \in DOMAIN mem THEN [mem EXCEPT ![capture.row].combo = combo] ELSE mem
            /\ SaveAndReload(mem')
    /\ shifted' = FALSE /\ OnTab /\ UNCHANGED keyActs

KbCancelCapture ==
    /\ capture # NoCapture /\ capture' = NoCapture /\ ResetSubmap /\ shifted' = FALSE
    /\ OnTab /\ UNCHANGED <<conf, mem, original, keyActs, unseen, givenUp, warned, current>>

(* Escape in the filter box, which has the keyboard on entering the tab: it closes *)
(* the row that is open and ends its capture, but not the submap.          *)
DismissTopLayer ==
    /\ capture # NoCapture /\ capture' = NoCapture /\ LeaveSubmap /\ shifted' = FALSE
    /\ OnTab /\ UNCHANGED <<conf, mem, original, keyActs, unseen, givenUp, warned, current>>

(* The settings exit, whatever goes on.                                    *)
CloseSettings ==
    /\ Loaded /\ mem' = Unloaded /\ original' = Unloaded /\ capture' = NoCapture
    /\ IF capture # NoCapture THEN LeaveSubmap ELSE KeepSubmap
    /\ givenUp' = {} /\ unseen' = {} /\ shifted' = FALSE
    /\ OnTab /\ UNCHANGED <<conf, keyActs, warned, current>>

-----------------------------------------------------------------------------
(***************************************************************************)
(* The web app centre, and the editor.                                     *)
(***************************************************************************)
ShowCreateScreen ==
    /\ ~form.open /\ form' = [NoForm EXCEPT !.open = TRUE] /\ warned' = {}
    /\ KeepSubmap /\ OnCentre /\ UNCHANGED <<conf, webApps, appsShown, keyActs, unseen, current>>
ShowEditScreen(slug) ==
    /\ ~form.open /\ slug \in appsShown
    /\ form' = [NoForm EXCEPT !.open = TRUE, !.editing = slug] /\ warned' = {}
    /\ KeepSubmap /\ OnCentre /\ UNCHANGED <<conf, webApps, appsShown, keyActs, unseen, current>>
GoBackToList ==
    /\ form.open /\ ~form.capturing /\ form' = NoForm /\ warned' = {}
    /\ KeepSubmap /\ OnCentre /\ UNCHANGED <<conf, webApps, appsShown, keyActs, unseen, current>>

(* The window is closed, and opened again: the list is scanned.            *)
CloseCentre ==
    /\ form' = NoForm /\ appsShown' = Installed /\ warned' = {}
    /\ IF form.capturing THEN LeaveSubmap ELSE KeepSubmap
    /\ OnCentre /\ UNCHANGED <<conf, webApps, keyActs, unseen, current>>

HotkeyStartCapture ==
    /\ form.open /\ ~form.capturing /\ Changes
    /\ form' = [form EXCEPT !.capturing = TRUE] /\ EnterSubmap
    /\ OnCentre /\ UNCHANGED <<conf, webApps, appsShown, unseen, warned, current>>
HotkeyCancelCapture ==
    /\ form.capturing /\ form' = [form EXCEPT !.capturing = FALSE] /\ ResetSubmap
    /\ OnCentre /\ UNCHANGED <<conf, webApps, appsShown, keyActs, unseen, warned, current>>
HotkeySaveCombo(combo) ==
    /\ form.capturing /\ ResetSubmap
    /\ IF combo = "unknown" THEN form' = [form EXCEPT !.capturing = FALSE] /\ UNCHANGED warned
       ELSE /\ form' = [form EXCEPT !.capturing = FALSE, !.key = combo]
            /\ warned' \in {{conf[i].what : i \in Conflicts(conf, combo, 0)}, Whats}
    /\ OnCentre /\ UNCHANGED <<conf, webApps, appsShown, keyActs, unseen, current>>
HotkeyClear ==
    /\ form.open /\ ~form.capturing /\ ~form.cleared
    /\ form' = [form EXCEPT !.key = "", !.cleared = TRUE] /\ warned' = {}
    /\ KeepSubmap /\ OnCentre /\ UNCHANGED <<conf, webApps, appsShown, keyActs, unseen, current>>

(* What the centre takes for a binding of the slug.                        *)
OfApp(b, slug) ==
    \/ b.written = "quoted" /\ b.what = slug
    \/ b.written = "bare" /\ (b.what = slug \/ <<slug, b.what>> \in Begins)
WithoutApp(slug) == SelectSeq(conf, LAMBDA b : ~OfApp(b, slug))
WithoutFirst(list, combo) ==
    LET taken == Conflicts(list, combo, 0)
    IN IF taken = {} THEN list ELSE RemoveAt(list, CHOOSE i \in taken : \A j \in taken : i <= j)
WithFlags(slug, flags) ==
    [i \in DOMAIN conf |-> IF OfApp(conf[i], slug) THEN Bound(slug, flags, conf[i].combo) ELSE conf[i]]

(* Mutant: unless the hotkey is changed, the binding stays as it is.       *)
BindingsKept(slug, flags) ==
    IF form.key # "" THEN Append(WithoutFirst(WithoutApp(slug), form.key), Bound(slug, flags, form.key))
    ELSE IF form.cleared THEN WithoutApp(slug) ELSE conf

(* Mutant: the binding that uses the combo stays.                          *)
BindingsBoth(slug, flags) ==
    IF form.key # "" THEN Append(WithoutApp(slug), Bound(slug, flags, form.key))
    ELSE IF form.cleared THEN WithoutApp(slug) ELSE WithFlags(slug, flags)

(* Mutant: every web app's binding counts as the app's old one.            *)
BindingsAlone(slug, flags) ==
    LET others == SelectSeq(conf, LAMBDA b : b.what \notin Slugs)
    IN IF form.key # "" THEN Append(WithoutFirst(others, form.key), Bound(slug, flags, form.key))
       ELSE IF form.cleared THEN others ELSE WithFlags(slug, flags)

(* The file with the hotkey of the form: the app's old bindings and the one that   *)
(* uses the combo make way; without a new hotkey the old one gets the new flags.   *)
BindingsWith(slug, flags) ==
    IF form.key # "" THEN Append(WithoutFirst(WithoutApp(slug), form.key), Bound(slug, flags, form.key))
    ELSE IF form.cleared THEN WithoutApp(slug) ELSE WithFlags(slug, flags)

Delete(slugs) == webApps' = [s \in Slugs |-> IF s \in slugs THEN "none" ELSE webApps[s]]
RefreshModel == appsShown' = {s \in Slugs : webApps'[s] # "none"}

(* save_app: an app that is edited is deleted first; then its new self is validated *)
(* and written, and its bindings follow.  The file's own failure goes unnoticed.    *)
Deleted == IF form.editing # "" THEN [webApps EXCEPT ![form.editing] = "none"] ELSE webApps
SaveAppFails ==
    /\ form.open /\ ~form.capturing /\ Changes
    /\ webApps' = Deleted
    /\ KeepSubmap /\ OnCentre /\ UNCHANGED <<conf, appsShown, form, unseen, warned, current>>
SaveApp(slug, flags) ==
    /\ form.open /\ ~form.capturing /\ Changes
    /\ webApps' = [Deleted EXCEPT ![slug] = flags]
    /\ \/ /\ conf' = BindingsWith(slug, flags)
          /\ unseen' = IF Loaded THEN unseen \cup (WhatsOf(conf') \ WhatsOf(conf)) ELSE {}
          /\ current' = current \cup {slug}
       \/ UNCHANGED <<conf, unseen>> /\ current' = current \ {slug}
    /\ RefreshModel /\ form' = NoForm /\ warned' = {}
    /\ KeepSubmap /\ OnCentre

(* delete_app, delete_marked, delete_all: the bindings stay.               *)
DeleteApps(slugs) ==
    /\ ~form.open /\ slugs # {} /\ slugs \subseteq appsShown /\ Changes
    /\ Delete(slugs) /\ RefreshModel
    /\ KeepSubmap /\ OnCentre /\ UNCHANGED <<conf, form, unseen, warned, current>>

(* Somebody gives a command a combo that is free, in an editor.            *)
EditorAdds(what, combo) ==
    /\ what \notin WhatsOf(conf) /\ Conflicts(conf, combo, 0) = {} /\ Changes
    /\ conf' = Append(conf, Bound(what, CHOOSE f \in Flags : TRUE, combo))
    /\ unseen' = IF Loaded THEN unseen \cup {what} ELSE {}
    /\ warned' = IF form.key = "" THEN warned ELSE Whats
    /\ KeepSubmap /\ OnTab /\ OnCentre /\ UNCHANGED current

TabNext ==
    \/ KbLoad \/ KbRevert \/ KbAdd \/ KbSave \/ KbCancelCapture \/ DismissTopLayer \/ CloseSettings
    \/ \E i \in DOMAIN mem : KbEditCombo(i) \/ KbRemove(i) \/ \E args \in Flags : KbEditArgs(i, args)
    \/ \E combo \in Pressed : KbSaveCombo(combo)
CentreNext ==
    \/ ShowCreateScreen \/ GoBackToList \/ CloseCentre \/ HotkeyStartCapture \/ HotkeyCancelCapture \/ HotkeyClear
    \/ SaveAppFails
    \/ \E slug \in Slugs : ShowEditScreen(slug) \/ \E flags \in Flags : SaveApp(slug, flags)
    \/ \E combo \in Pressed : HotkeySaveCombo(combo)
    \/ \E slugs \in SUBSET Slugs : DeleteApps(slugs)
KeysNext == TabNext \/ CentreNext \/ \E what \in Commands, combo \in Combos : EditorAdds(what, combo)

-----------------------------------------------------------------------------
IsList(list) == \A i \in DOMAIN list : 
    list[i] \in [what : Whats, args : Flags, combo : Combos \cup {""}, written : Writings]
KeysTypeOK ==
    /\ IsList(conf) /\ (Loaded => IsList(mem)) /\ submap \in {"reset", "kb-capture"}
    /\ appsShown \subseteq Slugs
    /\ {unseen, givenUp, warned} \subseteq SUBSET Whats /\ current \subseteq Slugs

(* However the tab, the centre and an editor take turns, no combo is bound twice   *)
(* (find_conflict), and a hotkey that the centre wrote last, in the quotes it      *)
(* writes, starts its app with the app's flags ("launching via hotkey behaves      *)
(* identically to launching via the desktop file", webapp-center/src/main.rs:55).  *)
BindingsAreSound ==
    /\ \A i, j \in DOMAIN conf : i # j /\ conf[i].combo # "" => conf[i].combo # conf[j].combo
    /\ \A b \in ToSet(conf) :
          b.written = "quoted" /\ b.what \in current \cap Installed => b.args = webApps[b.what]

(* Hyprland's bindings are off only while a window captures a combo, unless the    *)
(* window was closed, or its row dismissed, in the middle of it.           *)
BindingsComeBack ==
    submap = "kb-capture" => capture # NoCapture \/ form.capturing \/ leftOver

(* What a save of the centre takes for its app's own; by a defect of the code that *)
(* may be another app's, whose slug begins like the app's and has no quotes.       *)
TakenForIts(b) == \E slug \in Slugs : OfApp(b, slug) /\ \E flags \in Flags : SaveApp(slug, flags)

(* The tab, which leaves the form alone, takes a binding from the file only if the *)
(* user removed it there, or, by another defect, if somebody else put it into the  *)
(* file since the tab read it; the centre, only if the form warned that its combo  *)
(* is taken, or took it for its app's.  And a captured combo goes to the binding   *)
(* that was clicked, unless rows moved meanwhile.                                  *)
BindingsGoAsAsked ==
    [][/\ \A b \in ToSet(conf) : b.what \notin WhatsOf(conf') =>
            IF form' = form THEN b.what \in givenUp \cup unseen ELSE b.what \in warned \/ TakenForIts(b)
       /\ (capture # NoCapture /\ capture' = NoCapture /\ ~shifted /\ mem' # Unloaded) =>
             \A i \in DOMAIN mem : mem'[i].combo # mem[i].combo => mem[i].what = capture.what]_keyVars
=============================================================================
