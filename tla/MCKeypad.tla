------------------------------ MODULE MCKeypad ------------------------------
(* The Keypad, Mouse and Keybindings tabs, one part at a time: a behaviour is   *)
(* one of a part, and the variables of the others keep a value. The wizard runs with the page  *)
(* whose config it borrows the input mode of: with its hardware and nothing     *)
(* else going on ("wizard"), or with everything else and no hardware ("page").  *)
EXTENDS KeypadWizard, KeypadPreview, KeypadLayers, MouseButtons, KeyBindings

VARIABLE part

vars == <<part, pageVars, wizardVars, previewVars, layerVars, mouseVars, keyVars>>

MCCovers(pattern, class) == pattern = "^app" /\ class \in Classes
MCPatternOf(class) == "^" \o class \o "$"
MCNameOf(class) == "app"
App(name, class, action) == [GlobalProfile EXCEPT !.name = name, !.class = class, !.bound = [c \in Controls |-> action]]
MCFiles ==
    {Missing, Bad,
     Text([d \in Devices |-> IF d = Shown THEN Blank ELSE Unlisted]),
     Text([d \in Devices |-> IF d = Shown THEN <<App("x", "^app", "act"), GlobalProfile>> ELSE Unlisted]),
     Text([d \in Devices |-> IF d = Shown THEN Blank
                             ELSE <<[App("x", "^app1$", "unset") EXCEPT !.title = "t"], App("y", "^app1$", "unset")>>])}

Bind(id, bound) == [t \in Turns |-> IF t \in bound THEN t \o id ELSE No]
SomeTurns == {{}, {"cw"}, Turns}
MCLayers(turns, shift) ==
    {Layer(h, c, Bind(turns, a), Bind(shift, b)) :
        h \in {No, Hold, "other"}, c \in Contexts \cup {Anywhere}, a \in {{}, {"cw"}}, b \in SomeTurns}
LayersInit ==
    /\ own \in {Own(Bind("1", a), Bind("2", b)) : a \in {{}, {"cw"}}, b \in SomeTurns}
    /\ layers \in {<<>>} \cup {<<l>> : l \in MCLayers("3", "4")}
                    \cup {<<l, k>> : l \in MCLayers("3", "4"), k \in MCLayers("5", "6")}
    /\ layerEdits = 0 /\ converted = 0

PageOff == /\ file = [input |-> Keymap, keys |-> 0] /\ config = file /\ loadedText = file
           /\ dirty = FALSE /\ pending = None /\ armed = FALSE /\ senders = {} /\ saver = NoSave(file)
           /\ daemonUp = TRUE /\ seenUp = TRUE /\ restore = None /\ acts = 0 /\ want = Keymap /\ excused = {}
LayersOff == own = Own(NoTurns, NoTurns) /\ layers = <<>> /\ layerEdits = 0 /\ converted = 0
PreviewOff == /\ draft = (CHOOSE d \in Drafts : TRUE) /\ jobs = {} /\ drafts = 0
              /\ asking = [q \in Questions |-> [key |-> Nothing, generation |-> 0, shown |-> Nothing]]
MouseOff == /\ disk = Missing /\ blocked = FALSE /\ onDisk = Missing /\ listed = {} /\ device = Shown
            /\ doc = Entered(Missing.devs, Shown) /\ profile = 1 /\ buttonEdits = 0 /\ writing = NoWrite /\ raced = FALSE
KeysOff ==
    /\ conf = <<>> /\ webApps = [s \in Slugs |-> "none"] /\ submap = "reset" /\ mem = Unloaded /\ original = Unloaded
    /\ capture = NoCapture /\ appsShown = {} /\ form = NoForm /\ keyActs = 0 /\ unseen = {} /\ givenUp = {}
    /\ warned = {} /\ current = {} /\ shifted = FALSE /\ leftOver = FALSE
Unquoted(slug, how) == [Bound(slug, "f1", "c2") EXCEPT !.written = how]
MCBegins == {<<"s1", "s2">>}
MCConfs == {<<>>, <<Bound("cmd", "f1", "c1"), Bound("s1", "f1", "c2")>>,
            <<Unquoted("s2", "bare")>>, <<Unquoted("s1", "flagged")>>}

Init ==
    \/ /\ part \in {"page", "wizard"} /\ PageInit /\ WizardInit
       /\ acts = (IF part = "page" THEN MaxActs ELSE 0)
       /\ PreviewOff /\ LayersOff /\ MouseOff /\ KeysOff
    \/ /\ part \in {"preview", "layers", "mouse", "bindings"}
       /\ PageOff /\ WizardInit
       /\ IF part = "preview" THEN PreviewInit ELSE PreviewOff
       /\ IF part = "layers" THEN LayersInit ELSE LayersOff
       /\ IF part = "mouse" THEN MouseInit ELSE MouseOff
       /\ IF part = "bindings" THEN KeysInit /\ webApps = [s \in Slugs |-> IF s \in {"s1"} \cup WhatsOf(conf) THEN "f1" ELSE "none"] ELSE KeysOff

NoHardware == OpenWizard \/ ImagesArrive \/ Acknowledge \/ SelectImage \/ WizardForward \/ Back \/ Close

Next ==
    /\ UNCHANGED part
    /\ \/ /\ \/ part = "page" /\ (NoHardware \/ (PageNext /\ UNCHANGED wizardVars))
             \/ part = "wizard" /\ (WizardNext \/ (PageNext /\ UNCHANGED wizardVars))
          /\ UNCHANGED <<previewVars, layerVars, mouseVars, keyVars>>
       \/ /\ part = "preview" /\ PreviewNext
          /\ UNCHANGED <<pageVars, wizardVars, layerVars, mouseVars, keyVars>>
       \/ /\ part = "layers" /\ LayersNext
          /\ UNCHANGED <<pageVars, wizardVars, previewVars, mouseVars, keyVars>>
       \/ /\ part = "mouse" /\ MouseNext
          /\ UNCHANGED <<pageVars, wizardVars, previewVars, layerVars, keyVars>>
       \/ /\ part = "bindings" /\ KeysNext
          /\ UNCHANGED <<pageVars, wizardVars, previewVars, layerVars, mouseVars>>

Spec == Init /\ [][Next]_vars

TypeOK ==
    /\ PageTypeOK /\ WizardTypeOK /\ PreviewTypeOK
    /\ LayersTypeOK /\ MouseTypeOK /\ KeysTypeOK

(* Nothing the pages show as done is otherwise: see each property.              *)
PagesTellTheTruth ==
    /\ part \in {"page", "wizard"} => NothingLostUnsaid /\ FlashIsSupervised
    /\ part = "preview" => PreviewIsOfTheLastDraft
    /\ part = "mouse" => ShowsWhatIsOnDisk
    /\ part = "bindings" => BindingsAreSound /\ BindingsComeBack

(* A write of a page changes what its user changed, and nothing besides; a       *)
(* conversion changes how a profile is written and not what it means.           *)
WritesAreSafe == MouseWritesAreSafe /\ BindingsGoAsAsked /\ ConversionKeepsMeaning
=============================================================================
