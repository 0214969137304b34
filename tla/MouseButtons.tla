---------------------------- MODULE MouseButtons ----------------------------
(***************************************************************************)
(* The Buttons card of the Mouse tab.  There is no Save button: an edit is *)
(* applied to a copy of the assignments and the file compared with the one *)
(* last read; if it is the same, a new file takes its place, and otherwise *)
(* the edit is dropped and the file is read again.  No lock is held from   *)
(* the comparison to the replacement: another program may write the file   *)
(* in between, though the page itself does nothing else meanwhile.  A file *)
(* this Settings can't read or edit is never written.                      *)
(*                                                                         *)
(* The file is Missing, one that can't be used (Bad), or gives each device *)
(* its profile list, Unlisted for one it does not name.                    *)
(***************************************************************************)
EXTENDS AssignProfiles

CONSTANTS Devices,      \* the mice Settings knows
          Shown,        \* the one shown first
          Classes,      \* window classes of open windows
          Names, Titles,
          Files,        \* what the file may hold
          MaxEdits      \* edits, and other programs' writes

VARIABLES disk,         \* the file
          doc,          \* the assignments being edited
          listed,       \* devices the file named when it was read, as `added` tells them
          onDisk,       \* what the next write expects to find
          blocked, device, profile,
          buttonEdits,
          writing,      \* the edit whose file is about to replace the one on the disk
          raced         \* history: another program wrote since the file was compared

mouseVars == <<disk, doc, listed, onDisk, blocked, device, profile, buttonEdits, writing, raced>>

Unlisted == <<>>        \* an empty list of profiles; a device that is listed has some
Missing == [devs |-> [d \in Devices |-> Unlisted], kind |-> "missing"]
Bad == [Missing EXCEPT !.kind = "bad"]
Blank == <<GlobalProfile>>
Text(devs) == [devs |-> devs, kind |-> "text"]
NoWrite == [doc |-> Missing.devs, profile |-> 0]
Writing == writing # NoWrite

MouseTypeOK ==
  /\ disk.kind \in {"missing", "bad", "text"} /\ onDisk.kind \in {"missing", "text"}
  /\ listed \subseteq Devices /\ device \in Devices
  /\ blocked \in BOOLEAN /\ (raced => Writing)
  /\ (Writing => writing.profile \in DOMAIN writing.doc[device])
  /\ buttonEdits \in 0..MaxEdits
  /\ profile \in DOMAIN doc[device] /\ Globals(doc[device]) # {}

(* Mutant: a device that was only looked at is written too.                *)
RenderAll(devs, known) == Text(devs)

(* render: a device the file did not name is left out while it holds       *)
(* nothing.                                                                *)
RenderDoc(devs, known) ==
  Text([d \in Devices |-> IF d \notin known /\ devs[d] = Blank THEN Unlisted ELSE devs[d]])

(* select_device on a document: its Global profile is made in memory.      *)
Entered(devs, d) == [devs EXCEPT ![d] = WithGlobal(devs[d])]
Listed(devs) == {d \in Devices : devs[d] # Unlisted}

(* has_assignments: the device has an app profile or a button set.         *)
HasAssignments(devs, d) ==
  \E i \in DOMAIN devs[d] : ~IsGlobal(devs[d][i]) \/ devs[d][i].bound # NoBindings

FileDevs(f) == IF f.kind = "text" THEN f.devs ELSE Missing.devs

(* What read_file makes of the file, and the device and profile shown.     *)
ReadAs(f, d) ==
  /\ blocked' = (f.kind = "bad")
  /\ onDisk' = IF f.kind = "bad" THEN Missing ELSE f
  /\ listed' = Listed(FileDevs(f))
  /\ doc' = Entered(FileDevs(f), d)
  /\ device' = d

MouseInit ==
  /\ disk \in Files
  /\ blocked = (disk.kind = "bad")
  /\ onDisk = (IF blocked THEN Missing ELSE disk)
  /\ listed = Listed(FileDevs(disk))
  /\ device \in {d \in Devices : HasAssignments(FileDevs(disk), d)}
                   \cup (IF \E d \in Devices : HasAssignments(FileDevs(disk), d) THEN {} ELSE {Shown})
  /\ doc = Entered(FileDevs(disk), device)
  /\ profile = GlobalIndex(doc[device])
  /\ buttonEdits = 0 /\ writing = NoWrite /\ raced = FALSE

SelectDevice(d) ==
  /\ ~Writing /\ d # device /\ device' = d
  /\ doc' = Entered(doc, d)
  /\ profile' = GlobalIndex(doc'[d])
  /\ UNCHANGED <<disk, listed, onDisk, blocked, buttonEdits, writing, raced>>

SelectProfile(i) ==
  /\ ~Writing /\ i \in DOMAIN doc[device] /\ profile' = i
  /\ UNCHANGED <<disk, doc, listed, onDisk, blocked, device, buttonEdits, writing, raced>>

(* The profile that has the kept one's class and kind, else the Global one *)
KeptProfile(list, kept) ==
  LET same == {i \in DOMAIN list : IsGlobal(list[i]) = IsGlobal(kept) /\ list[i].class = kept.class}
  IN IF same = {} THEN GlobalIndex(list) ELSE Min(same)

(* A read gives the file, or fails like one that can't be used.            *)
FilesRead == {disk, Bad}

(* Mutant: the profile's place in the list is kept, whatever the list.     *)
ReloadByPlace ==
  /\ \E f \in FilesRead : ReadAs(f, device)
  /\ UNCHANGED profile

(* reload: refresh, the tab opened again, learning ended, a failed write.  *)
Reload ==
  /\ \E f \in FilesRead : ReadAs(f, device)
  /\ profile' = KeptProfile(doc'[device], doc[device][profile])

RefreshButtons == ~Writing /\ Reload /\ UNCHANGED <<disk, buttonEdits, writing, raced>>

OneEdit == ~Writing /\ buttonEdits < MaxEdits /\ buttonEdits' = buttonEdits + 1
WithList(list) == [doc EXCEPT ![device] = list]
Chosen(select) == IF select = 0 THEN profile ELSE select

(* The edit has its text, and the file is about to be replaced with it ... *)
BeginWrite(new, select) ==
  /\ writing' = [doc |-> new, profile |-> Chosen(select)]
  /\ UNCHANGED <<disk, doc, listed, onDisk, blocked, device, profile, raced>>

(* ... unless the file has that text already.                              *)
KeepText(new, select) ==
  /\ doc' = new /\ profile' = Chosen(select)
  /\ UNCHANGED <<disk, listed, onDisk, blocked, device, writing, raced>>

(* Mutant: a file that can't be used is written over.                      *)
ChangeDocAnyway(list, select) == list # Refused /\ OneEdit /\ BeginWrite(WithList(list), select)

(* Mutant: an edit the file refused stays on the page.                     *)
ChangeDocKept(list, select) ==
  /\ ~blocked /\ list # Refused /\ OneEdit
  /\ IF disk = onDisk THEN BeginWrite(WithList(list), select) ELSE KeepText(WithList(list), select)

(* change: one edit of the shown device's list (0 selects no profile).     *)
(* The edit is dropped when the file is not what was last read, or cannot  *)
(* be read.                                                                *)
ChangeDoc(list, select) ==
  /\ ~blocked /\ list # Refused /\ OneEdit
  /\ \/ /\ disk = onDisk
        /\ IF RenderDoc(WithList(list), listed) = disk THEN KeepText(WithList(list), select)
                                                     ELSE BeginWrite(WithList(list), select)
     \/ Reload /\ UNCHANGED <<disk, writing, raced>>

(* The backup and the new file are written, and it is renamed over the one *)
(* on the disk, whatever that holds by now; any of it may fail.            *)
ReplaceFile ==
  /\ Writing /\ writing' = NoWrite /\ raced' = FALSE
  /\ \/ /\ doc' = writing.doc /\ profile' = writing.profile
        /\ disk' = RenderDoc(writing.doc, listed) /\ onDisk' = disk'
        /\ UNCHANGED <<listed, blocked, device>>
     \/ Reload /\ UNCHANGED disk
  /\ UNCHANGED buttonEdits

List == doc[device]
Details == {List[profile].name, List[profile].class, List[profile].title}

ButtonEdits ==
  \/ \E c \in Controls, a \in Actions \cup {Unset} : ChangeDoc(SetBinding(List, profile, c, a), 0)
  \/ \E class \in Classes : ChangeDoc(AddApp(List, class), GlobalIndex(List))
  \/ ChangeDoc(Removed(List, profile), IF profile = 1 THEN 1 ELSE profile - 1)
  \/ \E name \in Names \cup {List[profile].name}, class \in {PatternOf(c) : c \in Classes} \cup {List[profile].class},
        title \in Titles \cup {"", List[profile].title} :
       LET list == ApplyDetails(List, profile, name, class, title)
       IN list # List /\ ChangeDoc(list, 0)
  \/ \E on \in BOOLEAN : ChangeDoc(SetFallthrough(List, profile, on), 0)

(* The mouse daemon's learning, an editor, another Settings.               *)
OtherWrites ==
  /\ buttonEdits < MaxEdits /\ buttonEdits' = buttonEdits + 1
  /\ disk' \in Files \ {disk} /\ raced' = Writing
  /\ UNCHANGED <<doc, listed, onDisk, blocked, device, profile, writing>>

MouseNext ==
  \/ \E d \in Devices : SelectDevice(d)
  \/ \E i \in DOMAIN List : SelectProfile(i)
  \/ RefreshButtons \/ ButtonEdits \/ ReplaceFile \/ OtherWrites

(* What the page shows is what the file held when it was last read or      *)
(* written, but for the Global profile of a device that has none, whatever *)
(* was edited, refused or only looked at; and every app profile stays in   *)
(* front of the Global one, which would hide what comes after it.          *)
ShowsWhatIsOnDisk ==
  /\ ~blocked => \A d \in Devices : doc[d] \in {onDisk.devs[d], WithGlobal(onDisk.devs[d])}
  /\ \A d \in Devices : ~blocked /\ doc[d] # <<>> =>
        \A i \in DOMAIN doc[d] : IsGlobal(doc[d][i]) => i = Len(doc[d])

(* The page writes only over a file it can edit and that holds what it     *)
(* last read, unless another program wrote it after the comparison, whose  *)
(* write is then lost.  Against what was read, the write changes the       *)
(* device that is shown; another that was looked at and is in the file may *)
(* gain the Global profile it lacked, and one that is not in the file      *)
(* stays out of it.                                                        *)
MouseWritesAreSafe ==
  [][disk' # disk /\ buttonEdits' = buttonEdits =>
       /\ raced \/ disk = onDisk
       /\ \A d \in Devices \ {device} :
            \/ disk'.devs[d] = onDisk.devs[d]
            \/ onDisk.devs[d] # Unlisted /\ disk'.devs[d] = WithGlobal(onDisk.devs[d])]_mouseVars
=============================================================================
