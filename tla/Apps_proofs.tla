---------------------------- MODULE Apps_proofs ----------------------------
(***************************************************************************)
(* Proofs about the windows of MCApps.  The components share no state, so  *)
(* each has an invariant and a theorem of its own, and the theorem at the  *)
(* end puts them together.                                                 *)
(***************************************************************************)
EXTENDS MCApps, FiniteSetTheorems, SequenceTheorems, TLAPS

(* The launcher. No stamp is of a version that is yet to be made, so a write *)
(* of our own differs from what was stamped; while sources are read again,   *)
(* the views are those of the sources that did not change.                   *)
StampsArePast ==
  /\ newest \in Nat /\ now \in Nat /\ now <= newest
  /\ disk \in [Sources -> Nat] /\ content \in [Sources -> Nat] /\ stamp \in [Sources -> Nat]
  /\ \A s \in Sources : stamp[s] <= newest /\ disk[s] <= newest

RefreshIsHidden ==
  /\ reading # "no" => doing \in Sources
  /\ doing \in Sources \cup {"views"} => ~visible
  /\ doing \notin Sources \cup {"views"} => changed = {}
  /\ ~visible => ~browsing
  /\ ~browsing => list = Empty

ViewsAreOfTheUnchanged ==
  /\ "index" \notin changed => cats = content["index"] /\ (primed => paths = content["index"])
  /\ changed \cap {"index", "pins"} = {} => pinned = Current
  /\ list \in {Empty, Current}

LauncherInv ==
  /\ StampsArePast /\ RefreshIsHidden /\ ViewsAreOfTheUnchanged /\ StampIsNotAhead
  /\ alive \in Nat /\ zombies \in Nat /\ ZombiesAreReaped

(* What does not touch the children, or only reaps, keeps the rest of them.  *)
LEMMA LauncherStarts == LauncherInit => LauncherInv
  BY DEF LauncherInit, LauncherInv, StampsArePast, RefreshIsHidden, ViewsAreOfTheUnchanged, StampIsNotAhead,
         ZombiesAreReaped, Sources, Current, Empty

(* What other programs write is newer than every stamp.                      *)
LEMMA WritesKeepLauncher ==
  ASSUME LauncherInv, NEW s \in Sources, Rewrite(s) \/ RemoveDesktopFile(s)
  PROVE  LauncherInv'
<1>1. UNCHANGED <<doing, reading, now, changed, loaded, views, window, children>>
  BY DEF Rewrite, RemoveDesktopFile
<1>2. newest' \in Nat /\ newest' >= newest /\ disk' \in [Sources -> Nat]
  BY DEF Rewrite, RemoveDesktopFile, LauncherInv, StampsArePast
<1>3. \A t \in Sources : disk'[t] \in {disk[t], 0} \/ (disk'[t] = newest' /\ newest' = newest + 1)
  BY DEF Rewrite, RemoveDesktopFile, LauncherInv, StampsArePast
<1>4. StampsArePast' /\ StampIsNotAhead'
  BY <1>1, <1>2, <1>3 DEF LauncherInv, StampsArePast, StampIsNotAhead, loaded
<1> QED
  BY <1>1, <1>4 DEF LauncherInv, RefreshIsHidden, ViewsAreOfTheUnchanged, ZombiesAreReaped, Current, Empty,
     loaded, views, window, children

(* The looks and reads of a refresh.                                         *)
LEMMA ReadsKeepLauncher ==
  ASSUME LauncherInv, NEW s \in Sources, StartShow \/ Look(s) \/ StampIndex \/ Read(s)
  PROVE  LauncherInv'
<1> USE DEF LauncherInv, StampsArePast, RefreshIsHidden, ViewsAreOfTheUnchanged, StampIsNotAhead,
            ZombiesAreReaped, Current, Empty, files, loaded, views, window, children, Sources, Order
<1>1. CASE StartShow
  BY <1>1 DEF StartShow, Reap
<1>2. CASE Look(s)
  BY <1>2 DEF Look, ShouldReload
<1>3. CASE StampIndex
  BY <1>3 DEF StampIndex
<1>4. CASE Read(s)
  <2>1. CASE UNCHANGED loaded /\ UNCHANGED changed
    BY <1>4, <2>1 DEF Read
  <2>2. CASE ~(UNCHANGED loaded /\ UNCHANGED changed)
    <3>1. PICK version \in {0, disk[s]} :
            /\ content' = [content EXCEPT ![s] = version] /\ stamp' = [stamp EXCEPT ![s] = now]
            /\ changed' = changed \cup {s} /\ (s \notin failed' => version = disk[s]) /\ failed \ {s} \subseteq failed'
      BY <1>4, <2>2 DEF Read, LoadSource
    <3>2. reading' = "no" /\ doing' = Order[s] /\ now' = 0 /\ doing = s /\ UNCHANGED <<files, views, window, children>>
      BY <1>4 DEF Read
    <3>3. content' \in [Sources -> Nat] /\ content'[s] = version /\ stamp' \in [Sources -> Nat] /\ stamp'[s] = now
      BY <3>1
    <3>4. StampsArePast' /\ StampIsNotAhead'
      BY <3>1, <3>2, <3>3
    <3>5. RefreshIsHidden' /\ ViewsAreOfTheUnchanged'
      BY <3>1, <3>2, <3>3
    <3> QED
      BY <3>2, <3>4, <3>5
  <2> QED
    BY <2>1, <2>2
<1> QED
  BY <1>1, <1>2, <1>3, <1>4

(* The end of a refresh.                                                     *)
LEMMA ViewsKeepLauncher ==
  ASSUME LauncherInv, RefreshViews
  PROVE  LauncherInv'
  BY DEF LauncherInv, StampsArePast, RefreshIsHidden, ViewsAreOfTheUnchanged, StampIsNotAhead,
         ZombiesAreReaped, Current, Empty, files, loaded, views, window, children, Sources, RefreshViews

(* The window's callbacks.                                                   *)
LEMMA CallbacksKeepLauncher ==
  ASSUME LauncherInv, NEW choice \in BOOLEAN,
         FilterChanged(choice) \/ TogglePin \/ Spawn(choice) \/ AdoptAndHide \/ Hide
  PROVE  LauncherInv'
<1> USE DEF LauncherInv, StampsArePast, RefreshIsHidden, ViewsAreOfTheUnchanged, StampIsNotAhead,
            ZombiesAreReaped, Current, Empty, files, loaded, views, window, children, Sources
<1>1. CASE FilterChanged(choice)
  BY <1>1 DEF FilterChanged, Prime
<1>2. CASE TogglePin
  BY <1>2 DEF TogglePin, SaveOwn, Prime
<1>3. CASE Spawn(choice)
  BY <1>3 DEF Spawn, SaveOwn
<1>4. CASE AdoptAndHide
  BY <1>4 DEF AdoptAndHide, ResetView
<1>5. CASE Hide
  BY <1>5 DEF Hide, ResetView, Reap
<1> QED
  BY <1>1, <1>2, <1>3, <1>4, <1>5

(* A child's end sets the signal pending; taking that queues a reap.         *)
LEMMA ChildrenKeepLauncher ==
  ASSUME LauncherInv, ChildExits \/ TakeChld \/ ReapJob \/ UNCHANGED launcherVars
  PROVE  LauncherInv'
<1> USE DEF LauncherInv, StampsArePast, RefreshIsHidden, ViewsAreOfTheUnchanged, StampIsNotAhead,
            ZombiesAreReaped, Current, Empty, files, loaded, views, window, children
<1>1. CASE ChildExits
  BY <1>1 DEF ChildExits
<1>2. CASE TakeChld
  BY <1>2 DEF TakeChld
<1>3. CASE ReapJob
  BY <1>3 DEF ReapJob, Reap
<1>4. CASE UNCHANGED launcherVars
  BY <1>4 DEF launcherVars
<1> QED
  BY <1>1, <1>2, <1>3, <1>4

(* Whatever programs write while the launcher reads, and however signals     *)
(* coalesce: a source that will not be read again, and of which our own last *)
(* write or read did not fail, is in memory as it is on disk; the views are  *)
(* of what is in memory, and no child stays a zombie.                        *)
THEOREM LauncherIsCurrent == LauncherSpec => [](StampIsNotAhead /\ ViewsAreCurrent /\ ZombiesAreReaped)
<1>1. LauncherInv => StampIsNotAhead /\ ViewsAreCurrent /\ ZombiesAreReaped
  BY DEF LauncherInv, RefreshIsHidden, ViewsAreOfTheUnchanged, ViewsAreCurrent, Sources
<1>2. LauncherInv /\ [LauncherNext]_launcherVars => LauncherInv'
  BY WritesKeepLauncher, ReadsKeepLauncher, ViewsKeepLauncher, CallbacksKeepLauncher, ChildrenKeepLauncher
     DEF LauncherNext, Sources
<1> QED
  BY <1>1, <1>2, LauncherStarts, PTL DEF LauncherSpec

-----------------------------------------------------------------------------
(* The app centre. While a row's process runs, and neither the rows nor the  *)
(* system moved under it, the row is that of the application it is about.    *)
RunsForItsRow ==
  /\ active.kind \in {"install", "uninstall"} =>
       /\ active.row # 0
       /\ (tab = "search" /\ ~moved) => active.row \in DOMAIN results /\ active.apps = {results[active.row].id}
  /\ active.kind = "remove" => \E id \in Apps : active.apps = {id}
  /\ active.kind \in {"remove", "update"} => active.row = 0 /\ (tab = "search" => moved)

(* Rows are numbered from 1: row 0 is none.                                  *)
RowsAreRows ==
  /\ results = [i \in DOMAIN results |-> [id |-> results[i].id, installed |-> results[i].installed]]
  /\ 0 \notin DOMAIN results

AppInv ==
  /\ active = [kind |-> active.kind, row |-> active.row, apps |-> active.apps]
  /\ active.kind \in {"none", "install", "uninstall", "remove", "update"}
  /\ active.kind = "none" => active = NoProcess
  /\ RunsForItsRow /\ RowsAreRows /\ RowsTellTheTruth
  /\ listed \subseteq master
  /\ ~outdated => master \subseteq world

(* A window that has just started.                                           *)
LEMMA AppStarts == AppInit => AppInv
  BY DEF AppInit, AppInv, RunsForItsRow, RowsAreRows, RowsTellTheTruth, NoProcess

(* New rows are as the system is now.                                        *)
LEMMA NewRows ==
  ASSUME NEW rows \in Searches, NewResults(rows), UNCHANGED world
  PROVE  RowsAreRows' /\ (\A i \in DOMAIN results' : results'[i].installed = (results'[i].id \in world'))
<1>1. rows \in Seq(Apps)
  BY AppCenterAssumption
<1>2. 0 \notin DOMAIN rows
  BY <1>1
<1> QED
  BY <1>2 DEF NewResults, RowsAreRows, AppRow

(* A search, or a change of the tab.                                         *)
LEMMA SearchesKeepApps ==
  ASSUME AppInv, NEW rows \in Searches, Search(rows) \/ SwitchTab(rows)
  PROVE  AppInv'
<1>1. CASE NewResults(rows) /\ UNCHANGED <<world, active, listed, master, outdated>> /\ tab' = "search"
  <2>1. moved' = Installing
    BY <1>1 DEF NewResults
  <2>2. active.kind # "none" => Installing
    BY DEF Installing, NoProcess
  <2> QED
    BY <1>1, <2>1, <2>2, NewRows DEF AppInv, RunsForItsRow, RowsTellTheTruth, NoProcess
<1>2. CASE tab' = "installed" /\ UNCHANGED <<world, active, listed, master, outdated, results, moved, aside>>
  BY <1>2 DEF AppInv, RunsForItsRow, RowsAreRows, RowsTellTheTruth, NoProcess
<1> QED
  BY <1>1, <1>2 DEF Search, SwitchTab, listVars, processVars

(* What changes the installed list: queries, the filter, the selection.      *)
LEMMA ListKeepsApps ==
  ASSUME AppInv, 
         \/ CheckForUpdates \/ UnselectAll \/ UNCHANGED appVars
         \/ \E q \in queries : QueryAnswers(q)
         \/ \E words, allowed \in Filters : FilterInstalled(words, allowed)
         \/ \E id \in Apps : ToggleSelect(id)
  PROVE  AppInv'
<1> USE DEF CheckForUpdates, UnselectAll, QueryAnswers, FilterInstalled, ToggleSelect, SelectItems, Answer, ShowOf,
            appVars, listVars, processVars
<1>1. UNCHANGED <<world, active, results, moved, tab, aside>>
  OBVIOUS
<1>2. listed' \subseteq master' /\ (~outdated' => master' \subseteq world')
  BY DEF AppInv
<1> QED
  BY <1>1, <1>2 DEF AppInv, RunsForItsRow, RowsAreRows, RowsTellTheTruth, ListedOnce, NoProcess

(* A package process begins, on the row or for the application it is about.  *)
LEMMA BeginsKeepApps ==
  ASSUME AppInv,
         \/ UpdateSelected
         \/ \E id \in Apps : UninstallInstalled(id)
         \/ \E i \in 1..Len(results) : InstallApp(i) \/ UninstallApp(i)
  PROVE  AppInv'
<1> USE DEF AppInv, RunsForItsRow, RowsAreRows, RowsTellTheTruth, ListedOnce, NoProcess, Installing, listVars
<1>1. CASE UpdateSelected
  BY <1>1 DEF UpdateSelected, Begin
<1>2. ASSUME NEW id \in Apps, UninstallInstalled(id) PROVE AppInv'
  BY <1>2 DEF UninstallInstalled, Begin
<1>3. ASSUME NEW i \in 1..Len(results), InstallApp(i) PROVE AppInv'
  BY <1>3 DEF InstallApp, Begin
<1>4. ASSUME NEW i \in 1..Len(results), UninstallApp(i) PROVE AppInv'
  BY <1>4 DEF UninstallApp, Begin
<1> QED
  BY <1>1, <1>2, <1>3, <1>4

(* An install's or uninstall's row, and those of applications that did not   *)
(* change aside, say afterwards what is installed.                           *)
LEMMA RowsFollow ==
  ASSUME AppInv, ProcessSucceeds
  PROVE  RowsTellTheTruth'
<1> SUFFICES ASSUME tab' = "search", ~moved', NEW i \in DOMAIN results', results'[i].id \notin aside', ListedOnce(i)'
             PROVE  results'[i].installed = (results'[i].id \in world')
  BY DEF RowsTellTheTruth
<1>1. PICK others \in SUBSET Apps, left \in SUBSET Apps :
        WorldAfter(active, others, left) /\ aside' = aside \cup others \cup left
  BY DEF ProcessSucceeds
<1>2. tab = "search" /\ ~moved /\ active # NoProcess
  BY DEF ProcessSucceeds, Installing
<1>3. active.kind \in {"install", "uninstall"} /\ active.row \in DOMAIN results /\ active.apps = {results[active.row].id}
  BY <1>2 DEF AppInv, RunsForItsRow
<1>4. /\ DOMAIN results' = DOMAIN results /\ \A k \in DOMAIN results : results'[k].id = results[k].id
      /\ results'[active.row].installed = (active.kind = "install")
      /\ \A k \in DOMAIN results : k # active.row => results'[k].installed = results[k].installed
  BY <1>3 DEF ProcessSucceeds, MarkRow, AppInv, RowsAreRows
<1>5. ListedOnce(i) /\ results[i].id \notin aside \cup others \cup left
  BY <1>1, <1>4 DEF ListedOnce
<1>6. results[i].installed = (results[i].id \in world)
  BY <1>2, <1>4, <1>5 DEF AppInv, RowsTellTheTruth
<1>7. CASE i = active.row
  BY <1>1, <1>3, <1>4, <1>5, <1>7 DEF WorldAfter, Removes
<1>8. CASE i # active.row
  <2>1. results[i].id \notin active.apps
    BY <1>3, <1>4, <1>5, <1>8 DEF ListedOnce
  <2>2. (results[i].id \in world') = (results[i].id \in world)
    BY <2>1, <1>1, <1>5 DEF WorldAfter
  <2> QED
    BY <2>2, <1>4, <1>6, <1>8
<1> QED
  BY <1>7, <1>8

(* What a process did is what its row or the list says.                      *)
LEMMA EndsKeepApps ==
  ASSUME AppInv, ProcessFails \/ ProcessSucceeds \/ CancelInstall \/ (\E p \in strays : StrayEnds(p))
  PROVE  AppInv'
<1> USE DEF NoProcess, Installing, listVars
<1>1. CASE ProcessFails \/ CancelInstall
  BY <1>1 DEF ProcessFails, CancelInstall, AppInv, RunsForItsRow, RowsAreRows, RowsTellTheTruth, ListedOnce
<1>2. CASE \E p \in strays : StrayEnds(p)
  BY <1>2 DEF StrayEnds, AppInv, RunsForItsRow, RowsAreRows, RowsTellTheTruth, ListedOnce
<1>3. CASE ProcessSucceeds
  <2>1. listed' \subseteq master' /\ (~outdated' => master' \subseteq world')
    <3>1. CASE active.kind = "remove"
      BY <1>3, <3>1 DEF ProcessSucceeds, RemoveInstalled, ShowOf, AppInv, RunsForItsRow
    <3>2. CASE active.kind = "update"
      BY <1>3, <3>2 DEF ProcessSucceeds, Answer
    <3>3. CASE active.kind \in {"install", "uninstall"}
      BY <1>3, <3>3 DEF ProcessSucceeds, AppInv
    <3> QED
      BY <1>3, <3>1, <3>2, <3>3 DEF ProcessSucceeds
  <2>2. RowsAreRows'
    BY <1>3 DEF ProcessSucceeds, MarkRow, AppInv, RowsAreRows
  <2>3. active' = NoProcess
    BY <1>3 DEF ProcessSucceeds
  <2> QED
    BY <1>3, <2>1, <2>2, <2>3, RowsFollow DEF AppInv, RunsForItsRow
<1> QED
  BY <1>1, <1>2, <1>3

(* However searches, queries, filters and package processes overlap, and     *)
(* whatever these change besides or leave undone: the row of an application  *)
(* that is listed once and was not changed with another says whether it is   *)
(* installed, unless the rows were replaced under a process, or one failed   *)
(* or was cancelled; and the list holds nothing that was removed from it.    *)
THEOREM AppCentreIsTrue == AppInit /\ [][AppNext]_appVars => [](RowsTellTheTruth /\ ListHoldsNoRemoved)
<1>1. AppInv => RowsTellTheTruth /\ ListHoldsNoRemoved
  BY DEF AppInv, ListHoldsNoRemoved
<1>2. AppInv /\ [AppNext]_appVars => AppInv'
  BY SearchesKeepApps, ListKeepsApps, BeginsKeepApps, EndsKeepApps DEF AppNext
<1> QED
  BY <1>1, <1>2, AppStarts, PTL

(* The update of the system. A restart is offered of the file that was       *)
(* there when the last update launched was found verified.                   *)
UpdateInv ==
  /\ launched \in Nat /\ pending \in {0, launched}
  /\ target # 0 => target \in verified

(* What a restart would run is among the files that were verified.           *)
LEMMA UpdateKeeps ==
  /\ UpdateInit => UpdateInv
  /\ UpdateInv /\ [UpdateNext]_osVars => UpdateInv'
<1>1. UpdateInit => UpdateInv
  BY DEF UpdateInit, UpdateInv
<1>2. ASSUME UpdateInv, [UpdateNext]_osVars PROVE UpdateInv'
  <2>1. CASE UpdateOs
    BY <1>2, <2>1 DEF UpdateOs, UpdateInv
  <2>2. CASE PollReceipt
    BY <1>2, <2>2 DEF PollReceipt, UpdateInv
  <2>3. CASE ~UpdateOs /\ ~PollReceipt
    BY <1>2, <2>3 DEF UpdateNext, PackageProcess, ReplaceProgram, RestartAppCenter, LauncherEnds, UpdaterWrites,
                      UpdateInv, osVars
  <2> QED
    BY <2>1, <2>2, <2>3
<1> QED
  BY <1>1, <1>2

(* However often the program is replaced and updates are launched, fail or   *)
(* answer late: the window is only replaced by the file that was installed   *)
(* when its last update was found verified, while no package process runs.   *)
THEOREM RestartsAreVerified == UpdateInit /\ [][UpdateNext]_osVars => RestartsTheVerified
<1>1. UpdateInv /\ [UpdateNext]_osVars
        => [/\ restarted' # restarted => (restarted' \in verified /\ ~busy)
            /\ status' # status => status' \in {0, launched'}]_osVars
  BY DEF UpdateNext, PackageProcess, UpdateOs, ReplaceProgram, PollReceipt, RestartAppCenter, LauncherEnds, Awaited,
         UpdaterWrites, UpdateInv, SameFile
<1> QED
  BY <1>1, UpdateKeeps, PTL DEF RestartsTheVerified

-----------------------------------------------------------------------------
(* The radios. A read that will still be shown, and what the switching       *)
(* action has read back, is of a state the radio has been in since.          *)
RadioTypes ==
  /\ epoch \in Nat \ {0}
  /\ real \in [Radio -> Known \cup {"missing"}] /\ since \in [Radio -> SUBSET (Known \cup {"missing"})]
  /\ shown \in [Radio -> Answers \cup {"unread"}]
  /\ reads \in [Radio -> [epoch : Nat, saw : Answers \cup {"nothing"}]]

ReadsAreCurrent ==
  \A r \in Radio :
    /\ reads[r].epoch <= epoch
    /\ switch = NoSwitch /\ reads[r].epoch = epoch /\ reads[r].saw \in Known => reads[r].saw \in since[r]

Fields == {"kind", "stage", "seen", "missing", "left", "failed"}
ReadBack ==
  switch # NoSwitch =>
    /\ switch = [f \in Fields |-> switch[f]]
    /\ switch.kind # "none" /\ switch.seen \in Seq(Answers)
    /\ switch.stage = "switch" => switch.seen = <<>>
    /\ switch.stage = "after" =>
         \A i \in 1..Len(switch.seen) : i \in 1..2 /\ (switch.seen[i] \in Known => switch.seen[i] \in since[Radios[i]])

ConnInv ==
  /\ RadioTypes /\ (\A r \in Radio : real[r] \in since[r])
  /\ ReadsAreCurrent /\ ReadBack /\ ShowsNoOldReading

(* The radios, in the order in which they are switched.                      *)
LEMMA TwoRadios == Radio = {"wifi", "bluetooth"} /\ Radios[1] = "wifi" /\ Radios[2] = "bluetooth"
  BY DEF Radio, Radios

(* The page has just been opened.                                            *)
LEMMA ConnStarts == ConnInit => ConnInv
  BY TwoRadios DEF ConnInit, ConnInv, RadioTypes, ReadsAreCurrent, ReadBack, ShowsNoOldReading, NoSwitch, Known

(* What was read stays true as long as the radio may have been in more       *)
(* states.                                                                   *)
LEMMA SinceGrows ==
  ASSUME ConnInv, RadioTypes', \A r \in Radio : since[r] \subseteq since'[r] /\ real'[r] \in since'[r],
         UNCHANGED <<shown, reads, epoch, switch>>
  PROVE  ConnInv'
<1>1. ReadsAreCurrent' /\ ShowsNoOldReading'
  BY DEF ConnInv, ReadsAreCurrent, ShowsNoOldReading
<1>2. ReadBack'
  BY TwoRadios DEF ConnInv, ReadBack
<1> QED
  BY <1>1, <1>2 DEF ConnInv

(* Somebody else switches a radio, or a tool of the system does.             *)
LEMMA OutsideKeepsConn ==
  ASSUME ConnInv, NEW r \in Radio, NEW state \in Known \cup {"missing"}, SwitchedElsewhere(r, state)
  PROVE  ConnInv'
<1>1. /\ UNCHANGED <<shown, reads, epoch, switch>>
      /\ real' = [real EXCEPT ![r] = state] /\ since' = [since EXCEPT ![r] = @ \cup {state}]
  BY DEF SwitchedElsewhere, Becomes
<1>2. RadioTypes' /\ (\A q \in Radio : since[q] \subseteq since'[q] /\ real'[q] \in since'[q])
  BY <1>1 DEF ConnInv, RadioTypes
<1> QED
  BY <1>1, <1>2, SinceGrows

(* A read begins, looks, or answers; what a switch made stale is dropped.    *)
LEMMA ReadsKeepConn ==
  ASSUME ConnInv,
         \/ \E all \in BOOLEAN : BeginReads(all)
         \/ \E r \in Radio, answer \in Answers : ReadRadio(r, answer)
         \/ \E r \in Radio : FinishRead(r)
  PROVE  ConnInv'
<1>1. UNCHANGED <<real, epoch, switch, since>>
  BY DEF BeginReads, ReadRadio, FinishRead
<1>2. ReadBack' /\ \A r \in Radio : real'[r] \in since'[r]
  BY <1>1 DEF ConnInv, ReadBack
<1>3. ASSUME NEW all \in BOOLEAN, BeginReads(all) PROVE RadioTypes' /\ ReadsAreCurrent' /\ ShowsNoOldReading'
  BY <1>1, <1>3 DEF BeginReads, Known, ConnInv, RadioTypes, ReadsAreCurrent, ShowsNoOldReading
<1>4. ASSUME NEW r \in Radio, NEW answer \in Answers, ReadRadio(r, answer)
      PROVE  RadioTypes' /\ ReadsAreCurrent' /\ ShowsNoOldReading'
  <2>1. /\ reads' = [reads EXCEPT ![r].saw = answer] /\ shown' = shown
        /\ answer \in Known => answer = real[r]
    BY <1>4 DEF ReadRadio, Sees, Known
  <2> QED
    BY <1>1, <2>1 DEF ConnInv, RadioTypes, ReadsAreCurrent, ShowsNoOldReading
<1>5. ASSUME NEW r \in Radio, FinishRead(r) PROVE RadioTypes' /\ ReadsAreCurrent' /\ ShowsNoOldReading'
  <2>1. reads' = [reads EXCEPT ![r] = NotReading] /\ reads[r].saw \in Answers
    BY <1>5 DEF FinishRead, ConnInv, RadioTypes
  <2>2. RadioTypes' /\ ReadsAreCurrent'
    BY <1>1, <1>5, <2>1 DEF FinishRead, Show, WithReading, NotReading, ConnInv, RadioTypes, ReadsAreCurrent, Known
  <2>3. ShowsNoOldReading'
    BY <1>1, <1>5, <2>1 DEF FinishRead, Show, WithReading, IsCurrent, ConnInv, RadioTypes, ReadsAreCurrent, ShowsNoOldReading
  <2> QED
    BY <2>2, <2>3
<1> QED
  BY <1>1, <1>2, <1>3, <1>4, <1>5 DEF ConnInv

(* A switching action up to its snapshot of what has come of it.             *)
LEMMA SwitchesKeepConn ==
  ASSUME ConnInv,
         \/ SetAirplane \/ (\E r \in Radio : SetRadio(r))
         \/ PlanEnable \/ PlanDisable \/ SwitchNext \/ Switched
  PROVE  ConnInv'
<1>1. ASSUME NEW kind \in {"enable", "disable", "on", "off"}, NEW radios, BeginAction(kind, radios) PROVE ConnInv'
  <2>1. UNCHANGED <<real, shown, reads, since>> /\ epoch' = epoch + 1
    BY <1>1 DEF BeginAction
  <2>2. /\ switch' = [f \in Fields |-> switch'[f]] /\ switch'.kind = kind /\ switch'.seen = <<>>
        /\ switch'.stage # "after"
    BY <1>1 DEF BeginAction, Fields
  <2>3. switch' # NoSwitch
    BY <2>2 DEF NoSwitch
  <2> QED
    BY <2>1, <2>2, <2>3 DEF ConnInv, RadioTypes, ReadsAreCurrent, ReadBack, ShowsNoOldReading
<1>2. CASE SetAirplane \/ (\E r \in Radio : SetRadio(r))
  BY <1>1, <1>2 DEF SetAirplane, SetRadio
<1>3. ASSUME switch.kind # "none", switch' = [f \in Fields |-> switch'[f]], switch'.kind = switch.kind,
             switch'.seen = <<>>, UNCHANGED <<shown, reads, epoch>>, RadioTypes',
             \A r \in Radio : real'[r] \in since'[r]
      PROVE  ConnInv'
  <2>1. switch' # NoSwitch
    BY <1>3 DEF NoSwitch
  <2> QED
    BY <1>3, <2>1 DEF ConnInv, RadioTypes, ReadsAreCurrent, ReadBack, ShowsNoOldReading
<1>4. ASSUME switch.kind # "none" PROVE switch = [f \in Fields |-> switch[f]]
  BY <1>4 DEF ConnInv, ReadBack, NoSwitch
<1>5. CASE PlanEnable \/ PlanDisable
  <2>1. /\ switch.kind # "none" /\ UNCHANGED <<real, since, shown, reads, epoch>>
        /\ switch' = [switch EXCEPT !.stage = "switch", !.left = switch'.left, !.seen = <<>>, !.missing = switch'.missing]
    BY <1>4, <1>5 DEF PlanEnable, PlanDisable, Fields
  <2> QED
    BY <1>3, <1>4, <2>1 DEF Fields, ConnInv, RadioTypes
<1>6. CASE SwitchNext
  <2>1. /\ switch.kind # "none" /\ switch.stage = "switch" /\ UNCHANGED <<shown, reads, epoch>>
        /\ switch' = [switch EXCEPT !.left = switch'.left, !.failed = switch'.failed]
    BY <1>4, <1>6 DEF SwitchNext, Switching, Fields
  <2>2. /\ switch' = [f \in Fields |-> switch'[f]] /\ switch'.kind = switch.kind /\ switch'.seen = switch.seen
        /\ switch.seen = <<>>
    BY <1>4, <2>1 DEF Fields, ConnInv, ReadBack, NoSwitch
  <2>3. \/ UNCHANGED <<real, since>>
        \/ real' = [real EXCEPT ![Head(switch.left)] = Goal]
           /\ since' = [since EXCEPT ![Head(switch.left)] = @ \cup {Goal}]
    BY <1>6 DEF SwitchNext, Becomes
  <2>4. RadioTypes' /\ \A r \in Radio : real'[r] \in since'[r]
    BY <2>1, <2>3 DEF ConnInv, RadioTypes, Goal, Known
  <2> QED
    BY <1>3, <2>1, <2>2, <2>4
<1>7. CASE Switched
  <2>1. /\ switch.kind # "none" /\ switch.stage = "switch" /\ UNCHANGED <<real, since, shown, reads, epoch>>
        /\ switch' = [switch EXCEPT !.stage = "after"]
    BY <1>7 DEF Switched
  <2>2. /\ switch' = [f \in Fields |-> switch'[f]] /\ switch'.kind = switch.kind /\ switch'.seen = switch.seen
        /\ switch.seen = <<>>
    BY <1>4, <2>1 DEF Fields, ConnInv, ReadBack, NoSwitch
  <2> QED
    BY <1>3, <2>1, <2>2 DEF ConnInv, RadioTypes
<1> QED
  BY <1>2, <1>5, <1>6, <1>7

(* A snapshot of airplane mode looks at the next radio.                      *)
LEMMA SnapKeepsConn ==
  ASSUME ConnInv, NEW answer \in Answers, Snap(answer)
  PROVE  ConnInv'
<1> DEFINE n == Len(switch.seen) + 1
<1>1. /\ switch # NoSwitch /\ switch.kind # "none" /\ switch = [f \in Fields |-> switch[f]]
      /\ switch.seen \in Seq(Answers) /\ switch.stage \in {"before", "after"}
  BY DEF Snap, TakesSnapshot, ConnInv, ReadBack, NoSwitch
<1>2. n \in 1..2 /\ Radios[n] \in Radio
  BY <1>1, TwoRadios DEF Snap, TakesSnapshot
<1>3. /\ switch' = [switch EXCEPT !.seen = Append(@, answer)]
      /\ UNCHANGED <<real, shown, epoch, reads>>
      /\ since' = IF switch.stage = "after" THEN [since EXCEPT ![Radios[n]] = {real[Radios[n]]}] ELSE since
      /\ answer \in Known => answer = real[Radios[n]]
  BY DEF Snap, Sees, Known
<1>4. /\ switch' = [f \in Fields |-> switch'[f]] /\ switch'.kind = switch.kind /\ switch'.stage = switch.stage
      /\ switch'.seen = Append(switch.seen, answer)
  BY <1>1, <1>3 DEF Fields
<1>5. switch' # NoSwitch /\ switch'.seen \in Seq(Answers) /\ Len(switch'.seen) = n
  BY <1>1, <1>4 DEF NoSwitch
<1>6. ASSUME switch.stage = "after", NEW i \in 1..Len(switch'.seen), switch'.seen[i] \in Known
      PROVE  switch'.seen[i] \in since'[Radios[i]]
  <2>1. CASE i = n
    <3>1. switch'.seen[i] = answer
      BY <1>1, <1>4, <2>1
    <3>2. since'[Radios[n]] = {real[Radios[n]]}
      BY <1>2, <1>3, <1>6 DEF ConnInv, RadioTypes
    <3> QED
      BY <1>3, <1>6, <2>1, <3>1, <3>2
  <2>2. CASE i # n
    <3>1. i = 1 /\ n = 2 /\ switch'.seen[1] = switch.seen[1] /\ 1 \in 1..Len(switch.seen)
      BY <1>1, <1>2, <1>4, <1>5, <2>2
    <3>2. since'[Radios[1]] = since[Radios[1]]
      BY <1>3, <3>1, TwoRadios DEF ConnInv, RadioTypes
    <3> QED
      BY <1>1, <1>6, <3>1, <3>2 DEF ConnInv, ReadBack
  <2> QED
    BY <2>1, <2>2
<1>7. ReadBack'
  <2>1. switch'.stage # "switch" /\ switch'.kind # "none"
    BY <1>1, <1>4
  <2>2. \A i \in 1..Len(switch'.seen) : i \in 1..2
    BY <1>2, <1>5
  <2> HIDE DEF n
  <2> QED
    BY <1>4, <1>5, <1>6, <2>1, <2>2 DEF ReadBack
<1>8. RadioTypes' /\ (\A r \in Radio : real'[r] \in since'[r])
  BY <1>2, <1>3 DEF ConnInv, RadioTypes
<1> QED
  BY <1>1, <1>3, <1>5, <1>7, <1>8 DEF ConnInv, ReadsAreCurrent, ShowsNoOldReading

(* The end of airplane mode shows what it has read back.                     *)
LEMMA ActionsEndKeepConn ==
  ASSUME ConnInv, FinishAction \/ RestartSettings \/ UNCHANGED connVars
  PROVE  ConnInv'
<1>1. CASE FinishAction
  <2>1. /\ switch # NoSwitch /\ switch.stage = "after" /\ Len(switch.seen) = 2 /\ switch.seen \in Seq(Answers)
        /\ UNCHANGED <<real, reads, since>> /\ epoch' = epoch + 1 /\ switch' = NoSwitch
        /\ shown' = [r \in Radio |-> switch.seen[IF r = Radios[1] THEN 1 ELSE 2]]
    BY <1>1 DEF FinishAction, Show, Snapshot, ConnInv, ReadBack, NoSwitch
  <2>2. switch.seen[1] \in Answers /\ switch.seen[2] \in Answers
    BY <2>1
  <2>3. \A r \in Radio : shown'[r] \in Known => shown'[r] \in since[r]
    BY <2>1, TwoRadios DEF ConnInv, ReadBack
  <2> QED
    BY <2>1, <2>2, <2>3, TwoRadios DEF ConnInv, RadioTypes, ReadsAreCurrent, ReadBack, ShowsNoOldReading
<1>2. CASE RestartSettings
  BY <1>2 DEF RestartSettings, Known, ConnInv, RadioTypes, ReadsAreCurrent, ReadBack, ShowsNoOldReading, NoSwitch
<1>3. CASE UNCHANGED connVars
  BY <1>3, SinceGrows DEF connVars, ConnInv, RadioTypes
<1> QED
  BY <1>1, <1>2, <1>3

(* What airplane mode turned off is off; it is not remembered as off, and a   *)
(* disable turns it on, fails, or does not find it.                           *)
Stages == {"before", "switch", "after"}
ActionTypes ==
  /\ memory \in [Radio -> Known \cup {"unknown"}] /\ again \in BOOLEAN
  /\ switch # NoSwitch =>
       /\ switch.kind \in {"enable", "disable", "on", "off"} /\ switch.stage \in Stages
       /\ switch.left \in Seq(Radio) /\ switch.failed \in BOOLEAN
       /\ switch.stage = "before" => switch.kind \in {"enable", "disable"}

InLeft(r) == \E i \in 1..Len(switch.left) : switch.left[i] = r

GroundedIsOff == grounded \subseteq Radio /\ \A r \in grounded : real[r] = "off"

GroundedIsRemembered ==
  ~again =>
    /\ \A r \in grounded : memory[r] # "off"
    /\ switch.kind = "enable" /\ switch.stage = "switch" => \A i \in 1..Len(switch.left) : memory[switch.left[i]] # "off"

DisableLeavesNone ==
  switch.kind = "disable" =>
    /\ switch.stage = "before" => \A i \in 1..Len(switch.seen) : Radios[i] \in grounded => switch.seen[i] # "on"
    /\ switch.stage = "switch" /\ ~again => \A r \in grounded : InLeft(r) \/ switch.failed \/ r \in switch.missing
    /\ switch.stage = "after" =>
         /\ ~again => \A r \in grounded : switch.failed \/ r \in switch.missing
         /\ \A i \in 1..Len(switch.seen) : Radios[i] \in switch.missing => switch.seen[i] = "missing"

PlaneInv == ConnInv /\ ActionTypes /\ GroundedIsOff /\ GroundedIsRemembered /\ DisableLeavesNone

(* No airplane mode yet.                                                     *)
LEMMA PlaneStarts == ConnInit => PlaneInv
<1> SUFFICES ASSUME ConnInit PROVE PlaneInv
  OBVIOUS
<1>1. switch = NoSwitch /\ switch.kind = "none" /\ grounded = {} /\ again = FALSE
  BY DEF ConnInit, NoSwitch
<1>2. memory \in [Radio -> Known \cup {"unknown"}]
  BY DEF ConnInit, NoMemory
<1> QED
  BY <1>1, <1>2, ConnStarts DEF PlaneInv, ActionTypes, GroundedIsOff, GroundedIsRemembered, DisableLeavesNone

(* The plan of an action names its radios, and no others.                    *)
LEMMA InOrderNames ==
  ASSUME NEW some \in SUBSET Radio
  PROVE  /\ InOrder(some) \in Seq(Radio)
         /\ \A i \in 1..Len(InOrder(some)) : InOrder(some)[i] \in some
         /\ \A r \in some : \E i \in 1..Len(InOrder(some)) : InOrder(some)[i] = r
<1>1. CASE "wifi" \in some /\ "bluetooth" \in some
  <2>1. InOrder(some) = <<"wifi">> \o <<"bluetooth">>
    BY <1>1, TwoRadios DEF InOrder
  <2>2. <<"wifi">> \in Seq(Radio) /\ <<"bluetooth">> \in Seq(Radio)
    BY TwoRadios
  <2>3. /\ InOrder(some) \in Seq(Radio) /\ Len(InOrder(some)) = 2
        /\ InOrder(some)[1] = "wifi" /\ InOrder(some)[2] = "bluetooth"
    BY <2>1, <2>2
  <2> QED
    BY <1>1, <2>3, TwoRadios
<1>2. CASE "wifi" \in some /\ "bluetooth" \notin some
  <2>1. InOrder(some) = <<"wifi">>
    BY <1>2, TwoRadios DEF InOrder
  <2> QED
    BY <1>2, <2>1, TwoRadios
<1>3. CASE "wifi" \notin some /\ "bluetooth" \in some
  <2>1. InOrder(some) = <<"bluetooth">>
    BY <1>3, TwoRadios DEF InOrder
  <2> QED
    BY <1>3, <2>1, TwoRadios
<1>4. CASE "wifi" \notin some /\ "bluetooth" \notin some
  <2>1. InOrder(some) = <<>>
    BY <1>4, TwoRadios DEF InOrder
  <2> QED
    BY <1>4, <2>1, TwoRadios
<1> QED
  BY <1>1, <1>2, <1>3, <1>4

(* The steps of the reads and of other programs.                             *)
LEMMA OthersKeepPlane ==
  ASSUME PlaneInv, ConnInv',
         \/ \E r \in Radio, state \in Known \cup {"missing"} : SwitchedElsewhere(r, state)
         \/ \E all \in BOOLEAN : BeginReads(all)
         \/ \E r \in Radio, answer \in Answers : ReadRadio(r, answer)
         \/ \E r \in Radio : FinishRead(r)
         \/ UNCHANGED connVars
  PROVE  PlaneInv'
<1>1. /\ UNCHANGED <<switch, memory, again>> /\ grounded' \subseteq grounded
      /\ \A r \in grounded' : real'[r] = real[r]
  BY DEF SwitchedElsewhere, Becomes, BeginReads, ReadRadio, FinishRead, connVars, PlaneInv, GroundedIsOff, ConnInv, RadioTypes
<1>2. ActionTypes' /\ GroundedIsOff'
  BY <1>1 DEF PlaneInv, ActionTypes, GroundedIsOff
<1>3. GroundedIsRemembered' /\ DisableLeavesNone'
  BY <1>1 DEF PlaneInv, GroundedIsRemembered, DisableLeavesNone, InLeft
<1> QED
  BY <1>2, <1>3 DEF PlaneInv

(* An action begins, or ends, or Settings does.                              *)
LEMMA EndsKeepPlane ==
  ASSUME PlaneInv, ConnInv',
         SetAirplane \/ (\E r \in Radio : SetRadio(r)) \/ FinishAction \/ RestartSettings
  PROVE  PlaneInv'
<1>1. UNCHANGED <<real, memory, again, grounded>>
  BY DEF SetAirplane, SetRadio, BeginAction, FinishAction, RestartSettings
<1>2. GroundedIsOff'
  BY <1>1 DEF PlaneInv, GroundedIsOff
<1>3. ASSUME NEW kind \in {"enable", "disable", "on", "off"}, NEW radios \in Seq(Radio), BeginAction(kind, radios)
      PROVE  PlaneInv'
  <2>1. /\ switch'.kind = kind /\ switch'.seen = <<>> /\ switch'.left = radios /\ switch'.failed = FALSE
        /\ switch'.stage = IF kind \in {"enable", "disable"} THEN "before" ELSE "switch"
    BY <1>3 DEF BeginAction
  <2>2. ActionTypes'
    BY <1>1, <1>3, <2>1 DEF PlaneInv, ActionTypes, Stages
  <2>3. GroundedIsRemembered' /\ DisableLeavesNone'
    BY <1>1, <1>3, <2>1 DEF PlaneInv, GroundedIsRemembered, DisableLeavesNone
  <2> QED
    BY <1>2, <2>2, <2>3 DEF PlaneInv
<1>4. CASE SetAirplane
  <2>1. PICK kind \in {"enable", "disable"} : BeginAction(kind, <<>>)
    BY <1>4 DEF SetAirplane
  <2>2. <<>> \in Seq(Radio)
    OBVIOUS
  <2> QED
    BY <1>3, <2>1, <2>2
<1>5. ASSUME NEW r \in Radio, SetRadio(r) PROVE PlaneInv'
  <2>1. <<r>> \in Seq(Radio)
    OBVIOUS
  <2>2. PICK kind \in {"on", "off"} : BeginAction(kind, <<r>>)
    BY <1>5 DEF SetRadio
  <2> QED
    BY <1>3, <2>1, <2>2
<1>6. CASE FinishAction \/ RestartSettings
  <2>1. switch' = NoSwitch
    BY <1>6 DEF FinishAction, RestartSettings
  <2>2. ActionTypes' /\ GroundedIsRemembered' /\ DisableLeavesNone'
    BY <1>1, <2>1 DEF NoSwitch, PlaneInv, ActionTypes, GroundedIsRemembered, DisableLeavesNone
  <2> QED
    BY <1>2, <2>2 DEF PlaneInv
<1> QED
  BY <1>4, <1>5, <1>6

(* A snapshot looks at the next radio.                                       *)
LEMMA SnapKeepsPlane ==
  ASSUME PlaneInv, ConnInv', NEW answer \in Answers, Snap(answer)
  PROVE  PlaneInv'
<1> DEFINE n == Len(switch.seen) + 1
<1>1. /\ switch # NoSwitch /\ switch = [f \in Fields |-> switch[f]] /\ switch.seen \in Seq(Answers)
      /\ switch.stage \in {"before", "after"}
  BY DEF Snap, TakesSnapshot, PlaneInv, ConnInv, ReadBack, NoSwitch
<1>2. n \in 1..2 /\ Radios[n] \in Radio
  BY <1>1, TwoRadios DEF Snap, TakesSnapshot
<1>3. /\ switch' = [switch EXCEPT !.seen = Append(@, answer)] /\ UNCHANGED <<real, memory, grounded, again>>
      /\ \/ Radios[n] \in switch.missing /\ answer = "missing"
         \/ Radios[n] \notin switch.missing /\ answer \in {real[Radios[n]], "failed", "missing"}
  BY DEF Snap, Sees
<1>4. /\ switch'.kind = switch.kind /\ switch'.stage = switch.stage /\ switch'.left = switch.left
      /\ switch'.failed = switch.failed /\ switch'.missing = switch.missing
      /\ switch'.seen = Append(switch.seen, answer)
  BY <1>1, <1>3 DEF Fields
<1>5. ActionTypes' /\ GroundedIsOff' /\ GroundedIsRemembered'
  BY <1>1, <1>3, <1>4 DEF PlaneInv, ActionTypes, GroundedIsOff, GroundedIsRemembered
<1>6. \A i \in 1..Len(switch'.seen) : \/ i \in 1..Len(switch.seen) /\ switch'.seen[i] = switch.seen[i]
                                      \/ i = n /\ switch'.seen[i] = answer
  BY <1>1, <1>4
<1> HIDE DEF n
<1>7. Radios[n] \in grounded => answer # "on"
  BY <1>3 DEF PlaneInv, GroundedIsOff
<1>8. DisableLeavesNone'
  BY <1>1, <1>3, <1>4, <1>6, <1>7 DEF PlaneInv, DisableLeavesNone
<1> QED
  BY <1>5, <1>8 DEF PlaneInv

(* What is to be turned off is remembered first, unless nothing is on.       *)
LEMMA EnableKeepsPlane ==
  ASSUME PlaneInv, ConnInv', PlanEnable
  PROVE  PlaneInv'
<1> DEFINE on == {r \in Radio : Snapshot[r] # "off" /\ Present(Snapshot, r)}
<1>1. switch # NoSwitch /\ switch = [f \in Fields |-> switch[f]]
  <2>1. switch.kind = "enable"
    BY DEF PlanEnable
  <2>2. switch # NoSwitch
    BY <2>1 DEF NoSwitch
  <2> QED
    BY <2>2 DEF PlaneInv, ConnInv, ReadBack
<1>2. /\ UNCHANGED <<real, grounded>>
      /\ memory' \in {memory, MemoryOf(Snapshot)} /\ (~Remembers(Snapshot) => memory' = memory)
      /\ switch' = [switch EXCEPT !.stage = "switch", !.left = InOrder(on), !.seen = <<>>,
                                  !.missing = {r \in Radio : ~Present(Snapshot, r)}]
      /\ again' = \/ again
                  \/ Remembers(Snapshot) /\ \E r \in grounded : Snapshot[r] = "off"
                  \/ memory' \notin {NoMemory, MemoryOf(Snapshot)}
  BY DEF PlanEnable, Remember
<1>3. /\ switch'.kind = "enable" /\ switch'.stage = "switch" /\ switch'.left = InOrder(on)
      /\ switch'.failed = switch.failed
  BY <1>1, <1>2 DEF Fields, PlanEnable
<1>4. ActionTypes'
  BY <1>1, <1>2, <1>3, InOrderNames DEF PlaneInv, ActionTypes, MemoryOf, Stages
<1>5. ASSUME ~again', NEW i \in 1..Len(InOrder(on)) PROVE memory'[InOrder(on)[i]] # "off"
  <2>1. InOrder(on)[i] \in on
    BY InOrderNames
  <2> QED
    BY <1>2, <1>5, <2>1 DEF NoMemory, MemoryOf
<1>6. ASSUME ~again', NEW r \in grounded PROVE memory'[r] # "off"
  BY <1>2, <1>6 DEF NoMemory, MemoryOf, PlaneInv, GroundedIsOff, GroundedIsRemembered
<1>7. GroundedIsRemembered' /\ GroundedIsOff' /\ DisableLeavesNone'
  BY <1>2, <1>3, <1>5, <1>6 DEF PlaneInv, GroundedIsOff, GroundedIsRemembered, DisableLeavesNone
<1> QED
  BY <1>4, <1>7 DEF PlaneInv

(* What is to be turned on again is what the memory names.                   *)
LEMMA DisableKeepsPlane ==
  ASSUME PlaneInv, ConnInv', PlanDisable
  PROVE  PlaneInv'
<1> DEFINE there == {r \in Radio : Present(Snapshot, r)}
           back == IF \A r \in there : ~WasOn(r) THEN there ELSE {r \in there : WasOn(r)}
           off == {r \in back : Snapshot[r] # "on"}
<1>1. switch # NoSwitch /\ switch = [f \in Fields |-> switch[f]] /\ switch.seen \in Seq(Answers)
  <2>1. switch.kind = "disable"
    BY DEF PlanDisable
  <2>2. switch # NoSwitch
    BY <2>1 DEF NoSwitch
  <2> QED
    BY <2>2 DEF PlaneInv, ConnInv, ReadBack
<1>2. /\ UNCHANGED <<real, grounded, memory, again>>
      /\ switch' = [switch EXCEPT !.stage = "switch", !.left = InOrder(off), !.seen = <<>>,
                                  !.missing = {r \in Radio : ~Present(Snapshot, r)}]
  BY DEF PlanDisable
<1>3. /\ switch'.kind = "disable" /\ switch'.stage = "switch" /\ switch'.left = InOrder(off)
      /\ switch'.failed = switch.failed /\ switch'.missing = {r \in Radio : ~Present(Snapshot, r)}
  BY <1>1, <1>2 DEF Fields, PlanDisable
<1>4. off \in SUBSET Radio
  OBVIOUS
<1>5. ActionTypes' /\ GroundedIsOff' /\ GroundedIsRemembered'
  BY <1>1, <1>2, <1>3, <1>4, InOrderNames DEF PlaneInv, ActionTypes, GroundedIsOff, GroundedIsRemembered, Stages
<1>6. ASSUME ~again', NEW r \in grounded PROVE InLeft(r)' \/ r \in switch'.missing
  <2>1. r \in Radio /\ WasOn(r)
    BY <1>2, <1>6 DEF WasOn, PlaneInv, GroundedIsOff, GroundedIsRemembered
  <2>2. Snapshot[r] # "on"
    BY <2>1, TwoRadios DEF Snapshot, PlanDisable, PlaneInv, DisableLeavesNone
  <2>3. CASE Present(Snapshot, r)
    <3>1. r \in off
      BY <2>1, <2>2, <2>3
    <3> HIDE DEF off
    <3> QED
      BY <1>3, <1>4, <3>1, InOrderNames DEF InLeft
  <2>4. CASE ~Present(Snapshot, r)
    BY <1>3, <2>1, <2>4
  <2> QED
    BY <2>3, <2>4
<1>7. DisableLeavesNone'
  BY <1>2, <1>3, <1>6 DEF DisableLeavesNone
<1> QED
  BY <1>5, <1>7 DEF PlaneInv

(* The next radio is switched, or its tool fails.                            *)
LEMMA SwitchingKeepsPlane ==
  ASSUME PlaneInv, ConnInv', SwitchNext
  PROVE  PlaneInv'
<1> DEFINE h == Head(switch.left)
<1>1. /\ switch # NoSwitch /\ switch = [f \in Fields |-> switch[f]] /\ switch.stage = "switch"
      /\ switch.left \in Seq(Radio) /\ switch.left # <<>>
  BY DEF SwitchNext, Switching, NoSwitch, PlaneInv, ConnInv, ReadBack, ActionTypes
<1>2. /\ UNCHANGED <<memory, again>>
      /\ switch' \in {[switch EXCEPT !.left = Tail(@)], [switch EXCEPT !.left = Tail(@), !.failed = TRUE]}
  BY DEF SwitchNext
<1>3. /\ switch'.kind = switch.kind /\ switch'.stage = "switch" /\ switch'.left = Tail(switch.left)
      /\ switch'.missing = switch.missing /\ switch'.failed \in {switch.failed, TRUE}
  BY <1>1, <1>2 DEF Fields
<1>4. h \in Radio /\ Tail(switch.left) \in Seq(Radio)
  BY <1>1
<1>5. \A i \in 1..Len(switch'.left) : i + 1 \in 1..Len(switch.left) /\ switch'.left[i] = switch.left[i + 1]
  BY <1>1, <1>3
<1>6. \A r \in Radio : InLeft(r) => r = h \/ InLeft(r)'
  <2> TAKE r \in Radio
  <2> HAVE InLeft(r)
  <2>1. PICK i \in 1..Len(switch.left) : switch.left[i] = r
    BY DEF InLeft
  <2>2. CASE i = 1
    BY <1>1, <2>1, <2>2
  <2>3. CASE i # 1
    <3>1. i - 1 \in 1..Len(switch'.left) /\ switch'.left[i - 1] = r
      BY <1>1, <1>3, <2>1, <2>3
    <3> QED
      BY <3>1 DEF InLeft
  <2> QED
    BY <2>2, <2>3
<1>7. \/ /\ real' = [real EXCEPT ![h] = Goal]
         /\ grounded' = IF switch.kind = "enable" THEN (IF real[h] = "on" THEN grounded \cup {h} ELSE grounded)
                        ELSE grounded \ {h}
      \/ UNCHANGED <<real, grounded>> /\ switch' = [switch EXCEPT !.left = Tail(@), !.failed = TRUE]
  BY DEF SwitchNext, Becomes
<1> HIDE DEF h
<1>8. ActionTypes'
  BY <1>1, <1>2, <1>3, <1>4 DEF PlaneInv, ActionTypes, NoSwitch
<1>9. GroundedIsOff'
  BY <1>4, <1>7 DEF PlaneInv, GroundedIsOff, ConnInv, RadioTypes, Goal
<1>10. grounded' \subseteq grounded \cup (IF switch.kind = "enable" THEN {h} ELSE {})
  BY <1>7
<1>11. switch.kind = "enable" /\ ~again => memory[h] # "off"
  <2>1. 1 \in 1..Len(switch.left) /\ switch.left[1] = h
    BY <1>1 DEF h
  <2> QED
    BY <1>1, <2>1 DEF PlaneInv, GroundedIsRemembered
<1>12. GroundedIsRemembered'
  BY <1>1, <1>2, <1>3, <1>5, <1>10, <1>11 DEF PlaneInv, GroundedIsRemembered
<1>13. ASSUME switch.kind = "disable", ~again, NEW r \in grounded'
       PROVE  InLeft(r)' \/ switch'.failed \/ r \in switch'.missing
  <2>1. r \in grounded /\ r \in Radio /\ (InLeft(r) \/ switch.failed \/ r \in switch.missing)
    BY <1>1, <1>7, <1>13 DEF PlaneInv, GroundedIsOff, DisableLeavesNone
  <2>2. r # h \/ switch'.failed
    BY <1>1, <1>7, <1>13 DEF Fields
  <2>3. switch.failed => switch'.failed
    BY <1>3
  <2> QED
    BY <1>3, <1>6, <2>1, <2>2, <2>3
<1>14. DisableLeavesNone'
  BY <1>2, <1>3, <1>13 DEF DisableLeavesNone
<1> QED
  BY <1>8, <1>9, <1>12, <1>14 DEF PlaneInv

(* The memory is given up when all it names was turned on.                   *)
LEMMA SwitchedKeepsPlane ==
  ASSUME PlaneInv, ConnInv', Switched
  PROVE  PlaneInv'
<1>1. switch # NoSwitch /\ switch = [f \in Fields |-> switch[f]] /\ switch.seen = <<>> /\ switch.left = <<>>
  BY DEF Switched, NoSwitch, PlaneInv, ConnInv, ReadBack
<1>2. UNCHANGED <<real, grounded, again>> /\ memory' \in {memory, NoMemory} /\ switch' = [switch EXCEPT !.stage = "after"]
  BY DEF Switched
<1>3. /\ switch'.kind = switch.kind /\ switch'.stage = "after" /\ switch'.left = switch.left /\ switch'.seen = <<>>
      /\ switch'.missing = switch.missing /\ switch'.failed = switch.failed
  BY <1>1, <1>2 DEF Fields
<1>4. ActionTypes' /\ GroundedIsOff' /\ GroundedIsRemembered'
  BY <1>1, <1>2, <1>3 DEF PlaneInv, ActionTypes, GroundedIsOff, GroundedIsRemembered, NoMemory, Stages
<1>5. switch.kind = "disable" /\ ~again => \A r \in grounded : switch.failed \/ r \in switch.missing
  BY <1>1 DEF Switched, PlaneInv, DisableLeavesNone, InLeft
<1>6. DisableLeavesNone'
  BY <1>2, <1>3, <1>5 DEF DisableLeavesNone
<1> QED
  BY <1>4, <1>6 DEF PlaneInv

(* Whatever else switches the radios and whichever tools fail: the page      *)
(* shows nothing older than the last switching action, and after one         *)
(* airplane mode a disable that succeeded shows no radio as off that it had  *)
(* turned off.                                                               *)
THEOREM AirplaneModeEnds == ConnSpec => [](ShowsNoOldReading /\ NoRadioStuckAfterOne)
<1>1. ASSUME PlaneInv PROVE ShowsNoOldReading /\ NoRadioStuckAfterOne
  <2>1. ASSUME ~again, DisableEnds, NEW r \in grounded PROVE Snapshot[r] # "off"
    <3>1. r \in Radio /\ r \in switch.missing
      BY <1>1, <2>1 DEF DisableEnds, PlaneInv, GroundedIsOff, DisableLeavesNone
    <3>2. switch.seen \in Seq(Answers)
      BY <1>1, <2>1 DEF DisableEnds, PlaneInv, ConnInv, ReadBack, NoSwitch
    <3> QED
      BY <1>1, <2>1, <3>1, <3>2, TwoRadios DEF DisableEnds, Snapshot, PlaneInv, DisableLeavesNone
  <2> QED
    BY <1>1, <2>1 DEF NoRadioStuckAfterOne, NoRadioStuck, StuckOff, PlaneInv, ConnInv
<1>2. ASSUME PlaneInv, [ConnNext]_connVars PROVE PlaneInv'
  <2>1. ConnInv'
    BY <1>2, OutsideKeepsConn, ReadsKeepConn, SwitchesKeepConn, SnapKeepsConn, ActionsEndKeepConn DEF ConnNext, PlaneInv
  <2> QED
    BY <1>2, <2>1, OthersKeepPlane, EndsKeepPlane, SnapKeepsPlane, EnableKeepsPlane, DisableKeepsPlane,
       SwitchingKeepsPlane, SwitchedKeepsPlane DEF ConnNext
<1> QED
  BY <1>1, <1>2, PlaneStarts, PTL DEF ConnSpec

-----------------------------------------------------------------------------
(* The reminders. What was shown of an event as it is now has its stamp, or   *)
(* is about to get it, or lost it.                                            *)
RowTypes ==
  /\ events = [id \in Events |-> events[id]]
  /\ \A n \in notified : n.id \in Events
  /\ \A o \in todo : o.id \in Events /\ o.event # NotThere
  /\ sending # Nothing => sending.id \in Events

Stamped(n) == \E s \in stamps : s.id = n.id /\ s.at = n.at /\ s.revision \in {Legacy, n.revision}
Sends(n) == sending # Nothing /\ n = Shown(sending.id, sending.at, sending.event)

ShownIsStamped ==
  \A n \in notified : EventExists(n.id) /\ n.revision = Revision(events[n.id])
                        => Stamped(n) \/ <<n.id, n.at>> \in forgotten \/ Sends(n)

StampedIsShown ==
  /\ \A s \in stamps : s.revision # Legacy => s \in notified
  /\ sending # Nothing => Shown(sending.id, sending.at, sending.event) \in notified

AlertInv == RowTypes /\ ShownIsStamped /\ StampedIsShown

(* The daemon has just started, with stamps of an earlier version or none.   *)
LEMMA AlertStarts == RemindersInit => AlertInv
<1> SUFFICES ASSUME RemindersInit PROVE AlertInv
  OBVIOUS
<1>0. PICK old \in BOOLEAN :
        LET rows == {r \in Events \X (0..MaxTime) : old /\ EventExists(r[1]) /\ r[2] = events[r[1]].start} IN
        /\ stamps = {[id |-> r[1], at |-> r[2], revision |-> Legacy] : r \in rows}
        /\ notified = {Shown(r[1], r[2], events[r[1]]) : r \in rows}
  BY DEF RemindersInit
<1> DEFINE rows == {r \in Events \X (0..MaxTime) : old /\ EventExists(r[1]) /\ r[2] = events[r[1]].start}
<1>1. /\ rows \subseteq Events \X (0..MaxTime)
      /\ stamps = {[id |-> r[1], at |-> r[2], revision |-> Legacy] : r \in rows}
      /\ notified = {Shown(r[1], r[2], events[r[1]]) : r \in rows}
  BY <1>0
<1> HIDE DEF rows
<1>2. events = [id \in Events |-> events[id]] /\ todo = {} /\ sending = Nothing
  BY DEF RemindersInit
<1>3. ASSUME NEW n \in notified PROVE n.id \in Events /\ Stamped(n)
  <2>1. PICK r \in rows : n = Shown(r[1], r[2], events[r[1]])
    BY <1>1
  <2>2. n.id = r[1] /\ n.at = r[2] /\ r[1] \in Events
    BY <1>1, <2>1 DEF Shown
  <2>3. [id |-> r[1], at |-> r[2], revision |-> Legacy] \in stamps
    BY <1>1
  <2> QED
    BY <2>2, <2>3 DEF Stamped
<1>4. \A s \in stamps : s.revision = Legacy
  BY <1>1
<1> QED
  BY <1>2, <1>3, <1>4 DEF AlertInv, RowTypes, ShownIsStamped, StampedIsShown

(* The steps that neither notify nor stamp.                                  *)
LEMMA QuietKeepsAlerts ==
  ASSUME AlertInv, UNCHANGED <<events, stamps, notified>>,
         \/ UNCHANGED <<todo, sending, forgotten>>
         \/ BeginPoll \/ (\E o \in todo : SkipOccurrence(o)) \/ StampFails \/ AlertdCrash
  PROVE  AlertInv'
<1>1. CASE UNCHANGED <<todo, sending, forgotten>>
  BY <1>1 DEF AlertInv, RowTypes, ShownIsStamped, StampedIsShown, EventExists, Stamped, Sends
<1>2. CASE BeginPoll
  <2>1. UNCHANGED <<sending, forgotten>>
    BY <1>2 DEF BeginPoll
  <2>2. \A o \in todo' : o.id \in Events /\ o.event # NotThere
    <3> SUFFICES ASSUME NEW o \in todo' PROVE o.id \in Events /\ o.event # NotThere
      OBVIOUS
    <3>1. PICK id \in {i \in Events : EventExists(i)} :
            o \in {[id |-> id, at |-> t, event |-> events[id]] : t \in DueOccurrences(events[id], clock)}
      BY <1>2 DEF BeginPoll
    <3> QED
      BY <3>1 DEF EventExists
  <2> QED
    BY <2>1, <2>2 DEF AlertInv, RowTypes, ShownIsStamped, StampedIsShown, EventExists, Stamped, Sends
<1>3. CASE \E o \in todo : SkipOccurrence(o)
  <2>1. todo' \subseteq todo /\ UNCHANGED <<sending, forgotten>>
    BY <1>3 DEF SkipOccurrence
  <2> QED
    BY <2>1 DEF AlertInv, RowTypes, ShownIsStamped, StampedIsShown, EventExists, Stamped, Sends
<1>4. CASE StampFails \/ AlertdCrash
  <2>1. /\ todo' = {} /\ sending' = Nothing
        /\ forgotten' = IF sending = Nothing THEN forgotten ELSE forgotten \cup {<<sending.id, sending.at>>}
    BY <1>4 DEF StampFails, AlertdCrash
  <2>2. ASSUME NEW n, Sends(n) PROVE <<n.id, n.at>> \in forgotten'
    BY <2>1, <2>2 DEF Sends, Shown
  <2>3. forgotten \subseteq forgotten'
    BY <2>1
  <2> QED
    BY <2>1, <2>2, <2>3 DEF AlertInv, RowTypes, ShownIsStamped, StampedIsShown, EventExists, Stamped
<1> QED
  BY <1>1, <1>2, <1>3, <1>4

(* A reminder is shown, or cannot be.                                        *)
LEMMA DeliveryKeepsAlerts ==
  ASSUME AlertInv, NEW o \in todo, DeliverReminder(o) \/ DeliveryFails(o)
  PROVE  AlertInv'
<1> DEFINE n == Shown(o.id, o.at, o.event)
<1>1. UNCHANGED <<events, stamps>> /\ sending = Nothing /\ todo' \subseteq todo
  BY DEF DeliverReminder, DeliveryFails, Deliverable
<1>2. n.id \in Events /\ n.id = o.id /\ n.at = o.at
  BY DEF Shown, AlertInv, RowTypes
<1>3. \/ notified' = notified \cup {n} /\ sending' = o /\ forgotten' = forgotten
      \/ sending' = Nothing /\ UNCHANGED <<notified, forgotten>>
      \/ sending' = Nothing /\ notified' = notified \cup {n} /\ forgotten' = forgotten \cup {<<o.id, o.at>>}
  BY <1>1 DEF DeliverReminder, DeliveryFails
<1>4. RowTypes'
  BY <1>1, <1>2, <1>3 DEF AlertInv, RowTypes
<1>5. notified \subseteq notified' /\ forgotten \subseteq forgotten'
  BY <1>3
<1>6. StampedIsShown'
  BY <1>1, <1>3, <1>5 DEF AlertInv, StampedIsShown, Nothing
<1>7. ASSUME NEW m \in notified', EventExists(m.id)', m.revision = Revision(events[m.id])
      PROVE  Stamped(m)' \/ <<m.id, m.at>> \in forgotten' \/ Sends(m)'
  <2>1. CASE m \in notified
    BY <1>1, <1>5, <1>7, <2>1 DEF AlertInv, ShownIsStamped, EventExists, Stamped, Sends
  <2>2. CASE m = n /\ sending' = o
    <3>1. o # Nothing
      BY RemindersAssumption DEF AlertInv, RowTypes, Nothing
    <3> QED
      BY <2>2, <3>1 DEF Sends
  <2>3. CASE m = n /\ <<o.id, o.at>> \in forgotten'
    BY <1>2, <2>3
  <2> QED
    BY <1>3, <1>7, <2>1, <2>2, <2>3
<1>8. ShownIsStamped'
  BY <1>1, <1>7 DEF ShownIsStamped
<1> QED
  BY <1>4, <1>6, <1>8 DEF AlertInv

(* What was shown is stamped, unless its event was scheduled anew            *)
(* meanwhile.                                                                *)
LEMMA StampKeepsAlerts ==
  ASSUME AlertInv, Stamp
  PROVE  AlertInv'
<1> DEFINE n == Shown(sending.id, sending.at, sending.event)
<1>1. /\ UNCHANGED <<events, notified, forgotten>> /\ sending # Nothing /\ sending' = Nothing /\ todo' \subseteq todo
      /\ stamps' = IF StillScheduled(sending)
                   THEN {s \in stamps : s.id # sending.id \/ s.at # sending.at} \cup {n} ELSE stamps
  BY DEF Stamp
<1>2. n.id = sending.id /\ n.at = sending.at /\ n.revision = Revision(sending.event) /\ n \in notified
  BY <1>1 DEF Shown, AlertInv, StampedIsShown
<1> HIDE DEF n
<1>3. RowTypes' /\ StampedIsShown'
  BY <1>1, <1>2 DEF AlertInv, RowTypes, StampedIsShown
<1>4. ASSUME NEW m \in notified, EventExists(m.id), m.revision = Revision(events[m.id])
      PROVE  Stamped(m)' \/ <<m.id, m.at>> \in forgotten
  <2>1. Stamped(m) \/ <<m.id, m.at>> \in forgotten \/ m = n
    BY <1>4 DEF AlertInv, ShownIsStamped, Sends, n
  <2>2. CASE m.id = sending.id /\ m.at = sending.at /\ StillScheduled(sending)
    <3>1. n \in stamps' /\ n.revision = m.revision
      BY <1>1, <1>2, <1>4, <2>2 DEF StillScheduled, Revision
    <3> QED
      BY <1>2, <2>2, <3>1 DEF Stamped
  <2>3. CASE ~(m.id = sending.id /\ m.at = sending.at)
    BY <1>1, <1>2, <2>1, <2>3 DEF Stamped
  <2>4. CASE ~StillScheduled(sending)
    <3>1. m # n
      BY <1>2, <1>4, <2>4 DEF StillScheduled, Revision
    <3> QED
      BY <1>1, <2>1, <2>4, <3>1 DEF Stamped
  <2> QED
    BY <2>2, <2>3, <2>4
<1>5. ShownIsStamped'
  BY <1>1, <1>4 DEF ShownIsStamped, EventExists
<1> QED
  BY <1>3, <1>5 DEF AlertInv

(* The calendar changes an event; its stamps go with its schedule.           *)
LEMMA EditKeepsAlerts ==
  ASSUME AlertInv, NEW id \in Events, NEW e, ChangeEvent(id, e)
  PROVE  AlertInv'
<1> DEFINE same == e # NotThere /\ Schedule(e) = Schedule(events[id])
<1>1. /\ EventExists(id) /\ events' = [events EXCEPT ![id] = e] /\ UNCHANGED <<notified, todo, sending>>
      /\ stamps' = IF same THEN stamps ELSE {s \in stamps : s.id # id}
      /\ forgotten' = IF same THEN forgotten ELSE forgotten \cup {<<s.id, s.at>> : s \in {n \in notified : n.id = id}}
  BY DEF ChangeEvent, StampsAfter
<1>2. events' = [i \in Events |-> events'[i]] /\ \A i \in Events : events'[i] = IF i = id THEN e ELSE events[i]
  BY <1>1 DEF AlertInv, RowTypes
<1>3. RowTypes' /\ StampedIsShown'
  BY <1>1, <1>2 DEF AlertInv, RowTypes, StampedIsShown
<1>4. ASSUME NEW m \in notified, EventExists(m.id)', m.revision = Revision(events'[m.id])
      PROVE  Stamped(m)' \/ <<m.id, m.at>> \in forgotten' \/ Sends(m)'
  <2>1. m.id \in Events
    BY DEF AlertInv, RowTypes
  <2>2. forgotten \subseteq forgotten'
    BY <1>1
  <2>3. CASE m.id # id
    <3>1. EventExists(m.id) /\ m.revision = Revision(events[m.id])
      BY <1>2, <1>4, <2>1, <2>3 DEF EventExists
    <3> QED
      BY <1>1, <2>2, <2>3, <3>1 DEF AlertInv, ShownIsStamped, Stamped, Sends
  <2>4. CASE m.id = id /\ same
    <3>1. m.revision = Revision(events[m.id])
      BY <1>2, <1>4, <2>1, <2>4 DEF Revision
    <3> QED
      BY <1>1, <2>2, <2>4, <3>1 DEF AlertInv, ShownIsStamped, Stamped, Sends
  <2>5. CASE m.id = id /\ ~same
    BY <1>1, <2>5
  <2> QED
    BY <2>3, <2>4, <2>5
<1>5. ShownIsStamped'
  BY <1>1, <1>4 DEF ShownIsStamped
<1> QED
  BY <1>3, <1>5 DEF AlertInv

(* Every step of the reminders.                                              *)
LEMMA AlertsKept ==
  ASSUME AlertInv, [RemindersNext]_reminderVars
  PROVE  AlertInv'
<1>1. CASE StartDaemon \/ EndPoll \/ Pass \/ UNCHANGED reminderVars
  <2>1. UNCHANGED <<events, stamps, notified, todo, sending, forgotten>>
    BY <1>1 DEF StartDaemon, EndPoll, Pass, reminderVars
  <2> QED
    BY <2>1, QuietKeepsAlerts
<1>2. CASE BeginPoll \/ (\E o \in todo : SkipOccurrence(o)) \/ StampFails \/ AlertdCrash
  <2>1. UNCHANGED <<events, stamps, notified>>
    BY <1>2 DEF BeginPoll, SkipOccurrence, StampFails, AlertdCrash
  <2> QED
    BY <1>2, <2>1, QuietKeepsAlerts
<1>3. CASE \E o \in todo : DeliverReminder(o) \/ DeliveryFails(o)
  BY <1>3, DeliveryKeepsAlerts
<1>4. CASE Stamp
  BY <1>4, StampKeepsAlerts
<1>5. ASSUME NEW id \in Events, NEW e, ChangeEvent(id, e) PROVE AlertInv'
  BY <1>5, EditKeepsAlerts
<1> QED
  BY <1>1, <1>2, <1>3, <1>4, <1>5 DEF RemindersNext

(* A reminder that was shown for the schedule the event has is not shown       *)
(* again.                                                                      *)
TellsOnce ==
  sending' # Nothing /\ sending' # sending =>
    \/ Shown(sending'.id, sending'.at, sending'.event) \notin notified
    \/ <<sending'.id, sending'.at>> \in forgotten

(* What is shown next was not shown before, or its stamp was lost.           *)
LEMMA NoneIsToldTwice ==
  ASSUME AlertInv, [RemindersNext]_reminderVars
  PROVE  TellsOnce
<1> SUFFICES ASSUME sending' # Nothing, sending' # sending PROVE TellsOnce
  BY DEF TellsOnce
<1>1. PICK o \in todo : DeliverReminder(o)
  <2> USE DEF SkipOccurrence, DeliveryFails, StampFails, AlertdCrash, ChangeEvent, Stamp
  <2> QED
    BY DEF RemindersNext, StartDaemon, BeginPoll, EndPoll, Pass, reminderVars
<1>2. /\ sending' = o /\ sending = Nothing /\ ~AlreadySent(o) /\ events[o.id] = o.event
      /\ o.id \in Events /\ o.event # NotThere
  BY <1>1 DEF DeliverReminder, Deliverable, Unchanged, AlertInv, RowTypes
<1> DEFINE n == Shown(o.id, o.at, o.event)
<1>3. n.id = o.id /\ n.at = o.at /\ n.revision = Revision(o.event)
  BY DEF Shown
<1>4. EventExists(n.id) /\ n.revision = Revision(events[n.id]) /\ ~Stamped(n) /\ ~Sends(n)
  BY <1>2, <1>3 DEF EventExists, Stamped, AlreadySent, Sends
<1> HIDE DEF n
<1>5. n \notin notified \/ <<o.id, o.at>> \in forgotten
  BY <1>3, <1>4 DEF AlertInv, ShownIsStamped
<1> QED
  BY <1>2, <1>5 DEF TellsOnce, n

(* Whatever is edited, fails or crashes between two steps of a poll: a       *)
(* stamp of the schedule an event has now stands for a reminder that was     *)
(* shown, and none is shown twice but one whose stamp was lost.              *)
THEOREM RemindersAreStamped == RemindersInit /\ [][RemindersNext]_reminderVars => []StampsAreTrue /\ NotTwice
<1>1. AlertInv => StampsAreTrue
  BY DEF AlertInv, StampedIsShown, StampsAreTrue
<1>2. AlertInv /\ [RemindersNext]_reminderVars => AlertInv'
  BY AlertsKept
<1>3. AlertInv /\ [RemindersNext]_reminderVars
        => [(sending' # Nothing /\ sending' # sending) =>
              \/ Shown(sending'.id, sending'.at, sending'.event) \notin notified
              \/ <<sending'.id, sending'.at>> \in forgotten]_reminderVars
  BY NoneIsToldTwice DEF TellsOnce
<1> QED
  BY <1>1, <1>2, <1>3, AlertStarts, PTL DEF NotTwice

-----------------------------------------------------------------------------
(* The start of the hints.                                                   *)
Cmds == {"none", "click", "reload", "quit"}
Places == {"new", "look", "probe", "remove", "bind", "load", "up", "gone"}
Requests == [cmd : Cmds, from : Callers]
CallerStates == [at : {"rest", "connect", "retry", "wait"}, cmd : Cmds, then : Seq(Cmds)]

StartTypes ==
  /\ path \in Daemons \cup {NoPath} /\ NoPath \notin Daemons
  /\ hintsd \in [Daemons -> Places] /\ config \in [Daemons -> BOOLEAN] /\ enabled \in BOOLEAN
  /\ backlog \in [Daemons -> Seq(Requests)]
  /\ caller \in [Callers -> CallerStates]

(* As long as no two met, who listens is at the path, and who removes a path  *)
(* is alone.                                                                  *)
TheListenerIsAtThePath ==
  ~met => \A d \in Daemons :
            /\ hintsd[d] \in {"load", "up"} => path = d
            /\ hintsd[d] = "remove" => Looking = {d} /\ Listening = {}

Asked(d) == \E n \in 1..Len(backlog[d]) : backlog[d][n].cmd \in {"reload", "quit"}
WillReload == caller[SettingsApp].at \in {"connect", "retry"} /\ caller[SettingsApp].cmd = "reload"

(* What the daemon at the path does not know of the file is on its way.       *)
TheListenerIsTold == path \in Daemons /\ hintsd[path] = "up" => config[path] = enabled \/ Asked(path) \/ WillReload

StartInv == StartTypes /\ TheListenerIsAtThePath /\ TheListenerIsTold

(* No daemon yet.                                                            *)
LEMMA StartStarts ==
  ASSUME HintsStartInit
  PROVE  StartInv
<1>1. StartTypes
  BY StartAssumption DEF HintsStartInit, StartTypes, Places, CallerStates, Resting, Cmds
<1>2. TheListenerIsAtThePath /\ TheListenerIsTold
  BY DEF HintsStartInit, TheListenerIsAtThePath, TheListenerIsTold
<1> QED
  BY <1>1, <1>2 DEF StartInv

(* What a caller does when a command is through.                             *)
LEMMA NextIsTyped ==
  ASSUME StartTypes, NEW c \in Callers
  PROVE  NextOf(c) \in CallerStates
<1>1. caller[c].then \in Seq(Cmds)
  BY DEF StartTypes, CallerStates
<1>2. CASE caller[c].then = <<>>
  BY <1>2 DEF NextOf, Resting, CallerStates, Cmds
<1>3. CASE caller[c].then # <<>>
  <2>1. Head(caller[c].then) \in Cmds /\ Tail(caller[c].then) \in Seq(Cmds)
    BY <1>1, <1>3
  <2> QED
    BY <1>3, <2>1 DEF NextOf, CallerStates
<1> QED
  BY <1>2, <1>3

(* The callers that were answered go on; a reload that is to be sent stays.  *)
LEMMA ReleasedIsTyped ==
  ASSUME StartTypes, NEW cs, \A c \in cs : caller[c].at = "wait" \/ WillReload = FALSE
  PROVE  /\ Released(cs) \in [Callers -> CallerStates]
         /\ WillReload => Released(cs)[SettingsApp] = caller[SettingsApp]
<1>1. \A c \in Callers : caller[c] \in CallerStates
  BY DEF StartTypes
<1>2. Released(cs) \in [Callers -> CallerStates]
  BY <1>1, NextIsTyped DEF Released
<1>3. WillReload => SettingsApp \notin cs
  BY DEF WillReload
<1>4. SettingsApp \in Callers
  BY DEF Callers
<1> QED
  BY <1>2, <1>3, <1>4 DEF Released

(* acquire_socket.                                                            *)
LEMMA AcquireKeepsStart ==
  ASSUME StartInv, NEW d \in Daemons,
         LookAtPath(d) \/ Probe(d) \/ RemoveStale(d) \/ Bind(d)
  PROVE  StartInv'
<1> USE DEF Goes, DaemonOnly
<1>1. UNCHANGED <<config, backlog, caller, enabled>>
  BY DEF LookAtPath, Probe, RemoveStale, Bind
<1>2. PICK to \in Places : hintsd' = [hintsd EXCEPT ![d] = to]
  BY DEF LookAtPath, Probe, RemoveStale, Bind, Places
<1>3. hintsd' \in [Daemons -> Places] /\ \A e \in Daemons : hintsd'[e] = IF e = d THEN to ELSE hintsd[e]
  BY <1>2 DEF StartInv, StartTypes
<1>4. StartTypes'
  <2>1. path' \in Daemons \cup {NoPath}
    BY DEF LookAtPath, Probe, RemoveStale, Bind, StartInv, StartTypes
  <2> QED
    BY <1>1, <1>3, <2>1 DEF StartInv, StartTypes
<1>5. \A e \in Daemons : hintsd'[e] = "up" => hintsd[e] = "up" /\ path' \in {path, NoPath, d} /\ e # d
  BY <1>3 DEF LookAtPath, Probe, RemoveStale, Bind
<1>6. TheListenerIsTold'
  <2> SUFFICES ASSUME path' \in Daemons, hintsd'[path'] = "up" PROVE TheListenerIsTold'
    BY DEF TheListenerIsTold
  <2>1. path' = path /\ hintsd[path] = "up"
    BY <1>4, <1>5 DEF StartTypes
  <2> QED
    BY <1>1, <2>1 DEF StartInv, TheListenerIsTold, Asked, WillReload
<1>7. TheListenerIsAtThePath'
  <2> SUFFICES ASSUME ~met' PROVE TheListenerIsAtThePath'
    BY DEF TheListenerIsAtThePath
  <2>1. ~met
    BY DEF LookAtPath, Probe, RemoveStale, Bind
  <2>2. \A e \in Daemons : /\ hintsd[e] \in {"load", "up"} => path = e
                           /\ hintsd[e] = "remove" => Looking = {e} /\ Listening = {}
    BY <2>1 DEF StartInv, TheListenerIsAtThePath
  <2>3. CASE LookAtPath(d)
    <3>1. to \in {"bind", "probe"} /\ path' = path /\ hintsd[d] = "look" /\ d \in Looking
      BY <1>3, <2>3 DEF LookAtPath, Looking
    <3>2. \A e \in Daemons : hintsd[e] # "remove"
      BY <2>2, <3>1
    <3> QED
      BY <1>3, <2>2, <3>1, <3>2 DEF TheListenerIsAtThePath
  <2>4. CASE Probe(d)
    <3>1. to = (IF Reached THEN "gone" ELSE "remove") /\ path' = path /\ hintsd[d] = "probe" /\ d \in Looking
      BY <1>3, <2>4 DEF Probe, Looking
    <3>2. \A e \in Daemons : hintsd[e] # "remove"
      BY <2>2, <3>1
    <3>3. ~Reached => Looking = {d} /\ Listening = {}
      BY <2>2, <2>4 DEF Probe, Reached, Listening
    <3>4. ~Reached => Looking' = {d} /\ Listening' = {}
      BY <1>3, <3>1, <3>3 DEF Looking, Listening
    <3> QED
      BY <1>3, <2>2, <3>1, <3>2, <3>4 DEF TheListenerIsAtThePath
  <2>5. CASE RemoveStale(d)
    <3>1. to = "bind" /\ hintsd[d] = "remove"
      BY <1>3, <2>5 DEF RemoveStale
    <3>2. Looking = {d} /\ Listening = {}
      BY <2>2, <3>1
    <3>3. \A e \in Daemons : hintsd'[e] \notin {"load", "up", "remove"}
      BY <1>3, <3>1, <3>2 DEF Looking, Listening
    <3> QED
      BY <3>3 DEF TheListenerIsAtThePath
  <2>6. CASE Bind(d)
    <3>1. /\ to = (IF path = NoPath THEN "load" ELSE "gone") /\ hintsd[d] = "bind" /\ d \in Looking
          /\ path' = IF path = NoPath THEN d ELSE path
      BY <1>3, <2>6 DEF Bind, Looking
    <3>2. \A e \in Daemons : hintsd[e] # "remove"
      BY <2>2, <3>1
    <3>3. path = NoPath => \A e \in Daemons : hintsd[e] \notin {"load", "up"}
      BY <2>2 DEF StartInv, StartTypes
    <3> QED
      BY <1>3, <2>2, <3>1, <3>2, <3>3 DEF TheListenerIsAtThePath
  <2> QED
    BY <2>3, <2>4, <2>5, <2>6
<1> QED
  BY <1>4, <1>6, <1>7 DEF StartInv

(* A daemon reads its configuration, dies, or answers.                        *)
LEMMA DaemonsKeepStart ==
  ASSUME StartInv, NEW d \in Daemons, Load(d) \/ DaemonDies(d) \/ Serve(d)
  PROVE  StartInv'
<1>1. UNCHANGED <<path, enabled, met>>
  BY DEF Load, DaemonDies, Serve
<1>2. /\ \A e \in Daemons : backlog[e] \in Seq(Requests)
      /\ backlog = [e \in Daemons |-> backlog[e]] /\ hintsd = [e \in Daemons |-> hintsd[e]]
      /\ config = [e \in Daemons |-> config[e]]
  BY DEF StartInv, StartTypes
<1>3. PICK to \in {"up", "gone"} : /\ hintsd[d] \in {"load", "up"} /\ hintsd' \in [Daemons -> Places]
                                   /\ \A e \in Daemons : hintsd'[e] = IF e = d THEN to ELSE hintsd[e]
  <2>1. CASE Load(d)
    BY <2>1 DEF Load, Goes, StartInv, StartTypes, Places
  <2>2. CASE DaemonDies(d)
    BY <2>2 DEF DaemonDies, StartInv, StartTypes, Places
  <2>3. CASE Serve(d)
    BY <2>3 DEF Serve, StartInv, StartTypes, Places
  <2> QED
    BY <2>1, <2>2, <2>3
<1>4. TheListenerIsAtThePath'
  <2> SUFFICES ASSUME ~met PROVE TheListenerIsAtThePath'
    BY <1>1 DEF TheListenerIsAtThePath
  <2>1. \A e \in Daemons : hintsd[e] # "remove" /\ (hintsd[e] \in {"load", "up"} => path = e)
    BY <1>3 DEF StartInv, TheListenerIsAtThePath, Listening
  <2> QED
    BY <1>1, <1>3, <2>1 DEF TheListenerIsAtThePath
<1>5. /\ caller' \in [Callers -> CallerStates]
      /\ WillReload => WillReload'
  <2>1. CASE Load(d)
    BY <2>1 DEF Load, WillReload, StartInv, StartTypes
  <2>2. ASSUME NEW cs, \A c \in cs : caller[c].at = "wait", caller' = Released(cs)
        PROVE  caller' \in [Callers -> CallerStates] /\ (WillReload => WillReload')
    BY <2>2, ReleasedIsTyped DEF StartInv, WillReload
  <2>3. CASE DaemonDies(d)
    <3>1. caller' = Released(Waiters(d)) /\ \A c \in Waiters(d) : caller[c].at = "wait"
      BY <2>3 DEF DaemonDies, Waiters
    <3> QED
      BY <2>2, <3>1
  <2>4. CASE Serve(d)
    <3>1. PICK cs : caller' = Released(cs) /\ \A c \in cs : caller[c].at = "wait"
      <4>1. \A c \in Waiters(d) : caller[c].at = "wait"
        BY DEF Waiters
      <4>2. \A r : \A c \in {q \in {r} : caller[q].at = "wait"} : caller[c].at = "wait"
        OBVIOUS
      <4>3. \/ caller' = Released(Waiters(d))
            \/ caller' = Released({q \in {Head(backlog[d]).from} : caller[q].at = "wait"})
        BY <2>4 DEF Serve
      <4> QED
        BY <4>1, <4>2, <4>3
    <3> QED
      BY <2>2, <3>1
  <2> QED
    BY <2>1, <2>3, <2>4
<1>6. /\ backlog' \in [Daemons -> Seq(Requests)] /\ config' \in [Daemons -> BOOLEAN]
      /\ \A e \in Daemons \ {d} : backlog'[e] = backlog[e] /\ config'[e] = config[e]
      /\ to = "up" => config'[d] = enabled \/ (config'[d] = config[d] /\ (Asked(d) => Asked(d)') /\ hintsd[d] = "up")
  <2>1. CASE Load(d)
    BY <1>2, <2>1 DEF Load, StartInv, StartTypes
  <2>2. CASE DaemonDies(d)
    <3>1. backlog' = [backlog EXCEPT ![d] = <<>>] /\ config' = config /\ hintsd' = [hintsd EXCEPT ![d] = "gone"]
      BY <2>2 DEF DaemonDies
    <3>2. <<>> \in Seq(Requests)
      OBVIOUS
    <3>3. to = "gone"
      BY <1>2, <1>3, <3>1
    <3> QED
      BY <1>2, <3>1, <3>2, <3>3 DEF StartInv, StartTypes
  <2>3. CASE Serve(d)
    <3> DEFINE h == Head(backlog[d])
    <3>1. /\ hintsd[d] = "up" /\ backlog[d] # <<>>
          /\ config' = IF h.cmd = "reload" THEN [config EXCEPT ![d] = enabled] ELSE config
          /\ hintsd' = IF h.cmd = "quit" THEN [hintsd EXCEPT ![d] = "gone"] ELSE hintsd
          /\ backlog' = [backlog EXCEPT ![d] = IF h.cmd = "quit" THEN <<>> ELSE Tail(backlog[d])]
      BY <2>3 DEF Serve
    <3>2. <<>> \in Seq(Requests) /\ Tail(backlog[d]) \in Seq(Requests)
      BY <1>2, <3>1
    <3>3. backlog' \in [Daemons -> Seq(Requests)] /\ config' \in [Daemons -> BOOLEAN]
      BY <1>2, <3>1, <3>2 DEF StartInv, StartTypes
    <3>4. \A e \in Daemons \ {d} : backlog'[e] = backlog[e] /\ config'[e] = config[e]
      BY <1>2, <3>1
    <3>5. CASE h.cmd = "quit"
      BY <1>2, <1>3, <3>1, <3>3, <3>4, <3>5
    <3>6. CASE h.cmd = "reload"
      BY <1>2, <3>1, <3>3, <3>4, <3>6
    <3>7. CASE h.cmd \notin {"quit", "reload"}
      <4>1. config' = config /\ backlog'[d] = Tail(backlog[d])
        BY <1>2, <3>1, <3>7
      <4>2. ASSUME Asked(d) PROVE Asked(d)'
        <5>1. PICK n \in 1..Len(backlog[d]) : backlog[d][n].cmd \in {"reload", "quit"}
          BY <4>2 DEF Asked
        <5>2. n # 1
          BY <1>2, <3>1, <3>7, <5>1
        <5>3. n - 1 \in 1..Len(backlog'[d]) /\ backlog'[d][n - 1] = backlog[d][n]
          BY <1>2, <3>1, <4>1, <5>1, <5>2
        <5> QED
          BY <5>1, <5>3 DEF Asked
      <4> QED
        BY <3>1, <3>3, <3>4, <4>1, <4>2
    <3> QED
      BY <3>5, <3>6, <3>7
  <2> QED
    BY <2>1, <2>2, <2>3
<1>7. StartTypes'
  BY <1>1, <1>3, <1>5, <1>6 DEF StartInv, StartTypes
<1>8. TheListenerIsTold'
  <2> SUFFICES ASSUME path \in Daemons, hintsd'[path] = "up"
               PROVE  config'[path] = enabled \/ Asked(path)' \/ WillReload'
    BY <1>1 DEF TheListenerIsTold, Asked
  <2>1. CASE path = d
    BY <1>1, <1>3, <1>5, <1>6, <2>1 DEF StartInv, TheListenerIsTold, Asked
  <2>2. CASE path # d
    <3>1. hintsd[path] = "up" /\ config'[path] = config[path] /\ backlog'[path] = backlog[path]
      BY <1>3, <1>6, <2>2
    <3>2. Asked(path) => Asked(path)'
      BY <1>1, <3>1 DEF Asked
    <3> QED
      BY <1>5, <3>1, <3>2 DEF StartInv, TheListenerIsTold
  <2> QED
    BY <2>1, <2>2
<1> QED
  BY <1>4, <1>7, <1>8 DEF StartInv

(* A caller sends, gives up, or begins.                                       *)
LEMMA CallersKeepStart ==
  ASSUME StartInv, NEW c \in Callers,
         TryConnect(c) \/ Retry(c) \/ GiveUp(c) \/ Run(c) \/ (c = SettingsApp /\ SetEnabled)
  PROVE  StartInv'
<1>1. /\ \A e \in Daemons : backlog[e] \in Seq(Requests)
      /\ backlog = [e \in Daemons |-> backlog[e]] /\ hintsd = [e \in Daemons |-> hintsd[e]]
      /\ caller = [q \in Callers |-> caller[q]] /\ \A q \in Callers : caller[q] \in CallerStates
      /\ SettingsApp \in Callers
  BY DEF StartInv, StartTypes, Callers
<1>2. ASSUME Reached, Send(c), caller[c].at \in {"connect", "retry"} PROVE StartInv'
  <2> DEFINE request == [cmd |-> caller[c].cmd, from |-> c]
  <2>1. /\ UNCHANGED <<path, hintsd, config, enabled, met>> /\ path \in Daemons
        /\ backlog' = [backlog EXCEPT ![path] = Append(@, request)]
        /\ caller' = [caller EXCEPT ![c].at = "wait"]
    BY <1>2 DEF Send, Reached, Listening
  <2>2. request \in Requests /\ request.cmd = caller[c].cmd
    BY <1>1 DEF CallerStates, Requests
  <2> HIDE DEF request
  <2>3. /\ backlog' \in [Daemons -> Seq(Requests)] /\ backlog'[path] = Append(backlog[path], request)
    BY <1>1, <2>1, <2>2
  <2>4. caller' \in [Callers -> CallerStates] /\ \A q \in Callers \ {c} : caller'[q] = caller[q]
    BY <1>1, <2>1 DEF CallerStates
  <2>5. Asked(path) \/ request.cmd = "reload" => Asked(path)'
    <3>1. Len(backlog'[path]) = Len(backlog[path]) + 1 /\ Len(backlog[path]) \in Nat
          /\ backlog'[path][Len(backlog[path]) + 1] = request
          /\ \A n \in 1..Len(backlog[path]) : backlog'[path][n] = backlog[path][n]
      BY <1>1, <2>1, <2>2, <2>3
    <3> QED
      BY <2>1, <3>1 DEF Asked
  <2>6. StartTypes'
    BY <2>1, <2>3, <2>4 DEF StartInv, StartTypes
  <2>7. TheListenerIsAtThePath'
    BY <2>1 DEF StartInv, TheListenerIsAtThePath, Looking, Listening
  <2>8. TheListenerIsTold'
    <3>1. WillReload => WillReload' \/ request.cmd = "reload"
      BY <1>1, <2>2, <2>4 DEF WillReload
    <3> QED
      BY <2>1, <2>5, <3>1 DEF StartInv, TheListenerIsTold
  <2> QED
    BY <2>6, <2>7, <2>8 DEF StartInv
<1>3. CASE TryConnect(c) /\ Reached
  BY <1>2, <1>3 DEF TryConnect
<1>4. CASE Retry(c)
  BY <1>2, <1>4 DEF Retry
<1>5. CASE TryConnect(c) /\ ~Reached
  <2>1. PICK d \in New : hintsd[d] = "new" /\ hintsd' = [hintsd EXCEPT ![d] = "look"]
    BY <1>5 DEF TryConnect, Goes
  <2>2. /\ UNCHANGED <<path, config, backlog, enabled>> /\ d \in Daemons
        /\ met' = (met \/ \E e \in Daemons : hintsd[e] = "remove")
        /\ caller' = [caller EXCEPT ![c].at = "retry"] /\ caller[c].at = "connect"
    BY <1>5, <2>1 DEF TryConnect, New
  <2>3. hintsd' \in [Daemons -> Places] /\ \A e \in Daemons : hintsd'[e] = IF e = d THEN "look" ELSE hintsd[e]
    BY <2>1, <2>2 DEF StartInv, StartTypes, Places
  <2>4. caller' \in [Callers -> CallerStates] /\ (WillReload => WillReload')
    BY <1>1, <2>2 DEF CallerStates, WillReload
  <2>5. StartTypes'
    BY <2>2, <2>3, <2>4 DEF StartInv, StartTypes
  <2>6. TheListenerIsAtThePath'
    BY <2>2, <2>3 DEF StartInv, TheListenerIsAtThePath
  <2>7. TheListenerIsTold'
    <3>1. path \in Daemons /\ hintsd'[path] = "up" => hintsd[path] = "up"
      BY <2>3
    <3> QED
      BY <2>2, <2>4, <3>1 DEF StartInv, TheListenerIsTold, Asked
  <2> QED
    BY <2>5, <2>6, <2>7 DEF StartInv
<1>6. CASE GiveUp(c)
  <2>1. UNCHANGED <<path, hintsd, config, backlog, enabled, met>> /\ caller' = Released({c})
    BY <1>6 DEF GiveUp
  <2>2. \A q \in Callers : caller'[q] = IF q = c THEN NextOf(c) ELSE caller[q]
    BY <2>1 DEF Released
  <2>3. caller' \in [Callers -> CallerStates]
    BY <1>1, <2>1, NextIsTyped DEF Released, StartInv
  <2>4. StartTypes' /\ TheListenerIsAtThePath'
    BY <2>1, <2>3 DEF StartInv, StartTypes, TheListenerIsAtThePath, Looking, Listening
  <2>5. ASSUME path \in Daemons, hintsd[path] = "up", WillReload PROVE WillReload'
    <3>1. Reached
      BY <2>5 DEF Reached, Listening
    <3>2. c # SettingsApp
      BY <1>6, <2>5, <3>1 DEF GiveUp, WillReload
    <3> QED
      BY <1>1, <2>2, <2>5, <3>2 DEF WillReload
  <2>6. TheListenerIsTold'
    BY <2>1, <2>5 DEF StartInv, TheListenerIsTold, Asked
  <2> QED
    BY <2>4, <2>6 DEF StartInv
<1>7. ASSUME NEW cmds \in Seq(Cmds), cmds # <<>>, Calls(c, cmds), UNCHANGED <<path, hintsd, config, backlog, met>>,
             enabled' \in BOOLEAN, enabled' = enabled \/ (c = SettingsApp /\ Head(cmds) = "reload")
      PROVE  StartInv'
  <2>1. Head(cmds) \in Cmds /\ Tail(cmds) \in Seq(Cmds)
    BY <1>7
  <2>2. caller[c] = Resting /\ caller' = [caller EXCEPT ![c] = [at |-> "connect", cmd |-> Head(cmds), then |-> Tail(cmds)]]
    BY <1>7 DEF Calls
  <2>3. caller' \in [Callers -> CallerStates]
    BY <1>1, <2>1, <2>2 DEF CallerStates
  <2>4. StartTypes' /\ TheListenerIsAtThePath'
    BY <1>7, <2>3 DEF StartInv, StartTypes, TheListenerIsAtThePath, Looking, Listening
  <2>5. WillReload => WillReload'
    BY <1>1, <2>2 DEF WillReload, Resting
  <2>6. c = SettingsApp /\ Head(cmds) = "reload" => WillReload'
    BY <1>1, <2>2 DEF WillReload
  <2>7. TheListenerIsTold'
    BY <1>7, <2>5, <2>6 DEF StartInv, TheListenerIsTold, Asked
  <2> QED
    BY <2>4, <2>7 DEF StartInv
<1>8. CASE Run(c)
  <2>1. PICK cmd \in {"click", "reload", "quit"} : Calls(c, <<cmd>>)
    BY <1>8 DEF Run
  <2>2. <<cmd>> \in Seq(Cmds) /\ <<cmd>> # <<>>
    BY DEF Cmds
  <2>3. UNCHANGED <<path, hintsd, config, backlog, met, enabled>> /\ enabled \in BOOLEAN
    BY <1>8 DEF Run, StartInv, StartTypes
  <2> QED
    BY <1>7, <2>1, <2>2, <2>3
<1>9. CASE c = SettingsApp /\ SetEnabled
  <2>1. PICK value \in BOOLEAN : /\ enabled' = value
                                 /\ Calls(SettingsApp, IF value THEN <<"reload">> ELSE <<"reload", "quit">>)
    BY <1>9 DEF SetEnabled
  <2>2. PICK cmds \in {<<"reload">>, <<"reload", "quit">>} : Calls(SettingsApp, cmds)
    BY <2>1
  <2>3. cmds \in Seq(Cmds) /\ cmds # <<>> /\ Head(cmds) = "reload"
    <3>1. "reload" \in Cmds /\ "quit" \in Cmds
      BY DEF Cmds
    <3>2. CASE cmds = <<"reload">>
      BY <3>1, <3>2
    <3>3. CASE cmds = <<"reload", "quit">>
      BY <3>1, <3>3
    <3> QED
      BY <3>2, <3>3
  <2>4. UNCHANGED <<path, hintsd, config, backlog, met>>
    BY <1>9 DEF SetEnabled
  <2> QED
    BY <1>7, <1>9, <2>1, <2>2, <2>3, <2>4
<1> QED
  BY <1>3, <1>4, <1>5, <1>6, <1>8, <1>9

(* Every step of the start of the hints.                                     *)
LEMMA StartKept ==
  ASSUME StartInv, [HintsStartNext]_startVars
  PROVE  StartInv'
<1>1. ASSUME UNCHANGED startVars PROVE StartInv'
  BY <1>1 DEF startVars, StartInv, StartTypes, TheListenerIsAtThePath, Looking, Listening, TheListenerIsTold, Asked,
              WillReload
<1>2. SettingsApp \in Callers /\ Shells \subseteq Callers
  BY DEF Callers
<1> QED
  BY <1>1, <1>2, AcquireKeepsStart, DaemonsKeepStart, CallersKeepStart DEF HintsStartNext

(* For any number of daemons and callers, whoever dies or gives up: one      *)
(* daemon listens, unless two met at a path that was left behind; and once   *)
(* Settings is through, the daemon at the path knows whether hints are       *)
(* enabled, or has it in its backlog.                                        *)
THEOREM OneDaemonKnows ==
  HintsStartInit /\ [][HintsStartNext]_startVars => [](OneDaemonUnlessTheyMet /\ DaemonKnowsTheSetting)
<1>1. ASSUME StartInv PROVE OneDaemonUnlessTheyMet /\ DaemonKnowsTheSetting
  <2>1. ASSUME ~met PROVE Cardinality(Listening) <= 1
    <3>1. Listening \subseteq {path}
      BY <1>1, <2>1 DEF StartInv, TheListenerIsAtThePath, Listening
    <3>2. IsFiniteSet({path}) /\ Cardinality({path}) = 1
      BY FS_Singleton
    <3>3. Cardinality(Listening) <= Cardinality({path})
      BY <3>1, <3>2, FS_Subset
    <3> QED
      BY <3>2, <3>3
  <2>2. DaemonKnowsTheSetting
    <3> SUFFICES ASSUME caller[SettingsApp] = Resting, path \in Daemons, hintsd[path] = "up",
                        ~\E n \in DOMAIN backlog[path] : backlog[path][n].cmd \in {"reload", "quit"}
                 PROVE  config[path] = enabled
      BY DEF DaemonKnowsTheSetting
    <3>1. DOMAIN backlog[path] = 1..Len(backlog[path])
      BY <1>1 DEF StartInv, StartTypes
    <3>2. ~Asked(path) /\ ~WillReload
      BY <3>1 DEF Asked, WillReload, Resting
    <3> QED
      BY <1>1, <3>2 DEF StartInv, TheListenerIsTold
  <2> QED
    BY <2>1, <2>2 DEF OneDaemonUnlessTheyMet, OneDaemon
<1>2. StartInv /\ [HintsStartNext]_startVars => StartInv'
  BY StartKept
<1>3. HintsStartInit => StartInv
  BY StartStarts
<1> QED
  BY <1>1, <1>2, <1>3, PTL

-----------------------------------------------------------------------------
(* The settings that are files. The last choice of a setting waits, is being   *)
(* saved, or is on disk; and what waits is saved over what is on disk.         *)
Chosen == Settings \X Values
Files == [Settings -> Values]
FileStages == {"read", "compare", "rename", "unchanged", "apply", "applied"}
SaveStages == FileStages \cup {"set", "snapshot", "deliver"}
Reads == UNION {[some -> Values] : some \in SUBSET Settings}
Workers == [stage : SaveStages, base : Files, ok : BOOLEAN, void : BOOLEAN, saw : Reads]

(* A whole file is one of the reads.                                         *)
LEMMA FilesAreReads == Files \subseteq Reads
  BY Settings \in SUBSET Settings DEF Files, Reads


QueueTypes ==
  /\ page \in {"power", "taskbar"}
  /\ running \in Chosen \cup {<<>>, Refresh} /\ pendingSaves \in Seq(Chosen)
  /\ running = <<>> => pendingSaves = <<>> /\ worker = NoWorker
  /\ running # <<>> => worker \in Workers
  /\ worker.stage \in FileStages => running \in Chosen /\ running[1] # "profile"
  /\ worker.stage = "set" => running \in Chosen /\ running[1] = "profile"
  /\ page = "taskbar" => \A i, j \in 1..Len(pendingSaves) : pendingSaves[i][1] = pendingSaves[j][1] => i = j

SavesTypes ==
  /\ stored \in Files /\ pageLoaded \in Files /\ panel \in [Settings -> Values \cup {None}]
  /\ wanted \in [Settings -> Values \cup {None}] /\ told \subseteq Settings /\ prefEvents \in Nat
  /\ raced \in BOOLEAN /\ unread \in BOOLEAN /\ hushed \in BOOLEAN

HasFor(waits, s) == \E i \in 1..Len(waits) : waits[i][1] = s
LastFor(waits, s, v) == \E i \in 1..Len(waits) : waits[i] = <<s, v>> /\ \A j \in (i + 1)..Len(waits) : waits[j][1] # s

Saves(s) == running \in Chosen /\ running[1] = s
Settled(s) == ~HasFor(pendingSaves, s) /\ ~Saves(s)

WorkIsAsIs ==
  /\ worker.stage = "rename" /\ ~raced => worker.base = stored
  /\ worker.stage = "deliver" /\ ~unread => \A s \in DOMAIN worker.saw : worker.saw[s] = stored[s]
  /\ running \in Chosen /\ ~worker.void =>
       /\ worker.stage \in {"applied", "snapshot", "deliver"} /\ worker.ok => pageLoaded[Setting] = running[2]
       /\ worker.stage \in {"unchanged", "apply", "applied", "snapshot", "deliver"} => stored[Setting] = running[2]

LastIsKept ==
  \A s \in Settings : wanted[s] # None =>
    \/ LastFor(pendingSaves, s, wanted[s])
    \/ ~HasFor(pendingSaves, s) /\ running = <<s, wanted[s]>> /\ ~worker.void
    \/ /\ Settled(s) /\ stored[s] = wanted[s]
       /\ worker.stage = "rename" => worker.base[s] = wanted[s]
       /\ s \notin told /\ ~hushed => pageLoaded[s] = wanted[s]

PrefInv == QueueTypes /\ SavesTypes /\ WorkIsAsIs /\ LastIsKept /\ ShowsTheFile

(* The waits of the choices.                                                 *)
OnePerSetting(waits) == \A i, j \in 1..Len(waits) : waits[i][1] = waits[j][1] => i = j

(* What is before in the waits stays where it is.                            *)
Keeps(waits, next, s) ==
  /\ HasFor(next, s) => HasFor(waits, s)
  /\ \A v : LastFor(waits, s, v) => LastFor(next, s, v)

(* What is appended is its setting's last choice, and others keep theirs.    *)
LEMMA AppendIsLast ==
  ASSUME NEW waits \in Seq(Chosen), NEW s \in Settings, NEW v \in Values
  PROVE  LET next == Append(waits, <<s, v>>) IN
         /\ next \in Seq(Chosen) /\ LastFor(next, s, v)
         /\ \A t \in Settings \ {s} : Keeps(waits, next, t)
         /\ OnePerSetting(waits) /\ ~HasFor(waits, s) => OnePerSetting(next)
<1> DEFINE next == Append(waits, <<s, v>>)
           n == Len(waits)
           choice == <<s, v>>
<1>1. choice \in Chosen /\ choice[1] = s
  BY DEF Chosen
<1> HIDE DEF choice
<1>2. /\ next \in Seq(Chosen) /\ Len(next) = n + 1 /\ n \in Nat /\ next[n + 1] = choice
      /\ \A i \in 1..n : next[i] = waits[i]
  BY <1>1, AppendProperties DEF choice
<1> HIDE DEF next, n
<1>3. LastFor(next, s, v)
  BY <1>2 DEF LastFor, choice
<1>4. ASSUME NEW t \in Settings \ {s} PROVE Keeps(waits, next, t)
  <2>1. HasFor(next, t) => HasFor(waits, t)
    BY <1>1, <1>2 DEF HasFor, n
  <2>2. ASSUME NEW w, LastFor(waits, t, w) PROVE LastFor(next, t, w)
    <3>1. PICK i \in 1..n : waits[i] = <<t, w>> /\ \A j \in (i + 1)..n : waits[j][1] # t
      BY <2>2 DEF LastFor, n
    <3>2. i \in 1..Len(next) /\ next[i] = <<t, w>> /\ \A j \in (i + 1)..Len(next) : next[j][1] # t
      BY <1>1, <1>2, <3>1
    <3> QED
      BY <3>2 DEF LastFor
  <2> QED
    BY <2>1, <2>2 DEF Keeps
<1>5. OnePerSetting(waits) /\ ~HasFor(waits, s) => OnePerSetting(next)
  BY <1>1, <1>2 DEF OnePerSetting, HasFor, n
<1> QED
  BY <1>2, <1>3, <1>4, <1>5 DEF next

(* A queue without what waits for a setting: the others keep their last      *)
(* choice.                                                                   *)
LEMMA WithoutTakesOne ==
  ASSUME NEW waits \in Seq(Chosen), OnePerSetting(waits), NEW s \in Settings
  PROVE  /\ Without(waits, s) \in Seq(Chosen) /\ OnePerSetting(Without(waits, s)) /\ ~HasFor(Without(waits, s), s)
         /\ \A t \in Settings \ {s} : Keeps(waits, Without(waits, s), t)
<1> DEFINE at == {i \in 1..Len(waits) : waits[i][1] = s}
           n == Len(waits)
<1>1. CASE at = {}
  <2>1. Without(waits, s) = waits
    BY <1>1 DEF Without
  <2> QED
    BY <1>1, <2>1 DEF HasFor, Keeps
<1>2. CASE at # {}
  <2> DEFINE k == CHOOSE i \in at : TRUE
             next == RemoveAt(waits, k)
  <2>1. k \in 1..n /\ waits[k][1] = s /\ n \in Nat /\ Without(waits, s) = next
    BY <1>2 DEF Without
  <2> HIDE DEF k
  <2>2. \A i \in 1..n : waits[i] \in Chosen
    OBVIOUS
  <2>3. /\ SubSeq(waits, 1, k - 1) \in Seq(Chosen) /\ Len(SubSeq(waits, 1, k - 1)) = k - 1
        /\ \A i \in 1..(k - 1) : SubSeq(waits, 1, k - 1)[i] = waits[i]
    BY <2>1, <2>2
  <2>4. /\ SubSeq(waits, k + 1, n) \in Seq(Chosen) /\ Len(SubSeq(waits, k + 1, n)) = n - k
        /\ \A i \in 1..(n - k) : SubSeq(waits, k + 1, n)[i] = waits[k + i]
    <3>1. \A i \in (k + 1)..n : waits[i] \in Chosen
      BY <2>1, <2>2
    <3>2. k + 1 \in Int /\ n \in Int
      BY <2>1
    <3> HIDE DEF n
    <3>3. /\ SubSeq(waits, k + 1, n) \in Seq(Chosen)
          /\ Len(SubSeq(waits, k + 1, n)) = IF k + 1 <= n THEN n - (k + 1) + 1 ELSE 0
          /\ \A i \in 1..(n - (k + 1) + 1) : SubSeq(waits, k + 1, n)[i] = waits[k + 1 + i - 1]
      BY <3>1, <3>2, SubSeqProperties
    <3> QED
      BY <2>1, <3>3
  <2> HIDE DEF n
  <2> DEFINE a == SubSeq(waits, 1, k - 1)
             b == SubSeq(waits, k + 1, n)
  <2>c. next = a \o b
    BY DEF RemoveAt, n
  <2> HIDE DEF next, a, b
  <2>d. /\ a \o b \in Seq(Chosen) /\ Len(a \o b) = Len(a) + Len(b)
        /\ \A i \in 1..(Len(a) + Len(b)) : (a \o b)[i] = IF i <= Len(a) THEN a[i] ELSE b[i - Len(a)]
    BY <2>3, <2>4, ConcatProperties DEF a, b
  <2>5. next \in Seq(Chosen) /\ Len(next) = n - 1
    BY <2>1, <2>3, <2>4, <2>c, <2>d DEF a, b
  <2>6. \A i \in 1..(n - 1) : next[i] = waits[IF i < k THEN i ELSE i + 1]
    <3>1. \A i \in 1..(n - 1) : next[i] = IF i <= k - 1 THEN a[i] ELSE b[i - (k - 1)]
      <4>1. Len(a) = k - 1 /\ Len(b) = n - k
        BY <2>3, <2>4 DEF a, b
      <4>2. \A i \in 1..(n - 1) : i \in 1..(Len(a) + Len(b))
        BY <2>1, <4>1
      <4> QED
        BY <2>c, <2>d, <4>1, <4>2
    <3> SUFFICES ASSUME NEW i \in 1..(n - 1) PROVE next[i] = waits[IF i < k THEN i ELSE i + 1]
      OBVIOUS
    <3>2. CASE i < k
      BY <2>1, <2>3, <3>1, <3>2 DEF a
    <3>3. CASE ~(i < k)
      <4>1. i - (k - 1) \in 1..(n - k) /\ k + (i - (k - 1)) = i + 1
        BY <2>1, <3>3
      <4>2. next[i] = b[i - (k - 1)]
        BY <2>1, <3>1, <3>3
      <4> QED
        BY <2>4, <3>3, <4>1, <4>2 DEF b
    <3> QED
      BY <3>2, <3>3
  <2>7. \A i \in 1..n : i # k => waits[i][1] # s
    BY <2>1 DEF OnePerSetting, n
  <2>8. OnePerSetting(next) /\ ~HasFor(next, s)
    <3>1. ASSUME NEW i \in 1..(n - 1)
          PROVE  \E m \in 1..n : next[i] = waits[m] /\ m # k /\ m = IF i < k THEN i ELSE i + 1
      BY <2>1, <2>6, <3>1
    <3>2. ~HasFor(next, s)
      BY <2>5, <2>7, <3>1 DEF HasFor
    <3>3. ASSUME NEW i \in 1..(n - 1), NEW j \in 1..(n - 1), next[i][1] = next[j][1] PROVE i = j
      <4>1. PICK x \in 1..n : next[i] = waits[x] /\ x = IF i < k THEN i ELSE i + 1
        BY <3>1
      <4>2. PICK y \in 1..n : next[j] = waits[y] /\ y = IF j < k THEN j ELSE j + 1
        BY <3>1
      <4>3. x = y
        BY <3>3, <4>1, <4>2 DEF OnePerSetting, n
      <4> QED
        BY <2>1, <4>1, <4>2, <4>3
    <3> QED
      BY <2>5, <3>2, <3>3 DEF OnePerSetting
  <2>9. ASSUME NEW t \in Settings \ {s} PROVE Keeps(waits, next, t)
    <3>1. HasFor(next, t) => HasFor(waits, t)
      BY <2>1, <2>5, <2>6 DEF HasFor, n
    <3>2. ASSUME NEW w, LastFor(waits, t, w) PROVE LastFor(next, t, w)
      <4>1. PICK i \in 1..n : waits[i] = <<t, w>> /\ \A j \in (i + 1)..n : waits[j][1] # t
        BY <3>2 DEF LastFor, n
      <4>2. i # k
        BY <2>1, <4>1
      <4> DEFINE m == IF i < k THEN i ELSE i - 1
      <4>3. m \in 1..Len(next) /\ next[m] = <<t, w>>
        BY <2>1, <2>5, <2>6, <4>1, <4>2
      <4>4. \A j \in (m + 1)..Len(next) : next[j][1] # t
        <5> SUFFICES ASSUME NEW j \in (m + 1)..Len(next) PROVE next[j][1] # t
          OBVIOUS
        <5>1. CASE j < k
          <6>1. next[j] = waits[j] /\ j \in (i + 1)..n
            BY <2>1, <2>5, <2>6, <4>1, <4>2, <4>3, <5>1
          <6> QED
            BY <4>1, <6>1
        <5>2. CASE ~(j < k)
          <6>1. next[j] = waits[j + 1] /\ j + 1 \in (i + 1)..n
            BY <2>1, <2>5, <2>6, <4>1, <4>2, <4>3, <5>2
          <6> QED
            BY <4>1, <6>1
        <5> QED
          BY <5>1, <5>2
      <4> HIDE DEF m
      <4> QED
        BY <4>3, <4>4 DEF LastFor
    <3> QED
      BY <3>1, <3>2 DEF Keeps
  <2> QED
    BY <2>1, <2>5, <2>8, <2>9
<1> QED
  BY <1>1, <1>2

(* A queue without its first: its choice was the last, or the last still     *)
(* waits.                                                                    *)
LEMMA TailIsLast ==
  ASSUME NEW waits \in Seq(Chosen), waits # <<>>
  PROVE  /\ Head(waits) \in Chosen /\ Tail(waits) \in Seq(Chosen)
         /\ OnePerSetting(waits) => OnePerSetting(Tail(waits))
         /\ \A s \in Settings :
              /\ ~HasFor(waits, s) => ~HasFor(Tail(waits), s) /\ Head(waits)[1] # s
              /\ \A v : LastFor(waits, s, v) =>
                     LastFor(Tail(waits), s, v) \/ (Head(waits) = <<s, v>> /\ ~HasFor(Tail(waits), s))
<1> DEFINE next == Tail(waits)
           n == Len(waits)
<1>1. /\ n \in Nat \ {0} /\ next \in Seq(Chosen) /\ Len(next) = n - 1 /\ Head(waits) = waits[1] /\ waits[1] \in Chosen
      /\ \A i \in 1..(n - 1) : next[i] = waits[i + 1]
  BY HeadTailProperties
<1> HIDE DEF next, n
<1>2. OnePerSetting(waits) => OnePerSetting(next)
  BY <1>1 DEF OnePerSetting, n
<1>3. ASSUME NEW s \in Settings, ~HasFor(waits, s) PROVE ~HasFor(next, s) /\ waits[1][1] # s
  BY <1>1, <1>3 DEF HasFor, n
<1>4. ASSUME NEW s \in Settings, NEW v, LastFor(waits, s, v), Head(waits) # <<s, v>> \/ HasFor(next, s)
      PROVE  LastFor(next, s, v)
  <2>1. PICK i \in 1..n : waits[i] = <<s, v>> /\ \A j \in (i + 1)..n : waits[j][1] # s
    BY <1>4 DEF LastFor, n
  <2>2. i # 1
    BY <1>1, <1>4, <2>1 DEF HasFor
  <2>3. i - 1 \in 1..Len(next) /\ next[i - 1] = <<s, v>>
    BY <1>1, <2>1, <2>2
  <2>4. ASSUME NEW j \in ((i - 1) + 1)..Len(next) PROVE next[j][1] # s
    <3>1. j \in 1..(n - 1) /\ j + 1 \in (i + 1)..n
      BY <1>1, <2>1
    <3> QED
      BY <1>1, <2>1, <3>1
  <2> QED
    BY <2>3, <2>4 DEF LastFor
<1> QED
  BY <1>1, <1>2, <1>3, <1>4 DEF next

(* What enqueue does with a choice.                                           *)
LEMMA EnqueueTakes ==
  ASSUME QueueTypes, stored \in Files, UNCHANGED page, NEW s \in Settings, NEW v \in Values, Enqueue(<<s, v>>)
  PROVE  /\ QueueTypes'
         /\ \/ /\ running = <<>> /\ running' = <<s, v>> /\ worker' = Work(<<s, v>>) /\ pendingSaves = <<>>
               /\ pendingSaves' = <<>>
            \/ /\ running # <<>> /\ UNCHANGED <<running, worker>>
               /\ \A t \in Settings \ {s} : Keeps(pendingSaves, pendingSaves', t)
               /\ LastFor(pendingSaves', s, v) \/ (running = <<s, v>> /\ ~HasFor(pendingSaves', s))
<1> DEFINE choice == <<s, v>>
<1>1. choice \in Chosen /\ choice[1] = s /\ Sets(choice) /\ choice # Refresh /\ choice # <<>>
  BY DEF Chosen, Sets, Refresh
<1>2. CASE running = <<>>
  <2>1. running' = choice /\ worker' = Work(choice) /\ pendingSaves' = pendingSaves /\ pendingSaves = <<>>
    BY <1>2 DEF Enqueue, QueueTypes
  <2> HIDE DEF choice
  <2>2. worker' \in Workers /\ worker'.stage = IF s = "profile" THEN "set" ELSE "read"
    BY <1>1, <2>1, FilesAreReads DEF Work, Workers, SaveStages, FileStages
  <2>3. QueueTypes'
    BY <1>1, <2>1, <2>2 DEF QueueTypes, FileStages
  <2> QED
    BY <1>2, <2>1, <2>3 DEF choice
<1>3. CASE running # <<>>
  <2> DEFINE next == pendingSaves'
  <2>1. /\ UNCHANGED <<running, worker>>
        /\ next = IF page = "power" THEN PowerTakes(choice) ELSE TaskbarTakes(choice)
    BY <1>1, <1>3 DEF Enqueue
  <2>2. pendingSaves \in Seq(Chosen) /\ (page = "taskbar" => OnePerSetting(pendingSaves))
    BY DEF QueueTypes, OnePerSetting
  <2>3. /\ next \in Seq(Chosen) /\ (page = "taskbar" => OnePerSetting(next))
        /\ \A t \in Settings \ {s} : Keeps(pendingSaves, next, t)
        /\ LastFor(next, s, v) \/ (running = choice /\ ~HasFor(next, s))
    <3>1. CASE page = "power" /\ pendingSaves = <<>> /\ running = choice
      BY <2>1, <2>2, <3>1 DEF PowerTakes, Last2, HasFor, Keeps
    <3>2. CASE page = "power" /\ pendingSaves # <<>> /\ pendingSaves[Len(pendingSaves)] = choice
      <4>1. next = pendingSaves
        BY <2>1, <3>2 DEF PowerTakes, Last2
      <4>2. Len(pendingSaves) \in 1..Len(pendingSaves)
        BY <2>2, <3>2
      <4>3. LastFor(next, s, v)
        BY <3>2, <4>1, <4>2 DEF LastFor
      <4> QED
        BY <2>2, <3>2, <4>1, <4>3 DEF Keeps
    <3>3. CASE page = "power" /\ next = Append(pendingSaves, choice)
      BY <2>2, <3>3, AppendIsLast
    <3>4. CASE page # "power"
      <4> DEFINE others == Without(pendingSaves, s)
      <4>1. next = IF running = choice THEN others ELSE Append(others, choice)
        BY <1>1, <2>1, <3>4 DEF TaskbarTakes
      <4>2. OnePerSetting(pendingSaves) \/ page \notin {"power", "taskbar"}
        BY <2>2, <3>4
      <4>3. OnePerSetting(pendingSaves)
        BY <4>2 DEF QueueTypes
      <4>4. /\ others \in Seq(Chosen) /\ OnePerSetting(others) /\ ~HasFor(others, s)
            /\ \A t \in Settings \ {s} : Keeps(pendingSaves, others, t)
        BY <2>2, <4>3, WithoutTakesOne
      <4> HIDE DEF others
      <4>5. CASE running = choice
        BY <4>1, <4>4, <4>5
      <4>6. CASE running # choice
        <5>1. /\ next \in Seq(Chosen) /\ LastFor(next, s, v) /\ OnePerSetting(next)
              /\ \A t \in Settings \ {s} : Keeps(others, next, t)
          BY <4>1, <4>4, <4>6, AppendIsLast
        <5>2. \A t \in Settings \ {s} : Keeps(pendingSaves, next, t)
          BY <4>4, <5>1 DEF Keeps
        <5> QED
          BY <5>1, <5>2
      <4> QED
        BY <4>5, <4>6
    <3> QED
      BY <2>1, <3>1, <3>2, <3>3, <3>4 DEF PowerTakes, Last2
  <2>4. QueueTypes'
    BY <1>3, <2>1, <2>3 DEF QueueTypes, OnePerSetting
  <2> QED
    BY <1>3, <2>1, <2>3, <2>4
<1> QED
  BY <1>2, <1>3

(* The page has just been opened.                                            *)
LEMMA PrefStarts == PrefInit => PrefInv
<1> SUFFICES ASSUME PrefInit PROVE PrefInv
  OBVIOUS
<1>1. /\ running = Refresh /\ pendingSaves = <<>> /\ worker = Work(Refresh) /\ wanted = [s \in Settings |-> None]
      /\ stored \in Files /\ pageLoaded = stored /\ panel = [s \in Settings |-> None] /\ told = {} /\ prefEvents = 0
      /\ page \in {"power", "taskbar"} /\ raced = FALSE /\ unread = FALSE /\ hushed = FALSE
  BY DEF PrefInit, Files
<1>2. worker \in Workers /\ worker.stage = "snapshot" /\ Refresh # <<>> /\ Refresh \notin Chosen
  BY <1>1, FilesAreReads DEF Work, Workers, SaveStages, FileStages, Sets, Refresh, Chosen
<1>3. QueueTypes /\ SavesTypes
  <2>1. pendingSaves \in Seq(Chosen) /\ \A i \in 1..Len(pendingSaves) : FALSE
    BY <1>1
  <2>2. QueueTypes
    BY <1>1, <1>2, <2>1 DEF QueueTypes, FileStages
  <2> QED
    BY <1>1, <2>2 DEF SavesTypes, Files
<1>4. WorkIsAsIs /\ LastIsKept /\ ShowsTheFile
  BY <1>1, <1>2 DEF WorkIsAsIs, LastIsKept, ShowsTheFile
<1> QED
  BY <1>3, <1>4 DEF PrefInv

(* A choice of the user, or a poll.                                          *)
LEMMA ChooseKeepsSaves ==
  ASSUME PrefInv, NEW s \in Settings, NEW v \in Values, Choose(s, v)
  PROVE  PrefInv'
<1>1. /\ Enqueue(<<s, v>>) /\ UNCHANGED <<page, stored, pageLoaded, told, raced, unread, hushed>>
      /\ panel' = [panel EXCEPT ![s] = v] /\ prefEvents' = prefEvents + 1
      /\ wanted' = [wanted EXCEPT ![s] = IF running = <<s, v>> /\ worker.void THEN None ELSE v]
  BY DEF Choose, PrefEvent
<1>2. QueueTypes /\ stored \in Files
  BY DEF PrefInv, SavesTypes
<1>3. /\ QueueTypes'
      /\ \/ /\ running = <<>> /\ running' = <<s, v>> /\ worker' = Work(<<s, v>>) /\ pendingSaves = <<>>
            /\ pendingSaves' = <<>>
         \/ /\ running # <<>> /\ UNCHANGED <<running, worker>>
            /\ \A t \in Settings \ {s} : Keeps(pendingSaves, pendingSaves', t)
            /\ LastFor(pendingSaves', s, v) \/ (running = <<s, v>> /\ ~HasFor(pendingSaves', s))
  BY <1>1, <1>2, EnqueueTakes
<1>4. SavesTypes'
  BY <1>1 DEF PrefInv, SavesTypes, Files
<1>5. /\ \A t \in Settings \ {s} : wanted'[t] = wanted[t]
      /\ wanted'[s] = IF running = <<s, v>> /\ worker.void THEN None ELSE v
  BY <1>1 DEF PrefInv, SavesTypes
<1>6. CASE running = <<>>
  <2>1. worker'.stage \in {"set", "read"} /\ worker'.void = FALSE /\ running' = <<s, v>> /\ running' # <<>>
    BY <1>3, <1>6 DEF Work, Sets
  <2>2. WorkIsAsIs' /\ ShowsTheFile'
    BY <2>1 DEF WorkIsAsIs, ShowsTheFile
  <2>3. \A t \in Settings : ~HasFor(pendingSaves', t) /\ ~LastFor(pendingSaves, t, wanted[t])
    BY <1>3, <1>6 DEF HasFor, LastFor
  <2>4. running' \in Chosen /\ running'[1] = s
    BY <2>1 DEF Chosen
  <2>5. wanted'[s] # None => ~HasFor(pendingSaves', s) /\ running' = <<s, wanted'[s]>> /\ ~worker'.void
    BY <1>5, <2>1, <2>3
  <2>6. \A t \in Settings \ {s} : Settled(t)' /\ (wanted[t] # None => stored[t] = wanted[t] /\ (t \notin told /\ ~hushed => pageLoaded[t] = wanted[t]))
    BY <1>6, <2>3, <2>4 DEF PrefInv, LastIsKept, Settled, Saves
  <2>7. LastIsKept'
    BY <1>1, <1>5, <2>1, <2>5, <2>6 DEF LastIsKept
  <2> QED
    BY <1>3, <1>4, <2>2, <2>7 DEF PrefInv
<1>7. CASE running # <<>>
  <2>1. /\ UNCHANGED <<running, worker>>
        /\ \A t \in Settings \ {s} : Keeps(pendingSaves, pendingSaves', t)
        /\ LastFor(pendingSaves', s, v) \/ (running = <<s, v>> /\ ~HasFor(pendingSaves', s))
    BY <1>3, <1>7
  <2>2. WorkIsAsIs' /\ ShowsTheFile'
    BY <1>1, <1>7, <2>1 DEF PrefInv, WorkIsAsIs, ShowsTheFile, Setting
  <2>3. wanted'[s] # None =>
          LastFor(pendingSaves', s, wanted'[s]) \/ (~HasFor(pendingSaves', s) /\ running' = <<s, wanted'[s]>> /\ ~worker'.void)
    BY <1>5, <2>1
  <2>4. ASSUME NEW t \in Settings \ {s}, wanted[t] # None
        PROVE  \/ LastFor(pendingSaves', t, wanted[t])
               \/ ~HasFor(pendingSaves', t) /\ running = <<t, wanted[t]>> /\ ~worker.void
               \/ /\ Settled(t)' /\ stored[t] = wanted[t]
                  /\ worker.stage = "rename" => worker.base[t] = wanted[t]
                  /\ t \notin told /\ ~hushed => pageLoaded[t] = wanted[t]
    BY <2>1, <2>4 DEF PrefInv, LastIsKept, Keeps, Settled, Saves
  <2>5. LastIsKept'
    BY <1>1, <1>5, <2>1, <2>3, <2>4 DEF LastIsKept
  <2> QED
    BY <1>3, <1>4, <2>2, <2>5 DEF PrefInv
<1> QED
  BY <1>6, <1>7

(* A refresh of the power page starts.                                       *)
LEMMA PollKeepsSaves ==
  ASSUME PrefInv, Poll
  PROVE  PrefInv'
<1>1. /\ running = <<>> /\ running' = Refresh /\ worker' = Work(Refresh) /\ pendingSaves' = pendingSaves
      /\ UNCHANGED <<page, stored, pageLoaded, panel, unreadable, told, prefEvents, wanted, raced, unread, hushed>>
  BY DEF Poll, Enqueue
<1>2. Refresh \notin Chosen /\ Refresh # <<>> /\ <<>> \notin Chosen
  BY DEF Refresh, Chosen
<1>3. worker' \in Workers /\ worker'.stage = "snapshot"
  BY <1>1, FilesAreReads DEF Work, Sets, Refresh, Workers, SaveStages, FileStages, PrefInv, SavesTypes
<1>4. QueueTypes' /\ SavesTypes'
  BY <1>1, <1>2, <1>3 DEF PrefInv, QueueTypes, SavesTypes, FileStages
<1>5. WorkIsAsIs' /\ ShowsTheFile' /\ LastIsKept'
  BY <1>1, <1>2, <1>3 DEF PrefInv, WorkIsAsIs, ShowsTheFile, LastIsKept, Settled, Saves
<1> QED
  BY <1>4, <1>5 DEF PrefInv

(* The steps of the worker that change no file.                              *)
LEMMA WorkerKeepsQueue ==
  ASSUME PrefInv, UNCHANGED <<page, running, pendingSaves>>, worker.stage \in SaveStages,
         worker' \in Workers,
         \/ worker'.stage \in FileStages /\ worker.stage \in FileStages
         \/ worker'.stage \in {"snapshot", "deliver"}
  PROVE  QueueTypes' /\ running # <<>>
<1>1. running # <<>>
  BY DEF PrefInv, QueueTypes, NoWorker, SaveStages, FileStages, None
<1> QED
  BY <1>1 DEF PrefInv, QueueTypes, FileStages

(* A save is refused, and its choice with it.                                *)
LEMMA RefusalKeepsSaves ==
  ASSUME PrefInv, Refused, worker.stage \in FileStages \cup {"set"}, prefEvents' \in Nat, raced' \in BOOLEAN,
         UNCHANGED <<page, stored, pageLoaded, panel, unreadable, running, pendingSaves, told, unread, hushed>>
  PROVE  PrefInv'
<1>1. running \in Chosen /\ worker \in Workers /\ running[1] \in Settings /\ running # <<>> /\ running = <<running[1], running[2]>>
  BY DEF PrefInv, QueueTypes, Chosen
<1>2. /\ worker' = [worker EXCEPT !.stage = "snapshot", !.ok = FALSE, !.void = TRUE]
      /\ wanted' = [wanted EXCEPT ![Setting] = IF @ = running[2] THEN None ELSE @]
  BY DEF Refused
<1>3. worker' \in Workers /\ worker'.stage = "snapshot" /\ worker'.void
  BY <1>1, <1>2 DEF Workers, SaveStages
<1>4. QueueTypes'
  BY <1>3, WorkerKeepsQueue DEF SaveStages
<1>5. SavesTypes'
  BY <1>1, <1>2 DEF PrefInv, SavesTypes
<1>6. WorkIsAsIs' /\ ShowsTheFile'
  BY <1>1, <1>3 DEF PrefInv, WorkIsAsIs, ShowsTheFile
<1>7. /\ \A s \in Settings \ {Setting} : wanted'[s] = wanted[s] /\ ~Saves(s)
      /\ wanted'[Setting] = IF wanted[Setting] = running[2] THEN None ELSE wanted[Setting]
  BY <1>1, <1>2 DEF PrefInv, SavesTypes, Setting, Saves
<1>8. LastIsKept'
  <2>1. \A s \in Settings \ {Setting} : running # <<s, wanted[s]>>
    BY DEF Setting
  <2>2. Saves(Setting) /\ Setting \in Settings
    BY <1>1 DEF Saves, Setting
  <2>3. \A s \in Settings : wanted'[s] # None => wanted'[s] = wanted[s] /\ running # <<s, wanted[s]>>
    BY <1>1, <1>7, <2>1 DEF Setting
  <2>4. \A s \in Settings : Settled(s)' <=> Settled(s)
    BY DEF Settled, Saves
  <2> QED
    BY <1>3, <2>3, <2>4 DEF PrefInv, LastIsKept
<1> QED
  BY <1>4, <1>5, <1>6, <1>8 DEF PrefInv

(* The steps of a save that only look at the file.                           *)
LEMMA LooksKeepSaves ==
  ASSUME PrefInv, ReadFile \/ CompareFile \/ RecheckFile \/ TakeSnapshotOfFile
  PROVE  PrefInv'
<1>1. UNCHANGED <<page, stored, pageLoaded, panel, unreadable, running, pendingSaves, told, hushed>>
  BY DEF ReadFile, CompareFile, RecheckFile, TakeSnapshotOfFile
<1>2. /\ worker.stage \in {"read", "compare", "unchanged", "applied", "snapshot"} /\ worker.stage \in SaveStages
      /\ prefEvents' \in Nat /\ raced' \in BOOLEAN /\ unread' \in BOOLEAN
  <2>1. prefEvents' \in {prefEvents, prefEvents + 1} /\ raced' \in {raced, FALSE} /\ unread' \in {unread, FALSE}
    BY DEF ReadFile, CompareFile, RecheckFile, TakeSnapshotOfFile, PrefEvent, Fails
  <2>2. worker.stage \in {"read", "compare", "unchanged", "applied", "snapshot"}
    BY DEF ReadFile, CompareFile, RecheckFile, TakeSnapshotOfFile
  <2>3. prefEvents \in Nat /\ raced \in BOOLEAN /\ unread \in BOOLEAN /\ FALSE \in BOOLEAN
    BY DEF PrefInv, SavesTypes
  <2>4. raced' \in BOOLEAN /\ unread' \in BOOLEAN
    BY <2>1, <2>3
  <2>5. prefEvents' \in Nat
    BY <2>1, <2>3
  <2> QED
    BY <2>2, <2>4, <2>5 DEF SaveStages, FileStages
<1>3. CASE Refused /\ (ReadFile \/ CompareFile)
  <2>1. unread' = unread /\ worker.stage \in FileStages
    BY <1>3 DEF ReadFile, CompareFile, FileStages
  <2> QED
    BY <1>1, <1>2, <1>3, <2>1, RefusalKeepsSaves
<1> DEFINE w == worker'
<1>4. CASE ~(Refused /\ (ReadFile \/ CompareFile))
  <2>1. worker \in Workers /\ stored \in Files
    BY <1>2 DEF PrefInv, QueueTypes, SavesTypes, NoWorker, None
  <2>2. /\ wanted' = wanted
        /\ \/ worker.stage = "read" /\ w = [worker EXCEPT !.stage = "compare", !.base = stored] /\ UNCHANGED <<raced, unread>>
           \/ worker.stage = "compare" /\ stored = worker.base /\ w = [worker EXCEPT !.stage = "rename"] /\ unread' = unread
           \/ worker.stage = "unchanged" /\ w = [worker EXCEPT !.stage = "apply"] /\ UNCHANGED <<raced, unread>>
           \/ worker.stage = "applied" /\ w = [worker EXCEPT !.stage = "snapshot"] /\ UNCHANGED <<raced, unread>>
           \/ worker.stage \in {"unchanged", "applied"} /\ w = [worker EXCEPT !.stage = "snapshot", !.ok = FALSE]
              /\ UNCHANGED <<raced, unread>>
           \/ /\ worker.stage = "snapshot" /\ raced' = raced
              /\ \E missed : w = [worker EXCEPT !.stage = "deliver", !.saw = [s \in Settings \ missed |-> stored[s]]]
    BY <1>4 DEF ReadFile, CompareFile, RecheckFile, TakeSnapshotOfFile, StepTo, Unconfirmed, StillAsRead
  <2>3. /\ w \in Workers /\ w.void = worker.void
        /\ \/ worker.stage = "read" /\ w.stage = "compare"
           \/ worker.stage = "compare" /\ w.stage = "rename" /\ w.base = stored
           \/ worker.stage = "unchanged" /\ w.stage = "apply"
           \/ worker.stage = "applied" /\ w.stage = "snapshot" /\ w.ok = worker.ok
           \/ worker.stage \in {"unchanged", "applied"} /\ w.stage = "snapshot" /\ w.ok = FALSE
           \/ /\ worker.stage = "snapshot" /\ w.stage = "deliver" /\ w.ok = worker.ok
              /\ \A s \in DOMAIN w.saw : w.saw[s] = stored[s]
    <3>1. CASE worker.stage # "snapshot"
      BY <2>1, <2>2, <3>1 DEF Workers, SaveStages, FileStages
    <3>2. CASE worker.stage = "snapshot"
      <4>1. PICK missed : w = [worker EXCEPT !.stage = "deliver", !.saw = [s \in Settings \ missed |-> stored[s]]]
        BY <2>2, <3>2
      <4> DEFINE saw == [s \in Settings \ missed |-> stored[s]]
      <4>2. saw \in Reads /\ \A s \in DOMAIN saw : saw[s] = stored[s]
        <5>1. saw \in [Settings \ missed -> Values] /\ Settings \ missed \in SUBSET Settings
          BY <2>1 DEF Files
        <5> QED
          BY <5>1 DEF Reads
      <4> HIDE DEF saw
      <4> QED
        BY <2>1, <3>2, <4>1, <4>2 DEF Workers, SaveStages, FileStages, saw
    <3> QED
      BY <3>1, <3>2
  <2> HIDE DEF w
  <2>4. QueueTypes' /\ running # <<>>
    BY <1>1, <1>2, <2>3, WorkerKeepsQueue DEF FileStages, w
  <2>5. SavesTypes'
    BY <1>1, <1>2, <2>2 DEF PrefInv, SavesTypes
  <2>6. WorkIsAsIs' /\ ShowsTheFile'
    BY <1>1, <2>3, <2>4 DEF PrefInv, WorkIsAsIs, ShowsTheFile, Setting, w
  <2>7. w.stage = "rename" => w.base = stored
    BY <2>3
  <2>8. LastIsKept'
    BY <1>1, <2>2, <2>3, <2>7 DEF PrefInv, LastIsKept, Settled, Saves, w
  <2> QED
    BY <2>4, <2>5, <2>6, <2>8 DEF PrefInv
<1> QED
  BY <1>3, <1>4

(* The file is replaced, or the profile is set: the choice is on disk.       *)
LEMMA WritesKeepSaves ==
  ASSUME PrefInv, RenameFile \/ SetProfile
  PROVE  PrefInv'
<1>1. UNCHANGED <<page, panel, unreadable, running, pendingSaves, told, raced, unread, hushed>> /\ worker.stage \in {"rename", "set"}
  BY DEF RenameFile, SetProfile
<1>2. worker.stage \in SaveStages /\ worker \in Workers /\ running \in Chosen /\ running # <<>> /\ prefEvents' \in Nat
  BY <1>1 DEF PrefInv, QueueTypes, SavesTypes, FileStages, SaveStages, NoWorker, None, RenameFile, SetProfile,
              PrefEvent, Fails
<1>3. CASE Refused /\ UNCHANGED <<stored, pageLoaded>>
  BY <1>1, <1>2, <1>3, RefusalKeepsSaves DEF FileStages, PrefInv, SavesTypes
<1> DEFINE w == worker'
<1>4. CASE ~(Refused /\ UNCHANGED <<stored, pageLoaded>>)
  <2>1. wanted' = wanted /\ Setting \in Settings /\ running[2] \in Values /\ running = <<Setting, running[2]>>
    BY <1>2, <1>4 DEF RenameFile, SetProfile, StepTo, Setting, Chosen
  <2>2. \/ /\ worker.stage = "rename" /\ stored' = [worker.base EXCEPT ![Setting] = running[2]] /\ pageLoaded' = pageLoaded
           /\ w = [worker EXCEPT !.stage = IF page = "power" THEN "unchanged" ELSE "apply"]
        \/ /\ worker.stage = "set" /\ stored' = [stored EXCEPT !["profile"] = running[2]] /\ Setting = "profile"
           /\ pageLoaded' = [pageLoaded EXCEPT !["profile"] = running[2]] /\ w = [worker EXCEPT !.stage = "snapshot"]
    BY <1>4 DEF RenameFile, SetProfile, StepTo, Text, Setting, PrefInv, QueueTypes
  <2>3. worker.base \in Files /\ stored \in Files /\ pageLoaded \in Files
    BY <1>2 DEF Workers, PrefInv, SavesTypes
  <2>4. /\ stored' \in Files /\ pageLoaded' \in Files /\ stored'[Setting] = running[2]
        /\ \A s \in Settings \ {Setting} :
             /\ pageLoaded'[s] = pageLoaded[s]
             /\ stored'[s] = IF worker.stage = "rename" THEN worker.base[s] ELSE stored[s]
    BY <2>1, <2>2, <2>3 DEF Files
  <2>5. /\ w \in Workers /\ w.void = worker.void
        /\ \/ worker.stage = "rename" /\ w.stage \in {"unchanged", "apply"}
           \/ worker.stage = "set" /\ w.stage = "snapshot" /\ pageLoaded'[Setting] = running[2]
    <3>1. CASE worker.stage = "rename"
      BY <1>2, <2>2, <3>1 DEF Workers, SaveStages, FileStages
    <3>2. CASE worker.stage = "set"
      BY <1>2, <2>1, <2>2, <2>3, <3>2 DEF Workers, SaveStages, FileStages, Files
    <3> QED
      BY <1>1, <3>1, <3>2
  <2> HIDE DEF w
  <2>6. QueueTypes'
    BY <1>1, <1>2, <2>5, WorkerKeepsQueue DEF FileStages, w
  <2>7. SavesTypes'
    BY <1>1, <1>2, <2>1, <2>4 DEF PrefInv, SavesTypes
  <2>8. Setting' = Setting
    BY <1>1 DEF Setting
  <2>9. WorkIsAsIs' /\ ShowsTheFile'
    BY <1>1, <1>2, <2>4, <2>5, <2>8 DEF WorkIsAsIs, ShowsTheFile, w
  <2>10. \A s \in Settings : Settled(s) => s # Setting
    BY <1>2 DEF Settled, Saves, Setting
  <2>11. LastIsKept'
    BY <1>1, <2>1, <2>4, <2>5, <2>10 DEF PrefInv, LastIsKept, Settled, Saves, w
  <2> QED
    BY <2>6, <2>7, <2>9, <2>11 DEF PrefInv
<1> QED
  BY <1>3, <1>4

(* The daemon of the setting is told, or cannot be.                          *)
LEMMA ApplyKeepsSaves ==
  ASSUME PrefInv, ApplyFile
  PROVE  PrefInv'
<1>1. UNCHANGED <<page, stored, panel, unreadable, running, pendingSaves, told, raced, unread, hushed, wanted>> /\ worker.stage = "apply"
  BY DEF ApplyFile, StepTo, Unconfirmed
<1>2. /\ worker \in Workers /\ running \in Chosen /\ running # <<>> /\ prefEvents' \in Nat
      /\ Setting \in Settings /\ Setting # "profile" /\ stored \in Files /\ pageLoaded \in Files
  BY <1>1 DEF PrefInv, QueueTypes, SavesTypes, FileStages, NoWorker, None, ApplyFile, PrefEvent, Fails, Setting, Chosen
<1> DEFINE w == worker'
<1>3. /\ w \in Workers /\ w.void = worker.void
      /\ \/ w.stage = "applied" /\ pageLoaded' = IF page = "power" THEN [stored EXCEPT !["profile"] = pageLoaded["profile"]]
                                                  ELSE [pageLoaded EXCEPT ![Setting] = stored[Setting]]
         \/ w.stage = "snapshot" /\ w.ok = FALSE /\ pageLoaded' = pageLoaded
  BY <1>1, <1>2 DEF ApplyFile, StepTo, Unconfirmed, Workers, SaveStages, FileStages
<1> HIDE DEF w
<1>4. /\ pageLoaded' \in Files /\ \A s \in Settings : pageLoaded'[s] \in {pageLoaded[s], stored[s]}
      /\ w.stage = "applied" => pageLoaded'[Setting] = stored[Setting]
  BY <1>2, <1>3 DEF Files
<1>5. QueueTypes'
  BY <1>1, <1>2, <1>3, WorkerKeepsQueue DEF FileStages, SaveStages, w
<1>6. SavesTypes'
  BY <1>1, <1>2, <1>4 DEF PrefInv, SavesTypes
<1>7. Setting' = Setting
  BY <1>1 DEF Setting
<1>8. WorkIsAsIs' /\ ShowsTheFile'
  BY <1>1, <1>2, <1>3, <1>4, <1>7 DEF PrefInv, WorkIsAsIs, ShowsTheFile, w
<1>9. LastIsKept'
  BY <1>1, <1>3, <1>4 DEF PrefInv, LastIsKept, Settled, Saves, w
<1> QED
  BY <1>5, <1>6, <1>8, <1>9 DEF PrefInv

(* A result arrives, and the next choice is taken.                           *)
LEMMA DeliverKeepsSaves ==
  ASSUME PrefInv, Deliver
  PROVE  PrefInv'
<1>1. /\ worker.stage = "deliver" /\ UNCHANGED <<page, stored, pageLoaded, prefEvents, wanted, raced, unread>>
      /\ panel' = IF Publishes THEN [s \in Settings |-> PageShows(s)] ELSE panel
      /\ Publishes => unreadable' = Settings \ DOMAIN worker.saw
      /\ told' = Tells /\ hushed' = (hushed \/ (page = "power" /\ told \ (Tells \cup {Setting}) # {}))
      /\ StartNext
  BY DEF Deliver
<1>2. /\ worker \in Workers /\ running \in Chosen \cup {Refresh} /\ running # <<>> /\ stored \in Files
      /\ pendingSaves \in Seq(Chosen)
  BY <1>1 DEF PrefInv, QueueTypes, SavesTypes, NoWorker, None
<1>3. running \in Chosen <=> Sets(running)
  BY <1>2 DEF Sets, Refresh, Chosen
<1>4. told' \subseteq Settings /\ hushed' \in BOOLEAN /\ panel' \in [Settings -> Values \cup {None}]
  <2>1. told' \subseteq Settings /\ hushed' \in BOOLEAN
    BY <1>1, <1>2, <1>3 DEF PrefInv, SavesTypes, Tells, Setting, Chosen
  <2>2. panel \in [Settings -> Values \cup {None}] /\ worker.saw \in Reads
    BY <1>2 DEF PrefInv, SavesTypes, Workers
  <2>3. \A s \in Settings : PageShows(s) \in Values \cup {None}
    BY <2>2 DEF PageShows, Reads
  <2> QED
    BY <1>1, <2>1, <2>2, <2>3
<1>5. SavesTypes'
  BY <1>1, <1>4 DEF PrefInv, SavesTypes
<1>6. \A s \in Settings : ~hushed' /\ ~Saves(s) /\ s \notin told' => s \notin told
  <2> SUFFICES ASSUME NEW s \in Settings, ~hushed', ~Saves(s), s \notin told' PROVE s \notin told
    OBVIOUS
  <2>1. CASE ~Sets(running)
    BY <1>1, <2>1 DEF Tells
  <2>2. CASE Sets(running)
    <3>1. s # Setting
      BY <1>3, <2>2 DEF Saves, Setting
    <3>2. CASE page = "power"
      BY <1>1, <3>1, <3>2
    <3>3. CASE page # "power"
      BY <1>1, <2>2, <3>1, <3>3 DEF Tells
    <3> QED
      BY <3>2, <3>3
  <2> QED
    BY <2>1, <2>2
<1>7. ASSUME NEW s \in Settings, wanted[s] # None, ~LastFor(pendingSaves, s, wanted[s])
      PROVE  /\ ~HasFor(pendingSaves, s) /\ stored[s] = wanted[s]
             /\ s \notin told' /\ ~hushed' => pageLoaded[s] = wanted[s]
  <2>1. CASE Settled(s) /\ stored[s] = wanted[s] /\ (s \notin told /\ ~hushed => pageLoaded[s] = wanted[s])
    BY <1>1, <1>6, <2>1 DEF Settled
  <2>2. CASE ~HasFor(pendingSaves, s) /\ running = <<s, wanted[s]>> /\ ~worker.void
    <3>1. running \in Chosen /\ Setting = s /\ running[2] = wanted[s]
      BY <1>2, <1>3, <2>2 DEF Setting, Sets
    <3>2. stored[s] = wanted[s] /\ (worker.ok => pageLoaded[s] = wanted[s])
      BY <1>1, <2>2, <3>1 DEF PrefInv, WorkIsAsIs
    <3>3. s \notin told' => worker.ok
      BY <1>1, <1>3, <3>1 DEF Tells
    <3> QED
      BY <2>2, <3>2, <3>3
  <2> QED
    BY <1>7, <2>1, <2>2 DEF PrefInv, LastIsKept
<1>8. CASE pendingSaves = <<>>
  <2>1. running' = <<>> /\ worker' = NoWorker /\ pendingSaves' = <<>> /\ worker'.stage = None /\ <<>> \notin Chosen
    BY <1>1, <1>8 DEF StartNext, NoWorker, Chosen
  <2>2. QueueTypes'
    BY <1>1, <1>8, <2>1 DEF PrefInv, QueueTypes, FileStages, None
  <2>3. Publishes
    BY <1>8 DEF Publishes
  <2>4. WorkIsAsIs' /\ ShowsTheFile'
    <3>1. WorkIsAsIs'
      BY <2>1 DEF WorkIsAsIs, None
    <3>2. ASSUME ~unread, NEW s \in Settings
          PROVE  PageShows(s) = stored[s] \/ (s \notin DOMAIN worker.saw /\ (page = "power" => PageShows(s) = None))
      BY <1>1, <3>2 DEF PrefInv, WorkIsAsIs, PageShows
    <3>3. panel' = [s \in Settings |-> PageShows(s)] /\ unreadable' = Settings \ DOMAIN worker.saw
      BY <1>1, <2>3
    <3>4. ShowsTheFile'
      BY <1>1, <3>2, <3>3 DEF ShowsTheFile
    <3> QED
      BY <3>1, <3>4
  <2>5. \A s \in Settings : ~LastFor(pendingSaves, s, wanted[s])
    BY <1>8 DEF LastFor
  <2>6. LastIsKept'
    BY <1>1, <1>7, <1>8, <2>1, <2>5 DEF LastIsKept, Settled, Saves, None
  <2> QED
    BY <1>5, <2>2, <2>4, <2>6 DEF PrefInv
<1>9. CASE pendingSaves # <<>>
  <2> DEFINE next == Head(pendingSaves)
  <2>1. running' = next /\ pendingSaves' = Tail(pendingSaves) /\ worker' = Work(next)
    BY <1>1, <1>9 DEF StartNext
  <2>2. /\ next \in Chosen /\ Tail(pendingSaves) \in Seq(Chosen)
        /\ OnePerSetting(pendingSaves) => OnePerSetting(Tail(pendingSaves))
        /\ \A s \in Settings :
              /\ ~HasFor(pendingSaves, s) => ~HasFor(Tail(pendingSaves), s) /\ next[1] # s
              /\ \A v : LastFor(pendingSaves, s, v) =>
                     LastFor(Tail(pendingSaves), s, v) \/ (next = <<s, v>> /\ ~HasFor(Tail(pendingSaves), s))
    BY <1>2, <1>9, TailIsLast
  <2> HIDE DEF next
  <2>3. Sets(next) /\ next # <<>> /\ next[1] \in Settings
    BY <2>2 DEF Sets, Chosen
  <2>4. /\ worker' \in Workers /\ worker'.stage = (IF next[1] = "profile" THEN "set" ELSE "read") /\ ~worker'.void
    BY <1>2, <2>1, <2>3, FilesAreReads DEF Work, Workers, SaveStages, FileStages
  <2>5. QueueTypes'
    BY <1>1, <2>1, <2>2, <2>3, <2>4 DEF PrefInv, QueueTypes, OnePerSetting, FileStages
  <2>6. WorkIsAsIs' /\ ShowsTheFile'
    BY <2>1, <2>3, <2>4 DEF WorkIsAsIs, ShowsTheFile
  <2>7. ASSUME NEW s \in Settings, wanted[s] # None
        PROVE  \/ LastFor(pendingSaves', s, wanted[s])
               \/ ~HasFor(pendingSaves', s) /\ running' = <<s, wanted[s]>> /\ ~worker'.void
               \/ /\ Settled(s)' /\ stored[s] = wanted[s]
                  /\ worker'.stage = "rename" => worker'.base[s] = wanted[s]
                  /\ s \notin told' /\ ~hushed' => pageLoaded[s] = wanted[s]
    <3>1. CASE LastFor(pendingSaves, s, wanted[s])
      BY <2>1, <2>2, <2>4, <3>1
    <3>2. CASE ~LastFor(pendingSaves, s, wanted[s])
      <4>1. /\ ~HasFor(pendingSaves, s) /\ stored[s] = wanted[s]
            /\ s \notin told' /\ ~hushed' => pageLoaded[s] = wanted[s]
        BY <1>7, <2>7, <3>2
      <4>2. Settled(s)'
        BY <2>1, <2>2, <4>1 DEF Settled, Saves
      <4> QED
        BY <2>4, <4>1, <4>2
    <3> QED
      BY <3>1, <3>2
  <2>8. LastIsKept'
    BY <1>1, <2>7 DEF LastIsKept
  <2> QED
    BY <1>5, <2>5, <2>6, <2>8 DEF PrefInv
<1> QED
  BY <1>8, <1>9

(* The worker is lost, or the file is edited elsewhere.                      *)
LEMMA AccidentsKeepSaves ==
  ASSUME PrefInv, Abort \/ (\E s \in Settings, v \in Values : EditElsewhere(s, v)) \/ UNCHANGED prefVars
  PROVE  PrefInv'
<1>1. CASE Abort
  <2>1. /\ running' = <<>> /\ pendingSaves' = <<>> /\ worker' = NoWorker /\ wanted' = [s \in Settings |-> None] /\ unread'
        /\ UNCHANGED <<page, stored, pageLoaded, panel, unreadable, told, raced, hushed>> /\ prefEvents' \in Nat /\ unread' = TRUE
    BY <1>1 DEF Abort, Fails, PrefEvent, PrefInv, SavesTypes
  <2>2. worker'.stage = None /\ <<>> \notin Chosen
    BY <2>1 DEF NoWorker, Chosen
  <2>3. QueueTypes' /\ SavesTypes'
    <3>1. QueueTypes'
      BY <2>1, <2>2 DEF PrefInv, QueueTypes, FileStages, None
    <3>2. SavesTypes'
      BY <2>1 DEF PrefInv, SavesTypes
    <3> QED
      BY <3>1, <3>2
  <2>4. WorkIsAsIs' /\ ShowsTheFile' /\ LastIsKept'
    BY <2>1, <2>2 DEF WorkIsAsIs, ShowsTheFile, LastIsKept, None
  <2> QED
    BY <2>3, <2>4 DEF PrefInv
<1>2. ASSUME NEW s \in Settings, NEW v \in Values, EditElsewhere(s, v) PROVE PrefInv'
  <2>1. /\ stored' = [stored EXCEPT ![s] = v] /\ wanted' = [wanted EXCEPT ![s] = None]
        /\ worker' = IF running # <<>> /\ running[1] = s THEN [worker EXCEPT !.void = TRUE] ELSE worker
        /\ raced' = TRUE /\ unread' = TRUE /\ prefEvents' \in Nat
        /\ UNCHANGED <<page, pageLoaded, panel, unreadable, running, pendingSaves, told, hushed>>
    BY <1>2 DEF EditElsewhere, PrefEvent, PrefInv, SavesTypes
  <2>2. SavesTypes'
    BY <2>1 DEF PrefInv, SavesTypes, Files
  <2>3. /\ worker'.stage = worker.stage /\ (running = <<>> => worker' = worker)
        /\ running # <<>> => /\ worker' \in Workers /\ worker'.base = worker.base /\ worker'.ok = worker.ok
                             /\ worker'.void = (worker.void \/ running[1] = s)
    <3>1. CASE running = <<>>
      BY <2>1, <3>1
    <3>2. CASE running # <<>>
      <4>1. worker \in Workers
        BY <3>2 DEF PrefInv, QueueTypes
      <4> QED
        BY <2>1, <3>2, <4>1 DEF Workers
    <3> QED
      BY <3>1, <3>2
  <2>4. QueueTypes'
    BY <2>1, <2>3 DEF PrefInv, QueueTypes
  <2>5. <<>> \notin Chosen
    BY DEF Chosen
  <2>6. \A t \in Settings \ {s} : stored'[t] = stored[t] /\ wanted'[t] = wanted[t]
    BY <2>1 DEF PrefInv, SavesTypes, Files
  <2>7. WorkIsAsIs' /\ ShowsTheFile'
    <3>1. running \in Chosen => Setting \in Settings
      BY DEF Setting, Chosen
    <3>2. running \in Chosen /\ ~worker'.void => Setting # s /\ ~worker.void
      BY <2>3, <2>5 DEF Setting
    <3> QED
      BY <2>1, <2>3, <2>5, <2>6, <3>1, <3>2 DEF PrefInv, WorkIsAsIs, ShowsTheFile, Setting
  <2>8. wanted'[s] = None
    BY <2>1 DEF PrefInv, SavesTypes
  <2>9. ASSUME NEW t \in Settings \ {s}, wanted[t] # None
        PROVE  \/ LastFor(pendingSaves, t, wanted[t])
               \/ ~HasFor(pendingSaves, t) /\ running = <<t, wanted[t]>> /\ ~worker'.void
               \/ /\ Settled(t) /\ stored'[t] = wanted[t]
                  /\ worker'.stage = "rename" => worker'.base[t] = wanted[t]
                  /\ t \notin told /\ ~hushed => pageLoaded[t] = wanted[t]
    <3>1. worker.stage = "rename" => running # <<>>
      BY <2>5 DEF PrefInv, QueueTypes, FileStages
    <3>2. running = <<t, wanted[t]>> => running # <<>> /\ running[1] = t
      OBVIOUS
    <3> QED
      BY <2>3, <2>6, <2>9, <3>1, <3>2 DEF PrefInv, LastIsKept
  <2>10. LastIsKept'
    BY <2>1, <2>6, <2>8, <2>9 DEF LastIsKept, Settled, Saves
  <2> QED
    BY <2>2, <2>4, <2>7, <2>10 DEF PrefInv
<1>3. CASE UNCHANGED prefVars
  BY <1>3 DEF prefVars, PrefInv, QueueTypes, SavesTypes, WorkIsAsIs, LastIsKept, ShowsTheFile, Settled, Saves, Setting
<1> QED
  BY <1>1, <1>2, <1>3

(* Every step of the settings that are files.                                *)
LEMMA PrefKept ==
  ASSUME PrefInv, [PrefNext]_prefVars
  PROVE  PrefInv'
BY ChooseKeepsSaves, PollKeepsSaves, LooksKeepSaves, WritesKeepSaves, ApplyKeepsSaves, DeliverKeepsSaves,
   AccidentsKeepSaves DEF PrefNext

(* A file is only replaced by one that has the new choice and the rest as    *)
(* it was.                                                                   *)
LEMMA SavesAreOfOne ==
  ASSUME PrefInv, PrefNext, worker.stage = "rename", stored' # stored, prefEvents' = prefEvents, ~raced
  PROVE  \A s \in Settings \ {running[1]} : stored'[s] = stored[s]
<1>1. prefEvents + 1 # prefEvents /\ worker.base = stored /\ stored \in Files
  BY DEF PrefInv, SavesTypes, WorkIsAsIs
<1>2. RenameFile /\ stored' = Text
  BY <1>1 DEF PrefNext, Choose, EditElsewhere, Poll, ReadFile, CompareFile, RenameFile, RecheckFile, ApplyFile, SetProfile,
              TakeSnapshotOfFile, Deliver, Abort, PrefEvent, Fails
<1> QED
  BY <1>1, <1>2 DEF Text, Setting, Files

(* Whoever else edits the files, whichever steps fail, the reads for the     *)
(* page too, and however fast the user chooses: when nothing is being saved, *)
(* each last choice that stands is on disk, and in use unless the user was   *)
(* told; the page shows what is on disk or says that it could not be read;   *)
(* and a save changes its own setting only.                                  *)
THEOREM ChoicesStand == PrefInit /\ [][PrefNext]_prefVars => []ChoicesHold /\ SavesChangeTheirSetting
<1>1. ASSUME PrefInv PROVE ChoicesHold
  <2>1. ASSUME ~Mutating, NEW s \in Settings, wanted[s] # None
        PROVE  stored[s] = wanted[s] /\ (s \notin told /\ ~hushed => pageLoaded[s] = wanted[s])
    <3>1. pendingSaves = <<>> /\ ~LastFor(pendingSaves, s, wanted[s])
      BY <2>1 DEF Mutating, LastFor
    <3>2. running # <<s, wanted[s]>>
      BY <2>1 DEF Mutating, Sets
    <3> QED
      BY <1>1, <2>1, <3>1, <3>2 DEF PrefInv, LastIsKept
  <2> QED
    BY <1>1, <2>1 DEF ChoicesHold, LastChoiceStands, SilenceMeansApplied, PrefInv
<1>2. PrefInv /\ [PrefNext]_prefVars => PrefInv'
  BY PrefKept
<1>3. PrefInv /\ [PrefNext]_prefVars
        => [(worker.stage = "rename" /\ stored' # stored /\ prefEvents' = prefEvents /\ ~raced) =>
               \A s \in Settings \ {running[1]} : stored'[s] = stored[s]]_prefVars
  BY SavesAreOfOne
<1> QED
  BY <1>1, <1>2, <1>3, PrefStarts, PTL DEF SavesChangeTheirSetting

-----------------------------------------------------------------------------
(* The hints. The window is the mode, and what is queued for the pointer is   *)
(* what the user chose, in order, up to the first shutdown.                   *)
Spots == Int \cup {"left", "right"} \cup UNION {ToSet(ws) : ws \in Screens}
Deeds == [what : {"click", "hover", "drag", "scroll"}, at : Spots]
Signs == Letters \cup {"left", "right", "enter", "escape"}

ModeTypes ==
  /\ mode.kind \in {"idle", "select", "cursor", "scroll"}
  /\ mode.kind = "select" =>
       /\ mode = [kind |-> "select", target |-> mode.target, prefix |-> mode.prefix, labels |-> mode.labels,
                  source |-> mode.source]
       /\ mode.target \in Targets /\ mode.source \in Nat /\ (mode.source # 0 => mode.target = "drag")
       /\ mode.prefix \in Seq(Signs) /\ DOMAIN mode.labels \subseteq DOMAIN widgets
  /\ overlay = [shown |-> overlay.shown, kind |-> overlay.kind, hints |-> overlay.hints]
  /\ \A hint \in overlay.hints : hint.at \in Spots
  /\ widgets \in Seq(Spots) /\ cursor \in 0..(Width - 1)

FlowTypes ==
  /\ asked \in Seq(Deeds) /\ done \in Seq(Deeds) /\ buffer \in Seq(Deeds) /\ queue \in Seq(Deeds \cup {Shutdown})
  /\ pump \in {"recv", "drain", "gone"} /\ (pump # "drain" => buffer = <<>>)

Matches(deed, choice) == deed = choice \/ choice.what = "drag"
FlowIsAsked ==
  LET flushed == Len(done)
      held == Len(done) + Len(buffer)
      Open(i) == \A j \in 1..i : queue[j] # Shutdown
  IN  /\ held <= Len(asked)
      /\ \A i \in 1..flushed : Matches(done[i], asked[i])
      /\ \A i \in 1..Len(buffer) : Matches(buffer[i], asked[flushed + i])
      /\ pump # "gone" =>
           /\ \A i \in 1..Len(queue) : Open(i) => held + i <= Len(asked) /\ Matches(queue[i], asked[held + i])
           /\ Open(Len(queue)) => held + Len(queue) = Len(asked)

HintInv == ModeTypes /\ OverlayIsTheMode /\ FlowTypes /\ FlowIsAsked

(* The daemon has just started.                                              *)
LEMMA HintsBegin == HintsInit => HintInv
<1> SUFFICES ASSUME HintsInit PROVE HintInv
  OBVIOUS
<1>1. Width \div 2 \in 0..(Width - 1)
  BY HintsAssumption
<1>2. /\ mode = Idle /\ mode.kind = "idle" /\ widgets = <<>> /\ cursor = Width \div 2 /\ overlay = Hidden /\ ~overlay.shown
      /\ queue = <<>> /\ pump = "recv" /\ buffer = <<>> /\ done = <<>> /\ asked = <<>>
  BY DEF HintsInit, Idle, Hidden
<1>3. ModeTypes /\ OverlayIsTheMode
  BY <1>1, <1>2 DEF ModeTypes, OverlayIsTheMode, Hidden
<1>4. FlowTypes /\ FlowIsAsked
  BY <1>2 DEF FlowTypes, FlowIsAsked
<1> QED
  BY <1>3, <1>4 DEF HintInv

(* A screen is a sequence of widgets, with a label for each.                 *)
LEMMA ScreenTypes ==
  ASSUME NEW ws \in Screens
  PROVE  ws \in Seq(Spots) /\ DOMAIN Generate(Len(ws)) = DOMAIN ws
<1>1. ws \in Seq(ToSet(ws)) /\ ToSet(ws) \subseteq Spots
  BY HintsAssumption DEF Spots
<1>2. ws \in Seq(Spots)
  BY <1>1, SeqMonotonic
<1>3. DOMAIN Generate(Len(ws)) = 1..Len(ws)
  BY DEF Generate
<1> QED
  BY <1>2, <1>3

(* A label is shown on a widget.                                             *)
LEMMA HintsAreOnWidgets ==
  ASSUME NEW ws \in Seq(Spots), NEW labels, NEW prefix
  PROVE  \A hint \in HintLabels(ws, labels, prefix) : hint.at \in Spots
BY DEF HintLabels

(* The commands.                                                             *)
LEMMA CommandsKeepHints ==
  ASSUME HintInv, Dispatch
  PROVE  HintInv'
<1>1. UNCHANGED <<asked, queue, pump, buffer, done>>
  BY DEF Dispatch, pointerVars
<1>2. FlowTypes' /\ FlowIsAsked'
  BY <1>1 DEF HintInv, FlowTypes, FlowIsAsked
<1>3. ASSUME NEW aim \in Targets, EnterHintMode(aim) PROVE ModeTypes' /\ OverlayIsTheMode'
  <2>1. CASE UNCHANGED <<mode, widgets, cursor, overlay>>
    BY <2>1 DEF HintInv, ModeTypes, OverlayIsTheMode
  <2>2. ASSUME NEW ws \in Screens, ~overlay.shown, UNCHANGED <<mode, widgets, cursor>>,
               overlay' = [[shown |-> TRUE, kind |-> "select", hints |-> HintLabels(ws, Generate(Len(ws)), <<>>)]
                              EXCEPT !.shown = FALSE]
        PROVE  ModeTypes' /\ OverlayIsTheMode'
    <3>1. /\ ~overlay'.shown /\ overlay' = [shown |-> overlay'.shown, kind |-> overlay'.kind, hints |-> overlay'.hints]
          /\ \A hint \in overlay'.hints : hint.at \in Spots
      BY <2>2, ScreenTypes, HintsAreOnWidgets
    <3> QED
      BY <2>2, <3>1 DEF HintInv, ModeTypes, OverlayIsTheMode
  <2>3. ASSUME NEW ws \in Screens, mode' = Select(aim, Generate(Len(ws)), 0), widgets' = ws, cursor' = cursor,
               overlay' = [shown |-> TRUE, kind |-> "select", hints |-> HintLabels(ws, Generate(Len(ws)), <<>>)]
        PROVE  ModeTypes' /\ OverlayIsTheMode'
    <3>1. /\ ws \in Seq(Spots) /\ DOMAIN Generate(Len(ws)) = DOMAIN ws /\ <<>> \in Seq(Signs)
          /\ \A hint \in HintLabels(ws, Generate(Len(ws)), <<>>) : hint.at \in Spots
      BY ScreenTypes, HintsAreOnWidgets
    <3> QED
      BY <2>3, <3>1 DEF HintInv, ModeTypes, OverlayIsTheMode, Select
  <2> QED
    BY <1>3, <2>1, <2>2, <2>3 DEF EnterHintMode
<1>4. ASSUME NEW kind \in {"cursor", "scroll"}, EnterMode(kind) PROVE ModeTypes' /\ OverlayIsTheMode'
  <2>1. CASE mode' = [kind |-> kind] /\ overlay' = [shown |-> TRUE, kind |-> kind, hints |-> {}]
    BY <1>4, <2>1 DEF EnterMode, HintInv, ModeTypes, OverlayIsTheMode
  <2>2. CASE ~overlay.shown /\ overlay' = [[shown |-> TRUE, kind |-> kind, hints |-> {}] EXCEPT !.shown = FALSE] /\ UNCHANGED mode
    BY <1>4, <2>2 DEF EnterMode, HintInv, ModeTypes, OverlayIsTheMode
  <2> QED
    BY <1>4, <2>1, <2>2 DEF EnterMode
<1> QED
  BY <1>2, <1>3, <1>4 DEF Dispatch, HintInv

(* What the pointer is given, and what of it is asked.                       *)
LEMMA NothingIsAdded ==
  ASSUME FlowTypes, FlowIsAsked, UNCHANGED <<asked, queue, pump, buffer, done>>
  PROVE  FlowTypes' /\ FlowIsAsked'
BY DEF FlowTypes, FlowIsAsked

(* A shutdown is no deed of the pointer.                                     *)
LEMMA ShutdownIsNone == Shutdown \notin Deeds
BY DEF Shutdown, Deeds

(* One deed is asked for and sent, or is asked for and not sent when a         *)
(* shutdown follows at once.                                                   *)
LEMMA OneIsAdded ==
  ASSUME FlowTypes, FlowIsAsked, UNCHANGED <<pump, buffer, done>>,
         NEW choice \in Deeds, NEW deed \in Deeds, Matches(deed, choice), asked' = Append(asked, choice),
         \/ pump = "gone" /\ queue' = queue
         \/ queue' = Append(queue, deed)
         \/ queue' = Append(Append(queue, deed), Shutdown)
         \/ queue' = Append(queue, Shutdown)
  PROVE  FlowTypes' /\ FlowIsAsked'
<1> DEFINE n == Len(asked)
           q == Len(queue)
           held == Len(done) + Len(buffer)
<1>1. /\ asked' \in Seq(Deeds) /\ n \in Nat /\ Len(asked') = n + 1 /\ asked'[n + 1] = choice
      /\ \A i \in 1..n : asked'[i] = asked[i]
      /\ held \in Nat /\ Len(done) \in Nat /\ Len(buffer) \in Nat /\ q \in Nat
  BY DEF FlowTypes
<1> DEFINE Sent == Deeds \cup {Shutdown}
           one == Append(queue, deed)
           two == Append(queue, Shutdown)
<1>a. queue \in Seq(Sent) /\ deed \in Sent /\ Shutdown \in Sent
  BY DEF FlowTypes
<1> HIDE DEF Sent
<1>b. one \in Seq(Sent) /\ Len(one) = q + 1 /\ one[q + 1] = deed /\ \A i \in 1..q : one[i] = queue[i]
  BY <1>a, AppendProperties
<1>c. two \in Seq(Sent) /\ Len(two) = q + 1 /\ two[q + 1] = Shutdown /\ \A i \in 1..q : two[i] = queue[i]
  BY <1>a, AppendProperties
<1> HIDE DEF one, two
<1>d. /\ Append(one, Shutdown) \in Seq(Sent) /\ Len(Append(one, Shutdown)) = q + 2
      /\ Append(one, Shutdown)[q + 2] = Shutdown /\ \A i \in 1..(q + 1) : Append(one, Shutdown)[i] = one[i]
  BY <1>1, <1>a, <1>b, AppendProperties
<1>2. queue' \in Seq(Deeds \cup {Shutdown})
  BY <1>a, <1>b, <1>c, <1>d DEF one, two, Sent
<1>3. FlowTypes'
  BY <1>1, <1>2 DEF FlowTypes
<1>4. \/ pump = "gone" /\ queue' = queue
      \/ /\ \A i \in 1..q : queue'[i] = queue[i]
         /\ \/ Len(queue') = q + 1 /\ queue'[q + 1] = deed
            \/ Len(queue') = q + 2 /\ queue'[q + 1] = deed /\ queue'[q + 2] = Shutdown
            \/ Len(queue') = q + 1 /\ queue'[q + 1] = Shutdown
  <2>1. CASE queue' = one
    BY <1>b, <2>1
  <2>2. CASE queue' = two
    BY <1>c, <2>2
  <2>3. CASE queue' = Append(one, Shutdown)
    BY <1>1, <1>b, <1>d, <2>3
  <2> QED
    BY <2>1, <2>2, <2>3 DEF one, two
<1> HIDE DEF n, q
<1>5. /\ held <= n
      /\ \A i \in 1..Len(done) : Matches(done[i], asked'[i])
      /\ \A i \in 1..Len(buffer) : Matches(buffer[i], asked'[Len(done) + i])
  <2>1. \A i \in 1..Len(done) : i \in 1..n /\ Matches(done[i], asked[i])
    BY <1>1 DEF FlowIsAsked, n
  <2>2. \A i \in 1..Len(buffer) : Len(done) + i \in 1..n /\ Matches(buffer[i], asked[Len(done) + i])
    BY <1>1 DEF FlowIsAsked, n
  <2>3. held <= n
    BY DEF FlowIsAsked, n
  <2> QED
    BY <1>1, <2>1, <2>2, <2>3
<1>6. ASSUME pump # "gone"
      PROVE  /\ \A i \in 1..Len(queue') : (\A j \in 1..i : queue'[j] # Shutdown)
                    => held + i <= n + 1 /\ Matches(queue'[i], asked'[held + i])
             /\ (\A j \in 1..Len(queue') : queue'[j] # Shutdown) => held + Len(queue') = n + 1
  <2>1. /\ \A i \in 1..q : (\A j \in 1..i : queue[j] # Shutdown) => held + i <= n /\ Matches(queue[i], asked[held + i])
        /\ (\A j \in 1..q : queue[j] # Shutdown) => held + q = n
    BY <1>6 DEF FlowIsAsked, n, q
  <2>2. \A i \in 1..q : queue'[i] = queue[i]
    BY <1>4, <1>6
  <2>3. ASSUME NEW i \in 1..Len(queue'), \A j \in 1..i : queue'[j] # Shutdown
        PROVE  held + i <= n + 1 /\ Matches(queue'[i], asked'[held + i])
    <3>1. CASE i \in 1..q
      <4>1. \A j \in 1..i : queue[j] # Shutdown
        BY <1>1, <2>2, <2>3, <3>1
      <4>2. held + i <= n /\ Matches(queue[i], asked[held + i])
        BY <2>1, <3>1, <4>1
      <4> QED
        BY <1>1, <2>2, <3>1, <4>2
    <3>2. CASE i \notin 1..q
      <4>1. i = q + 1 /\ queue'[i] = deed
        BY <1>1, <1>4, <1>6, <2>3, <3>2
      <4>2. \A j \in 1..q : queue[j] # Shutdown
        BY <1>1, <2>2, <2>3, <4>1
      <4>3. held + i = n + 1
        BY <1>1, <2>1, <4>1, <4>2
      <4> QED
        BY <1>1, <4>1, <4>3
    <3> QED
      BY <3>1, <3>2
  <2>4. ASSUME \A j \in 1..Len(queue') : queue'[j] # Shutdown PROVE held + Len(queue') = n + 1
    <3>1. Len(queue') = q + 1
      BY <1>1, <1>4, <1>6, <2>4
    <3>2. \A j \in 1..q : queue[j] # Shutdown
      BY <1>1, <2>2, <2>4, <3>1
    <3> QED
      BY <1>1, <2>1, <3>1, <3>2
  <2> QED
    BY <2>3, <2>4
<1>7. FlowIsAsked'
  <2>1. held' = held /\ Len(done') = Len(done) /\ pump' = pump /\ buffer' = buffer /\ done' = done
    OBVIOUS
  <2>2. held <= Len(asked')
    BY <1>1, <1>5
  <2> HIDE DEF held
  <2>3. /\ held' <= Len(asked')
        /\ \A i \in 1..Len(done') : Matches(done'[i], asked'[i])
        /\ \A i \in 1..Len(buffer') : Matches(buffer'[i], asked'[Len(done') + i])
        /\ pump' # "gone" =>
             /\ \A i \in 1..Len(queue') : (\A j \in 1..i : queue'[j] # Shutdown)
                    => held' + i <= Len(asked') /\ Matches(queue'[i], asked'[held' + i])
             /\ (\A j \in 1..Len(queue') : queue'[j] # Shutdown) => held' + Len(queue') = Len(asked')
    BY <1>1, <1>5, <1>6, <2>1, <2>2
  <2> USE DEF held
  <2> QED
    BY <2>3 DEF FlowIsAsked, Matches
<1> QED
  BY <1>3, <1>7

(* Nothing is asked for, and at most a shutdown sent.                        *)
LEMMA ShutdownIsAdded ==
  ASSUME FlowTypes, FlowIsAsked, UNCHANGED <<asked, pump, buffer, done>>,
         queue' = queue \/ queue' = Append(queue, Shutdown)
  PROVE  FlowTypes' /\ FlowIsAsked'
<1>1. CASE queue' = queue
  BY <1>1, NothingIsAdded
<1>2. CASE queue' = Append(queue, Shutdown)
  <2> DEFINE q == Len(queue)
  <2>1. /\ queue' \in Seq(Deeds \cup {Shutdown}) /\ Len(queue') = q + 1 /\ queue'[q + 1] = Shutdown /\ q \in Nat
        /\ \A i \in 1..q : queue'[i] = queue[i]
    BY <1>2 DEF FlowTypes
  <2> HIDE DEF q
  <2>2. FlowTypes'
    BY <2>1 DEF FlowTypes
  <2>3. \A i \in 1..Len(queue') : (\A j \in 1..i : queue'[j] # Shutdown) => i \in 1..q /\ \A j \in 1..i : queue[j] # Shutdown
    BY <2>1
  <2>4. ~\A j \in 1..Len(queue') : queue'[j] # Shutdown
    BY <2>1
  <2>5. FlowIsAsked'
    BY <2>1, <2>3, <2>4 DEF FlowIsAsked, q
  <2> QED
    BY <2>2, <2>5
<1> QED
  BY <1>1, <1>2

(* What a handle that is dropped sends.                                      *)
LEMMA CloneSends ==
  ASSUME NEW S, NEW q \in Seq(S), NEW d \in S, NEW e \in S
  PROVE  q \o <<d>> \o <<e>> = Append(Append(q, d), e) /\ q \o <<>> \o <<e>> = Append(q, e)
OBVIOUS

(* A deed is asked for, and sent through a clone of the handle or not at     *)
(* all.                                                                      *)
LEMMA CloneActs ==
  ASSUME FlowTypes, NEW choice \in Deeds, NEW deed \in Deeds, Matches(deed, choice), FlowIsAsked,
         asked' = Append(asked, choice), ThroughClone(<<deed>>) \/ ThroughClone(<<>>), UNCHANGED <<pump, buffer, done>>
  PROVE  FlowTypes' /\ FlowIsAsked'
<1>1. queue \in Seq(Deeds \cup {Shutdown}) /\ deed \in Deeds \cup {Shutdown} /\ Shutdown \in Deeds \cup {Shutdown}
  BY DEF FlowTypes
<1>2. /\ queue \o <<deed>> \o <<Shutdown>> = Append(Append(queue, deed), Shutdown)
      /\ queue \o <<>> \o <<Shutdown>> = Append(queue, Shutdown)
  BY <1>1, CloneSends
<1>3. \/ pump = "gone" /\ queue' = queue
      \/ queue' = Append(Append(queue, deed), Shutdown)
      \/ queue' = Append(queue, Shutdown)
  BY <1>2 DEF ThroughClone
<1> QED
  BY <1>3, OneIsAdded

(* The widget under the label the user reads is the one it leads to.         *)
LEMMA PrefixGrows ==
  ASSUME NEW p \in Seq(Signs), NEW key \in Signs
  PROVE  /\ Append(p, key) \in Seq(Signs) /\ IsPrefix(p, Append(p, key))
         /\ IsPrefix(Append(p, key), Append(p, key))
<1> DEFINE t == Append(p, key)
<1>1. /\ t \in Seq(Signs) /\ Len(t) = Len(p) + 1 /\ Len(p) \in Nat
      /\ \A i \in 1..Len(p) : t[i] = p[i]
  BY AppendProperties
<1> HIDE DEF t
<1>2. SubSeq(p, 1, Len(p)) = SubSeq(t, 1, Len(p))
  BY <1>1
<1>3. SubSeq(t, 1, Len(t)) = SubSeq(t, 1, Len(t)) /\ Len(t) <= Len(t)
  BY <1>1
<1>4. IsPrefix(p, t) /\ IsPrefix(t, t)
  BY <1>1, <1>2, <1>3 DEF IsPrefix
<1> QED
  BY <1>1, <1>4 DEF t

(* The only label that is typed in full is on the widget it leads to.        *)
LEMMA MeantIsOnTheLabel ==
  ASSUME ModeTypes, OverlayIsTheMode, mode.kind = "select", mode.source = 0, NEW key \in Signs, NEW n \in DOMAIN widgets,
         Candidates(mode.labels, Append(mode.prefix, key)) = {n}, mode.labels[n] = Append(mode.prefix, key)
  PROVE  Meant(Append(mode.prefix, key)) = widgets[n]
<1> DEFINE typed == Append(mode.prefix, key)
           under == {hint \in overlay.hints : hint.label = typed}
<1>1. mode.prefix \in Seq(Signs)
  BY DEF ModeTypes
<1>2. IsPrefix(mode.prefix, typed) /\ IsPrefix(typed, typed)
  BY <1>1, PrefixGrows
<1> HIDE DEF typed
<1>3. overlay.hints = HintLabels(widgets, mode.labels, mode.prefix)
  BY DEF OverlayIsTheMode
<1>4. n \in DOMAIN mode.labels /\ n \in Candidates(mode.labels, mode.prefix) \cap DOMAIN widgets
  BY <1>2 DEF Candidates, typed
<1>5. \A m \in Candidates(mode.labels, mode.prefix) : mode.labels[m] = typed => m = n
  BY <1>2 DEF Candidates, typed
<1>6. under = {[at |-> widgets[n], label |-> typed]}
  <2>1. [at |-> widgets[n], label |-> typed] \in under
    BY <1>3, <1>4 DEF HintLabels, typed
  <2>2. ASSUME NEW hint \in under PROVE hint = [at |-> widgets[n], label |-> typed]
    <3>1. hint \in HintLabels(widgets, mode.labels, mode.prefix) /\ hint.label = typed
      BY <1>3
    <3>2. PICK m \in Candidates(mode.labels, mode.prefix) \cap DOMAIN widgets :
            hint = [at |-> widgets[m], label |-> mode.labels[m]]
      BY <3>1 DEF HintLabels
    <3>3. m = n
      BY <1>5, <3>1, <3>2
    <3> QED
      BY <3>2, <3>3 DEF typed
  <2> HIDE DEF under
  <2> QED
    BY <2>1, <2>2
<1> DEFINE first == CHOOSE hint \in under : TRUE
<1>7. under # {} /\ first = [at |-> widgets[n], label |-> typed]
  BY <1>6
<1>8. Meant(typed) = first.at
  BY <1>7 DEF Meant
<1> HIDE DEF first
<1>9. Meant(typed) = widgets[n]
  BY <1>7, <1>8
<1> QED
  BY <1>9 DEF typed

(* What the user means is a widget, or nothing.                              *)
LEMMA MeantIsOnTheScreen ==
  ASSUME ModeTypes, NEW typed
  PROVE  Meant(typed) \in Spots
<1> DEFINE under == {hint \in overlay.hints : hint.label = typed}
<1>1. \A hint \in under : hint.at \in Spots
  BY DEF ModeTypes
<1>2. CASE under = {}
  BY <1>2 DEF Meant, Spots
<1>3. CASE under # {}
  <2>1. (CHOOSE hint \in under : TRUE) \in under
    BY <1>3
  <2>2. Meant(typed) = (CHOOSE hint \in under : TRUE).at
    BY <1>3 DEF Meant
  <2> HIDE DEF under
  <2> QED
    BY <1>1, <2>1, <2>2
<1> QED
  BY <1>2, <1>3

(* The keys.                                                                  *)
LEMMA ClosedIsIdle ==
  ASSUME ModeTypes, Close, UNCHANGED cursor
  PROVE  ModeTypes' /\ OverlayIsTheMode'
<1>1. mode' = Idle /\ mode'.kind = "idle" /\ widgets' = <<>>
  BY DEF Close, Idle
<1>2. /\ overlay' = [shown |-> FALSE, kind |-> overlay.kind, hints |-> overlay.hints]
  BY DEF Close, ModeTypes
<1>3. ~overlay'.shown /\ overlay' = [shown |-> overlay'.shown, kind |-> overlay'.kind, hints |-> overlay'.hints]
      /\ overlay'.hints = overlay.hints
  BY <1>2
<1> QED
  BY <1>1, <1>3 DEF ModeTypes, OverlayIsTheMode

(* A label is typed in full.                                                 *)
LEMMA CommitDoesAsAsked ==
  ASSUME HintInv, mode.kind = "select", NEW key \in Signs, NEW n, UNCHANGED <<pump, buffer, done>>,
         Candidates(mode.labels, Append(mode.prefix, key)) = {n}, mode.labels[n] = Append(mode.prefix, key),
         ~(mode.target = "drag" /\ mode.source = 0), Commit(n, Append(mode.prefix, key))
  PROVE  HintInv'
<1> DEFINE typed == Append(mode.prefix, key)
           choice == Act(mode.target, Meant(typed))
           deed == Act(IF mode.target = "hover" THEN "hover" ELSE "click", widgets[n])
<1>1. ModeTypes' /\ OverlayIsTheMode'
  BY ClosedIsIdle DEF HintInv, Commit
<1>2. choice \in Deeds
  <2>1. mode.target \in {"click", "hover", "drag"}
    BY DEF HintInv, ModeTypes, Targets
  <2>2. Meant(typed) \in Spots
    BY MeantIsOnTheScreen DEF HintInv
  <2> HIDE DEF typed
  <2> QED
    BY <2>1, <2>2 DEF Deeds, Act
<1>3. n \in DOMAIN widgets /\ widgets[n] \in Spots
  BY DEF HintInv, ModeTypes, Candidates
<1>4. deed \in Deeds
  BY <1>3 DEF Deeds, Act
<1>5. Matches(deed, choice)
  <2>1. CASE mode.source # 0
    <3>1. choice.what = "drag"
      BY <2>1 DEF HintInv, ModeTypes, Act
    <3> QED
      BY <3>1 DEF Matches
  <2>2. CASE mode.source = 0
    <3>1. Meant(typed) = widgets[n]
      BY <1>3, <2>2, MeantIsOnTheLabel DEF HintInv
    <3>2. mode.target \in {"click", "hover"}
      BY <2>2 DEF HintInv, ModeTypes, Targets
    <3> QED
      BY <3>1, <3>2 DEF Matches, Act
  <2> QED
    BY <2>1, <2>2
<1>6. asked' = Append(asked, choice) /\ ThroughClone(<<deed>>)
  BY <1>3 DEF Commit
<1> HIDE DEF choice, deed
<1> QED
  BY <1>1, <1>2, <1>4, <1>5, <1>6, CloneActs DEF HintInv

(* The first widget of a drag is chosen, and the second asked for.           *)
LEMMA SecondWidgetIsAsked ==
  ASSUME HintInv, mode.kind = "select", overlay.shown, NEW n \in DOMAIN mode.labels, mode.target = "drag",
         DragSourceChosen(n)
  PROVE  HintInv'
<1>1. FlowTypes' /\ FlowIsAsked'
  BY NothingIsAdded DEF HintInv, DragSourceChosen, pointerVars
<1>2. CASE Close
  BY <1>1, <1>2, ClosedIsIdle DEF HintInv, DragSourceChosen
<1>3. ASSUME NEW ws \in Screens, mode' = Select("drag", Generate(Len(ws)), n), widgets' = <<widgets[n]>> \o ws,
             overlay' = [overlay EXCEPT !.hints = HintLabels(ws, Generate(Len(ws)), <<>>)]
      PROVE  HintInv'
  <2>1. /\ mode'.kind = "select" /\ mode'.target = "drag" /\ mode'.source = n /\ mode'.prefix = <<>>
        /\ mode'.labels = Generate(Len(ws))
        /\ mode' = [kind |-> "select", target |-> "drag", prefix |-> <<>>, labels |-> Generate(Len(ws)), source |-> n]
    BY <1>3 DEF Select
  <2>2. n \in Nat \ {0} /\ widgets[n] \in Spots
    BY DEF HintInv, ModeTypes
  <2>3. ws \in Seq(Spots) /\ DOMAIN Generate(Len(ws)) = 1..Len(ws) /\ Len(ws) \in Nat
    BY ScreenTypes
  <2>4. widgets' \in Seq(Spots) /\ Len(widgets') = Len(ws) + 1
    BY <1>3, <2>2, <2>3
  <2>5. DOMAIN mode'.labels \subseteq DOMAIN widgets'
    BY <2>1, <2>3, <2>4
  <2>6. \A hint \in overlay'.hints : hint.at \in Spots
    BY <1>3, <2>3, HintsAreOnWidgets DEF HintInv, ModeTypes
  <2>7. /\ overlay'.shown = overlay.shown /\ overlay'.kind = overlay.kind
        /\ overlay' = [shown |-> overlay'.shown, kind |-> overlay'.kind, hints |-> overlay'.hints]
    BY <1>3 DEF HintInv, ModeTypes
  <2>8. ModeTypes'
    BY <2>1, <2>2, <2>4, <2>5, <2>6, <2>7 DEF HintInv, ModeTypes, DragSourceChosen, Targets
  <2>9. OverlayIsTheMode'
    BY <2>1, <2>2, <2>7 DEF HintInv, OverlayIsTheMode
  <2> QED
    BY <1>1, <2>8, <2>9 DEF HintInv
<1> QED
  BY <1>2, <1>3 DEF DragSourceChosen

(* A letter is typed, or a wrong one starts over.                            *)
LEMMA PrefixFollowsTheHints ==
  ASSUME HintInv, mode.kind = "select", NEW typed \in Seq(Signs), mode' = [mode EXCEPT !.prefix = typed],
         overlay' = [overlay EXCEPT !.hints = HintLabels(widgets, mode.labels, typed)],
         UNCHANGED <<widgets, cursor, asked>>, UNCHANGED pointerVars
  PROVE  HintInv'
<1>1. FlowTypes' /\ FlowIsAsked'
  BY NothingIsAdded DEF HintInv, pointerVars
<1>2. mode' = [kind |-> "select", target |-> mode.target, prefix |-> typed, labels |-> mode.labels, source |-> mode.source]
  BY DEF HintInv, ModeTypes
<1>3. /\ mode'.kind = "select" /\ mode'.target = mode.target /\ mode'.prefix = typed /\ mode'.labels = mode.labels
      /\ mode'.source = mode.source
  BY <1>2
<1>4. /\ overlay'.shown = overlay.shown /\ overlay'.kind = overlay.kind
      /\ overlay'.hints = HintLabels(widgets, mode.labels, typed)
      /\ overlay' = [shown |-> overlay'.shown, kind |-> overlay'.kind, hints |-> overlay'.hints]
  BY DEF HintInv, ModeTypes
<1>5. \A hint \in overlay'.hints : hint.at \in Spots
  BY <1>4, HintsAreOnWidgets DEF HintInv, ModeTypes
<1>6. ModeTypes'
  BY <1>2, <1>3, <1>4, <1>5 DEF HintInv, ModeTypes
<1>7. OverlayIsTheMode'
  BY <1>3, <1>4 DEF HintInv, OverlayIsTheMode
<1> QED
  BY <1>1, <1>6, <1>7 DEF HintInv

(* A key while labels are shown.                                             *)
LEMMA SelectKeysKeepHints ==
  ASSUME HintInv, mode.kind = "select", overlay.shown, NEW key \in Signs, SelectKey(key)
  PROVE  HintInv'
<1> DEFINE typed == Append(mode.prefix, key)
           found == Candidates(mode.labels, typed)
<1>1. typed \in Seq(Signs) /\ <<>> \in Seq(Signs)
  BY DEF HintInv, ModeTypes
<1>2. CASE WrongLetter(typed) /\ UNCHANGED <<widgets, cursor, asked>> /\ UNCHANGED pointerVars
  BY <1>1, <1>2, PrefixFollowsTheHints DEF WrongLetter
<1>3. CASE /\ mode' = [mode EXCEPT !.prefix = typed]
           /\ overlay' = [overlay EXCEPT !.hints = HintLabels(widgets, mode.labels, typed)]
           /\ UNCHANGED <<widgets, cursor, asked>> /\ UNCHANGED pointerVars
  BY <1>1, <1>3, PrefixFollowsTheHints
<1>4. ASSUME NEW n \in found, found = {n}, mode.labels[n] = typed, mode.target = "drag", DragSourceChosen(n)
      PROVE  HintInv'
  BY <1>4, SecondWidgetIsAsked DEF Candidates
<1>5. ASSUME NEW n \in found, found = {n}, mode.labels[n] = typed, ~(mode.target = "drag" /\ mode.source = 0),
             Commit(n, typed), UNCHANGED <<pump, buffer, done>>
      PROVE  HintInv'
  BY <1>5, CommitDoesAsAsked
<1> QED
  BY <1>2, <1>3, <1>4, <1>5 DEF SelectKey

(* A key that moves the cursor or clicks.                                    *)
LEMMA CursorKeysKeepHints ==
  ASSUME HintInv, mode.kind = "cursor", NEW key \in Signs, CursorKey(key)
  PROVE  HintInv'
<1>1. ASSUME NEW at \in Int PROVE Act("hover", at) \in Deeds /\ Act("click", at) \in Deeds
  BY DEF Act, Deeds, Spots
<1>2. cursor' \in 0..(Width - 1)
  <2>1. ASSUME NEW step \in {-1, 1} PROVE Max({0, Min({Width - 1, cursor + step})}) \in 0..(Width - 1)
    <3>1. Width - 1 \in Nat /\ cursor \in 0..(Width - 1) /\ cursor + step \in Int
      BY HintsAssumption DEF HintInv, ModeTypes
    <3> DEFINE low == Min({Width - 1, cursor + step})
    <3>2. low = (IF cursor + step <= Width - 1 THEN cursor + step ELSE Width - 1)
      BY <3>1 DEF Min
    <3>3. low \in Int /\ low <= Width - 1
      BY <3>1, <3>2
    <3> HIDE DEF low
    <3>4. Max({0, low}) = (IF low <= 0 THEN 0 ELSE low)
      BY <3>3 DEF Max
    <3> QED
      BY <3>1, <3>3, <3>4 DEF low
  <2> QED
    BY <2>1 DEF CursorKey, HintInv, ModeTypes
<1>3. ModeTypes' /\ OverlayIsTheMode'
  BY <1>2 DEF CursorKey, HintInv, ModeTypes, OverlayIsTheMode
<1>4. ASSUME NEW deed \in Deeds, Directly(deed), asked' = Append(asked, deed), UNCHANGED <<pump, buffer, done>>
      PROVE  FlowTypes' /\ FlowIsAsked'
  BY <1>4, OneIsAdded DEF Directly, Matches, HintInv
<1>5. ASSUME NEW deed \in Deeds, ThroughClone(<<deed>>), asked' = Append(asked, deed), UNCHANGED <<pump, buffer, done>>
      PROVE  FlowTypes' /\ FlowIsAsked'
  BY <1>5, CloneActs DEF Matches, HintInv
<1>6. CASE UNCHANGED <<queue, asked>>
  BY <1>3, <1>6, NothingIsAdded DEF CursorKey, HintInv
<1>7. CASE Directly(Act("hover", cursor')) /\ asked' = Append(asked, Act("hover", cursor'))
  <2>1. cursor' \in Int
    BY <1>2, HintsAssumption
  <2>2. Act("hover", cursor') \in Deeds
    BY <2>1 DEF Act, Deeds, Spots
  <2>3. PICK deed \in Deeds : deed = Act("hover", cursor')
    BY <2>2
  <2> QED
    BY <1>3, <1>4, <1>7, <2>3 DEF CursorKey, HintInv
<1>8. CASE ThroughClone(<<Act("click", cursor)>>) /\ asked' = Append(asked, Act("click", cursor))
  <2>1. cursor \in Int
    BY HintsAssumption DEF HintInv, ModeTypes
  <2> QED
    BY <1>1, <1>3, <1>5, <1>8, <2>1 DEF CursorKey, HintInv
<1> QED
  BY <1>6, <1>7, <1>8 DEF CursorKey

(* A key that scrolls.                                                       *)
LEMMA ScrollKeysKeepHints ==
  ASSUME HintInv, mode.kind = "scroll", NEW key \in Signs, ScrollKey(key)
  PROVE  HintInv'
<1>1. ModeTypes' /\ OverlayIsTheMode'
  BY DEF ScrollKey, HintInv, ModeTypes, OverlayIsTheMode
<1>2. CASE key \in {"left", "right"}
  <2> DEFINE deed == Act("scroll", key)
  <2>1. deed \in Deeds
    BY <1>2 DEF Act, Deeds, Spots
  <2>2. ThroughClone(<<deed>>) /\ asked' = asked \o <<deed>>
    BY <1>2 DEF ScrollKey
  <2> HIDE DEF deed
  <2>3. asked' = Append(asked, deed)
    BY <2>1, <2>2 DEF HintInv, FlowTypes
  <2> QED
    BY <1>1, <2>1, <2>2, <2>3, CloneActs DEF ScrollKey, HintInv, Matches
<1>3. CASE key \notin {"left", "right"}
  <2>1. ThroughClone(<<>>) /\ asked' = asked \o <<>>
    BY <1>3 DEF ScrollKey
  <2>2. asked' = asked
    BY <2>1 DEF HintInv, FlowTypes
  <2>3. queue \in Seq(Deeds \cup {Shutdown}) /\ Shutdown \in Deeds \cup {Shutdown}
    BY DEF HintInv, FlowTypes
  <2>4. queue \o <<>> \o <<Shutdown>> = Append(queue, Shutdown)
    BY <2>3, CloneSends
  <2>5. queue' = queue \/ queue' = Append(queue, Shutdown)
    BY <2>1, <2>4 DEF ThroughClone
  <2> QED
    BY <1>1, <2>2, <2>5, ShutdownIsAdded DEF ScrollKey, HintInv
<1> QED
  BY <1>2, <1>3

(* Every key.                                                                *)
LEMMA KeysKeepHints ==
  ASSUME HintInv, NEW key \in Letters \cup {"left", "right", "enter", "escape"}, Key(key)
  PROVE  HintInv'
<1>1. key \in Signs
  BY DEF Signs
<1>2. CASE Escape
  BY <1>2, ClosedIsIdle, NothingIsAdded DEF Escape, HintInv, pointerVars
<1> QED
  BY <1>1, <1>2, SelectKeysKeepHints, CursorKeysKeepHints, ScrollKeysKeepHints DEF Key

(* The pointer thread.                                                       *)
LEMMA OneIsTaken ==
  ASSUME FlowTypes, FlowIsAsked, pump \in {"recv", "drain"}, queue # <<>>, Head(queue) # Shutdown,
         queue' = Tail(queue), buffer' = Append(buffer, Head(queue)), pump' = "drain", UNCHANGED <<done, asked>>
  PROVE  FlowTypes' /\ FlowIsAsked'
<1> DEFINE q == Len(queue)
           b == Len(buffer)
           d == Len(done)
           deed == Head(queue)
<1>1. q \in Nat /\ q > 0 /\ b \in Nat /\ d \in Nat /\ deed = queue[1] /\ deed \in Deeds
  BY DEF FlowTypes
<1>2. /\ queue' \in Seq(Deeds \cup {Shutdown}) /\ Len(queue') = q - 1
      /\ \A i \in 1..(q - 1) : queue'[i] = queue[i + 1]
  BY <1>1 DEF FlowTypes
<1>3. /\ buffer' \in Seq(Deeds) /\ Len(buffer') = b + 1 /\ buffer'[b + 1] = deed
      /\ \A i \in 1..b : buffer'[i] = buffer[i]
  BY <1>1, AppendProperties DEF FlowTypes
<1>4. FlowTypes'
  BY <1>2, <1>3 DEF FlowTypes
<1>5. /\ d + b <= Len(asked)
      /\ \A i \in 1..d : Matches(done[i], asked[i])
      /\ \A i \in 1..b : Matches(buffer[i], asked[d + i])
      /\ \A i \in 1..q : (\A j \in 1..i : queue[j] # Shutdown) => d + b + i <= Len(asked) /\ Matches(queue[i], asked[d + b + i])
      /\ (\A j \in 1..q : queue[j] # Shutdown) => d + b + q = Len(asked)
  BY DEF FlowIsAsked
<1>0. Len(asked) \in Nat
  BY DEF FlowTypes
<1> HIDE DEF q, b, d, deed
<1>6. d + b + 1 <= Len(asked) /\ Matches(deed, asked[d + b + 1])
  <2>1. 1 \in 1..q /\ \A j \in 1..1 : queue[j] # Shutdown
    BY <1>1 DEF deed
  <2> QED
    BY <1>1, <1>5, <2>1
<1>7. \A i \in 1..(b + 1) : Matches(buffer'[i], asked[d + i])
  BY <1>1, <1>3, <1>5, <1>6
<1>8. ASSUME NEW i \in 1..(q - 1), \A j \in 1..i : queue'[j] # Shutdown
      PROVE  d + (b + 1) + i <= Len(asked) /\ Matches(queue'[i], asked[d + (b + 1) + i])
  <2>1. i + 1 \in 1..q
    BY <1>1
  <2>2. ASSUME NEW j \in 1..(i + 1) PROVE queue[j] # Shutdown
    <3>1. CASE j = 1
      BY <1>1, <3>1 DEF deed
    <3>2. CASE j # 1
      <4>1. j - 1 \in 1..i /\ queue'[j - 1] = queue[j]
        BY <1>1, <1>2, <3>2
      <4> QED
        BY <1>8, <4>1
    <3> QED
      BY <3>1, <3>2
  <2>3. d + b + (i + 1) <= Len(asked) /\ Matches(queue[i + 1], asked[d + b + (i + 1)])
    BY <1>5, <2>1, <2>2
  <2>4. d + b + (i + 1) = d + (b + 1) + i
    BY <1>1
  <2> QED
    BY <1>2, <2>3, <2>4
<1>9. ASSUME \A j \in 1..(q - 1) : queue'[j] # Shutdown PROVE d + (b + 1) + (q - 1) = Len(asked)
  <2>1. ASSUME NEW j \in 1..q PROVE queue[j] # Shutdown
    <3>1. CASE j = 1
      BY <1>1, <3>1 DEF deed
    <3>2. CASE j # 1
      <4>1. j - 1 \in 1..(q - 1) /\ queue'[j - 1] = queue[j]
        BY <1>1, <1>2, <3>2
      <4> QED
        BY <1>9, <4>1
    <3> QED
      BY <3>1, <3>2
  <2>2. d + b + q = Len(asked)
    BY <1>5, <2>1
  <2> QED
    BY <1>1, <2>2
<1>10. FlowIsAsked'
  <2>1. Len(done') = d /\ asked' = asked /\ done' = done
    BY DEF d
  <2>2. d + (b + 1) <= Len(asked)
    BY <1>0, <1>1, <1>6
  <2>3. /\ Len(done') + Len(buffer') <= Len(asked')
        /\ \A i \in 1..Len(done') : Matches(done'[i], asked'[i])
        /\ \A i \in 1..Len(buffer') : Matches(buffer'[i], asked'[Len(done') + i])
        /\ \A i \in 1..Len(queue') : (\A j \in 1..i : queue'[j] # Shutdown) =>
             Len(done') + Len(buffer') + i <= Len(asked') /\ Matches(queue'[i], asked'[Len(done') + Len(buffer') + i])
        /\ (\A j \in 1..Len(queue') : queue'[j] # Shutdown) => Len(done') + Len(buffer') + Len(queue') = Len(asked')
    BY <1>2, <1>3, <1>5, <1>7, <1>8, <1>9, <2>1, <2>2
  <2> QED
    BY <2>3 DEF FlowIsAsked, Matches
<1> QED
  BY <1>4, <1>10

(* What was taken is given to the compositor.                                *)
LEMMA AllIsFlushed ==
  ASSUME FlowTypes, FlowIsAsked, done' = done \o buffer, buffer' = <<>>, UNCHANGED asked,
         \/ pump' = "gone" /\ queue' \in Seq(Deeds \cup {Shutdown})
         \/ pump # "gone" /\ pump' = "recv" /\ queue = <<>> /\ queue' = queue
  PROVE  FlowTypes' /\ FlowIsAsked'
<1> DEFINE b == Len(buffer)
           d == Len(done)
<1>1. /\ b \in Nat /\ d \in Nat /\ done' \in Seq(Deeds) /\ Len(done') = d + b
      /\ \A i \in 1..(d + b) : done'[i] = IF i <= d THEN done[i] ELSE buffer[i - d]
  BY ConcatProperties DEF FlowTypes
<1>2. Len(buffer') = 0 /\ buffer' \in Seq(Deeds)
  OBVIOUS
<1>3. FlowTypes'
  BY <1>1, <1>2 DEF FlowTypes
<1>4. /\ d + b <= Len(asked)
      /\ \A i \in 1..d : Matches(done[i], asked[i])
      /\ \A i \in 1..b : Matches(buffer[i], asked[d + i])
  BY DEF FlowIsAsked
<1>5. pump' # "gone" => Len(queue') = 0 /\ d + b = Len(asked)
  <2>1. SUFFICES ASSUME pump' # "gone" PROVE Len(queue') = 0 /\ d + b = Len(asked)
    OBVIOUS
  <2>2. pump # "gone" /\ Len(queue) = 0
    BY <2>1
  <2>3. d + b + 0 = Len(asked)
    BY <2>2 DEF FlowIsAsked
  <2> QED
    BY <1>1, <2>1, <2>2, <2>3
<1> HIDE DEF b, d
<1>6. \A i \in 1..(d + b) : Matches(done'[i], asked[i])
  <2>1. SUFFICES ASSUME NEW i \in 1..(d + b) PROVE Matches(done'[i], asked[i])
    OBVIOUS
  <2>2. CASE i <= d
    BY <1>1, <1>4, <2>2
  <2>3. CASE i > d
    <3>1. i - d \in 1..b /\ d + (i - d) = i /\ done'[i] = buffer[i - d]
      BY <1>1, <2>3
    <3> QED
      BY <1>4, <3>1
  <2> QED
    BY <1>1, <2>2, <2>3
<1>7. /\ Len(done') + Len(buffer') <= Len(asked')
      /\ \A i \in 1..Len(done') : Matches(done'[i], asked'[i])
      /\ \A i \in 1..Len(buffer') : Matches(buffer'[i], asked'[Len(done') + i])
      /\ pump' # "gone" =>
           /\ \A i \in 1..Len(queue') : (\A j \in 1..i : queue'[j] # Shutdown) =>
                Len(done') + Len(buffer') + i <= Len(asked') /\ Matches(queue'[i], asked'[Len(done') + Len(buffer') + i])
           /\ Len(done') + Len(buffer') + Len(queue') = Len(asked')
  BY <1>1, <1>2, <1>4, <1>5, <1>6
<1>8. FlowIsAsked'
  BY <1>7 DEF FlowIsAsked, Matches
<1> QED
  BY <1>3, <1>8

(* Every step of the pointer thread.                                         *)
LEMMA PumpKeepsHints ==
  ASSUME HintInv, Pump
  PROVE  HintInv'
<1>1. ModeTypes' /\ OverlayIsTheMode'
  BY DEF Pump, HintInv, ModeTypes, OverlayIsTheMode
<1>2. UNCHANGED asked
  BY DEF Pump
<1>3. queue # <<>> => Tail(queue) \in Seq(Deeds \cup {Shutdown})
  BY DEF HintInv, FlowTypes
<1>4. CASE Recv
  <2>1. pump = "recv" /\ buffer = <<>> /\ queue # <<>> /\ queue' = Tail(queue) /\ done' = done
    BY <1>4 DEF Recv, HintInv, FlowTypes
  <2>2. CASE Head(queue) = Shutdown
    <3>1. pump' = "gone" /\ buffer' = <<>> /\ done' = done \o buffer
      BY <1>4, <2>1, <2>2 DEF Recv, HintInv, FlowTypes
    <3> QED
      BY <1>1, <1>2, <1>3, <2>1, <3>1, AllIsFlushed DEF HintInv
  <2>3. CASE Head(queue) # Shutdown
    <3>1. pump' = "drain" /\ buffer' = Append(buffer, Head(queue))
      BY <1>4, <2>3 DEF Recv
    <3> QED
      BY <1>1, <1>2, <2>1, <2>3, <3>1, OneIsTaken DEF HintInv
  <2> QED
    BY <2>2, <2>3
<1>5. CASE Drain
  <2>1. pump = "drain" /\ queue # <<>> /\ queue' = Tail(queue)
    BY <1>5 DEF Drain
  <2>2. CASE Head(queue) = Shutdown
    <3>1. pump' = "gone" /\ buffer' = <<>> /\ done' = done \o buffer
      BY <1>5, <2>2 DEF Drain
    <3> QED
      BY <1>1, <1>2, <1>3, <2>1, <3>1, AllIsFlushed DEF HintInv
  <2>3. CASE Head(queue) # Shutdown
    <3>1. pump' = "drain" /\ buffer' = Append(buffer, Head(queue)) /\ done' = done
      BY <1>5, <2>1, <2>3 DEF Drain
    <3> QED
      BY <1>1, <1>2, <2>1, <2>3, <3>1, OneIsTaken DEF HintInv
  <2> QED
    BY <2>2, <2>3
<1>6. CASE Flush
  <2>1. pump # "gone" /\ pump' = "recv" /\ queue = <<>> /\ queue' = queue /\ buffer' = <<>> /\ done' = done \o buffer
    BY <1>6 DEF Flush
  <2> QED
    BY <1>1, <1>2, <2>1, AllIsFlushed DEF HintInv
<1> QED
  BY <1>4, <1>5, <1>6 DEF Pump

(* What the invariant says of the window and of the pointer.                 *)
LEMMA HintInvImplies == HintInv => OverlayIsTheMode /\ DoneIsAsked
BY DEF HintInv, FlowTypes, FlowIsAsked, DoneIsAsked, Matches

(* For any alphabet and any screens, whatever fails: the window is shown     *)
(* exactly as long as a mode is on, with the labels that can still be typed  *)
(* on the widgets they lead to, and the compositor gets what the user        *)
(* chose, in order, and nothing else.                                        *)
THEOREM HintsDoAsAsked == HintsInit /\ [][HintsNext]_hintVars => [](OverlayIsTheMode /\ DoneIsAsked)
<1>1. HintInv /\ [HintsNext]_hintVars => HintInv'
  <2> SUFFICES ASSUME HintInv, [HintsNext]_hintVars PROVE HintInv'
    OBVIOUS
  <2>1. CASE UNCHANGED hintVars
    <3>1. ModeTypes' /\ OverlayIsTheMode'
      BY <2>1 DEF hintVars, HintInv, ModeTypes, OverlayIsTheMode
    <3> QED
      BY <2>1, <3>1, NothingIsAdded DEF hintVars, HintInv
  <2> QED
    BY <2>1, CommandsKeepHints, KeysKeepHints, PumpKeepsHints DEF HintsNext
<1> QED
  BY <1>1, HintsBegin, HintInvImplies, PTL

-----------------------------------------------------------------------------
(* For every history of the windows: what each shows is what is there, up to *)
(* what it has not been told yet, or says it could not read.                 *)
THEOREM WindowsAreTrue == Spec => []WindowsTellTheTruth
<1>1. Spec => /\ LauncherSpec /\ ConnSpec /\ AppInit /\ [][AppNext]_appVars /\ PrefInit /\ [][PrefNext]_prefVars
              /\ RemindersInit /\ [][RemindersNext]_reminderVars /\ HintsInit /\ [][HintsNext]_hintVars
              /\ HintsStartInit /\ [][HintsStartNext]_startVars
  <2>1. Init => /\ LauncherInit /\ ConnInit /\ AppInit /\ PrefInit /\ RemindersInit /\ HintsInit /\ HintsStartInit
    BY DEF Init
  <2>2. [Next]_vars => /\ [LauncherNext]_launcherVars /\ [ConnNext]_connVars /\ [AppNext]_appVars /\ [PrefNext]_prefVars
                       /\ [RemindersNext]_reminderVars /\ [HintsNext]_hintVars /\ [HintsStartNext]_startVars
    BY DEF Next, vars
  <2> QED
    BY <2>1, <2>2, PTL DEF Spec, LauncherSpec, ConnSpec
<1>2. /\ StampIsNotAhead /\ ViewsAreCurrent /\ ZombiesAreReaped /\ RowsTellTheTruth /\ ListHoldsNoRemoved
      /\ ShowsNoOldReading /\ NoRadioStuckAfterOne /\ ChoicesHold /\ StampsAreTrue /\ OverlayIsTheMode /\ DoneIsAsked
      /\ OneDaemonUnlessTheyMet /\ DaemonKnowsTheSetting
      => WindowsTellTheTruth
  BY DEF WindowsTellTheTruth
<1> QED
  BY <1>1, <1>2, LauncherIsCurrent, AppCentreIsTrue, AirplaneModeEnds, ChoicesStand, RemindersAreStamped, HintsDoAsAsked,
     OneDaemonKnows, PTL

(* For every history: a program restarts itself only as what was verified,   *)
(* a save changes no setting but its own, and no reminder is shown twice.    *)
THEOREM ChangesWereAsked == Spec => ChangesAreAsked
<1>1. Spec => /\ UpdateInit /\ [][UpdateNext]_osVars /\ PrefInit /\ [][PrefNext]_prefVars
              /\ RemindersInit /\ [][RemindersNext]_reminderVars
  <2>1. Init => UpdateInit /\ PrefInit /\ RemindersInit
    BY DEF Init
  <2>2. [Next]_vars => [UpdateNext]_osVars /\ [PrefNext]_prefVars /\ [RemindersNext]_reminderVars
    BY DEF Next, vars
  <2> QED
    BY <2>1, <2>2, PTL DEF Spec
<1> QED
  BY <1>1, RestartsAreVerified, ChoicesStand, RemindersAreStamped, PTL DEF ChangesAreAsked
=============================================================================
