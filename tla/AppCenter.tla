----------------------------- MODULE AppCenter -----------------------------
(***************************************************************************)
(* The app centre's window (app-center/src/main.rs, installer.rs): the     *)
(* search results, the list of installed applications, the one package     *)
(* process a window runs, and the background queries; and the update of    *)
(* the system from it (os_update.rs): another program carries it out in a  *)
(* terminal of its own; the window learns of its completion from a         *)
(* receipt, and may then offer to replace itself with the program that was *)
(* installed.                                                              *)
(***************************************************************************)
EXTENDS Integers, Sequences, FiniteSets, SequencesExt

CONSTANTS
    Apps,       \* the applications
    AppImages,  \* those of them that are files, which no package manager knows
    Searches,   \* the orders in which a search may list applications, one of two sources twice
    Filters,    \* what the search text, or that and the pills, may let through of the installed list
    MaxRuns,    \* bound: package processes started
    MaxQueries, \* bound: background queries started
    MaxUpdates, \* bound: updates of the system launched
    MaxFiles    \* bound: times the installed program is replaced

ASSUME AppCenterAssumption ==
    /\ AppImages \subseteq Apps /\ Searches \subseteq Seq(Apps) /\ Filters \subseteq SUBSET Apps
    /\ MaxRuns \in Nat /\ MaxQueries \in Nat
    /\ MaxUpdates \in Nat /\ MaxFiles \in Nat

VARIABLES
    world,     \* what is installed
    tab,       \* "installed" or "search"
    results,   \* the rows of the search
    master,    \* the installed applications, as last queried
    listed,    \* the rows of the installed list: those of master that the filter lets through
    updates,   \* what of master had an update waiting when it was queried
    text,      \* what the text of the installed list's search box lets through
    selected,  \* the rows of the list that are selected
    active,    \* the package process
    strays,    \* what of a cancelled process still runs
    runs,      \* how many processes were started
    queries,   \* the queries in flight, with what each saw, and which updates
    started,   \* how many queries were started
    checking,  \* checking_for_updates
    moved,     \* history: the rows were replaced under a process, or one that failed or was cancelled
               \* changed the system since
    aside,     \* history: what a process changed besides, or left in place, since the rows were searched
    outdated   \* history: the list may hold what was removed in the other tab or with something else, by a
               \* process that failed or was cancelled, or after the query that it shows began

listVars == <<master, listed, updates, text, selected>>
processVars == <<active, strays, runs>>
queryVars == <<queries, started, checking>>
appVars == <<world, tab, results, moved, aside, outdated, listVars, processVars, queryVars>>

NoProcess == [kind |-> "none", row |-> 0, apps |-> {}]
Installing == active # NoProcess
AppRow(id) == [id |-> id, installed |-> id \in world]

AppInit ==
    /\ world \in SUBSET Apps
    /\ tab = "installed" /\ results = <<>> /\ master = {} /\ listed = {} /\ updates = {} /\ text = Apps /\ selected = {}
    /\ active = NoProcess /\ strays = {} /\ runs = 0
    /\ queries = {[no |-> 1, saw |-> world \ AppImages, updates |-> {}]} /\ started = 1 /\ checking = TRUE
    /\ moved = FALSE /\ aside = {} /\ outdated = FALSE

-----------------------------------------------------------------------------
(***************************************************************************)
(* Searching, and the installed list.                                      *)
(***************************************************************************)
(* Any search: a new query, a changed filter, the search tab shown again. *)
NewResults(rows) ==
    /\ results' = [i \in DOMAIN rows |-> AppRow(rows[i])]
    /\ moved' = Installing /\ aside' = {}

Search(rows) ==
    /\ tab = "search"
    /\ NewResults(rows)
    /\ UNCHANGED <<world, tab, outdated>> /\ UNCHANGED listVars /\ UNCHANGED processVars /\ UNCHANGED queryVars

(* get_installed_packages: pacman and flatpak are asked, each of which may fail
   and so leave out what it has. *)
StartQuery ==
    /\ started < MaxQueries /\ started' = started + 1
    /\ \E saw \in SUBSET (world \ AppImages) : \E waiting \in SUBSET saw :
          queries' = queries \cup {[no |-> started + 1, saw |-> saw, updates |-> waiting]}
    /\ checking' = TRUE

SwitchTab(rows) ==
    /\ \/ tab = "installed" /\ tab' = "search" /\ NewResults(rows) /\ UNCHANGED queryVars
       \/ /\ tab = "search" /\ tab' = "installed"
          /\ IF listed = {} /\ ~checking THEN StartQuery ELSE UNCHANGED queryVars
          /\ UNCHANGED <<results, moved, aside>>
    /\ UNCHANGED <<world, outdated>> /\ UNCHANGED listVars /\ UNCHANGED processVars

CheckForUpdates ==
    /\ tab = "installed" /\ StartQuery
    /\ UNCHANGED <<world, tab, results, moved, aside, outdated>> /\ UNCHANGED listVars /\ UNCHANGED processVars

(* An answer replaces the list, whatever the filter says; what has an update is selected. *)
Answer(saw, waiting) ==
    /\ master' = saw /\ listed' = saw
    /\ updates' = waiting /\ selected' = waiting
    /\ UNCHANGED text

QueryAnswers(q) ==
    /\ queries' = queries \ {q}
    /\ Answer(q.saw, q.updates)
    /\ checking' = FALSE
    /\ outdated' = ~(q.saw \subseteq world)
    /\ UNCHANGED <<world, tab, results, started, moved, aside>> /\ UNCHANGED processVars

ShowOf(packages, allowed) == listed' = packages \cap allowed /\ selected' = listed' \cap updates

(* The text, and the pills, which let through less. *)
FilterInstalled(words, allowed) ==
    /\ text' = words
    /\ ShowOf(master, words \cap allowed)
    /\ UNCHANGED <<world, tab, results, master, updates, moved, aside, outdated>>
    /\ UNCHANGED processVars /\ UNCHANGED queryVars

SelectItems(items) ==
    /\ selected' = items
    /\ UNCHANGED <<world, tab, results, master, listed, updates, text, moved, aside, outdated>>
    /\ UNCHANGED processVars /\ UNCHANGED queryVars
ToggleSelect(id) ==
    id \in listed /\ SelectItems(IF id \in selected THEN selected \ {id} ELSE selected \cup {id})
UnselectAll == SelectItems({})

-----------------------------------------------------------------------------
(***************************************************************************)
(* The package process.                                                    *)
(***************************************************************************)
(* Mutant: only the rows that are shown lose the application. *)
RemoveShown(id) == UNCHANGED <<master, updates, text>> /\ ShowOf(master \ {id}, text)

(* The list is built again of what the text lets through: the pills are not looked at. *)
RemoveInstalled(id) == master' = master \ {id} /\ ShowOf(master', text) /\ UNCHANGED <<updates, text>>

(* Mutant: the row is marked as installed, whatever was done with it. *)
MarkInstalled(p) ==
    results' = IF p.row \in DOMAIN results THEN [results EXCEPT ![p.row].installed = TRUE] ELSE results

(* Only what a search's row started marks a row: the others carry row 0. *)
MarkRow(p) ==
    results' = IF p.row \in DOMAIN results
               THEN [results EXCEPT ![p.row].installed = (p.kind = "install")]
               ELSE results

Removes(p) == p.kind \in {"uninstall", "remove"}

(* What a process did to the system: with what it was asked for, a full upgrade or
   a removal with dependencies installs and removes others; an AppImage's file may
   be left in place, unnoticed, and no AppImage is installed. *)
WorldAfter(p, others, left) ==
    /\ others \in SUBSET (Apps \ p.apps) /\ left \in SUBSET (p.apps \cap AppImages)
    /\ p.kind = "install" => p.apps \cap AppImages = {}
    /\ LET rest == (world \ others) \cup (others \ world) IN
       world' = IF Removes(p) THEN rest \ (p.apps \ left) ELSE rest \cup p.apps

Begin(kind, row, apps) ==
    /\ ~Installing /\ runs < MaxRuns /\ runs' = runs + 1
    /\ active' = [kind |-> kind, row |-> row, apps |-> apps]
    /\ UNCHANGED <<world, tab, results, strays, moved, aside, outdated>> /\ UNCHANGED listVars /\ UNCHANGED queryVars

InstallApp(i) == tab = "search" /\ i \in DOMAIN results /\ Begin("install", i, {results[i].id})
UninstallApp(i) == tab = "search" /\ i \in DOMAIN results /\ Begin("uninstall", i, {results[i].id})
UninstallInstalled(id) == tab = "installed" /\ id \in listed /\ Begin("remove", 0, {id})

(* What is selected, or all that has an update if nothing is. *)
UpdateSelected ==
    LET waits == listed \cap updates IN
    /\ tab = "installed" /\ waits # {}
    /\ Begin("update", 0, IF selected \cap waits # {} THEN selected \cap waits ELSE waits)

(* It failed, at once or later, and some of its steps may have been done. *)
ProcessFails ==
    /\ Installing
    /\ active' = NoProcess
    /\ \/ UNCHANGED <<world, moved, outdated>>
       \/ /\ \E others, left \in SUBSET Apps : WorldAfter(active, others, left)
          /\ moved' = TRUE /\ outdated' = TRUE
    /\ UNCHANGED <<tab, results, strays, runs, aside>> /\ UNCHANGED listVars /\ UNCHANGED queryVars

(* It succeeded: the row or the list follows; a batch update queries the list again. *)
ProcessSucceeds ==
    /\ Installing
    /\ \E others, left \in SUBSET Apps : WorldAfter(active, others, left) /\ aside' = aside \cup others \cup left
    /\ MarkRow(active)
    /\ \/ /\ active.kind = "remove"
          /\ \A id \in active.apps : RemoveInstalled(id)
          /\ outdated' = (outdated \/ ~(world \ active.apps \subseteq world'))
       \/ /\ active.kind = "update"
          /\ \E saw \in SUBSET (world' \ AppImages) : \E waiting \in SUBSET saw : Answer(saw, waiting)
          /\ outdated' = FALSE
       \/ /\ active.kind \in {"install", "uninstall"}
          /\ UNCHANGED listVars
          /\ outdated' = (outdated \/ ~(world \subseteq world'))
    /\ active' = NoProcess
    /\ UNCHANGED <<tab, strays, runs, moved>> /\ UNCHANGED queryVars

(* Cancelling kills the process that was started; what that had started goes on. *)
CancelInstall ==
    /\ Installing
    /\ strays' = strays \cup {active}
    /\ active' = NoProcess
    /\ UNCHANGED <<world, tab, results, runs, moved, aside, outdated>> /\ UNCHANGED listVars /\ UNCHANGED queryVars

StrayEnds(p) ==
    /\ strays' = strays \ {p}
    /\ UNCHANGED world \/ \E others, left \in SUBSET Apps : WorldAfter(p, others, left)
    /\ moved' = TRUE /\ outdated' = TRUE
    /\ UNCHANGED <<tab, results, active, runs, aside>> /\ UNCHANGED listVars /\ UNCHANGED queryVars

AppNext ==
    \/ \E rows \in Searches : Search(rows) \/ SwitchTab(rows)
    \/ CheckForUpdates \/ UnselectAll \/ UpdateSelected
    \/ \E q \in queries : QueryAnswers(q)
    \/ \E words, allowed \in Filters : FilterInstalled(words, allowed)
    \/ \E id \in Apps : ToggleSelect(id) \/ UninstallInstalled(id)
    \/ \E i \in 1..Len(results) : InstallApp(i) \/ UninstallApp(i)
    \/ ProcessFails \/ ProcessSucceeds \/ CancelInstall
    \/ \E p \in strays : StrayEnds(p)

-----------------------------------------------------------------------------
AppCenterTypeOK ==
    /\ world \subseteq Apps /\ updates \subseteq Apps /\ master \subseteq Apps \ AppImages /\ listed \subseteq master
    /\ selected \subseteq listed /\ tab \in {"installed", "search"} /\ text \subseteq Apps /\ aside \subseteq Apps
    /\ active.kind \in {"none", "install", "uninstall", "remove", "update"}
    /\ checking \in BOOLEAN /\ \A q \in queries : q.no \in 1..started

ListedOnce(i) == \A k \in DOMAIN results : results[k].id = results[i].id => k = i

(* The rows of a search tell what is installed, also while and after packages are
   installed, removed and updated from either tab.  Only these are not told: a row
   of an application that changed with another's, or whose AppImage was left; the
   other rows of an application a search lists more than once; and, until the next
   search, rows that were replaced under a running process, and what a process that
   failed or was cancelled had done. *)
RowsTellTheTruth ==
    (tab = "search" /\ ~moved) =>
        \A i \in DOMAIN results :
            results[i].id \notin aside /\ ListedOnce(i) => results[i].installed = (results[i].id \in world)

(* The installed list holds nothing that was removed, whatever filter is then set,
   unless it was removed elsewhere or a query had started before the removal. *)
ListHoldsNoRemoved ==
    ~outdated => listed \subseteq world

(* What the comment on StreamingProcess::kill says: cancelling ends the process
   and all its children. *)
CancelEndsAll == strays = {}

-----------------------------------------------------------------------------
(***************************************************************************)
(* The update of the system.                                               *)
(***************************************************************************)
VARIABLES
    busy,      \* installing: a package process runs
    pending,   \* the update whose receipt is awaited
    launched,  \* how many updates were launched
    waiting,   \* the updates whose launcher is still there
    receipts,  \* what each update's receipt says
    file,      \* which file is installed as the program; 0 is the one that runs
    target,    \* restart_target: the file that a restart would run
    status,    \* which update the status line is about
    restarted, \* which file the window was replaced with
    verified   \* history: the files that were there when the last launched update was found verified

osVars == <<busy, pending, launched, waiting, receipts, file, target, status, restarted, verified>>

UpdateInit ==
    /\ busy = FALSE /\ pending = 0 /\ launched = 0 /\ waiting = {} /\ receipts = [u \in 1..MaxUpdates |-> "none"]
    /\ file = 0 /\ target = 0 /\ status = 0 /\ restarted = 0 /\ verified = {}

(* A package process starts, or ends. *)
PackageProcess ==
    /\ busy' = ~busy
    /\ UNCHANGED <<pending, launched, waiting, receipts, file, target, status, restarted, verified>>

UpdateOs ==
    /\ launched < MaxUpdates
    /\ target' = 0
    /\ \/ /\ launched' = launched + 1 /\ pending' = launched'
          /\ waiting' = waiting \cup {launched'}
          /\ status' = launched'
       \/ status' = 0 /\ UNCHANGED <<launched, pending, waiting>>    \* it cannot be launched
    /\ verified' = IF launched' # launched THEN {} ELSE verified
    /\ UNCHANGED <<busy, receipts, file, restarted>>

(* Mutant: a launcher that fails is reported whichever update it was. *)
StillAwaited(u) == u \in waiting

Awaited(u) == pending = u

LauncherEnds(u) ==
    /\ u \in waiting
    /\ waiting' = waiting \ {u}
    /\ \/ UNCHANGED status
       \/ Awaited(u) /\ status' = u      \* it failed
    /\ UNCHANGED <<busy, pending, launched, receipts, file, target, restarted, verified>>

UpdaterWrites(u, receipt) ==
    /\ u \in 1..launched /\ receipts[u] = "none"
    /\ receipts' = [receipts EXCEPT ![u] = receipt]
    /\ UNCHANGED <<busy, pending, launched, waiting, file, target, status, restarted, verified>>

ReplaceProgram ==
    /\ file < MaxFiles /\ file' = file + 1
    /\ UNCHANGED <<busy, pending, launched, waiting, receipts, target, status, restarted, verified>>

(* The timer: a receipt that verifies the update offers a restart, if the
   installed program is another file than the one that runs. *)
PollReceipt ==
    /\ pending # 0 /\ receipts[pending] # "none"
    /\ status' = pending
    /\ target' = IF receipts[pending] = "verified" THEN file ELSE target
    /\ pending' = 0
    /\ verified' = IF receipts[pending] = "verified" /\ pending = launched THEN {file} ELSE verified
    /\ UNCHANGED <<busy, launched, waiting, receipts, file, restarted>>

(* Mutant: what is installed by now is run. *)
AnyFile == target # 0

SameFile == target # 0 /\ file = target

RestartAppCenter ==
    /\ ~busy /\ restarted = 0
    /\ SameFile
    /\ restarted' = file
    /\ UNCHANGED <<busy, pending, launched, waiting, receipts, file, target, status, verified>>

UpdateNext ==
    /\ restarted = 0
    /\ \/ PackageProcess \/ UpdateOs \/ ReplaceProgram \/ PollReceipt \/ RestartAppCenter
       \/ \E u \in 1..MaxUpdates : LauncherEnds(u) \/ \E r \in {"verified", "other"} : UpdaterWrites(u, r)

-----------------------------------------------------------------------------
UpdateTypeOK ==
    /\ pending \in 0..launched /\ launched \in 0..MaxUpdates /\ waiting \subseteq 1..launched
    /\ file \in 0..MaxFiles /\ target \in 0..file /\ status \in 0..launched /\ restarted \in 0..file
    /\ busy \in BOOLEAN /\ verified \subseteq 0..file

(* The window is only ever replaced by the file that was installed when the last
   update launched was found verified, and while no package process runs; and the
   status line never turns to an update before the last one launched. *)
RestartsTheVerified ==
    [][/\ restarted' # restarted => (restarted' \in verified /\ ~busy)
       /\ status' # status => status' \in {0, launched'}]_osVars
=============================================================================
