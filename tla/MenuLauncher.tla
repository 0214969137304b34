------------------------------ MODULE MenuLauncher ------------------------------
(* The resident menu's UI thread (Launcher of start-menu/src/main.rs): what it  *)
(* loads from the app index, the pins and the usage file, when it reads them    *)
(* again, the views it derives from them, and the children it must reap. Other  *)
(* programs rewrite the files at any moment. A file is named by its version, 0  *)
(* for a missing one; a stamp names the version it was taken of.                *)
EXTENDS Naturals

CONSTANTS MaxVersion,   \* versions of the files, counted together
          MaxChildren   \* commands run

Sources == {"index", "pins", "usage"}

VARIABLES disk, newest,    \* per source the version there is; the last made of any
          content, stamp,  \* what is in memory, and the stamp kept with it
          failed,          \* history: the sources of which our last write, or read, failed
          doing,           \* where the UI thread is in refresh_sources
          reading, now,    \* a source is to be stamped and read; the stamp
          changed,         \* sources reloaded in this refresh
          visible, browsing, \* the window; whether a search or category is chosen
          cats, pinned, list, \* the views, as the versions they were built from
          primed, paths,   \* the icon path cache, as the app list it was built for
          alive, zombies, unadopted, \* children, adopted or not yet
          chldPending, reapQueued

launcherVars == <<disk, newest, content, stamp, failed, doing, reading, now, changed, visible, browsing,
                  cats, pinned, list, primed, paths, alive, zombies, unadopted,
                  chldPending, reapQueued>>
files == <<disk, newest>>
loaded == <<content, stamp, failed>>
views == <<cats, pinned, list, primed, paths>>
window == <<visible, browsing>>
children == <<alive, zombies, unadopted, chldPending, reapQueued>>

Empty == [index |-> MaxVersion + 1, pins |-> MaxVersion + 1]  \* the list when nothing is chosen
Current == [index |-> content["index"], pins |-> content["pins"]]

(* Launcher::new has loaded what was there; nothing is chosen, nothing is run.  *)
LauncherInit ==
    /\ disk = [s \in Sources |-> 1] /\ newest = 1
    /\ content = disk /\ stamp = disk /\ failed = {}
    /\ doing = "idle" /\ reading = "no" /\ now = 0 /\ changed = {}
    /\ visible = FALSE /\ browsing = FALSE
    /\ cats = 1 /\ pinned = Current /\ list = Empty /\ primed = FALSE /\ paths = 0
    /\ alive = 0 /\ zombies = 0 /\ unadopted = "none"
    /\ chldPending = FALSE /\ reapQueued = FALSE

-----------------------------------------------------------------------------
(* Other programs *)

Rewrite(s) ==
    /\ newest < MaxVersion
    /\ newest' = newest + 1
    /\ disk' = [disk EXCEPT ![s] = newest']
    /\ UNCHANGED <<doing, reading, now, changed>> /\ UNCHANGED <<loaded, views, window, children>>

RemoveDesktopFile(s) ==
    /\ disk[s] # 0 /\ disk' = [disk EXCEPT ![s] = 0] /\ UNCHANGED newest
    /\ UNCHANGED <<doing, reading, now, changed>> /\ UNCHANGED <<loaded, views, window, children>>

-----------------------------------------------------------------------------
(* show: refresh_sources, one stat or read at a time, then the window *)

Order == [index |-> "pins", pins |-> "usage", usage |-> "views"]

(* Mutant: a reap takes one child, as if SIGCHLD came once for each.            *)
ReapOne == zombies' = (IF zombies > 0 THEN zombies - 1 ELSE 0) /\ alive' = alive

Reap == zombies' = 0 /\ alive' = alive   \* every exited child that was adopted

StartShow ==
    /\ doing = "idle"
    /\ Reap /\ doing' = IF visible THEN "idle" ELSE "index"
    /\ UNCHANGED <<unadopted, chldPending, reapQueued, reading, now, changed>>
    /\ UNCHANGED <<files, loaded, views, window>>

(* should_reload: a missing index keeps the last good list.                     *)
ShouldReload(s) == ~(disk[s] = 0 /\ s = "index") /\ stamp[s] # disk[s]

(* The stamp that is kept is taken before the file is read, so that a rewrite   *)
(* racing with the read still differs from it the next time; read_app_index     *)
(* stamps the index once more.                                                  *)
Look(s) ==
    /\ doing = s /\ reading = "no"
    /\ IF ShouldReload(s)
       THEN /\ now' = disk[s] /\ reading' = IF s = "index" THEN "stamp" ELSE "read"
            /\ UNCHANGED doing
       ELSE doing' = Order[s] /\ UNCHANGED <<now, reading>>
    /\ UNCHANGED changed /\ UNCHANGED <<files, loaded, views, window, children>>

StampIndex ==
    /\ reading = "stamp" /\ reading' = "read" /\ now' = disk["index"]
    /\ UNCHANGED <<doing, changed>> /\ UNCHANGED <<files, loaded, views, window, children>>

(* What was read, or nothing, takes the place of what was in memory.            *)
LoadSource(s, version, at) ==
    /\ content' = [content EXCEPT ![s] = version]
    /\ stamp' = [stamp EXCEPT ![s] = at]
    /\ changed' = changed \cup {s}

(* Mutant: the file is read first, and stamped after.                           *)
ReadThenStamp(s) ==
    /\ doing = s /\ reading = "read"
    /\ doing' = Order[s] /\ reading' = "no"
    /\ IF s = "index" /\ disk[s] = 0 THEN UNCHANGED changed /\ UNCHANGED loaded
       ELSE LoadSource(s, now, disk[s]) /\ failed' = failed \ {s}
    /\ now' = 0 /\ UNCHANGED <<files, views, window, children>>

(* An index that cannot be read keeps the last good list; of the others nothing *)
(* is left, with the stamp taken.                                               *)
Read(s) ==
    /\ doing = s /\ reading = "read"
    /\ doing' = Order[s] /\ reading' = "no"
    /\ \/ s = "index" /\ UNCHANGED changed /\ UNCHANGED loaded
       \/ ~(s = "index" /\ disk[s] = 0) /\ LoadSource(s, disk[s], now) /\ failed' = failed \ {s}
       \/ s # "index" /\ disk[s] # 0 /\ LoadSource(s, 0, now) /\ failed' = failed \cup {s}
    /\ now' = 0 /\ UNCHANGED <<files, views, window, children>>

(* Mutant: the pinned row is rebuilt for new pins only.                         *)
RefreshPinsOnly ==
    /\ doing = "views" /\ doing' = "idle"
    /\ IF "index" \in changed
       THEN cats' = content["index"] /\ primed' = FALSE /\ paths' = 0
       ELSE UNCHANGED <<cats, primed, paths>>
    /\ pinned' = IF "pins" \in changed THEN Current ELSE pinned
    /\ visible' \in BOOLEAN
    /\ changed' = {}
    /\ UNCHANGED <<list, browsing, reading, now>> /\ UNCHANGED <<files, loaded, children>>

(* The end of refresh_sources: what was derived from the old data is rebuilt.   *)
RefreshViews ==
    /\ doing = "views" /\ doing' = "idle"
    /\ IF "index" \in changed
       THEN cats' = content["index"] /\ primed' = FALSE /\ paths' = 0
       ELSE UNCHANGED <<cats, primed, paths>>
    /\ pinned' = IF changed \cap {"index", "pins"} # {} THEN Current ELSE pinned
    /\ visible' \in BOOLEAN \* ui.show may fail
    /\ changed' = {}
    /\ UNCHANGED <<list, browsing, reading, now>> /\ UNCHANGED <<files, loaded, children>>

-----------------------------------------------------------------------------
(* The window's callbacks *)

Prime == primed' = TRUE /\ paths' = IF primed THEN paths ELSE content["index"]

(* filter_changed, with something chosen or not.                                *)
FilterChanged(choice) ==
    /\ doing = "idle" /\ visible /\ browsing' = choice
    /\ IF choice THEN list' = Current /\ Prime
       ELSE list' = Empty /\ UNCHANGED <<primed, paths>>
    /\ UNCHANGED <<visible, cats, pinned, doing, reading, now, changed>>
    /\ UNCHANGED <<files, loaded, children>>

(* A write of our own is a new version that memory has and the stamp has not.   *)
(* A write that fails goes unnoticed; one that is cut short has also rewritten  *)
(* the file, as another program might.                                          *)
SaveOwn(s) ==
    /\ newest < MaxVersion
    /\ newest' = newest + 1
    /\ content' = [content EXCEPT ![s] = newest']
    /\ \/ disk' = [disk EXCEPT ![s] = newest'] /\ failed' = failed \ {s}
       \/ UNCHANGED disk /\ failed' = failed \cup {s}
    /\ UNCHANGED stamp

TogglePin ==
    /\ doing = "idle" /\ visible /\ SaveOwn("pins")
    /\ Prime /\ pinned' = [Current EXCEPT !.pins = newest + 1]
    /\ list' = IF browsing THEN pinned' ELSE list
    /\ UNCHANGED <<cats, doing, reading, now, changed>> /\ UNCHANGED <<window, children>>

(* launch and the toolbar actions: record the use, then spawn_shell; the child  *)
(* runs, and may end, before it is adopted.                                     *)
Spawn(used) ==
    /\ doing = "idle" /\ visible /\ alive + zombies < MaxChildren /\ unadopted = "none"
    /\ IF used THEN SaveOwn("usage") ELSE UNCHANGED <<files, loaded>>
    /\ doing' = "spawned" /\ unadopted' = "alive"
    /\ UNCHANGED <<alive, zombies, chldPending, reapQueued, reading, now, changed>>
    /\ UNCHANGED <<views, window>>

(* children.adopt, then close: hide, reset_view and reap.                       *)
ResetView == list' = Empty /\ browsing' = FALSE
AdoptAndHide ==
    /\ doing = "spawned" /\ doing' = "idle" /\ visible' = FALSE /\ ResetView
    /\ alive' = alive + (IF unadopted = "alive" THEN 1 ELSE 0)
    /\ zombies' = 0 /\ unadopted' = "none"
    /\ UNCHANGED <<cats, pinned, primed, paths, chldPending, reapQueued, reading, now, changed>>
    /\ UNCHANGED <<files, loaded>>

(* Escape, the compositor's close, SIGUSR2, or a toggle while shown.            *)
Hide ==
    /\ doing = "idle" /\ visible /\ visible' = FALSE /\ ResetView /\ Reap
    /\ UNCHANGED <<cats, pinned, primed, paths, unadopted, chldPending, reapQueued>>
    /\ UNCHANGED <<doing, reading, now, changed>> /\ UNCHANGED <<files, loaded>>

-----------------------------------------------------------------------------
(* Children: SIGCHLD coalesces; the signal thread queues a reap for the UI.     *)
ChildExits ==
    /\ \/ alive > 0 /\ alive' = alive - 1 /\ zombies' = zombies + 1 /\ UNCHANGED unadopted
       \/ unadopted = "alive" /\ unadopted' = "dead" /\ UNCHANGED <<alive, zombies>>
    /\ chldPending' = TRUE
    /\ UNCHANGED <<reapQueued, doing, reading, now, changed>>
    /\ UNCHANGED <<files, loaded, views, window>>

TakeChld ==
    /\ chldPending /\ chldPending' = FALSE /\ reapQueued' = TRUE
    /\ UNCHANGED <<alive, zombies, unadopted, doing, reading, now, changed>>
    /\ UNCHANGED <<files, loaded, views, window>>

ReapJob ==
    /\ doing = "idle" /\ reapQueued /\ reapQueued' = FALSE /\ Reap
    /\ UNCHANGED <<unadopted, chldPending, doing, reading, now, changed>>
    /\ UNCHANGED <<files, loaded, views, window>>

LauncherNext ==
    \/ \E s \in Sources : Rewrite(s) \/ RemoveDesktopFile(s) \/ Look(s) \/ Read(s)
    \/ StartShow \/ StampIndex \/ RefreshViews \/ TogglePin \/ AdoptAndHide \/ Hide
    \/ \E choice \in BOOLEAN : FilterChanged(choice) \/ Spawn(choice)
    \/ ChildExits \/ TakeChld \/ ReapJob

LauncherSpec == LauncherInit /\ [][LauncherNext]_launcherVars

-----------------------------------------------------------------------------
LauncherTypeOK ==
    /\ \A f \in {disk, content, stamp} : f \in [Sources -> 0..MaxVersion]
    /\ failed \subseteq {"pins", "usage"} /\ alive + zombies <= MaxChildren /\ unadopted \in {"none", "alive", "dead"}
    /\ ~visible => list = Empty /\ ~browsing

(* "a rewrite racing with the read still differs from the stamp next time":     *)
(* when a source's stamp is the file's, what is in memory is the file's too,    *)
(* whoever wrote it and whenever (the next show would not read it again). There *)
(* are two exceptions: a file that comes and goes within one show, as both its  *)
(* absences have the same stamp; and pins or usage of which our own last write  *)
(* or read failed, until the file is rewritten.                                 *)
StampIsNotAhead ==
    \A s \in Sources \ failed :
        disk[s] # 0 /\ stamp[s] = disk[s] => content[s] = disk[s]

(* Between callbacks every view and cache is built from what is in memory: the  *)
(* sidebar, the pinned row, the list that is shown and the icon paths.          *)
ViewsAreCurrent ==
    doing = "idle" =>
        /\ cats = content["index"] /\ pinned = Current
        /\ list \in {Empty, Current}
        /\ primed => paths = content["index"]

(* No child stays a zombie: whenever one waits to be reaped, a SIGCHLD is       *)
(* pending or a reap is queued, however many of them coalesced.                 *)
ZombiesAreReaped == zombies > 0 => chldPending \/ reapQueued
=============================================================================
