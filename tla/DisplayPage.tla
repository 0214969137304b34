------------------------------ MODULE DisplayPage ------------------------------
(* The Display tab (settings/src/display/ui.rs, model.rs): one page with its    *)
(* pending edits, one worker thread that talks to Hyprland (hyprland.rs) and    *)
(* replaces monitors.conf (conf.rs). A layout is a number, the file holds the   *)
(* layout it sets and the revision of everything else in it, and a fingerprint  *)
(* is the pair of what is live and what was read of the file.                   *)
EXTENDS Naturals, FiniteSets

CONSTANTS Layouts,        \* arrangements of the displays
          Displays,       \* connectors that may hold workspace 1
          MaxOutside,     \* bound: changes made outside Settings
          MaxIoFaults,    \* bound: reads, writes and commands that fail
          BackupsKept,    \* 5 in the code
          Clock           \* stamps local_stamp may return, in any order

ASSUME DisplayAssumption ==
    /\ BackupsKept \in Nat \ {0} /\ Clock \subseteq Nat /\ Clock # {}
    /\ Layouts \subseteq Nat \ {0} /\ MaxOutside \in Nat /\ MaxIoFaults \in Nat

UserJobs == {"Load", "Apply", "KeepCurrent", "UseSaved", "SetPrimary", "Identify"}
Jobs     == UserJobs \cup {"Poll"}
NoJob    == [kind |-> "None"]
NoFile   == [sets |-> 0, rev |-> 0]
NoBase   == [live |-> 0, file |-> NoFile]
Unread   == [unread |-> TRUE]            \* a monitors.conf that could not be read

VARIABLES
    live, file, holds,     \* Hyprland's layout, monitors.conf, who holds workspace 1
    backups,               \* monitors.conf.bak-*
    bar,                   \* the taskbar: up, down, or down after a start that failed
    loaded, baseline,      \* DisplayModel
    original, monitors, stale, details,
    running, queued,       \* Controller
    worker,                \* the worker thread: its job, place and findings
    outside, ioFaults      \* counters of the bounds

outsideVars == <<outside, ioFaults>>
systemVars == <<live, file, holds, backups, bar>>
modelVars  == <<loaded, baseline, original, monitors, stale, details>>
displayVars == <<systemVars, modelVars, running, queued, worker, outsideVars>>

Files == {NoFile} \cup [sets : Layouts, rev : 0..MaxOutside]
Idle == [at |-> "idle"]
Fingerprint(text) == [live |-> live, file |-> text]
HasChanges == monitors # original
BusyKind == IF queued.kind # "None" THEN queued.kind ELSE IF running = "Poll" THEN "None" ELSE running
Busy == BusyKind # "None"

(* The record old with the fields of new over it.                               *)
Over(new, old) ==
    [field \in DOMAIN new \cup DOMAIN old |-> IF field \in DOMAIN new THEN new[field] ELSE old[field]]

(* Where the worker begins each job.                                           *)
FirstPlace == [Load |-> "snapshot", Poll |-> "snapshot", Apply |-> "check", KeepCurrent |-> "check",
               UseSaved |-> "saved", SetPrimary |-> "dispatch", Identify |-> "identify"]

DisplayInit ==
    /\ live \in Layouts /\ holds \in Displays
    /\ file \in {NoFile} \cup [sets : Layouts, rev : {0}]
    /\ backups = {} /\ bar = "up"
    /\ loaded = FALSE /\ baseline = NoBase /\ original = 0 /\ monitors = 0 /\ stale = FALSE /\ details = holds
    /\ running = "Load" /\ queued = NoJob
    /\ worker = [at |-> FirstPlace["Load"], kind |-> "Load"]
    /\ outside = 0 /\ ioFaults = 0

-----------------------------------------------------------------------------
(* What the page asks for. A job carries what it read of the model.             *)
Spawn(job) == worker' = Over([at |-> FirstPlace[job.kind]], job)
RequestJob(job) ==
    \/ /\ running = "None" /\ running' = job.kind /\ Spawn(job)
       /\ UNCHANGED queued
    \/ /\ running = "Poll" /\ job.kind # "Poll" /\ queued' = job
       /\ UNCHANGED <<running, worker>>
    \/ /\ running # "None" /\ (running = "Poll" => job.kind = "Poll")
       /\ UNCHANGED <<running, queued, worker>>
SamePage == UNCHANGED <<systemVars, outsideVars>>

Timer   == RequestJob([kind |-> "Poll"]) /\ UNCHANGED modelVars /\ SamePage
Refresh == RequestJob([kind |-> "Load"]) /\ UNCHANGED modelVars /\ SamePage
Identify == loaded /\ RequestJob([kind |-> "Identify"]) /\ UNCHANGED modelVars /\ SamePage

ApplyChanges ==
    /\ HasChanges /\ ~stale /\ ~Busy
    /\ RequestJob([kind |-> "Apply", base |-> baseline, target |-> monitors])
    /\ UNCHANGED modelVars /\ SamePage
KeepCurrent ==
    /\ ~HasChanges /\ ~stale /\ ~Busy
    /\ RequestJob([kind |-> "KeepCurrent", base |-> baseline, target |-> original])
    /\ UNCHANGED modelVars /\ SamePage
UseSaved ==
    /\ ~HasChanges /\ ~stale /\ ~Busy
    /\ RequestJob([kind |-> "UseSaved"]) /\ UNCHANGED modelVars /\ SamePage
ChoosePrimary ==
    /\ ~Busy /\ loaded
    /\ \E d \in Displays : RequestJob([kind |-> "SetPrimary", name |-> d])
    /\ UNCHANGED modelVars /\ SamePage

(* Any of the edits of the model: resolution, scale, orientation or a drop.     *)
Edit ==
    /\ ~Busy /\ loaded /\ monitors' \in Layouts \ {monitors}
    /\ UNCHANGED <<loaded, baseline, original, stale, details, running, queued, worker>> /\ SamePage
Revert ==
    /\ ~Busy /\ (HasChanges \/ stale) /\ monitors' = original
    /\ IF stale THEN RequestJob([kind |-> "Load"]) ELSE UNCHANGED <<running, queued, worker>>
    /\ UNCHANGED <<loaded, baseline, original, stale, details>> /\ SamePage

-----------------------------------------------------------------------------
(* The worker thread.                                                           *)
SameController == UNCHANGED <<modelVars, running, queued, outside>>
Fails == ioFaults < MaxIoFaults /\ ioFaults' = ioFaults + 1
Works == UNCHANGED ioFaults
NextAt(place, more) == worker' = Over(more, [worker EXCEPT !.at = place])
Deliver(result) == NextAt("deliver", [result |-> result])
At(place) == worker.at = place /\ SameController

(* A command and the reads of a snapshot fail or give what is there now. That   *)
(* the file could not be read is a part of the snapshot like another text.      *)
Reads(text) == \/ Works /\ text = file
               \/ Fails /\ text = Unread
Text == {file, Unread}
TakeSnapshot ==
    /\ At("snapshot") /\ UNCHANGED systemVars
    /\ \/ \E text \in Text :
             /\ Reads(text)
             /\ NextAt("deliver", [result |-> "ok", print |-> Fingerprint(text), holder |-> holds])
       \/ Fails /\ Deliver("failed")
Dispatch ==
    /\ At("dispatch") /\ UNCHANGED <<live, file, backups, bar>>
    /\ \/ Works /\ holds' = worker.name
       \/ Fails /\ UNCHANGED holds
    /\ NextAt("snapshot", <<>>)
ShowLabels ==
    /\ At("identify") /\ Works /\ UNCHANGED systemVars /\ Deliver("shown")

CheckBaseline ==
    /\ At("check") /\ UNCHANGED systemVars
    /\ \/ \E text \in Text :
             /\ Reads(text)
             /\ \/ Fingerprint(text) = worker.base /\ NextAt("read", <<>>)
                \/ Fingerprint(text) # worker.base /\ Deliver("stale")
       \/ Fails /\ Deliver("failed")

(* merge keeps every line that is not about a written display. The text is the  *)
(* one that was there: nothing is written. replace reads the file again.        *)
Merge(previous, target) == [sets |-> target, rev |-> previous.rev]
ReadPrevious ==
    /\ At("read") /\ UNCHANGED systemVars
    /\ \/ /\ Works
          /\ NextAt(IF file = Merge(file, worker.target) THEN "stop" ELSE "backup", [previous |-> file])
       \/ Fails /\ Deliver("failed")
FreeNumber(stamp) ==
    CHOOSE n \in 1..99 : /\ \A b \in backups : b.stamp = stamp => b.number # n
                         /\ \A m \in 1..(n - 1) : \E b \in backups : b.stamp = stamp /\ b.number = m
BackUp ==
    /\ At("backup")
    /\ \/ Works /\ file # worker.previous /\ Deliver("failed") /\ UNCHANGED systemVars
       \/ /\ Works /\ file = worker.previous
          /\ IF file = NoFile THEN NextAt("recheck", [created |-> <<>>]) /\ UNCHANGED backups
             ELSE \E stamp \in Clock :
                LET new == [stamp |-> stamp, number |-> FreeNumber(stamp), text |-> file] IN
                    NextAt("recheck", [created |-> <<new>>]) /\ backups' = backups \cup {new}
          /\ UNCHANGED <<live, file, holds, bar>>
       \/ Fails /\ Deliver("failed") /\ UNCHANGED systemVars
Recheck ==
    /\ At("recheck") /\ UNCHANGED systemVars
    /\ \/ Works /\ file = worker.previous /\ NextAt("rename", <<>>)
       \/ Works /\ file # worker.previous /\ Deliver("failed")
       \/ Fails /\ Deliver("failed")

Older(a, b) == a.stamp < b.stamp \/ (a.stamp = b.stamp /\ a.number < b.number)
Newest(set, n) == {b \in set : Cardinality({c \in set : Older(b, c)}) < n}
Created == {worker.created[i] : i \in DOMAIN worker.created}
(* Mutant: the backup just made is pruned like the others.                      *)
PruneByClock == backups' = Newest(backups, BackupsKept)

PruneBackups == backups' = Created \cup Newest(backups \ Created, BackupsKept - Cardinality(Created))
RenameOver ==
    /\ At("rename") /\ UNCHANGED <<live, holds, bar>>
    /\ \/ /\ Works /\ file' = Merge(worker.previous, worker.target) /\ PruneBackups
          /\ NextAt("stop", <<>>)
       \/ Fails /\ Deliver("failed") /\ UNCHANGED <<file, backups>>

ReadSaved ==
    /\ At("saved") /\ UNCHANGED systemVars
    /\ \/ Works /\ NextAt("stop", <<>>)
       \/ Fails /\ Deliver("failed")

(* reload_and_settle: the bar is stopped while Hyprland lays the displays out   *)
(* as the file says, or otherwise where a display refuses it. A stop that fails *)
(* is logged only.                                                              *)
StopBar ==
    /\ At("stop") /\ UNCHANGED <<live, file, holds, backups>>
    /\ \/ Works /\ bar' = "down"
       \/ Fails /\ UNCHANGED bar
    /\ NextAt("reload", <<>>)
(* Mutant: a reload that fails returns at once.                                 *)
ReloadOrReturn ==
    /\ At("reload") /\ UNCHANGED <<file, holds, backups, bar>>
    /\ \/ /\ Works /\ live' \in IF file = NoFile THEN {live} ELSE Layouts
          /\ NextAt("start", [reloaded |-> TRUE])
       \/ Fails /\ UNCHANGED live /\ Deliver("failed")

Reload ==
    /\ At("reload") /\ UNCHANGED <<file, holds, backups, bar>>
    /\ \/ /\ Works /\ live' \in IF file = NoFile THEN {live} ELSE Layouts
          /\ NextAt("start", [reloaded |-> TRUE])
       \/ Fails /\ UNCHANGED live /\ NextAt("start", [reloaded |-> FALSE])

(* The start fails with a word of bar-ctl, which is a warning, or bar-ctl does  *)
(* not run or end, which is logged only. A bar that was not stopped stays.      *)
StartBar ==
    /\ At("start") /\ UNCHANGED <<live, file, holds, backups>>
    /\ \/ Works /\ bar' = "up" /\ NextAt("after", [start |-> "ok"])
       \/ /\ Fails /\ bar' = (IF bar = "up" THEN "up" ELSE "failed")
          /\ \E how \in {"refused", "lost"} : NextAt("after", [start |-> how])

(* A reload that failed delivers the snapshot too, if one can be read, but no   *)
(* warning of the bar; neither does a snapshot that failed.                     *)
SnapshotAfter ==
    /\ At("after") /\ UNCHANGED systemVars
    /\ \/ \E text \in Text :
             /\ Reads(text)
             /\ NextAt("deliver", [result |-> "finished", print |-> Fingerprint(text), holder |-> holds,
                                   warned |-> worker.reloaded /\ worker.start = "refused"])
       \/ Fails /\ Deliver("failed")

WorkerStep ==
    \/ TakeSnapshot \/ Dispatch \/ ShowLabels \/ CheckBaseline \/ ReadPrevious \/ BackUp
    \/ Recheck \/ RenameOver \/ ReadSaved \/ StopBar \/ Reload \/ StartBar \/ SnapshotAfter

-----------------------------------------------------------------------------
(* Controller::finish and absorb, on the UI thread.                             *)
LoadModel ==
    /\ loaded' = TRUE /\ baseline' = worker.print /\ details' = worker.holder
    /\ original' = worker.print.live /\ monitors' = worker.print.live /\ stale' = FALSE
RefreshDetails == details' = worker.holder /\ UNCHANGED <<loaded, baseline, original, monitors, stale>>
BecomeStale == stale' = TRUE /\ UNCHANGED <<loaded, baseline, original, monitors, details>>

AbsorbLoad == IF worker.result = "ok" THEN LoadModel ELSE UNCHANGED modelVars

(* Mutant: the poll's snapshot replaces the model although there are edits.     *)
AbsorbPollOver == IF worker.result = "ok" THEN LoadModel ELSE UNCHANGED modelVars

(* While a display is dragged on the page a new layout is left for later.       *)
AbsorbPoll ==
    IF worker.result # "ok" THEN UNCHANGED modelVars
    ELSE IF ~loaded THEN LoadModel
    ELSE IF worker.print = baseline THEN RefreshDetails
    ELSE IF HasChanges THEN BecomeStale
    ELSE \E dragging \in BOOLEAN : IF dragging THEN UNCHANGED modelVars ELSE LoadModel
AbsorbSnapshot ==
    IF worker.result # "ok" THEN UNCHANGED modelVars
    ELSE IF worker.print = baseline THEN RefreshDetails
    ELSE IF HasChanges THEN BecomeStale
    ELSE LoadModel
AbsorbOutcome ==
    IF worker.result = "finished" THEN LoadModel
    ELSE IF worker.result = "stale" THEN BecomeStale
    ELSE UNCHANGED modelVars
Absorb ==
    CASE running = "Load" -> AbsorbLoad
      [] running = "Poll" -> AbsorbPoll
      [] running = "SetPrimary" -> AbsorbSnapshot
      [] running = "Identify" -> UNCHANGED modelVars
      [] OTHER -> AbsorbOutcome

(* Mutant: what waited behind the poll is taken out and not started.            *)
FinishAndForget ==
    /\ worker.at = "deliver"
    /\ IF running = "Poll" /\ queued.kind # "None" THEN UNCHANGED modelVars ELSE Absorb
    /\ UNCHANGED queued /\ running' = queued.kind /\ worker' = Idle
    /\ UNCHANGED <<systemVars, outsideVars>>

(* The result of a poll something waits behind is discarded.                    *)
Finish ==
    /\ worker.at = "deliver"
    /\ IF running = "Poll" /\ queued.kind # "None" THEN UNCHANGED modelVars ELSE Absorb
    /\ queued' = NoJob /\ running' = queued.kind
    /\ IF queued.kind = "None" THEN worker' = Idle ELSE Spawn(queued)
    /\ UNCHANGED <<systemVars, outsideVars>>
(* Mutant: the page is not told that the thread did not start.                  *)
SpawnFailsQuietly ==
    /\ running # "None" /\ worker.at = FirstPlace[running]
    /\ Fails /\ worker' = Idle
    /\ UNCHANGED <<systemVars, modelVars, running, queued, outside>>

(* The thread could not be started.                                             *)
SpawnFails ==
    /\ running # "None" /\ worker.at = FirstPlace[running]
    /\ Fails /\ running' = "None" /\ queued' = NoJob /\ worker' = Idle
    /\ UNCHANGED <<systemVars, modelVars, outside>>

(* A display is plugged or laid out by another program, the file is edited, and *)
(* a workspace moves.                                                           *)
Outside ==
    /\ outside < MaxOutside /\ outside' = outside + 1
    /\ \/ live' \in Layouts \ {live} /\ UNCHANGED <<file, holds>>
       \/ file' = [sets |-> IF file = NoFile THEN live ELSE file.sets, rev |-> outside'] /\ UNCHANGED <<live, holds>>
       \/ holds' \in Displays \ {holds} /\ UNCHANGED <<live, file>>
    /\ UNCHANGED <<backups, bar, modelVars, running, queued, worker, ioFaults>>

DisplayNext ==
    \/ Timer \/ Refresh \/ Identify \/ ApplyChanges \/ KeepCurrent \/ UseSaved \/ ChoosePrimary
    \/ Edit \/ Revert \/ WorkerStep \/ Finish \/ SpawnFails \/ Outside

(* The thread runs and the event loop takes what it delivers.                   *)
DisplayFair == WF_displayVars(WorkerStep) /\ WF_displayVars(Finish)
DisplaySpec == DisplayInit /\ [][DisplayNext]_displayVars /\ DisplayFair

-----------------------------------------------------------------------------
DisplayTypeOK ==
    /\ live \in Layouts /\ file \in Files /\ holds \in Displays /\ bar \in {"up", "down", "failed"}
    /\ running \in Jobs \cup {"None"} /\ queued.kind \in UserJobs \cup {"None"}
    /\ (worker = Idle) <=> (running = "None")
    /\ queued.kind # "None" => running = "Poll"
    /\ Cardinality(backups) <= BackupsKept + 1 + outside + ioFaults

(* Pending edits are given up by the user only: no poll, no report about the    *)
(* primary display or the labels, and no job that was queued before they were   *)
(* made, replaces them (ui.rs absorb).                                          *)
EditsAreTheUsers ==
    [][HasChanges /\ monitors' # monitors
        => \/ worker' = worker /\ running' = running
           \/ Revert
           \/ worker.at = "deliver" /\ running \in {"Load", "Apply"}]_displayVars

(* What a save replaced is among the backups when it is done, whatever the      *)
(* clock said (conf.rs prune_backups: "The backup just written always survives, *)
(* even if the clock went back"). A write after the last check is not seen.     *)
ReplacedIsBackedUp ==
    [][worker.at = "rename" /\ file' # file /\ worker'.at = "stop"
            /\ file = worker.previous /\ file # NoFile
        => \E b \in backups' : b.text = file]_displayVars

(* A worker that stops the taskbar asks for it again before it delivers,        *)
(* whatever fails in between; a job that finished leaves it down only if the    *)
(* start itself failed, and then the user is told, unless bar-ctl gave no       *)
(* answer or the reload failed too (reload_and_settle drops its warnings).      *)
BarIsRestarted ==
    /\ bar = "down" => worker.at \in {"reload", "start"}
    /\ worker.at = "deliver" /\ worker.result = "finished" /\ bar = "failed"
        => worker.warned \/ worker.start = "lost" \/ ~worker.reloaded

(* Every user's job ends, the one that waits behind a poll included.            *)
JobsEnd == Busy ~> ~Busy
=============================================================================
