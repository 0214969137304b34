----------------------------- MODULE SyncCenter -----------------------------
(***************************************************************************)
(* The sync daemon's jobs and a window that follows them                   *)
(* (sync-center/src/dbus.rs and bin/gui.rs).  A D-Bus call checks that     *)
(* nothing runs, and only later steps of a spawned task make that visible; *)
(* the progress reports of a running rsync are sent by tasks of their own; *)
(* the window hears of changes by signals it may miss while it reconnects. *)
(***************************************************************************)
EXTENDS Integers, Sequences, SequencesExt

CONSTANTS
    Profiles,   \* the ids a profile may have
    Order,      \* the place at which each is listed
    Callers,    \* the connections that call the daemon: windows and scripts, one call at a time each
    Window,     \* the one of the modelled window; a script's call may also stand in for one of its own
    Outcomes,   \* what an rsync that ends by itself comes to
    MaxJobs,    \* bound: jobs at a time
    MaxEvents,  \* bound: calls accepted, edits of the profiles, lost connections and progress reports, together
    MaxQueue    \* bound: signals the window has not applied yet; one more takes the place of the last

ASSUME SyncAssumption ==
    /\ Window \in Callers /\ MaxJobs \in Nat \ {0} /\ MaxEvents \in Nat /\ MaxQueue \in Nat \ {0}
    /\ Order \in [Profiles -> Nat] /\ Outcomes \subseteq {"success", "partial", "error"}
    /\ "nobody" \notin Profiles

VARIABLES
    disk,     \* the saved profiles: "none", "on" (enabled) or "off"
    config,   \* what the daemon read of them
    active,   \* active_profile_id
    results,  \* what the daemon last noted of each profile
    cancel,   \* cancel_flag
    queued,   \* queue_running
    slot,     \* rsync_pid: the job whose child it names, none, or a process that is gone
    call,     \* what each caller's call has come to
    rsyncJob, \* the spawned tasks
    child,    \* each job's rsync
    killer,   \* a CancelSync has set the flag, or holds the mutex of rsync_pid as well
    tick,     \* a progress report that is built but not sent
    syncEvents, \* how many calls were accepted, edits made, connections lost and reports built
    listener, \* the window's subscription: "off", "on", "lost"
    syncSignals, \* the snapshots on their way to the window's rows
    rows,     \* the window's rows
    raced,    \* history: with a job under way, a call acted on a check that another call had overtaken
    forgot,   \* history: the flag was cleared while a job it was set for had not ended
    missed,   \* history: the rsync that runs was started while a CancelSync held the mutex
    late,     \* history: the last snapshot sent was a progress report older than the results
    gap       \* history: a snapshot was sent while the window was not listening, and nothing was fetched since

daemonVars == <<config, active, results, cancel, queued, slot, call, rsyncJob, child, killer, tick,
                raced, forgot, missed>>
historyVars == <<raced, forgot, missed>>
windowVars == <<disk, listener, rows, syncEvents>>
sentVars == <<syncSignals, late, gap>>
syncVars == <<disk, config, active, results, cancel, queued, slot, call, rsyncJob, child, killer, tick, syncEvents,
              listener, syncSignals, rows, raced, forgot, missed, late, gap>>

NoCaller == "nobody"
Gone == MaxJobs + 1
NoSnapshot == [p \in {} |-> "none"]
Busy == {"syncing", "queued"}
States == {"none", "idle", "error"} \cup Busy \cup Outcomes
Jobs == 1..MaxJobs
NoRsync == [kind |-> "no", at |-> "no", list |-> {}, ends |-> "none"]
Quiet == [step |-> "idle", kind |-> "no", profile |-> NoCaller]
NewRow == [busy |-> FALSE, status |-> "idle"]
NoRow == [busy |-> FALSE, status |-> "none"]

SyncInit ==
    /\ disk = [p \in Profiles |-> "on"] /\ config = disk /\ syncEvents = 0
    /\ active = NoCaller /\ results = [p \in Profiles |-> "none"] /\ cancel = FALSE /\ queued = FALSE
    /\ slot = 0 /\ call = [c \in Callers |-> Quiet] /\ rsyncJob = [j \in Jobs |-> NoRsync]
    /\ child = [j \in Jobs |-> "no"] /\ killer = "no" /\ tick = NoSnapshot
    /\ listener = "off" /\ syncSignals = <<>>
    /\ rows = [p \in Profiles |-> IF disk[p] = "none" THEN NoRow ELSE NewRow]
    /\ raced = FALSE /\ forgot = FALSE /\ missed = FALSE /\ late = FALSE /\ gap = FALSE

(***************************************************************************)
(* Snapshots.  Sending one reaches the window if it is subscribed.         *)
(***************************************************************************)
Queued(snapshot) == Append(IF Len(syncSignals) < MaxQueue THEN syncSignals ELSE Front(syncSignals), snapshot)
Send(snapshot, isLate) ==
    /\ late' = isLate
    /\ syncSignals' = IF listener = "on" THEN Queued(snapshot) ELSE syncSignals
    /\ gap' = (gap \/ listener # "on")

Counted == syncEvents < MaxEvents /\ syncEvents' = syncEvents + 1

(* What one row shows after a snapshot: a profile the daemon has nothing on is
   only marked as not syncing. *)
RowAfter(row, state) ==
    IF state = "none" THEN [row EXCEPT !.busy = FALSE] ELSE [busy |-> state \in Busy, status |-> state]
ApplyStatus(snapshot) ==
    rows' = [p \in Profiles |-> IF disk[p] = "none" THEN rows[p] ELSE RowAfter(rows[p], snapshot[p])]

-----------------------------------------------------------------------------
(***************************************************************************)
(* The calls.  SyncNow and SyncAll look whether anything runs, and act on  *)
(* the answer in a later step.                                             *)
(***************************************************************************)
(* Mutant: only the active profile counts, which is none between two profiles of a queue. *)
IdleBetween == active = NoCaller

NothingRuns == active = NoCaller /\ ~queued

CheckCall(c, kind, p) ==
    /\ call[c] = Quiet
    /\ NothingRuns
    /\ call' = [call EXCEPT ![c] = [step |-> "accept", kind |-> kind, profile |-> p]]
    /\ UNCHANGED <<config, active, results, cancel, queued, slot, rsyncJob, child, killer, tick>>
    /\ UNCHANGED historyVars /\ UNCHANGED windowVars /\ UNCHANGED sentVars

(* Its check would fail now, or another task was spawned that it cannot see.     *)
Overtaken == ~NothingRuns \/ \E j \in Jobs : rsyncJob[j].at = "start"

(* A job other than j is under way: if the flag is set, it asks that job to stop.  *)
Others(j) == \E i \in Jobs \ {j} : rsyncJob[i] # NoRsync

(* Nothing looks at the check again: the flag is cleared and the task spawned.    *)
Spawn(j, kind, at, list) ==
    /\ rsyncJob[j] = NoRsync /\ \A i \in 1..(j - 1) : rsyncJob[i] # NoRsync
    /\ Counted
    /\ cancel' = FALSE
    /\ rsyncJob' = [rsyncJob EXCEPT ![j] = [NoRsync EXCEPT !.kind = kind, !.at = at, !.list = list]]
    /\ raced' = (Others(j) /\ (raced \/ Overtaken))
    /\ forgot' = (Others(j) /\ (forgot \/ cancel))

AcceptNow(c, j) ==
    /\ call[c].step = "accept" /\ call[c].kind = "now"
    /\ Spawn(j, "now", "start", {call[c].profile})
    /\ call' = [call EXCEPT ![c] = Quiet]
    /\ UNCHANGED <<config, active, results, queued, slot, child, killer, tick, missed>>
    /\ UNCHANGED <<disk, listener, rows>> /\ UNCHANGED sentVars

Enabled == {p \in Profiles : config[p] = "on"}

AcceptAll(c, j) ==
    /\ call[c].step = "accept" /\ call[c].kind = "all"
    /\ queued' = TRUE
    /\ Spawn(j, "all", "list", {})
    /\ call' = [call EXCEPT ![c].step = "listing"]
    /\ UNCHANGED <<config, active, results, slot, child, killer, tick, missed>>
    /\ UNCHANGED <<disk, listener, rows>> /\ UNCHANGED sentVars

ListAll(c, j) ==
    /\ call[c].step = "listing" /\ rsyncJob[j].at = "list"
    /\ call' = [call EXCEPT ![c] = Quiet]
    /\ IF Enabled = {}
       THEN /\ queued' = FALSE
            /\ rsyncJob' = [rsyncJob EXCEPT ![j] = NoRsync]
            /\ UNCHANGED results /\ UNCHANGED sentVars
       ELSE /\ results' = [p \in Profiles |-> IF p \in Enabled THEN "queued" ELSE results[p]]
            /\ Send(results', FALSE)
            /\ rsyncJob' = [rsyncJob EXCEPT ![j].at = "head", ![j].list = Enabled]
            /\ UNCHANGED queued
    /\ UNCHANGED <<config, active, cancel, slot, child, killer, tick>>
    /\ UNCHANGED historyVars /\ UNCHANGED windowVars

(* CancelSync: the flag; then, with the mutex, the signal to the process the slot
   names, if that still runs. *)
CancelFlag ==
    /\ killer = "no"
    /\ cancel' = TRUE /\ killer' = "set" /\ forgot' = FALSE
    /\ UNCHANGED <<config, active, results, queued, slot, call, rsyncJob, child, tick, raced, missed>>

CancelLock ==
    /\ killer = "set"
    /\ killer' = "locked"
    /\ UNCHANGED <<config, active, results, cancel, queued, slot, call, rsyncJob, child, tick>>
    /\ UNCHANGED historyVars /\ UNCHANGED windowVars /\ UNCHANGED sentVars

CancelKill ==
    /\ killer = "locked"
    /\ killer' = "no"
    /\ child' = IF slot \in Jobs /\ child[slot] = "running" THEN [child EXCEPT ![slot] = "error"] ELSE child
    /\ UNCHANGED <<config, active, results, cancel, queued, slot, call, rsyncJob, tick>>
    /\ UNCHANGED historyVars /\ UNCHANGED windowVars /\ UNCHANGED sentVars

(* try_lock of the mutex of rsync_pid.                                             *)
TryLock == killer # "locked"

-----------------------------------------------------------------------------
(***************************************************************************)
(* A task: per profile, mark it syncing, run rsync, note the result.       *)
(***************************************************************************)
(* The first of the job's profiles that are left; the rest is the queue's. *)
Profile(j) == CHOOSE p \in rsyncJob[j].list : \A q \in rsyncJob[j].list : Order[p] <= Order[q]
After(j) == IF rsyncJob[j].kind = "now" THEN NoRsync
            ELSE [rsyncJob[j] EXCEPT !.at = "head", !.list = @ \ {Profile(j)}, !.ends = "none"]
Moved(j, at) == rsyncJob' = [rsyncJob EXCEPT ![j].at = at]
Ended(j, outcome) == rsyncJob' = [rsyncJob EXCEPT ![j].at = "record", ![j].ends = outcome]

QueueHead(j) ==
    /\ rsyncJob[j].at = "head"
    /\ IF rsyncJob[j].list = {} THEN /\ Moved(j, "clear") /\ queued' = FALSE
       ELSE /\ IF cancel THEN Ended(j, "idle") ELSE Moved(j, "start")
            /\ UNCHANGED queued
    /\ UNCHANGED <<config, active, results, cancel, slot, call, child, killer, tick>>
    /\ UNCHANGED historyVars /\ UNCHANGED windowVars /\ UNCHANGED sentVars

(* The queue was released in the step before: a call may have come in between.    *)
ClearFlag(j) ==
    /\ rsyncJob[j].at = "clear"
    /\ cancel' = FALSE /\ forgot' = (Others(j) /\ (forgot \/ cancel))
    /\ rsyncJob' = [rsyncJob EXCEPT ![j] = NoRsync]
    /\ UNCHANGED <<config, active, results, queued, slot, call, child, killer, tick, raced, missed>>
    /\ UNCHANGED windowVars /\ UNCHANGED sentVars

ExecuteProfile(j) ==
    /\ rsyncJob[j].at = "start"
    /\ results' = [results EXCEPT ![Profile(j)] = "syncing"]
    /\ active' = Profile(j)
    /\ Send(results', FALSE)
    /\ Moved(j, "spawn")
    /\ UNCHANGED <<config, cancel, queued, slot, call, child, killer, tick>>
    /\ UNCHANGED historyVars /\ UNCHANGED windowVars

(* An unknown profile, a volume that is not mounted or an rsync that cannot be
   started is an error; otherwise the slot is to name the new process. *)
SpawnRsync(j) ==
    /\ rsyncJob[j].at = "spawn"
    /\ \/ Ended(j, "error") /\ UNCHANGED <<slot, child, missed>>
       \/ /\ config[Profile(j)] # "none"
          /\ child' = [child EXCEPT ![j] = "running"]
          /\ slot' = IF TryLock THEN j ELSE slot
          /\ missed' = ~TryLock
          /\ Moved(j, "rsync")
    /\ UNCHANGED <<config, active, results, cancel, queued, call, killer, tick, raced, forgot>>
    /\ UNCHANGED windowVars /\ UNCHANGED sentVars

RsyncExits(j) ==
    /\ child[j] = "running"
    /\ \E outcome \in Outcomes : child' = [child EXCEPT ![j] = outcome]
    /\ UNCHANGED <<config, active, results, cancel, queued, slot, call, rsyncJob, killer, tick>>
    /\ UNCHANGED historyVars /\ UNCHANGED windowVars /\ UNCHANGED sentVars

(* The slot once job j's process was waited for: cleared, or naming what is gone.  *)
SlotAfter(j) == IF TryLock THEN 0 ELSE IF slot = j THEN Gone ELSE slot

(* Mutant: the wait for rsync does not look at the flag while rsync runs. *)
PollOnlyExit(j) ==
    /\ rsyncJob[j].at = "rsync"
    /\ child[j] # "running"
    /\ child' = [child EXCEPT ![j] = "no"]
    /\ slot' = SlotAfter(j) /\ missed' = FALSE
    /\ Ended(j, IF cancel THEN "idle" ELSE child[j])
    /\ UNCHANGED <<config, active, results, cancel, queued, call, killer, tick, raced, forgot>>
    /\ UNCHANGED windowVars /\ UNCHANGED sentVars

(* Mutant: the slot keeps the process that was waited for. *)
PollKeepsSlot(j) ==
    /\ rsyncJob[j].at = "rsync"
    /\ child[j] # "running" \/ cancel
    /\ child' = [child EXCEPT ![j] = "no"]
    /\ Ended(j, IF cancel THEN "idle" ELSE child[j])
    /\ UNCHANGED <<config, active, results, cancel, queued, slot, call, killer, tick>>
    /\ UNCHANGED historyVars /\ UNCHANGED windowVars /\ UNCHANGED sentVars

(* The wait loop: an exit, or the flag, which has rsync killed and waited for. *)
PollRsync(j) ==
    /\ rsyncJob[j].at = "rsync"
    /\ child[j] # "running" \/ cancel
    /\ child' = [child EXCEPT ![j] = "no"]
    /\ slot' = SlotAfter(j) /\ missed' = FALSE
    /\ Ended(j, IF cancel THEN "idle" ELSE child[j])
    /\ UNCHANGED <<config, active, results, cancel, queued, call, killer, tick, raced, forgot>>
    /\ UNCHANGED windowVars /\ UNCHANGED sentVars

(* A progress line starts a task that builds a snapshot and then sends it. *)
BuildTick(j) ==
    /\ Counted /\ rsyncJob[j].at = "rsync" /\ tick = NoSnapshot
    /\ tick' = results
    /\ UNCHANGED <<config, active, results, cancel, queued, slot, call, rsyncJob, child, killer>>
    /\ UNCHANGED historyVars /\ UNCHANGED <<disk, listener, rows>> /\ UNCHANGED sentVars

SendTick ==
    /\ tick # NoSnapshot
    /\ Send(tick, tick # results)
    /\ tick' = NoSnapshot
    /\ UNCHANGED <<config, active, results, cancel, queued, slot, call, rsyncJob, child, killer>>
    /\ UNCHANGED historyVars /\ UNCHANGED windowVars

(* Mutant: the result is noted but not sent. *)
RecordUntold(j) ==
    /\ rsyncJob[j].at = "record"
    /\ active' = NoCaller
    /\ results' = [results EXCEPT ![Profile(j)] = rsyncJob[j].ends]
    /\ rsyncJob' = [rsyncJob EXCEPT ![j] = After(j)]
    /\ UNCHANGED <<config, cancel, queued, slot, call, child, killer, tick>>
    /\ UNCHANGED historyVars /\ UNCHANGED windowVars /\ UNCHANGED sentVars

(* record_result; the task goes on with the next profile of its queue. *)
RecordResult(j) ==
    /\ rsyncJob[j].at = "record"
    /\ active' = NoCaller
    /\ results' = [results EXCEPT ![Profile(j)] = rsyncJob[j].ends]
    /\ Moved(j, "tell")
    /\ UNCHANGED <<config, cancel, queued, slot, call, child, killer, tick>>
    /\ UNCHANGED historyVars /\ UNCHANGED windowVars /\ UNCHANGED sentVars

TellResult(j) ==
    /\ rsyncJob[j].at = "tell"
    /\ Send(results, FALSE)
    /\ rsyncJob' = [rsyncJob EXCEPT ![j] = After(j)]
    /\ UNCHANGED <<config, active, results, cancel, queued, slot, call, child, killer, tick>>
    /\ UNCHANGED historyVars /\ UNCHANGED windowVars

-----------------------------------------------------------------------------
(***************************************************************************)
(* The window.                                                             *)
(***************************************************************************)
Responsive == call[Window] = Quiet
ProfileExists(p) == disk[p] # "none"

(* on_sync_profile: a row that is syncing cancels, another asks for a sync. *)
ClickRow(p) ==
    /\ Responsive /\ ProfileExists(p)
    /\ \/ rows[p].busy /\ CancelFlag /\ UNCHANGED windowVars /\ UNCHANGED sentVars
       \/ ~rows[p].busy /\ CheckCall(Window, "now", p)

(* on_start_sync and on_stop_sync. *)
ClickAll == Responsive /\ (\A p \in Profiles : ~rows[p].busy) /\ CheckCall(Window, "all", NoCaller)
ClickStop == Responsive /\ CancelFlag /\ UNCHANGED windowVars /\ UNCHANGED sentVars

(* on_save_profile and an import: saved, and the daemon told to read it again. *)
SaveProfile(p) ==
    /\ Responsive /\ Counted /\ ~ProfileExists(p) /\ results[p] = "none"
    /\ disk' = [disk EXCEPT ![p] = "on"]
    /\ rows' = [rows EXCEPT ![p] = NewRow]
    /\ config' = disk'
    /\ results' = [q \in Profiles |-> IF disk'[q] = "none" THEN "none" ELSE results[q]]
    /\ Send(results', FALSE)
    /\ UNCHANGED <<active, cancel, queued, slot, call, rsyncJob, child, killer, tick, listener>>
    /\ UNCHANGED historyVars

(* on_toggle_profile and on_delete_profile: saved, and nobody is told. *)
ToggleProfile(p) ==
    /\ Responsive /\ Counted /\ ProfileExists(p)
    /\ disk' = [disk EXCEPT ![p] = IF @ = "on" THEN "off" ELSE "on"]
    /\ UNCHANGED <<listener, rows>> /\ UNCHANGED daemonVars /\ UNCHANGED sentVars
DeleteProfile(p) ==
    /\ Responsive /\ Counted /\ ProfileExists(p) /\ ~rows[p].busy
    /\ disk' = [disk EXCEPT ![p] = "none"]
    /\ rows' = [rows EXCEPT ![p] = NoRow]
    /\ UNCHANGED listener /\ UNCHANGED daemonVars /\ UNCHANGED sentVars

(* The initial GetStatus and on_refresh. *)
Refresh ==
    /\ Responsive
    /\ ApplyStatus(results)
    /\ gap' = (gap /\ (listener # "on" \/ syncSignals # <<>>))
    /\ UNCHANGED <<disk, listener, syncEvents, syncSignals, late>> /\ UNCHANGED daemonVars

(* The listener's thread: subscribe; lose the connection; fetch, and pause. *)
Subscribe ==
    /\ listener = "off"
    /\ listener' = "on"
    /\ UNCHANGED <<disk, rows, syncEvents>> /\ UNCHANGED daemonVars /\ UNCHANGED sentVars
LoseConnection ==
    /\ Counted /\ listener = "on"
    /\ listener' = "lost"
    /\ UNCHANGED <<disk, rows>> /\ UNCHANGED daemonVars /\ UNCHANGED sentVars
RefetchStatus ==
    /\ listener = "lost"
    /\ listener' = "off"
    /\ syncSignals' = Queued(results)
    /\ gap' = FALSE
    /\ UNCHANGED <<disk, rows, syncEvents, late>> /\ UNCHANGED daemonVars

(* The event loop applies the snapshots in the order they came. *)
ApplySignal ==
    /\ Responsive /\ syncSignals # <<>>
    /\ ApplyStatus(Head(syncSignals))
    /\ syncSignals' = Tail(syncSignals)
    /\ UNCHANGED <<disk, listener, syncEvents, late, gap>> /\ UNCHANGED daemonVars

-----------------------------------------------------------------------------
Task(j) ==
    \/ QueueHead(j) \/ ClearFlag(j) \/ ExecuteProfile(j) \/ SpawnRsync(j)
    \/ PollRsync(j) \/ RecordResult(j) \/ TellResult(j)
Accept(c) == \E j \in Jobs : AcceptNow(c, j) \/ AcceptAll(c, j) \/ ListAll(c, j)

(* What the daemon does for its callers, any of which may cancel at any time. *)
JobsNext ==
    \/ \E j \in Jobs : Task(j) \/ RsyncExits(j)
    \/ \E c \in Callers :
          \/ Accept(c)
          \/ \E p \in Profiles : ProfileExists(p) /\ CheckCall(c, "now", p)
          \/ CheckCall(c, "all", NoCaller)
    \/ CancelFlag /\ UNCHANGED windowVars /\ UNCHANGED sentVars
    \/ CancelLock \/ CancelKill

(* What the window does and hears of between its calls. *)
WindowNext ==
    \/ SendTick \/ \E j \in Jobs : BuildTick(j)
    \/ ClickAll \/ ClickStop \/ Refresh \/ Subscribe \/ LoseConnection \/ RefetchStatus \/ ApplySignal
    \/ \E p \in Profiles : ClickRow(p) \/ SaveProfile(p) \/ ToggleProfile(p) \/ DeleteProfile(p)

SyncNext == JobsNext \/ WindowNext

(* The runtime runs the tasks it was given, the window applies what it received;
   nothing makes an rsync end, a user click or a caller call. *)
SyncFairness ==
    /\ \A j \in Jobs : WF_syncVars(Task(j))
    /\ WF_syncVars(ApplySignal)
    /\ WF_syncVars(CancelLock) /\ WF_syncVars(CancelKill)
    /\ \A c \in Callers : WF_syncVars(Accept(c))

-----------------------------------------------------------------------------
SyncTypeOK ==
    /\ disk \in [Profiles -> {"none", "on", "off"}] /\ config \in [Profiles -> {"none", "on", "off"}]
    /\ active \in Profiles \cup {NoCaller} /\ results \in [Profiles -> States]
    /\ {cancel, queued, raced, forgot, missed, late, gap} \subseteq BOOLEAN
    /\ slot \in {0, Gone} \cup Jobs /\ (slot \in Jobs => child[slot] # "no")
    /\ killer \in {"no", "set", "locked"} /\ syncEvents \in 0..MaxEvents
    /\ \A j \in Jobs : /\ rsyncJob[j].kind \in {"no", "now", "all"}
                       /\ child[j] \in {"no", "running"} \cup Outcomes \cup {"error"}
    /\ listener \in {"off", "on", "lost"} /\ Len(syncSignals) <= MaxQueue
    /\ \A p \in Profiles : rows[p].busy \in BOOLEAN /\ rows[p].status \in States

(* One rsync at a time, and the daemon knows which: the profile of a process that
   runs is the active one, also between the profiles of a queue and while the task
   before it ends, and the slot names it unless a CancelSync held its mutex when it
   was started.  Two calls that both passed the check before either was acted on
   break this, and nothing else does. *)
OneRsync ==
    \A j \in Jobs :
        child[j] # "no" /\ ~raced => /\ active = Profile(j)
                                     /\ slot = j \/ missed
                                     /\ \A i \in Jobs \ {j} : child[i] = "no"

(* Once the window has applied its signals it shows what the daemon knows, unless
   it was not listening when that was sent, or a progress report that was built
   earlier overtook it. *)
WindowFollows ==
    (/\ \A j \in Jobs : rsyncJob[j].at # "tell"
     /\ listener = "on" /\ syncSignals = <<>> /\ ~gap /\ ~late) =>
        \A p \in Profiles : ProfileExists(p) => RowAfter(rows[p], results[p]) = rows[p]

(* Every job that is told to stop stops, whatever its rsync does, however many
   race and whether or not the slot names its process; the flag is forgotten only
   where it is cleared for another: by a call whose check came first, and at the
   end of a queue that was already released. *)
CancelStops == \A j \in Jobs : (cancel /\ rsyncJob[j] # NoRsync) ~> (rsyncJob[j] = NoRsync \/ forgot)
=============================================================================
