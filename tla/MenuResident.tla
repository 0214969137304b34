------------------------------ MODULE MenuResident ------------------------------
(* The processes of the start menu (start-menu/src/instance.rs, signals.rs and  *)
(* run_resident of main.rs). Each has a main thread that claims the residency   *)
(* and then runs the event loop, a thread that waits for the blocked signals,   *)
(* and two watchdogs that end the process. They share the pidfile and the lock  *)
(* file. Removing the pidfile is two steps, a read and an unlink, and any       *)
(* thread of any process may run in between.                                    *)
EXTENDS Naturals, Sequences, FiniteSets

CONSTANTS Pids,        \* process ids; a dead one may be given out again
          Nobody,
          MaxLaunches, \* launches of the program in a behaviour
          MaxSignals,  \* signals sent by scripts and by the session
          MaxFaults,   \* crashes, stalls of the UI, failures to write the pidfile
          MaxLockFaults \* failures to use the lock file

ASSUME MenuAssumption == Nobody \notin Pids /\ MaxLaunches \in Nat /\ MaxSignals \in Nat

VARIABLES proc,     \* each pid's process
          pidfile, lock,
          launches, signals, faults, lockFaults

menuVars == <<proc, pidfile, lock, launches, signals, faults, lockFaults>>

UserRequests == {"toggle", "show", "hide"}
Requests == UserRequests \cup {"quit"}
Threads == {"main", "signal", "exitdog", "stalldog"}

Off == [pc |-> "off", hidden |-> FALSE, peer |-> Nobody, tries |-> 0,
        listening |-> FALSE, pending |-> {}, queue |-> <<>>, visible |-> FALSE,
        exitsOnClose |-> FALSE, quitting |-> FALSE, armed |-> FALSE,
        stuck |-> FALSE, lockless |-> FALSE, removing |-> {}, dying |-> FALSE]

Stages == {"off", "legacy", "check", "lock", "signal", "init", "show", "publish",
           "recheck", "loop", "cleanup", "exit", "returned"}
Residents == {"init", "show", "publish", "recheck", "loop", "cleanup", "exit"}

IsMenu(p) == proc[p].pc # "off"

MenuInit ==
    /\ proc = [p \in Pids |-> Off]
    /\ pidfile = Nobody /\ lock = Nobody
    /\ launches = 0 /\ signals = 0 /\ faults = 0 /\ lockFaults = 0

Become(p, r) == proc' = [proc EXCEPT ![p] = r]
Goto(p, stage) == Become(p, [proc[p] EXCEPT !.pc = stage])
Same == UNCHANGED <<launches, signals, faults, lockFaults>>
Fault == faults < MaxFaults /\ faults' = faults + 1 /\ UNCHANGED <<launches, signals, lockFaults>>

(* The process is gone and the kernel drops its lock; its pidfile stays.        *)
Die(p) ==
    /\ Become(p, Off)
    /\ lock' = IF lock = p THEN Nobody ELSE lock
    /\ UNCHANGED pidfile

-----------------------------------------------------------------------------
(* Claiming the residency *)

(* run_resident up to instance::start: the signals are blocked first.           *)
Launch(p, hidden) ==
    /\ proc[p].pc = "off" /\ launches < MaxLaunches
    /\ launches' = launches + 1
    /\ Become(p, [Off EXCEPT !.pc = "check", !.hidden = hidden])
    /\ UNCHANGED <<pidfile, lock, signals, faults, lockFaults>>

(* run_once: a plain menu has the same process name, no lock and no signals.    *)
LaunchPlain(p) ==
    /\ proc[p].pc = "off" /\ launches < MaxLaunches
    /\ launches' = launches + 1
    /\ Become(p, [Off EXCEPT !.pc = "legacy", !.visible = TRUE, !.exitsOnClose = TRUE])
    /\ UNCHANGED <<pidfile, lock, signals, faults, lockFaults>>

ClosePlain(p) == proc[p].pc = "legacy" /\ Die(p) /\ Same

RunningInstance(p) == pidfile \notin {Nobody, p} /\ IsMenu(pidfile)

(* One turn of claim's loop looks at the pidfile ...                            *)
CheckPidfile(p) ==
    /\ proc[p].pc = "check"
    /\ IF ~RunningInstance(p) THEN Goto(p, "lock") /\ UNCHANGED lock
       ELSE IF proc[p].hidden THEN Die(p)
       ELSE /\ Become(p, [proc[p] EXCEPT !.pc = "signal", !.peer = pidfile])
            /\ UNCHANGED lock
    /\ UNCHANGED pidfile /\ Same

(* Mutant: the lock is tried, and what it says is not looked at.                *)
TryLockIgnored(p) ==
    proc[p].pc = "lock" /\ Goto(p, "init") /\ lock' = p /\ UNCHANGED pidfile /\ Same

(* ... and then tries the lock: it is free, or somebody is starting, ...        *)
TryLock(p) ==
    /\ proc[p].pc = "lock"
    /\ IF lock = Nobody THEN lock' = p /\ Goto(p, "init")
                        ELSE Goto(p, "check") /\ UNCHANGED lock
    /\ UNCHANGED pidfile /\ Same

(* ... or has been for longer than STARTUP_PATIENCE.                            *)
PatienceEnds(p) == proc[p].pc = "lock" /\ lock # Nobody /\ Die(p) /\ Same

(* The lock file cannot be used: the process becomes a resident without it.     *)
LockFails(p) ==
    /\ proc[p].pc = "lock"
    /\ lockFaults < MaxLockFaults /\ lockFaults' = lockFaults + 1
    /\ Become(p, [proc[p] EXCEPT !.pc = "init", !.lockless = TRUE])
    /\ UNCHANGED <<pidfile, lock, launches, signals, faults>>

(* The show signal goes to whatever process has the pid now: a menu that        *)
(* claims or is resident has it blocked, a plain one is ended by it.            *)
SendShow(p) ==
    LET q == proc[p].peer IN
    /\ proc[p].pc = "signal"
    /\ IF IsMenu(q)
       THEN /\ proc' = [proc EXCEPT ![p] = Off,
                  ![q] = IF proc[q].pc = "legacy" THEN Off
                         ELSE [proc[q] EXCEPT !.pending = @ \cup {"show"}]]
       ELSE IF proc[p].tries = 2 THEN Become(p, Off)
       ELSE Become(p, [proc[p] EXCEPT !.pc = "check", !.peer = Nobody, !.tries = @ + 1])
    /\ UNCHANGED <<pidfile, lock>> /\ Same

-----------------------------------------------------------------------------
(* The resident's main thread *)

(* Menu::new, then the watchdog and the signal thread.                          *)
StartThreads(p) ==
    /\ proc[p].pc = "init"
    /\ Become(p, [proc[p] EXCEPT !.pc = "show", !.listening = TRUE])
    /\ UNCHANGED <<pidfile, lock>> /\ Same

FirstShow(p) ==
    /\ proc[p].pc = "show"
    /\ Become(p, [proc[p] EXCEPT !.pc = "publish", !.visible = ~proc[p].hidden])
    /\ UNCHANGED <<pidfile, lock>> /\ Same

WritePidfile(p) ==
    /\ proc[p].pc = "publish"
    /\ pidfile' = p /\ Goto(p, "recheck")
    /\ UNCHANGED lock /\ Same

(* write_pidfile fails: a hidden menu that nothing can find ends, a shown one   *)
(* closes like a plain one.                                                     *)
WriteFails(p) ==
    /\ proc[p].pc = "publish" /\ Fault
    /\ IF proc[p].hidden THEN Die(p)
       ELSE /\ Become(p, [proc[p] EXCEPT !.pc = "recheck", !.exitsOnClose = TRUE])
            /\ UNCHANGED <<pidfile, lock>>

(* remove_pidfile_if_ours, first half: the thread has read our pid in the file. *)
ReadOwn(p, r, t) == IF pidfile = p THEN [r EXCEPT !.removing = @ \cup {t}] ELSE r

(* Mutant: no second look at QUITTING after the pidfile was written.            *)
RecheckNothing(p) ==
    proc[p].pc = "recheck" /\ Goto(p, "loop") /\ UNCHANGED <<pidfile, lock>> /\ Same

(* "A termination request may have raced the write above."                      *)
Recheck(p) ==
    /\ proc[p].pc = "recheck"
    /\ LET r == [proc[p] EXCEPT !.pc = "loop"] IN
       Become(p, IF proc[p].quitting THEN ReadOwn(p, r, "main") ELSE r)
    /\ UNCHANGED <<pidfile, lock>> /\ Same

(* A request for the UI thread; there is none once the event loop has stopped.  *)
Forward(r, request) == IF r.pc \in {"cleanup", "exit", "returned"} THEN r
                       ELSE [r EXCEPT !.queue = Append(@, request)]

(* A quit arms its watchdog and is forwarded once the pidfile is withdrawn.     *)
ForwardQuit(r) == Forward([r EXCEPT !.armed = TRUE], "quit")

(* remove_pidfile_if_ours, second half: the file is unlinked, whoever it names. *)
Unlink(p, t) ==
    /\ t \in proc[p].removing
    /\ pidfile' = Nobody
    /\ LET r == [proc[p] EXCEPT !.removing = @ \ {t}] IN
       Become(p, IF t = "signal" THEN ForwardQuit(r) ELSE r)
    /\ UNCHANGED lock /\ Same

Free(p) == "main" \notin proc[p].removing /\ ~proc[p].stuck

(* Launcher::close: hide, or end the process.                                   *)
CloseMenu(p, r) ==
    IF r.exitsOnClose THEN Off ELSE [r EXCEPT !.visible = FALSE]

Handle(p, r, request) ==
    CASE request = "quit" -> [r EXCEPT !.pc = "cleanup"]
      [] request = "hide" \/ (request = "toggle" /\ r.visible) -> CloseMenu(p, r)
      [] OTHER -> [r EXCEPT !.visible = TRUE]

After(p, r) ==
    /\ Become(p, r)
    /\ lock' = IF r = Off /\ lock = p THEN Nobody ELSE lock
    /\ UNCHANGED pidfile

RunJob(p) ==
    /\ proc[p].pc = "loop" /\ Free(p) /\ proc[p].queue # <<>>
    /\ After(p, Handle(p, [proc[p] EXCEPT !.queue = Tail(@)], Head(proc[p].queue)))
    /\ Same

(* Escape, a launch, a toolbar action or the compositor's close.                *)
UserCloses(p) ==
    /\ proc[p].pc = "loop" /\ Free(p) /\ proc[p].visible
    /\ After(p, CloseMenu(p, proc[p])) /\ Same

(* Mutant: the lock is dropped before the pidfile is taken back.                *)
CleanUpUnlocked(p) ==
    /\ proc[p].pc = "cleanup" /\ Free(p)
    /\ Become(p, ReadOwn(p, [proc[p] EXCEPT !.pc = "exit", !.visible = FALSE], "main"))
    /\ lock' = IF lock = p THEN Nobody ELSE lock
    /\ UNCHANGED pidfile /\ Same

(* After the event loop: hide, and take the pidfile back.                       *)
CleanUp(p) ==
    /\ proc[p].pc = "cleanup" /\ Free(p)
    /\ Become(p, ReadOwn(p, [proc[p] EXCEPT !.pc = "exit", !.visible = FALSE], "main"))
    /\ UNCHANGED <<pidfile, lock>> /\ Same

(* run_resident returns, which drops its lock; the other threads still run ...   *)
MainReturns(p) ==
    /\ proc[p].pc = "exit" /\ Free(p) /\ Goto(p, "returned")
    /\ lock' = IF lock = p THEN Nobody ELSE lock
    /\ UNCHANGED pidfile /\ Same

(* ... until main has returned too.                                             *)
ProcessEnds(p) == proc[p].pc = "returned" /\ Die(p) /\ Same

-----------------------------------------------------------------------------
(* The signal thread and the watchdogs *)

TakeSignal(p, request) ==
    /\ proc[p].listening /\ request \in proc[p].pending
    /\ "signal" \notin proc[p].removing
    /\ LET r == [proc[p] EXCEPT !.pending = @ \ {request},
                                 !.quitting = @ \/ request = "quit"]
       IN  Become(p, IF request # "quit" THEN Forward(r, request)
                     ELSE IF pidfile = p THEN ReadOwn(p, r, "signal")
                     ELSE ForwardQuit(r))
    /\ UNCHANGED <<pidfile, lock>> /\ Same

(* Mutant: only toggles count towards the watchdog.                             *)
TogglesWait(p) == \E i \in DOMAIN proc[p].queue : proc[p].queue[i] = "toggle"

UserWaits(p) == \E i \in DOMAIN proc[p].queue : proc[p].queue[i] \in UserRequests

(* A watchdog's time is up: the UI took no request for UI_STALL_LIMIT, or the   *)
(* process outlived EXIT_GRACE. It takes the pidfile back and ends the process. *)
Bites(p, t) == \/ t = "stalldog" /\ UserWaits(p) /\ (proc[p].stuck \/ proc[p].pc # "loop")
               \/ t = "exitdog" /\ proc[p].armed

WatchdogBites(p, t) ==
    /\ IsMenu(p) /\ ~proc[p].dying /\ Bites(p, t)
    /\ Become(p, ReadOwn(p, [proc[p] EXCEPT !.dying = TRUE], t))
    /\ UNCHANGED <<pidfile, lock>> /\ Same

WatchdogExits(p) ==
    /\ proc[p].dying /\ proc[p].removing \cap {"exitdog", "stalldog"} = {}
    /\ Die(p) /\ Same

-----------------------------------------------------------------------------
(* The environment *)

(* A script reads the pidfile and signals that process; a session's end sends   *)
(* the termination to every process. A plain menu is ended by any of them.      *)
Signal(p, request) ==
    /\ signals < MaxSignals /\ signals' = signals + 1
    /\ IsMenu(p) /\ (pidfile = p \/ request = "quit")
    /\ IF proc[p].pc = "legacy" THEN Die(p)
       ELSE /\ Become(p, [proc[p] EXCEPT !.pending = @ \cup {request}])
            /\ UNCHANGED <<pidfile, lock>>
    /\ UNCHANGED <<launches, faults, lockFaults>>

Crash(p) == IsMenu(p) /\ Fault /\ Die(p)

(* A frame swap blocks while the outputs are off, and goes on afterwards.       *)
Stall(p) ==
    /\ proc[p].pc \in {"loop", "cleanup"} /\ ~proc[p].stuck /\ Fault
    /\ Become(p, [proc[p] EXCEPT !.stuck = TRUE]) /\ UNCHANGED <<pidfile, lock>>
Resume(p) ==
    /\ proc[p].stuck /\ Become(p, [proc[p] EXCEPT !.stuck = FALSE])
    /\ UNCHANGED <<pidfile, lock>> /\ Same

ProcStep(p) ==
    \/ CheckPidfile(p) \/ TryLock(p) \/ SendShow(p) \/ StartThreads(p) \/ FirstShow(p)
    \/ WritePidfile(p) \/ Recheck(p) \/ RunJob(p) \/ CleanUp(p) \/ MainReturns(p)
    \/ ProcessEnds(p)
    \/ \E t \in Threads : Unlink(p, t) \/ WatchdogBites(p, t)
    \/ \E request \in Requests : TakeSignal(p, request)
    \/ WatchdogExits(p)

MenuNext ==
    \E p \in Pids :
        \/ ProcStep(p)
        \/ \E hidden \in BOOLEAN : Launch(p, hidden)
        \/ LaunchPlain(p) \/ ClosePlain(p) \/ PatienceEnds(p) \/ UserCloses(p)
        \/ LockFails(p) \/ WriteFails(p) \/ Crash(p) \/ Stall(p) \/ Resume(p)
        \/ \E request \in {"toggle", "hide", "quit"} : Signal(p, request)

MenuSpec == MenuInit /\ [][MenuNext]_menuVars

(* Every thread that can run is scheduled and time passes for who waits for a   *)
(* lock; users, sessions and faults need not come.                              *)
MenuFair == \A p \in Pids : WF_menuVars(ProcStep(p)) /\ SF_menuVars(PatienceEnds(p))

-----------------------------------------------------------------------------
(* Properties *)

MenuTypeOK ==
    /\ \A p \in Pids :
        /\ proc[p].pc \in Stages
        /\ proc[p].pending \subseteq Requests
        /\ proc[p].removing \subseteq Threads
        /\ Len(proc[p].queue) <= MaxSignals + MaxLaunches
        /\ proc[p].pc \in Residents => lock = p \/ proc[p].lockless
        /\ proc[p].pc \notin Residents => lock # p
    /\ pidfile \in Pids \cup {Nobody} /\ lock \in Pids \cup {Nobody}

(* A menu that scripts and later launches can count on: published and staying.  *)
Serves(p) ==
    /\ proc[p].pc \in {"recheck", "loop"}
    /\ ~proc[p].exitsOnClose /\ ~proc[p].quitting /\ ~proc[p].dying

(* The residents implement the one residency the scripts rely on: one holder,   *)
(* and from write_pidfile until it retires its name is in the pidfile, unless a *)
(* process that dropped the lock with its removal half done carries it out.     *)
Removing == {p \in Pids : proc[p].pc = "returned" /\ proc[p].removing # {}}
Residency == INSTANCE OneResident WITH
    resident <- lock, advertised <- pidfile, removing <- Removing,
    phase <- IF lockFaults > 0 THEN "disturbed"
             ELSE IF lock = Nobody THEN "free"
             ELSE IF Serves(lock) THEN "serving" ELSE "private"
ImplementsResidency == Residency!Spec

(* A process told to quit is no longer advertised once the threads that take    *)
(* the pidfile back are through, even if it was told so while publishing.       *)
QuitWithdraws ==
    \A p \in Pids : proc[p].quitting /\ proc[p].removing = {}
                        /\ proc[p].pc \in {"loop", "cleanup", "exit", "returned"} => pidfile # p

(* A hand-off is answered: the process the show signal reached becomes visible, *)
(* unless it ends, or was told to quit, first.                                  *)
ShowIsAnswered ==
    \A p \in Pids : ("show" \in proc[p].pending) ~>
                        (proc[p].visible \/ proc[p].quitting \/ ~IsMenu(p))
=============================================================================
