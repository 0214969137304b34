------------------------------ MODULE Menu_proofs ------------------------------
(* Proofs about the start menu's residency and the settings' one instance, for  *)
(* every set of process ids and of launches and every bound.                    *)
EXTENDS MCMenu, FiniteSetTheorems, TLAPS

Process == [pc : Stages, hidden : BOOLEAN, peer : Pids \cup {Nobody}, tries : Nat,
            listening : BOOLEAN, pending : SUBSET Requests, queue : Seq(Requests), visible : BOOLEAN,
            exitsOnClose : BOOLEAN, quitting : BOOLEAN, armed : BOOLEAN,
            stuck : BOOLEAN, lockless : BOOLEAN, removing : SUBSET Threads, dying : BOOLEAN]

(* What a process p that is r keeps true of itself, the lock l and the pidfile f *)
(* when n uses of the lock file have failed: a resident has the lock or could    *)
(* not use it, only a resident takes a pidfile back, and only one that no longer *)
(* serves; while it has the lock no other name gets into the file, and once its  *)
(* main thread is through, its own is not there either.                          *)
Running == Residents \cup {"returned"}

KeepsTo(p, r, l, f, n) ==
    /\ r \in Process
    /\ r.pc \in Residents => l = p \/ r.lockless
    /\ r.pc \notin Residents => l # p
    /\ r.lockless => n > 0
    /\ r.pc = "signal" => r.peer \in Pids \ {p}
    /\ r.listening \/ r.armed \/ r.dying \/ r.queue # <<>> => r.pc \in Running
    /\ r.removing # {} => r.pc \in Running /\ (r.quitting \/ r.dying \/ r.pc \in {"exit", "returned"})
    /\ n = 0 /\ r.removing # {} /\ r.pc \in Residents => f \in {p, Nobody}
    /\ r.quitting /\ r.removing = {} /\ r.pc \in {"loop", "cleanup"} => f # p
    /\ r.pc \in {"exit", "returned"} /\ "main" \notin r.removing => f # p
    /\ r.pc = "returned" => "main" \notin r.removing

MenuInv ==
    /\ proc \in [Pids -> Process]
    /\ pidfile \in Pids \cup {Nobody} /\ lock \in Pids \cup {Nobody} /\ lockFaults \in Nat
    /\ \A p \in Pids : KeepsTo(p, proc[p], lock, pidfile, lockFaults)

-----------------------------------------------------------------------------
(* A step that changes one process, takes or drops the lock for it only, and    *)
(* writes no other name into the pidfile than that of the lock's holder.        *)
StepOf(p) ==
    /\ lock' \in {lock, p, Nobody} /\ (lock' # lock => lock \in {p, Nobody})
    /\ pidfile' \in {pidfile, p, Nobody} /\ (pidfile' = p => pidfile = p \/ lock' = p \/ lockFaults' > 0)
    /\ lockFaults' \in Nat /\ lockFaults' >= lockFaults

(* A process keeps to its part through a step of another. *)
LEMMA OthersKeepTo ==
    ASSUME MenuInv, NEW p \in Pids, StepOf(p), NEW q \in Pids, q # p
    PROVE  KeepsTo(q, proc[q], lock', pidfile', lockFaults')
  BY MenuAssumption DEF MenuInv, StepOf, KeepsTo

(* A step of one process keeps the invariant if that process keeps to its *)
(* part of it.                                                            *)
LEMMA OneChanges ==
    ASSUME MenuInv, NEW p \in Pids, NEW r, Become(p, r), StepOf(p),
           KeepsTo(p, r, lock', pidfile', lockFaults')
    PROVE  MenuInv'
<1>1. proc' = [proc EXCEPT ![p] = r] /\ r \in Process
  BY DEF Become, KeepsTo
<1>2. proc' \in [Pids -> Process]
  BY <1>1 DEF MenuInv
<1>3. lock' \in Pids \cup {Nobody} /\ pidfile' \in Pids \cup {Nobody} /\ lockFaults' \in Nat
  BY DEF MenuInv, StepOf
<1>4. ASSUME NEW q \in Pids PROVE KeepsTo(q, proc'[q], lock', pidfile', lockFaults')
  <2>1. CASE q = p
    BY <1>1, <2>1 DEF MenuInv
  <2>2. CASE q # p
    <3>1. proc'[q] = proc[q]
      BY <1>1, <2>2 DEF MenuInv
    <3> QED
      BY <2>2, <3>1, OthersKeepTo
  <2> QED
    BY <2>1, <2>2
<1> QED
  BY <1>2, <1>3, <1>4 DEF MenuInv

(* A pid that is not in use is of the type. *)
LEMMA OffIsProcess == Off \in Process
  BY DEF Off, Process, Stages, Threads, Requests

(* The invariant holds before any launch. *)
LEMMA MenuInvInit == MenuInit => MenuInv
<1> SUFFICES ASSUME MenuInit PROVE MenuInv
  OBVIOUS
<1>1. Off \in Process
  BY OffIsProcess
<1>2. ASSUME NEW p \in Pids PROVE KeepsTo(p, Off, Nobody, Nobody, 0)
  BY <1>1, MenuAssumption DEF KeepsTo, Off, Running, Residents
<1> QED
  BY <1>1, <1>2 DEF MenuInit, MenuInv

(* A process that is gone. *)
LEMMA DieKeeps ==
    ASSUME MenuInv, NEW p \in Pids, Die(p), lockFaults' = lockFaults
    PROVE  MenuInv'
<1>1. Off \in Process
  BY OffIsProcess
<1>2. lock' # p
  BY MenuAssumption DEF Die
<1>3. KeepsTo(p, Off, lock', pidfile', lockFaults')
  BY <1>1, <1>2, MenuAssumption DEF KeepsTo, Off, Running, Residents
<1>4. StepOf(p)
  BY DEF Die, StepOf, MenuInv
<1> QED
  BY <1>3, <1>4, OneChanges DEF Die

(* A step that touches neither file keeps the invariant if its process keeps to  *)
(* its part of it.                                                               *)
LEMMA LocalStep ==
    ASSUME MenuInv, NEW p \in Pids, NEW r, Become(p, r), UNCHANGED <<pidfile, lock, lockFaults>>,
           KeepsTo(p, r, lock, pidfile, lockFaults)
    PROVE  MenuInv'
<1>1. StepOf(p)
  BY DEF StepOf, MenuInv
<1> QED
  BY <1>1, OneChanges

-----------------------------------------------------------------------------
(* Claiming the residency. *)
LEMMA ClaimKeeps ==
    ASSUME MenuInv, NEW p \in Pids,
           \/ \E hidden \in BOOLEAN : Launch(p, hidden)
           \/ LaunchPlain(p) \/ ClosePlain(p) \/ CheckPidfile(p) \/ TryLock(p) \/ PatienceEnds(p) \/ LockFails(p)
    PROVE  MenuInv'
<1> USE DEF KeepsTo, Running, Residents
<1>0. KeepsTo(p, proc[p], lock, pidfile, lockFaults) /\ proc[p] \in Process
  BY DEF MenuInv
<1>1. ASSUME NEW hidden \in BOOLEAN, Launch(p, hidden) PROVE MenuInv'
  <2> DEFINE r == [Off EXCEPT !.pc = "check", !.hidden = hidden]
  <2>1. r \in Process
    BY OffIsProcess DEF Process, Stages
  <2>2. KeepsTo(p, r, lock, pidfile, lockFaults)
    BY <1>0, <1>1, <2>1 DEF Off, Launch
  <2> QED
    BY <1>1, <2>2, LocalStep DEF Launch
<1>2. CASE LaunchPlain(p)
  <2> DEFINE r == [Off EXCEPT !.pc = "legacy", !.visible = TRUE, !.exitsOnClose = TRUE]
  <2>1. r \in Process
    BY OffIsProcess DEF Process, Stages
  <2>2. KeepsTo(p, r, lock, pidfile, lockFaults)
    BY <1>0, <1>2, <2>1 DEF Off, LaunchPlain
  <2> QED
    BY <1>2, <2>2, LocalStep DEF LaunchPlain
<1>3. CASE ClosePlain(p)
  BY <1>3, DieKeeps DEF ClosePlain, Same
<1>4. CASE CheckPidfile(p)
  <2>1. CASE ~RunningInstance(p)
    <3> DEFINE r == [proc[p] EXCEPT !.pc = "lock"]
    <3>1. r \in Process /\ r.pc = "lock" /\ r.removing = proc[p].removing /\ r.lockless = proc[p].lockless
          /\ r.listening = proc[p].listening /\ r.armed = proc[p].armed /\ r.queue = proc[p].queue /\ r.dying = proc[p].dying
      BY <1>0 DEF Process, Stages
    <3>2. KeepsTo(p, r, lock, pidfile, lockFaults)
      BY <1>0, <1>4, <3>1 DEF CheckPidfile
    <3> QED
      BY <1>4, <2>1, <3>2, LocalStep DEF CheckPidfile, Goto, Same
  <2>2. CASE RunningInstance(p) /\ proc[p].hidden
    BY <1>4, <2>2, DieKeeps DEF CheckPidfile, Same
  <2>3. CASE RunningInstance(p) /\ ~proc[p].hidden
    <3> DEFINE r == [proc[p] EXCEPT !.pc = "signal", !.peer = pidfile]
    <3>1. pidfile \in Pids /\ pidfile # p
      BY <2>3 DEF RunningInstance, MenuInv
    <3>2. /\ r \in Process /\ r.pc = "signal" /\ r.peer = pidfile /\ r.removing = proc[p].removing
          /\ r.lockless = proc[p].lockless
          /\ r.listening = proc[p].listening /\ r.armed = proc[p].armed /\ r.queue = proc[p].queue /\ r.dying = proc[p].dying
      BY <1>0, <3>1 DEF Process, Stages
    <3>3. KeepsTo(p, r, lock, pidfile, lockFaults)
      BY <1>0, <1>4, <3>1, <3>2 DEF CheckPidfile
    <3> QED
      BY <1>4, <2>3, <3>3, LocalStep DEF CheckPidfile, Same
  <2> QED
    BY <2>1, <2>2, <2>3
<1>5. CASE TryLock(p)
  <2>1. CASE lock = Nobody
    <3> DEFINE r == [proc[p] EXCEPT !.pc = "init"]
    <3>1. r \in Process /\ r.pc = "init" /\ r.removing = proc[p].removing /\ r.lockless = proc[p].lockless
          /\ r.listening = proc[p].listening /\ r.armed = proc[p].armed /\ r.queue = proc[p].queue /\ r.dying = proc[p].dying
      BY <1>0 DEF Process, Stages
    <3>2. lock' = p /\ pidfile' = pidfile /\ lockFaults' = lockFaults /\ Become(p, r)
      BY <1>5, <2>1 DEF TryLock, Goto, Same
    <3>3. KeepsTo(p, r, lock', pidfile', lockFaults')
      BY <1>0, <1>5, <3>1, <3>2 DEF TryLock
    <3>4. StepOf(p)
      BY <2>1, <3>2 DEF StepOf, MenuInv
    <3> QED
      BY <3>2, <3>3, <3>4, OneChanges
  <2>2. CASE lock # Nobody
    <3> DEFINE r == [proc[p] EXCEPT !.pc = "check"]
    <3>1. r \in Process /\ r.pc = "check" /\ r.removing = proc[p].removing /\ r.lockless = proc[p].lockless
          /\ r.listening = proc[p].listening /\ r.armed = proc[p].armed /\ r.queue = proc[p].queue /\ r.dying = proc[p].dying
      BY <1>0 DEF Process, Stages
    <3>2. KeepsTo(p, r, lock, pidfile, lockFaults)
      BY <1>0, <1>5, <3>1 DEF TryLock
    <3> QED
      BY <1>5, <2>2, <3>2, LocalStep DEF TryLock, Goto, Same
  <2> QED
    BY <2>1, <2>2
<1>6. CASE PatienceEnds(p)
  BY <1>6, DieKeeps DEF PatienceEnds, Same
<1>7. CASE LockFails(p)
  <2> DEFINE r == [proc[p] EXCEPT !.pc = "init", !.lockless = TRUE]
  <2>1. r \in Process /\ r.pc = "init" /\ r.removing = proc[p].removing /\ r.lockless = TRUE
        /\ r.listening = proc[p].listening /\ r.armed = proc[p].armed /\ r.queue = proc[p].queue /\ r.dying = proc[p].dying
    BY <1>0 DEF Process, Stages
  <2>2. lockFaults' = lockFaults + 1 /\ lockFaults \in Nat
    BY <1>7 DEF LockFails, MenuInv
  <2>3. KeepsTo(p, r, lock', pidfile', lockFaults')
    BY <1>0, <1>7, <2>1, <2>2 DEF LockFails
  <2>4. StepOf(p)
    BY <1>7, <2>2 DEF StepOf, MenuInv, LockFails
  <2> QED
    BY <1>7, <2>3, <2>4, OneChanges DEF LockFails
<1> QED
  BY <1>1, <1>2, <1>3, <1>4, <1>5, <1>6, <1>7

-----------------------------------------------------------------------------
(* A step inside a process that touches neither its stage nor what the           *)
(* invariant says of it.                                                        *)
SameRole(r, s) ==
    /\ s \in Process /\ s.pc = r.pc /\ s.lockless = r.lockless /\ s.peer = r.peer
    /\ s.removing = r.removing /\ s.quitting = r.quitting /\ s.dying = r.dying
    /\ s.listening = r.listening /\ s.exitsOnClose = r.exitsOnClose

(* A step that keeps the role keeps the process to its part of the invariant. *)
LEMMA SameRoleKeeps ==
    ASSUME NEW p, NEW r, NEW s, NEW l, NEW f, NEW n, KeepsTo(p, r, l, f, n), SameRole(r, s),
           s.armed \/ s.queue # <<>> => s.pc \in Running
    PROVE  KeepsTo(p, s, l, f, n)
  BY DEF KeepsTo, SameRole

(* The hand-off to a running menu. *)
LEMMA SendShowKeeps ==
    ASSUME MenuInv, NEW p \in Pids, SendShow(p)
    PROVE  MenuInv'
<1> DEFINE q == proc[p].peer
<1>0. KeepsTo(p, proc[p], lock, pidfile, lockFaults) /\ proc[p] \in Process
  BY DEF MenuInv, KeepsTo
<1>1. proc[p].pc = "signal" /\ q \in Pids /\ q # p /\ lock # p
  BY <1>0 DEF SendShow, KeepsTo, Running, Residents
<1>2. KeepsTo(p, Off, lock, pidfile, lockFaults)
  BY <1>1, OffIsProcess, MenuAssumption DEF KeepsTo, Off, Running, Residents
<1>3. UNCHANGED <<pidfile, lock, lockFaults>>
  BY DEF SendShow, Same
<1>4. CASE IsMenu(q)
  <2> DEFINE s == IF proc[q].pc = "legacy" THEN Off
                  ELSE [proc[q] EXCEPT !.pending = @ \cup {"show"}]
  <2>1. KeepsTo(q, proc[q], lock, pidfile, lockFaults) /\ proc[q] \in Process
    BY <1>1 DEF MenuInv, KeepsTo
  <2>2. KeepsTo(q, s, lock, pidfile, lockFaults)
    <3>1. CASE proc[q].pc = "legacy"
      BY <2>1, <3>1, OffIsProcess, MenuAssumption DEF KeepsTo, Off, Running, Residents
    <3>2. CASE proc[q].pc # "legacy"
      <4>0. s = [proc[q] EXCEPT !.pending = proc[q].pending \cup {"show"}]
        BY <3>2
      <4>2. proc[q].pending \cup {"show"} \in SUBSET Requests
        BY <2>1 DEF Process, Requests, UserRequests
      <4>1. SameRole(proc[q], s) /\ s.armed = proc[q].armed /\ s.queue = proc[q].queue
        BY <2>1, <4>0, <4>2 DEF SameRole, Process
      <4> QED
        BY <2>1, <4>1, SameRoleKeeps DEF KeepsTo, SameRole
    <3> QED
      BY <3>1, <3>2
  <2>3. proc' = [proc EXCEPT ![p] = Off, ![q] = s]
    BY <1>1, <1>4 DEF SendShow
  <2> HIDE DEF q, s
  <2>4. proc \in [Pids -> Process] /\ Off \in Process /\ s \in Process
    BY <2>2, OffIsProcess DEF MenuInv, KeepsTo
  <2>5. proc' \in [Pids -> Process] /\ proc'[p] = Off /\ proc'[q] = s
        /\ \A o \in Pids \ {p, q} : proc'[o] = proc[o]
    BY <1>1, <2>3, <2>4
  <2>6. ASSUME NEW o \in Pids PROVE KeepsTo(o, proc'[o], lock', pidfile', lockFaults')
    BY <1>2, <1>3, <2>2, <2>5 DEF MenuInv
  <2> QED
    BY <1>3, <2>5, <2>6 DEF MenuInv
<1>5. CASE ~IsMenu(q) /\ proc[p].tries = 2
  <2>1. Become(p, Off)
    BY <1>5 DEF SendShow
  <2> QED
    BY <1>2, <1>3, <2>1, LocalStep
<1>6. CASE ~IsMenu(q) /\ proc[p].tries # 2
  <2> DEFINE s == [proc[p] EXCEPT !.pc = "check", !.peer = Nobody, !.tries = @ + 1]
  <2>0. proc[p].tries + 1 \in Nat
    BY <1>0 DEF Process
  <2>1. /\ s \in Process /\ s.pc = "check" /\ s.removing = proc[p].removing
        /\ s.lockless = proc[p].lockless /\ s.listening = proc[p].listening
        /\ s.armed = proc[p].armed /\ s.queue = proc[p].queue /\ s.dying = proc[p].dying
    BY <1>0, <2>0 DEF Process, Stages
  <2>2. KeepsTo(p, s, lock, pidfile, lockFaults)
    BY <1>0, <1>1, <2>1 DEF KeepsTo, Running, Residents
  <2>3. Become(p, s)
    BY <1>6 DEF SendShow
  <2> QED
    BY <1>3, <2>2, <2>3, LocalStep
<1> QED
  BY <1>4, <1>5, <1>6

-----------------------------------------------------------------------------
(* The resident's main thread up to its event loop. *)
LEMMA PublishKeeps ==
    ASSUME MenuInv, NEW p \in Pids,
           StartThreads(p) \/ FirstShow(p) \/ WritePidfile(p) \/ WriteFails(p) \/ Recheck(p)
    PROVE  MenuInv'
<1>0. KeepsTo(p, proc[p], lock, pidfile, lockFaults) /\ proc[p] \in Process
  BY DEF MenuInv, KeepsTo
<1>1. CASE StartThreads(p)
  <2> DEFINE s == [proc[p] EXCEPT !.pc = "show", !.listening = TRUE]
  <2>1. /\ s \in Process /\ s.pc = "show" /\ s.removing = proc[p].removing
        /\ s.lockless = proc[p].lockless /\ s.quitting = proc[p].quitting /\ s.dying = proc[p].dying
    BY <1>0 DEF Process, Stages
  <2>2. KeepsTo(p, s, lock, pidfile, lockFaults)
    BY <1>0, <1>1, <2>1 DEF KeepsTo, Running, Residents, StartThreads
  <2>3. Become(p, s) /\ UNCHANGED <<pidfile, lock, lockFaults>>
    BY <1>1 DEF StartThreads, Same
  <2> QED
    BY <2>2, <2>3, LocalStep
<1>2. CASE FirstShow(p)
  <2> DEFINE s == [proc[p] EXCEPT !.pc = "publish", !.visible = ~proc[p].hidden]
  <2>1. /\ s \in Process /\ s.pc = "publish" /\ s.removing = proc[p].removing
        /\ s.lockless = proc[p].lockless /\ s.quitting = proc[p].quitting /\ s.dying = proc[p].dying
    BY <1>0 DEF Process, Stages
  <2>2. KeepsTo(p, s, lock, pidfile, lockFaults)
    BY <1>0, <1>2, <2>1 DEF KeepsTo, Running, Residents, FirstShow
  <2>3. Become(p, s) /\ UNCHANGED <<pidfile, lock, lockFaults>>
    BY <1>2 DEF FirstShow, Same
  <2> QED
    BY <2>2, <2>3, LocalStep
<1>3. CASE WritePidfile(p)
  <2> DEFINE s == [proc[p] EXCEPT !.pc = "recheck"]
  <2>1. /\ s \in Process /\ s.pc = "recheck" /\ s.removing = proc[p].removing
        /\ s.lockless = proc[p].lockless /\ s.quitting = proc[p].quitting /\ s.dying = proc[p].dying
    BY <1>0 DEF Process, Stages
  <2>2. Become(p, s) /\ pidfile' = p /\ UNCHANGED <<lock, lockFaults>>
    BY <1>3 DEF WritePidfile, Goto, Same
  <2>3. KeepsTo(p, s, lock', pidfile', lockFaults')
    BY <1>0, <1>3, <2>1, <2>2 DEF KeepsTo, Running, Residents, WritePidfile
  <2>4. StepOf(p)
    BY <1>0, <1>3, <2>2 DEF StepOf, KeepsTo, Running, Residents, WritePidfile, MenuInv
  <2> QED
    BY <2>2, <2>3, <2>4, OneChanges
<1>4. CASE WriteFails(p)
  <2>0. proc[p].pc = "publish" /\ lockFaults' = lockFaults
    BY <1>4 DEF WriteFails, Fault
  <2>1. CASE proc[p].hidden
    BY <1>4, <2>0, <2>1, DieKeeps DEF WriteFails
  <2>2. CASE ~proc[p].hidden
    <3> DEFINE s == [proc[p] EXCEPT !.pc = "recheck", !.exitsOnClose = TRUE]
    <3>1. /\ s \in Process /\ s.pc = "recheck" /\ s.removing = proc[p].removing
          /\ s.lockless = proc[p].lockless /\ s.quitting = proc[p].quitting /\ s.dying = proc[p].dying
      BY <1>0 DEF Process, Stages
    <3>2. KeepsTo(p, s, lock, pidfile, lockFaults)
      BY <1>0, <2>0, <3>1 DEF KeepsTo, Running, Residents
    <3>3. Become(p, s) /\ UNCHANGED <<pidfile, lock, lockFaults>>
      BY <1>4, <2>0, <2>2 DEF WriteFails
    <3> QED
      BY <3>2, <3>3, LocalStep
  <2> QED
    BY <2>1, <2>2
<1>5. CASE Recheck(p)
  <2> DEFINE s == [proc[p] EXCEPT !.pc = "loop"]
             u == IF proc[p].quitting THEN ReadOwn(p, s, "main") ELSE s
  <2>1. /\ s \in Process /\ s.pc = "loop" /\ s.removing = proc[p].removing
        /\ s.lockless = proc[p].lockless /\ s.quitting = proc[p].quitting /\ s.dying = proc[p].dying
    BY <1>0 DEF Process, Stages
  <2>2. Become(p, u) /\ UNCHANGED <<pidfile, lock, lockFaults>> /\ proc[p].pc = "recheck"
    BY <1>5 DEF Recheck, Same
  <2> HIDE DEF s
  <2>3. /\ u \in Process /\ u.pc = "loop" /\ u.lockless = s.lockless
        /\ u.quitting = s.quitting /\ u.dying = s.dying
        /\ u.removing = IF proc[p].quitting /\ pidfile = p THEN s.removing \cup {"main"} ELSE s.removing
    BY <2>1 DEF Process, ReadOwn, Threads
  <2> HIDE DEF u
  <2>4. KeepsTo(p, u, lock, pidfile, lockFaults)
    BY <1>0, <2>1, <2>2, <2>3 DEF KeepsTo, Running, Residents
  <2> QED
    BY <2>2, <2>4, LocalStep
<1> QED
  BY <1>1, <1>2, <1>3, <1>4, <1>5

-----------------------------------------------------------------------------
(* A request is forwarded to the UI thread of a resident. *)
LEMMA ForwardKeeps ==
    ASSUME NEW r \in Process, NEW request \in Requests
    PROVE  LET u == Forward(r, request) IN
           /\ SameRole(r, u) /\ u.armed = r.armed
<1>1. CASE r.pc \in {"cleanup", "exit", "returned"}
  BY <1>1 DEF Forward, SameRole
<1>2. CASE r.pc \notin {"cleanup", "exit", "returned"}
  <2>1. r.queue \in Seq(Requests)
    BY DEF Process
  <2>2. Append(r.queue, request) \in Seq(Requests)
    BY <2>1
  <2>3. Forward(r, request) = [r EXCEPT !.queue = Append(r.queue, request)]
    BY <1>2 DEF Forward
  <2> QED
    BY <2>2, <2>3 DEF SameRole, Process
<1> QED
  BY <1>1, <1>2

(* A quit forwarded to the UI thread is such a step. *)
LEMMA ForwardQuitKeeps ==
    ASSUME NEW r \in Process
    PROVE  SameRole(r, ForwardQuit(r))
<1> DEFINE a == [r EXCEPT !.armed = TRUE]
<1>1. SameRole(r, a) /\ a \in Process
  BY DEF SameRole, Process
<1>2. SameRole(a, Forward(a, "quit"))
  BY <1>1, ForwardKeeps DEF Requests
<1> QED
  BY <1>1, <1>2 DEF SameRole, ForwardQuit

(* The end of a resident: its event loop, its clean-up, and the exit. *)
LEMMA AfterKeeps ==
    ASSUME MenuInv, NEW p \in Pids, NEW r, After(p, r), Same,
           r = Off \/ KeepsTo(p, r, lock, pidfile, lockFaults)
    PROVE  MenuInv'
<1>1. CASE r = Off
  BY <1>1, DieKeeps DEF After, Die, Same
<1>2. CASE r # Off
  BY <1>2, LocalStep DEF After, Same
<1> QED
  BY <1>1, <1>2

(* The resident's event loop keeps the invariant. *)
LEMMA LoopKeeps ==
    ASSUME MenuInv, NEW p \in Pids, RunJob(p) \/ UserCloses(p)
    PROVE  MenuInv'
<1>0. KeepsTo(p, proc[p], lock, pidfile, lockFaults) /\ proc[p] \in Process /\ proc[p].pc = "loop"
  BY DEF MenuInv, KeepsTo, RunJob, UserCloses
<1>1. ASSUME NEW r \in Process, SameRole(proc[p], r)
      PROVE  KeepsTo(p, r, lock, pidfile, lockFaults)
  BY <1>0, <1>1, SameRoleKeeps DEF SameRole, Running, Residents
<1>2. ASSUME NEW r \in Process, SameRole(proc[p], r)
      PROVE  CloseMenu(p, r) = Off \/ KeepsTo(p, CloseMenu(p, r), lock, pidfile, lockFaults)
  <2> DEFINE s == [r EXCEPT !.visible = FALSE]
  <2>1. SameRole(proc[p], s)
    BY <1>2 DEF SameRole, Process
  <2>2. CloseMenu(p, r) \in {Off, s}
    BY DEF CloseMenu
  <2> QED
    BY <1>1, <2>1, <2>2 DEF SameRole
<1>3. CASE UserCloses(p)
  <2>1. SameRole(proc[p], proc[p])
    BY <1>0 DEF SameRole
  <2> QED
    BY <1>0, <1>2, <1>3, <2>1, AfterKeeps DEF UserCloses
<1>4. CASE RunJob(p)
  <2> DEFINE request == Head(proc[p].queue)
             r == [proc[p] EXCEPT !.queue = Tail(@)]
  <2>1. proc[p].queue \in Seq(Requests) /\ proc[p].queue # <<>>
    BY <1>0, <1>4 DEF Process, RunJob
  <2>2. Tail(proc[p].queue) \in Seq(Requests)
    BY <2>1
  <2>3. r \in Process /\ SameRole(proc[p], r)
    BY <1>0, <2>2 DEF SameRole, Process
  <2>4. After(p, Handle(p, r, request)) /\ Same
    BY <1>4 DEF RunJob
  <2> HIDE DEF r, request
  <2>5. CASE request = "quit"
    <3> DEFINE s == [r EXCEPT !.pc = "cleanup"]
    <3>1. /\ s \in Process /\ s.pc = "cleanup" /\ s.lockless = r.lockless /\ s.removing = r.removing
          /\ s.quitting = r.quitting /\ s.dying = r.dying
      BY <2>3 DEF Process, Stages
    <3>2. KeepsTo(p, s, lock, pidfile, lockFaults)
      BY <1>0, <2>3, <3>1 DEF KeepsTo, Running, Residents, SameRole
    <3>3. Handle(p, r, request) = s
      BY <2>5 DEF Handle
    <3> QED
      BY <2>4, <3>2, <3>3, AfterKeeps
  <2>6. CASE request # "quit" /\ (request = "hide" \/ (request = "toggle" /\ r.visible))
    <3>1. Handle(p, r, request) = CloseMenu(p, r)
      BY <2>6 DEF Handle
    <3> QED
      BY <1>2, <2>3, <2>4, <3>1, AfterKeeps
  <2>7. CASE request # "quit" /\ ~(request = "hide" \/ (request = "toggle" /\ r.visible))
    <3> DEFINE s == [r EXCEPT !.visible = TRUE]
    <3>1. SameRole(proc[p], s)
      BY <2>3 DEF SameRole, Process
    <3>2. Handle(p, r, request) = s
      BY <2>7 DEF Handle
    <3> QED
      BY <1>1, <2>4, <3>1, <3>2, AfterKeeps DEF SameRole
  <2> QED
    BY <2>5, <2>6, <2>7
<1> QED
  BY <1>3, <1>4

(* The clean-up after the event loop, the return and the exit keep the invariant. *)
LEMMA CleanUpKeeps ==
    ASSUME MenuInv, NEW p \in Pids, CleanUp(p) \/ MainReturns(p) \/ ProcessEnds(p)
    PROVE  MenuInv'
<1>0. KeepsTo(p, proc[p], lock, pidfile, lockFaults) /\ proc[p] \in Process
  BY DEF MenuInv, KeepsTo
<1>1. CASE CleanUp(p)
  <2> DEFINE s == [proc[p] EXCEPT !.pc = "exit", !.visible = FALSE]
             u == ReadOwn(p, s, "main")
  <2>1. /\ s \in Process /\ s.pc = "exit" /\ s.lockless = proc[p].lockless
        /\ s.removing = proc[p].removing /\ s.quitting = proc[p].quitting
    BY <1>0 DEF Process, Stages
  <2>2. Become(p, u) /\ UNCHANGED <<pidfile, lock, lockFaults>> /\ proc[p].pc = "cleanup"
    BY <1>1 DEF CleanUp, Same
  <2> HIDE DEF s
  <2>3. /\ u \in Process /\ u.pc = "exit" /\ u.lockless = s.lockless /\ u.quitting = s.quitting
        /\ u.removing = IF pidfile = p THEN s.removing \cup {"main"} ELSE s.removing
    <3>1. "main" \in Threads
      BY DEF Threads
    <3>2. s \in Process
      BY <2>1
    <3>3. /\ u \in Process /\ u.pc = s.pc /\ u.lockless = s.lockless /\ u.quitting = s.quitting
          /\ u.removing = IF pidfile = p THEN s.removing \cup {"main"} ELSE s.removing
      BY <3>1, <3>2 DEF ReadOwn, Process
    <3> QED
      BY <2>1, <3>3
  <2> HIDE DEF u
  <2>4. KeepsTo(p, u, lock, pidfile, lockFaults)
    BY <1>0, <2>1, <2>2, <2>3 DEF KeepsTo, Running, Residents
  <2> QED
    BY <2>2, <2>4, LocalStep
<1>2. CASE MainReturns(p)
  <2> DEFINE s == [proc[p] EXCEPT !.pc = "returned"]
  <2>1. /\ s \in Process /\ s.pc = "returned" /\ s.lockless = proc[p].lockless
        /\ s.removing = proc[p].removing
    BY <1>0 DEF Process, Stages
  <2>2. /\ Become(p, s) /\ UNCHANGED <<pidfile, lockFaults>> /\ proc[p].pc = "exit"
        /\ "main" \notin proc[p].removing /\ lock' = IF lock = p THEN Nobody ELSE lock
    BY <1>2 DEF MainReturns, Goto, Free, Same
  <2> HIDE DEF s
  <2>3. KeepsTo(p, s, lock', pidfile', lockFaults')
    BY <1>0, <2>1, <2>2, MenuAssumption DEF KeepsTo, Running, Residents
  <2>4. StepOf(p)
    BY <2>2 DEF StepOf, MenuInv
  <2> QED
    BY <2>2, <2>3, <2>4, OneChanges
<1>3. CASE ProcessEnds(p)
  BY <1>3, DieKeeps DEF ProcessEnds, Same
<1> QED
  BY <1>1, <1>2, <1>3

-----------------------------------------------------------------------------
(* The signal thread, the watchdogs and the unlink of the pidfile. *)
LEMMA UnlinkKeeps ==
    ASSUME MenuInv, NEW p \in Pids, NEW t \in Threads, Unlink(p, t)
    PROVE  MenuInv'
<1>0. KeepsTo(p, proc[p], lock, pidfile, lockFaults) /\ proc[p] \in Process
  BY DEF MenuInv, KeepsTo
<1> DEFINE r == [proc[p] EXCEPT !.removing = @ \ {t}]
           u == IF t = "signal" THEN ForwardQuit(r) ELSE r
<1>1. /\ r \in Process /\ r.pc = proc[p].pc /\ r.lockless = proc[p].lockless
      /\ r.removing = proc[p].removing \ {t} /\ r.quitting = proc[p].quitting
      /\ r.dying = proc[p].dying
  BY <1>0 DEF Process
<1>2. Become(p, u) /\ pidfile' = Nobody /\ UNCHANGED <<lock, lockFaults>> /\ t \in proc[p].removing
  BY DEF Unlink, Same
<1> HIDE DEF r
<1>3. SameRole(r, r)
  BY <1>1 DEF SameRole
<1>4. SameRole(r, u)
  BY <1>1, <1>3, ForwardQuitKeeps
<1> HIDE DEF u
<1>5. KeepsTo(p, u, lock', pidfile', lockFaults')
  BY <1>0, <1>1, <1>2, <1>4, MenuAssumption DEF KeepsTo, Running, Residents, SameRole
<1>6. StepOf(p)
  BY <1>2, MenuAssumption DEF StepOf, MenuInv
<1> QED
  BY <1>2, <1>5, <1>6, OneChanges

(* The signal thread keeps the invariant. *)
LEMMA TakeSignalKeeps ==
    ASSUME MenuInv, NEW p \in Pids, NEW request \in Requests, TakeSignal(p, request)
    PROVE  MenuInv'
<1>0. KeepsTo(p, proc[p], lock, pidfile, lockFaults) /\ proc[p] \in Process
  BY DEF MenuInv, KeepsTo
<1> DEFINE r == [proc[p] EXCEPT !.pending = @ \ {request}, !.quitting = @ \/ request = "quit"]
<1>1. /\ r \in Process /\ r.pc = proc[p].pc /\ r.lockless = proc[p].lockless
      /\ r.removing = proc[p].removing /\ r.dying = proc[p].dying /\ r.listening = proc[p].listening
  BY <1>0 DEF Process
<1>2. r.quitting = (proc[p].quitting \/ request = "quit")
  BY <1>0 DEF Process
<1>3. UNCHANGED <<pidfile, lock, lockFaults>> /\ proc[p].listening /\ proc[p].pc \in Running
  BY <1>0 DEF TakeSignal, Same, KeepsTo
<1>4. Become(p, IF request # "quit" THEN Forward(r, request)
                ELSE IF pidfile = p THEN ReadOwn(p, r, "signal") ELSE ForwardQuit(r))
  BY DEF TakeSignal
<1> HIDE DEF r
<1>5. CASE request # "quit"
  <2> DEFINE u == Forward(r, request)
  <2>1. SameRole(r, u)
    BY <1>1, ForwardKeeps
  <2> HIDE DEF u
  <2>2. KeepsTo(p, u, lock, pidfile, lockFaults)
    BY <1>0, <1>1, <1>2, <1>3, <1>5, <2>1 DEF KeepsTo, Running, Residents, SameRole, Process
  <2> QED
    BY <1>3, <1>4, <1>5, <2>2, LocalStep DEF u
<1>6. CASE request = "quit" /\ pidfile = p
  <2> DEFINE u == ReadOwn(p, r, "signal")
  <2>1. /\ u \in Process /\ u.pc = r.pc /\ u.lockless = r.lockless /\ u.quitting = r.quitting
        /\ u.removing = r.removing \cup {"signal"}
    BY <1>1, <1>6 DEF ReadOwn, Process, Threads
  <2>2. Become(p, u)
    BY <1>4, <1>6
  <2> HIDE DEF u
  <2>3. KeepsTo(p, u, lock, pidfile, lockFaults)
    BY <1>0, <1>1, <1>2, <1>3, <1>6, <2>1 DEF KeepsTo, Running, Residents
  <2> QED
    BY <1>3, <2>2, <2>3, LocalStep
<1>7. CASE request = "quit" /\ pidfile # p
  <2> DEFINE u == ForwardQuit(r)
  <2>1. SameRole(r, u) /\ Become(p, u)
    BY <1>1, <1>4, <1>7, ForwardQuitKeeps
  <2> HIDE DEF u
  <2>2. KeepsTo(p, u, lock, pidfile, lockFaults)
    BY <1>0, <1>1, <1>2, <1>3, <1>7, <2>1 DEF KeepsTo, Running, Residents, SameRole
  <2> QED
    BY <1>3, <2>1, <2>2, LocalStep
<1> QED
  BY <1>5, <1>6, <1>7

(* The watchdogs keep the invariant. *)
LEMMA WatchdogKeeps ==
    ASSUME MenuInv, NEW p \in Pids, WatchdogExits(p) \/ \E t \in Threads : WatchdogBites(p, t)
    PROVE  MenuInv'
<1>0. KeepsTo(p, proc[p], lock, pidfile, lockFaults) /\ proc[p] \in Process
  BY DEF MenuInv, KeepsTo
<1>1. CASE WatchdogExits(p)
  BY <1>1, DieKeeps DEF WatchdogExits, Same
<1>2. ASSUME NEW t \in Threads, WatchdogBites(p, t) PROVE MenuInv'
  <2> DEFINE r == [proc[p] EXCEPT !.dying = TRUE]
             u == ReadOwn(p, r, t)
  <2>1. /\ r \in Process /\ r.pc = proc[p].pc /\ r.lockless = proc[p].lockless
        /\ r.removing = proc[p].removing /\ r.quitting = proc[p].quitting /\ r.dying
    BY <1>0 DEF Process
  <2>2. Become(p, u) /\ UNCHANGED <<pidfile, lock, lockFaults>> /\ Bites(p, t)
    BY <1>2 DEF WatchdogBites, Same
  <2>3. proc[p].pc \in Running
    BY <1>0, <2>2 DEF Bites, UserWaits, KeepsTo
  <2> HIDE DEF r
  <2>4. /\ u \in Process /\ u.pc = r.pc /\ u.lockless = r.lockless /\ u.quitting = r.quitting /\ u.dying
        /\ u.removing = IF pidfile = p THEN r.removing \cup {t} ELSE r.removing
    BY <1>2, <2>1 DEF ReadOwn, Process
  <2> HIDE DEF u
  <2>5. KeepsTo(p, u, lock, pidfile, lockFaults)
    BY <1>0, <2>1, <2>3, <2>4 DEF KeepsTo, Running, Residents
  <2> QED
    BY <2>2, <2>5, LocalStep
<1> QED
  BY <1>1, <1>2

-----------------------------------------------------------------------------
(* The environment. *)
LEMMA EnvironmentKeeps ==
    ASSUME MenuInv, NEW p \in Pids,
           \/ \E request \in {"toggle", "hide", "quit"} : Signal(p, request)
           \/ Crash(p) \/ Stall(p) \/ Resume(p)
    PROVE  MenuInv'
<1>0. KeepsTo(p, proc[p], lock, pidfile, lockFaults) /\ proc[p] \in Process
  BY DEF MenuInv, KeepsTo
<1>1. ASSUME NEW s \in Process, SameRole(proc[p], s), s.armed = proc[p].armed,
             s.queue = proc[p].queue, Become(p, s), UNCHANGED <<pidfile, lock, lockFaults>>
      PROVE  MenuInv'
  <2>1. KeepsTo(p, s, lock, pidfile, lockFaults)
    BY <1>0, <1>1, SameRoleKeeps DEF KeepsTo, SameRole
  <2> QED
    BY <1>1, <2>1, LocalStep
<1>2. ASSUME NEW request \in {"toggle", "hide", "quit"}, Signal(p, request) PROVE MenuInv'
  <2>1. CASE proc[p].pc = "legacy"
    BY <1>2, <2>1, DieKeeps DEF Signal
  <2>2. CASE proc[p].pc # "legacy"
    <3> DEFINE s == [proc[p] EXCEPT !.pending = @ \cup {request}]
    <3>1. proc[p].pending \cup {request} \in SUBSET Requests
      BY <1>0 DEF Process, Requests, UserRequests
    <3>2. SameRole(proc[p], s) /\ s.armed = proc[p].armed /\ s.queue = proc[p].queue
      BY <1>0, <3>1 DEF SameRole, Process
    <3>3. Become(p, s) /\ UNCHANGED <<pidfile, lock, lockFaults>>
      BY <1>2, <2>2 DEF Signal
    <3> QED
      BY <1>1, <3>2, <3>3 DEF SameRole
  <2> QED
    BY <2>1, <2>2
<1>3. CASE Crash(p)
  BY <1>3, DieKeeps DEF Crash, Fault
<1>4. ASSUME NEW b \in BOOLEAN, Become(p, [proc[p] EXCEPT !.stuck = b]),
             UNCHANGED <<pidfile, lock, lockFaults>>
      PROVE  MenuInv'
  <2> DEFINE s == [proc[p] EXCEPT !.stuck = b]
  <2>1. SameRole(proc[p], s) /\ s.armed = proc[p].armed /\ s.queue = proc[p].queue
    BY <1>0 DEF SameRole, Process
  <2> QED
    BY <1>1, <1>4, <2>1 DEF SameRole
<1>5. CASE Stall(p)
  BY <1>4, <1>5 DEF Stall, Fault
<1>6. CASE Resume(p)
  BY <1>4, <1>6 DEF Resume, Same
<1> QED
  BY <1>2, <1>3, <1>5, <1>6

(* The invariant is inductive. *)
LEMMA MenuInvKept ==
    ASSUME MenuInv, [MenuNext]_menuVars
    PROVE  MenuInv'
<1>1. CASE UNCHANGED menuVars
  BY <1>1 DEF menuVars, MenuInv
<1>2. ASSUME NEW p \in Pids, ProcStep(p) PROVE MenuInv'
  BY <1>2, ClaimKeeps, SendShowKeeps, PublishKeeps, LoopKeeps, CleanUpKeeps, UnlinkKeeps,
     TakeSignalKeeps, WatchdogKeeps DEF ProcStep
<1>3. ASSUME NEW p \in Pids,
             \/ \E hidden \in BOOLEAN : Launch(p, hidden)
             \/ LaunchPlain(p) \/ ClosePlain(p) \/ PatienceEnds(p) \/ UserCloses(p)
             \/ LockFails(p) \/ WriteFails(p) \/ Crash(p) \/ Stall(p) \/ Resume(p)
             \/ \E request \in {"toggle", "hide", "quit"} : Signal(p, request)
      PROVE  MenuInv'
  BY <1>3, ClaimKeeps, PublishKeeps, LoopKeeps, EnvironmentKeeps
<1> QED
  BY <1>1, <1>2, <1>3 DEF MenuNext

-----------------------------------------------------------------------------
(* Every step of the processes is a step of OneResident, or none of it.         *)
Phase == IF lockFaults > 0 THEN "disturbed"
         ELSE IF lock = Nobody THEN "free"
         ELSE IF Serves(lock) THEN "serving" ELSE "private"

Advances == [Residency!Next]_(Residency!residentVars)

(* Serves, of a process that is r. *)
Serving(r) ==
    /\ r.pc \in {"recheck", "loop"}
    /\ ~r.exitsOnClose /\ ~r.quitting /\ ~r.dying

(* Left with a removal under way, of a process that is r. *)
Left(r) == r.pc = "returned" /\ r.removing # {}

(* The two ways to say that a process serves agree. *)
LEMMA ServesIsServing == \A p : Serves(p) = Serving(proc[p])
  BY DEF Serves, Serving

(* A step of one process that does not change what it left behind. *)
LEMMA RemovingStays ==
    ASSUME MenuInv, NEW p \in Pids, NEW r, Become(p, r), Left(r) <=> Left(proc[p])
    PROVE  Removing' = Removing
<1>1. proc' = [proc EXCEPT ![p] = r] /\ proc \in [Pids -> Process]
  BY DEF Become, MenuInv
<1>2. ASSUME NEW q \in Pids PROVE Left(proc'[q]) <=> Left(proc[q])
  BY <1>1
<1> QED
  BY <1>2 DEF Removing, Left

(* Without a lock fault, a resident is the holder of the lock. *)
LEMMA ResidentHolds ==
    ASSUME MenuInv, lockFaults = 0, NEW p \in Pids
    PROVE  proc[p].pc \in Residents <=> lock = p
  BY DEF MenuInv, KeepsTo

(* Once the lock file has failed, nothing is promised. *)
LEMMA DisturbedAdvances == ASSUME lockFaults' > 0 PROVE Advances
<1>1. Phase' = "disturbed"
  BY DEF Phase
<1> QED
  BY <1>1 DEF Advances, Phase, Residency!Next, Residency!Disturb

Calm == MenuInv /\ lockFaults = 0 /\ lockFaults' = 0

(* A step of one process that leaves the two files alone and does not bring it  *)
(* into service: the holder's ends the service or is not seen, others' are not. *)
LEMMA LocalAdvances ==
    ASSUME Calm, NEW p \in Pids, NEW r, Become(p, r), UNCHANGED <<pidfile, lock>>,
           Serving(r) => Serving(proc[p]), Left(r) <=> Left(proc[p])
    PROVE  Advances
<1>0. Removing' = Removing
  BY RemovingStays DEF Calm
<1>1. proc' = [proc EXCEPT ![p] = r] /\ proc \in [Pids -> Process] /\ lock \in Pids \cup {Nobody}
  BY DEF Become, Calm, MenuInv
<1>2. \A q \in Pids \ {p} : proc'[q] = proc[q]
  BY <1>1
<1>3. proc'[p] = r
  BY <1>1
<1>4. CASE lock = Nobody
  <2>1. Phase' = Phase
    BY <1>4 DEF Phase, Calm
  <2> QED
    BY <1>0, <2>1 DEF Advances, Phase, Residency!residentVars
<1>5. CASE lock \in Pids \ {p}
  <2>1. Phase' = Phase
    BY <1>2, <1>5, MenuAssumption DEF Phase, Calm, Serves
  <2> QED
    BY <1>0, <2>1 DEF Advances, Phase, Residency!residentVars
<1>6. CASE lock = p
  <2>1. Phase' = Phase \/ (Phase = "serving" /\ Phase' = "private")
    BY <1>3, <1>6, MenuAssumption DEF Phase, Calm, Serves, Serving
  <2> QED
    BY <1>0, <2>1 DEF Advances, Phase, Residency!residentVars, Residency!Next, Residency!Retire
<1> QED
  BY <1>1, <1>4, <1>5, <1>6

(* A process that ends drops the lock if it held it. *)
LEMMA DieAdvances ==
    ASSUME Calm, NEW p \in Pids, Die(p)
    PROVE  Advances
<1>0. ~Serving(Off) /\ ~Left(Off)
  BY DEF Serving, Left, Off
<1>1. CASE lock # p /\ ~Left(proc[p])
  <2>1. Become(p, Off) /\ UNCHANGED <<pidfile, lock>>
    BY <1>1 DEF Die
  <2> QED
    BY <1>0, <1>1, <2>1, LocalAdvances
<1>2. CASE lock = p
  <2>1. lock' = Nobody /\ UNCHANGED pidfile
    BY <1>2 DEF Die
  <2>2. Phase # "disturbed" /\ Phase' = "free"
    BY <2>1 DEF Phase, Calm
  <2>3. ~Left(proc[p])
    BY <1>2, ResidentHolds DEF Calm, Left, Residents
  <2>4. Removing' = Removing
    BY <1>0, <2>3, RemovingStays DEF Die, Calm
  <2> QED
    BY <2>1, <2>2, <2>4 DEF Advances, Phase, Residency!Next, Residency!Leave
<1>3. CASE lock # p /\ Left(proc[p])
  <2>1. proc' = [proc EXCEPT ![p] = Off] /\ UNCHANGED <<pidfile, lock>> /\ proc \in [Pids -> Process]
    BY <1>3 DEF Die, Become, Calm, MenuInv
  <2>2. proc'[p] = Off /\ \A q \in Pids \ {p} : proc'[q] = proc[q]
    BY <2>1
  <2>3. p \in Removing /\ Removing' = Removing \ {p}
    BY <1>0, <1>3, <2>2 DEF Removing, Left
  <2>4. Phase' = Phase
    BY <1>3, <2>1, <2>2, MenuAssumption DEF Phase, Calm, MenuInv, Serves
  <2> QED
    BY <2>1, <2>3, <2>4 DEF Advances, Phase, Residency!Next, Residency!RemoveLate
<1> QED
  BY <1>1, <1>2, <1>3

(* Taking the lock, publishing the pidfile and unlinking it. *)
LEMMA FilesAdvance ==
    ASSUME Calm, NEW p \in Pids, NEW t \in Threads, TryLock(p) \/ WritePidfile(p) \/ Unlink(p, t)
    PROVE  Advances
<1>0. proc \in [Pids -> Process] /\ KeepsTo(p, proc[p], lock, pidfile, lockFaults) /\ proc[p] \in Process
  BY DEF Calm, MenuInv, KeepsTo
<1>1. proc[p].pc \in Residents <=> lock = p
  BY ResidentHolds DEF Calm
<1>2. CASE TryLock(p) /\ lock = Nobody
  <2> DEFINE r == [proc[p] EXCEPT !.pc = "init"]
  <2>1. proc' = [proc EXCEPT ![p] = r] /\ lock' = p /\ UNCHANGED pidfile
    BY <1>2 DEF TryLock, Goto, Become
  <2>2. proc'[p].pc = "init"
    BY <1>0, <2>1 DEF Process
  <2>3. Phase = "free" /\ Phase' = "private"
    BY <1>2, <2>1, <2>2, MenuAssumption DEF Phase, Calm, Serves
  <2>4. ~Left(r) /\ ~Left(proc[p]) /\ Become(p, r)
    BY <1>0, <1>2, <2>1 DEF Left, Process, TryLock, Become
  <2>5. Removing' = Removing
    BY <2>4, RemovingStays DEF Calm
  <2> QED
    BY <1>2, <2>1, <2>3, <2>5 DEF Advances, Phase, Residency!Next, Residency!Take
<1>3. CASE TryLock(p) /\ lock # Nobody
  <2> DEFINE r == [proc[p] EXCEPT !.pc = "check"]
  <2>1. Become(p, r) /\ UNCHANGED <<pidfile, lock>>
    BY <1>3 DEF TryLock, Goto
  <2>2. ~Serving(r) /\ ~Left(r) /\ ~Left(proc[p])
    BY <1>0, <1>3 DEF Serving, Left, Process, TryLock
  <2> QED
    BY <2>1, <2>2, LocalAdvances
<1>4. CASE WritePidfile(p)
  <2>1. lock = p /\ lock' = p /\ pidfile' = p /\ proc[p].pc = "publish"
    BY <1>1, <1>4 DEF WritePidfile, Residents
  <2>2. Phase = "private" /\ Phase' \in {"private", "serving"}
    BY <2>1, MenuAssumption DEF Phase, Calm, Serves
  <2> DEFINE r == [proc[p] EXCEPT !.pc = "recheck"]
  <2>3. ~Left(r) /\ ~Left(proc[p]) /\ Become(p, r)
    BY <1>0, <1>4, <2>1 DEF Left, Process, WritePidfile, Goto
  <2>4. Removing' = Removing
    BY <2>3, RemovingStays DEF Calm
  <2> QED
    BY <2>1, <2>2, <2>4 DEF Advances, Phase, Residency!Next, Residency!Serve, Residency!Withdraw
<1>5. CASE Unlink(p, t) /\ lock = p
  <2>1. t \in proc[p].removing /\ pidfile' = Nobody /\ lock' = lock
    BY <1>5 DEF Unlink
  <2>2. lock = p /\ pidfile \in {p, Nobody} /\ ~Serves(p)
    BY <1>0, <1>1, <1>5, <2>1 DEF KeepsTo, Calm, Serves
  <2> DEFINE r == [proc[p] EXCEPT !.removing = @ \ {t}]
             u == IF t = "signal" THEN ForwardQuit(r) ELSE r
  <2>3. Become(p, u)
    BY <1>5 DEF Unlink
  <2>4. r \in Process /\ Serving(r) = Serving(proc[p])
    BY <1>0 DEF Process, Serving
  <2>13. r.pc = proc[p].pc
    BY <1>0 DEF Process
  <2> HIDE DEF r
  <2>5. Serving(u) = Serving(r)
    BY <2>4, ForwardQuitKeeps DEF SameRole, Serving
  <2> HIDE DEF u
  <2>6. proc'[p] = u
    BY <1>0, <2>3 DEF Become
  <2>7. ~Serves(p)'
    BY <2>2, <2>4, <2>5, <2>6 DEF Serves, Serving
  <2>8. Phase = "private" /\ Phase' = "private"
    BY <2>1, <2>2, <2>7, MenuAssumption DEF Phase, Calm
  <2>11. proc[p].pc \in Residents
    BY <1>1, <1>5
  <2>12. u.pc = proc[p].pc
    BY <2>4, <2>13, ForwardQuitKeeps DEF SameRole, u
  <2>14. Removing' = Removing
    BY <2>3, <2>11, <2>12, RemovingStays DEF Calm, Left, Residents
  <2>9. CASE pidfile = p
    BY <2>1, <2>2, <2>8, <2>9, <2>14 DEF Advances, Phase, Residency!Next, Residency!Withdraw
  <2>10. CASE pidfile = Nobody
    BY <2>1, <2>8, <2>10, <2>14 DEF Advances, Residency!residentVars, Phase
  <2> QED
    BY <2>2, <2>9, <2>10
<1>6. CASE Unlink(p, t) /\ lock # p
  <2>1. t \in proc[p].removing /\ pidfile' = Nobody /\ lock' = lock
    BY <1>6 DEF Unlink
  <2>2. proc[p].pc = "returned"
    BY <1>0, <1>1, <1>6, <2>1 DEF KeepsTo, Running
  <2> DEFINE r == [proc[p] EXCEPT !.removing = @ \ {t}]
             u == IF t = "signal" THEN ForwardQuit(r) ELSE r
  <2>3. proc' = [proc EXCEPT ![p] = u] /\ proc \in [Pids -> Process]
    BY <1>0, <1>6 DEF Unlink, Become
  <2>4. proc'[p] = u /\ \A q \in Pids \ {p} : proc'[q] = proc[q]
    BY <2>3
  <2>5. p \in Removing /\ Removing' \in {Removing, Removing \ {p}}
    BY <2>1, <2>2, <2>4 DEF Removing
  <2>6. Phase' = Phase
    BY <1>6, <2>1, <2>4, MenuAssumption DEF Phase, Calm, MenuInv, Serves
  <2> QED
    BY <2>1, <2>5, <2>6 DEF Advances, Phase, Residency!Next, Residency!RemoveLate
<1> QED
  BY <1>2, <1>3, <1>4, <1>5, <1>6

(* The steps of a launch before it has the lock or after it are steps of the *)
(* residency or none of it.                                                  *)
LEMMA ClaimAdvances ==
    ASSUME Calm, NEW p \in Pids,
           \/ \E hidden \in BOOLEAN : Launch(p, hidden)
           \/ LaunchPlain(p) \/ ClosePlain(p) \/ CheckPidfile(p) \/ PatienceEnds(p)
           \/ StartThreads(p) \/ FirstShow(p) \/ WriteFails(p) \/ Recheck(p)
    PROVE  Advances
<1>0. proc[p] \in Process
  BY DEF Calm, MenuInv
<1>1. ASSUME NEW hidden \in BOOLEAN, Launch(p, hidden) PROVE Advances
  <2> DEFINE r == [Off EXCEPT !.pc = "check", !.hidden = hidden]
  <2>1. ~Serving(r) /\ ~Left(r) /\ ~Left(proc[p])
    BY <1>1, OffIsProcess DEF Serving, Left, Process, Launch
  <2> QED
    BY <1>1, <2>1, LocalAdvances DEF Launch
<1>2. CASE LaunchPlain(p)
  <2> DEFINE r == [Off EXCEPT !.pc = "legacy", !.visible = TRUE, !.exitsOnClose = TRUE]
  <2>1. ~Serving(r) /\ ~Left(r) /\ ~Left(proc[p])
    BY <1>2, OffIsProcess DEF Serving, Left, Process, LaunchPlain
  <2> QED
    BY <1>2, <2>1, LocalAdvances DEF LaunchPlain
<1>3. CASE ClosePlain(p) \/ PatienceEnds(p)
  BY <1>3, DieAdvances DEF ClosePlain, PatienceEnds
<1>4. CASE CheckPidfile(p)
  <2> DEFINE r == [proc[p] EXCEPT !.pc = "lock"]
             s == [proc[p] EXCEPT !.pc = "signal", !.peer = pidfile]
  <2>1. ~Serving(r) /\ ~Serving(s) /\ ~Left(r) /\ ~Left(s) /\ ~Left(proc[p])
    BY <1>0, <1>4 DEF Serving, Left, Process, CheckPidfile
  <2>2. Die(p) \/ ((Become(p, r) \/ Become(p, s)) /\ UNCHANGED <<pidfile, lock>>)
    BY <1>4 DEF CheckPidfile, Goto
  <2> QED
    BY <2>1, <2>2, DieAdvances, LocalAdvances
<1>5. CASE StartThreads(p)
  <2> DEFINE r == [proc[p] EXCEPT !.pc = "show", !.listening = TRUE]
  <2>1. ~Serving(r) /\ ~Left(r) /\ ~Left(proc[p])
    BY <1>0, <1>5 DEF Serving, Left, Process, StartThreads
  <2> QED
    BY <1>5, <2>1, LocalAdvances DEF StartThreads
<1>6. CASE FirstShow(p)
  <2> DEFINE r == [proc[p] EXCEPT !.pc = "publish", !.visible = ~proc[p].hidden]
  <2>1. ~Serving(r) /\ ~Left(r) /\ ~Left(proc[p])
    BY <1>0, <1>6 DEF Serving, Left, Process, FirstShow
  <2> QED
    BY <1>6, <2>1, LocalAdvances DEF FirstShow
<1>7. CASE WriteFails(p)
  <2> DEFINE r == [proc[p] EXCEPT !.pc = "recheck", !.exitsOnClose = TRUE]
  <2>1. ~Serving(r) /\ ~Left(r) /\ ~Left(proc[p])
    BY <1>0, <1>7 DEF Serving, Left, Process, WriteFails
  <2>2. Die(p) \/ (Become(p, r) /\ UNCHANGED <<pidfile, lock>>)
    BY <1>7 DEF WriteFails
  <2> QED
    BY <2>1, <2>2, DieAdvances, LocalAdvances
<1>8. CASE Recheck(p)
  <2> DEFINE r == [proc[p] EXCEPT !.pc = "loop"]
             u == IF proc[p].quitting THEN ReadOwn(p, r, "main") ELSE r
  <2>1. proc[p].pc = "recheck" /\ Become(p, u) /\ UNCHANGED <<pidfile, lock>>
    BY <1>8 DEF Recheck
  <2>2. r \in Process /\ (Serving(r) => Serving(proc[p]))
    BY <1>0, <2>1 DEF Serving, Process, Stages
  <2>3. Serving(ReadOwn(p, r, "main")) => Serving(r)
    BY <2>2 DEF Serving, ReadOwn, Process
  <2>4. ~Left(u) /\ ~Left(proc[p])
    BY <1>0, <2>1 DEF Left, ReadOwn, Process
  <2> QED
    BY <2>1, <2>2, <2>3, <2>4, LocalAdvances
<1> QED
  BY <1>1, <1>2, <1>3, <1>4, <1>5, <1>6, <1>7, <1>8

(* The hand-off ends a process that is no resident, and perhaps a plain menu. *)
LEMMA SendShowAdvances ==
    ASSUME Calm, NEW p \in Pids, SendShow(p)
    PROVE  Advances
<1> DEFINE q == proc[p].peer
<1>0. proc \in [Pids -> Process] /\ lock \in Pids \cup {Nobody} /\ UNCHANGED <<pidfile, lock>>
  BY DEF Calm, MenuInv, SendShow
<1>1. q \in Pids /\ q # p /\ lock # p /\ proc[p].pc = "signal"
  BY DEF SendShow, Calm, MenuInv, KeepsTo, Running, Residents
<1>2. ~Serving(Off) /\ ~Left(Off) /\ ~Left(proc[p])
  BY <1>1 DEF Serving, Left, Off
<1>3. CASE ~IsMenu(q)
  <2> DEFINE s == [proc[p] EXCEPT !.pc = "check", !.peer = Nobody, !.tries = @ + 1]
  <2>1. Become(p, Off) \/ Become(p, s)
    BY <1>3 DEF SendShow
  <2>2. ~Serving(s) /\ ~Left(s)
    BY <1>0 DEF Serving, Left, Process
  <2> QED
    BY <1>0, <1>2, <2>1, <2>2, LocalAdvances
<1>4. CASE IsMenu(q)
  <2> DEFINE u == [proc[q] EXCEPT !.pending = @ \cup {"show"}]
             s == IF proc[q].pc = "legacy" THEN Off ELSE u
  <2>1. proc' = [proc EXCEPT ![p] = Off, ![q] = s]
    BY <1>4 DEF SendShow
  <2>2. Serving(u) = Serving(proc[q])
    BY <1>0, <1>1 DEF Serving, Process
  <2>3. Serving(s) = Serving(proc[q])
    BY <1>2, <2>2 DEF Serving
  <2>7. Left(s) <=> Left(proc[q])
    BY <1>0, <1>1, <1>2 DEF Left, Process
  <2> HIDE DEF q, s
  <2>4. \A o \in Pids \ {p} : Serving(proc'[o]) = Serving(proc[o])
    BY <1>0, <1>1, <2>1, <2>3
  <2>8. ASSUME NEW o \in Pids PROVE Left(proc'[o]) <=> Left(proc[o])
    BY <1>0, <1>1, <1>2, <2>1, <2>7
  <2>9. Removing' = Removing
    BY <2>8 DEF Removing, Left
  <2>5. lock # Nobody => Serves(lock)' = Serves(lock)
    BY <1>0, <1>1, <2>4 DEF Serves, Serving
  <2>6. Phase' = Phase
    BY <1>0, <2>5 DEF Phase, Calm
  <2> QED
    BY <1>0, <2>6, <2>9 DEF Advances, Residency!residentVars, Phase
<1> QED
  BY <1>3, <1>4

(* So are those of the event loop and of the clean-up. *)
LEMMA LoopAdvances ==
    ASSUME Calm, NEW p \in Pids,
           RunJob(p) \/ UserCloses(p) \/ CleanUp(p) \/ MainReturns(p) \/ ProcessEnds(p)
    PROVE  Advances
<1>0. proc[p] \in Process /\ (proc[p].pc = "loop" => ~Left(proc[p]))
  BY DEF Calm, MenuInv, Left
<1>1. ASSUME NEW r, After(p, r), Serving(r) => Serving(proc[p]), ~Left(r), proc[p].pc = "loop"
      PROVE  Advances
  BY <1>0, <1>1, DieAdvances, LocalAdvances DEF After, Die
<1>2. ASSUME NEW r \in Process, Serving(r) => Serving(proc[p]), r.pc = "loop"
      PROVE  (Serving(CloseMenu(p, r)) => Serving(proc[p])) /\ ~Left(CloseMenu(p, r))
  BY <1>2 DEF Serving, Left, CloseMenu, Off, Process
<1>3. CASE UserCloses(p)
  BY <1>0, <1>1, <1>2, <1>3 DEF UserCloses
<1>4. CASE RunJob(p)
  <2> DEFINE request == Head(proc[p].queue)
             r == [proc[p] EXCEPT !.queue = Tail(@)]
  <2>1. proc[p].queue \in Seq(Requests) /\ proc[p].queue # <<>>
    BY <1>0, <1>4 DEF Process, RunJob
  <2>2. Tail(proc[p].queue) \in Seq(Requests)
    BY <2>1
  <2>3. r \in Process /\ Serving(r) = Serving(proc[p]) /\ r.pc = "loop"
    BY <1>0, <1>4, <2>2 DEF Serving, Process, RunJob
  <2>4. After(p, Handle(p, r, request)) /\ proc[p].pc = "loop"
    BY <1>4 DEF RunJob
  <2> HIDE DEF r, request
  <2>5. /\ Serving([r EXCEPT !.visible = TRUE]) = Serving(r) /\ ~Serving([r EXCEPT !.pc = "cleanup"])
        /\ ~Left([r EXCEPT !.visible = TRUE]) /\ ~Left([r EXCEPT !.pc = "cleanup"])
    BY <2>3 DEF Serving, Left, Process
  <2>6. Handle(p, r, request) \in {[r EXCEPT !.pc = "cleanup"], CloseMenu(p, r), [r EXCEPT !.visible = TRUE]}
    BY Zenon DEF Handle
  <2>7. (Serving(Handle(p, r, request)) => Serving(proc[p])) /\ ~Left(Handle(p, r, request))
    BY <1>2, <2>3, <2>5, <2>6
  <2> QED
    BY <1>1, <2>4, <2>7
<1>5. CASE CleanUp(p)
  <2> DEFINE r == [proc[p] EXCEPT !.pc = "exit", !.visible = FALSE]
  <2>1. r \in Process /\ ~Serving(r)
    BY <1>0 DEF Serving, Process, Stages
  <2>2. ~Serving(ReadOwn(p, r, "main")) /\ ~Left(ReadOwn(p, r, "main")) /\ ~Left(proc[p])
    BY <1>0, <1>5, <2>1 DEF Serving, Left, ReadOwn, Process, CleanUp
  <2>3. Become(p, ReadOwn(p, r, "main")) /\ UNCHANGED <<pidfile, lock>>
    BY <1>5 DEF CleanUp
  <2> QED
    BY <2>2, <2>3, LocalAdvances
<1>6. CASE MainReturns(p)
  <2> DEFINE r == [proc[p] EXCEPT !.pc = "returned"]
  <2>1. lock = p /\ lock' = Nobody /\ UNCHANGED pidfile /\ proc[p].pc = "exit"
    BY <1>6, ResidentHolds DEF MainReturns, Residents, Calm
  <2>2. proc' = [proc EXCEPT ![p] = r] /\ proc \in [Pids -> Process]
    BY <1>6 DEF MainReturns, Goto, Become, Calm, MenuInv
  <2>3. proc'[p] = r /\ \A q \in Pids \ {p} : proc'[q] = proc[q]
    BY <2>2
  <2>4. Removing' \in {Removing, Removing \cup {lock}}
    BY <2>1, <2>3 DEF Removing
  <2>5. Phase # "disturbed" /\ Phase' = "free"
    BY <2>1 DEF Phase, Calm
  <2> QED
    BY <2>1, <2>4, <2>5 DEF Advances, Phase, Residency!Next, Residency!Leave
<1>7. CASE ProcessEnds(p)
  BY <1>7, DieAdvances DEF ProcessEnds
<1> QED
  BY <1>3, <1>4, <1>5, <1>6, <1>7

(* So are those of signals, watchdogs, crashes and stalls. *)
LEMMA SignalAdvances ==
    ASSUME Calm, NEW p \in Pids,
           \/ \E request \in Requests : TakeSignal(p, request)
           \/ WatchdogExits(p) \/ \E t \in Threads : WatchdogBites(p, t)
           \/ \E request \in {"toggle", "hide", "quit"} : Signal(p, request)
           \/ Crash(p) \/ Stall(p) \/ Resume(p)
    PROVE  Advances
<1>0. proc[p] \in Process
  BY DEF Calm, MenuInv
<1>1. ASSUME NEW request \in Requests, TakeSignal(p, request) PROVE Advances
  <2> DEFINE r == [proc[p] EXCEPT !.pending = @ \ {request}, !.quitting = @ \/ request = "quit"]
             u == IF request # "quit" THEN Forward(r, request)
                  ELSE IF pidfile = p THEN ReadOwn(p, r, "signal") ELSE ForwardQuit(r)
  <2>1. r \in Process /\ (Serving(r) => Serving(proc[p]))
    BY <1>0 DEF Serving, Process
  <2>2. Become(p, u) /\ UNCHANGED <<pidfile, lock>>
    BY <1>1 DEF TakeSignal
  <2> HIDE DEF r
  <2>3. SameRole(r, Forward(r, request)) /\ SameRole(r, ForwardQuit(r))
    BY <2>1, ForwardKeeps, ForwardQuitKeeps
  <2>4. Serving(Forward(r, request)) = Serving(r) /\ Serving(ForwardQuit(r)) = Serving(r)
    BY <2>3 DEF SameRole, Serving
  <2>5. Serving(ReadOwn(p, r, "signal")) = Serving(r)
    BY <2>1 DEF ReadOwn, Serving, Process
  <2>6. Serving(u) => Serving(proc[p])
    BY <2>1, <2>4, <2>5
  <2>7. r.pc = proc[p].pc /\ r.removing = proc[p].removing /\ (proc[p].pc = "returned" => pidfile # p)
    BY <1>0 DEF r, Process, Calm, MenuInv, KeepsTo
  <2>8. Left(Forward(r, request)) = Left(r) /\ Left(ForwardQuit(r)) = Left(r)
    BY <2>3 DEF SameRole, Left
  <2>9. pidfile = p => Left(ReadOwn(p, r, "signal")) = Left(r)
    BY <2>1, <2>7 DEF Left, ReadOwn, Process
  <2>10. Left(u) <=> Left(proc[p])
    BY <2>7, <2>8, <2>9 DEF Left
  <2> QED
    BY <2>2, <2>6, <2>10, LocalAdvances
<1>2. CASE WatchdogExits(p) \/ Crash(p)
  BY <1>2, DieAdvances DEF WatchdogExits, Crash
<1>3. ASSUME NEW t \in Threads, WatchdogBites(p, t) PROVE Advances
  <2> DEFINE r == [proc[p] EXCEPT !.dying = TRUE]
  <2>1. r \in Process /\ ~Serving(r)
    BY <1>0 DEF Serving, Process
  <2>2. ~Serving(ReadOwn(p, r, t))
    BY <2>1 DEF Serving, ReadOwn, Process
  <2>3. Become(p, ReadOwn(p, r, t)) /\ UNCHANGED <<pidfile, lock>>
    BY <1>3 DEF WatchdogBites
  <2>4. proc[p].pc = "returned" => pidfile # p
    BY DEF Calm, MenuInv, KeepsTo
  <2>5. Left(ReadOwn(p, r, t)) <=> Left(proc[p])
    BY <1>0, <2>1, <2>4 DEF Left, ReadOwn, Process
  <2> QED
    BY <2>2, <2>3, <2>5, LocalAdvances
<1>4. ASSUME NEW request \in {"toggle", "hide", "quit"}, Signal(p, request) PROVE Advances
  <2> DEFINE r == [proc[p] EXCEPT !.pending = @ \cup {request}]
  <2>1. Serving(r) = Serving(proc[p]) /\ Left(r) = Left(proc[p])
    BY <1>0 DEF Serving, Left, Process
  <2>2. Die(p) \/ (Become(p, r) /\ UNCHANGED <<pidfile, lock>>)
    BY <1>4 DEF Signal
  <2> HIDE DEF r
  <2> QED
    BY <2>1, <2>2, DieAdvances, LocalAdvances
<1>5. CASE Stall(p) \/ Resume(p)
  <2>1. ASSUME NEW b \in BOOLEAN
        PROVE  /\ Serving([proc[p] EXCEPT !.stuck = b]) = Serving(proc[p])
               /\ Left([proc[p] EXCEPT !.stuck = b]) = Left(proc[p])
    BY <1>0 DEF Serving, Left, Process
  <2>2. PICK b \in BOOLEAN : Become(p, [proc[p] EXCEPT !.stuck = b]) /\ UNCHANGED <<pidfile, lock>>
    BY <1>5 DEF Stall, Resume
  <2> QED
    BY <2>1, <2>2, LocalAdvances
<1> QED
  BY <1>1, <1>2, <1>3, <1>4, <1>5

(* The lock file's failures are counted and never forgotten. *)
LEMMA FaultsGrow ==
    ASSUME MenuInv, [MenuNext]_menuVars
    PROVE  lockFaults' \in Nat /\ lockFaults' >= lockFaults /\
           ((\A p \in Pids : ~LockFails(p)) => lockFaults' = lockFaults)
<1>1. CASE UNCHANGED menuVars
  BY <1>1 DEF menuVars, MenuInv
<1>2. ASSUME NEW p \in Pids, LockFails(p)
      PROVE  lockFaults' \in Nat /\ lockFaults' >= lockFaults
  BY <1>2 DEF LockFails, MenuInv
<1>3. ASSUME NEW p \in Pids, ProcStep(p) PROVE lockFaults' = lockFaults
  BY <1>3 DEF ProcStep, CheckPidfile, TryLock, SendShow, StartThreads, FirstShow, WritePidfile,
     Recheck, RunJob, CleanUp, MainReturns, ProcessEnds, Unlink, WatchdogBites, TakeSignal, WatchdogExits, Same
<1>4. ASSUME NEW p \in Pids, 
             \/ \E hidden \in BOOLEAN : Launch(p, hidden)
             \/ LaunchPlain(p) \/ ClosePlain(p) \/ PatienceEnds(p) \/ UserCloses(p)
             \/ WriteFails(p) \/ Crash(p) \/ Stall(p) \/ Resume(p)
             \/ \E request \in {"toggle", "hide", "quit"} : Signal(p, request)
      PROVE  lockFaults' = lockFaults
  BY <1>4 DEF Launch, LaunchPlain, ClosePlain, PatienceEnds, UserCloses, WriteFails, Crash, Stall,
     Resume, Signal, Same, Fault
<1> QED
  BY <1>1, <1>2, <1>3, <1>4 DEF MenuNext, MenuInv

(* One step of the processes is one step of OneResident. *)
LEMMA MenuAdvances ==
    ASSUME MenuInv, [MenuNext]_menuVars
    PROVE  Advances
<1>0. lockFaults \in Nat /\ lockFaults' \in Nat /\ lockFaults' >= lockFaults
  BY FaultsGrow DEF MenuInv
<1>1. CASE lockFaults' > 0
  BY <1>1, DisturbedAdvances
<1>2. CASE lockFaults' = 0
  <2>1. Calm
    BY <1>0, <1>2 DEF Calm
  <2>2. CASE UNCHANGED menuVars
    BY <2>2 DEF menuVars, Advances, Residency!residentVars, Serves, Removing
  <2>3. ASSUME NEW p \in Pids, ProcStep(p) PROVE Advances
    BY <2>1, <2>3, FilesAdvance, ClaimAdvances, SendShowAdvances, LoopAdvances, SignalAdvances
       DEF ProcStep, Threads
  <2>4. ASSUME NEW p \in Pids,
               \/ \E hidden \in BOOLEAN : Launch(p, hidden)
               \/ LaunchPlain(p) \/ ClosePlain(p) \/ PatienceEnds(p) \/ UserCloses(p)
               \/ LockFails(p) \/ WriteFails(p) \/ Crash(p) \/ Stall(p) \/ Resume(p)
               \/ \E request \in {"toggle", "hide", "quit"} : Signal(p, request)
        PROVE  Advances
    <3>1. CASE LockFails(p)
      BY <1>2, <3>1 DEF LockFails, MenuInv
    <3> QED
      BY <2>1, <2>4, <3>1, ClaimAdvances, LoopAdvances, SignalAdvances
  <2> QED
    BY <2>2, <2>3, <2>4 DEF MenuNext
<1> QED
  BY <1>0, <1>1, <1>2

-----------------------------------------------------------------------------
(* The requests under way: what a process has pending, what its signal thread   *)
(* is about to forward and what the UI thread has queued came of a signal or a  *)
(* launch each, and a launch that has not handed off yet is still a process.    *)
Menus == {q \in Pids : IsMenu(q)}

Load(r) == Len(r.queue) + Cardinality(r.pending) + (IF "signal" \in r.removing THEN 1 ELSE 0)

CountInv ==
    /\ launches \in Nat /\ launches <= MaxLaunches
    /\ signals \in Nat /\ signals <= MaxSignals
    /\ IsFiniteSet(Menus)
    /\ \A p \in Pids : Load(proc[p]) + Cardinality(Menus) <= launches + signals

(* A set of kinds of request is finite. *)
LEMMA RequestsFinite == ASSUME NEW S \in SUBSET Requests PROVE IsFiniteSet(S) /\ Cardinality(S) \in Nat
<1>1. IsFiniteSet({"toggle"}) /\ IsFiniteSet({"show"}) /\ IsFiniteSet({"hide"}) /\ IsFiniteSet({"quit"})
  BY FS_Singleton
<1>2. IsFiniteSet({"toggle"} \cup {"show"}) /\ IsFiniteSet({"hide"} \cup {"quit"})
  BY <1>1, FS_Union
<1>3. IsFiniteSet(({"toggle"} \cup {"show"}) \cup ({"hide"} \cup {"quit"}))
  BY <1>2, FS_Union
<1>4. Requests = ({"toggle"} \cup {"show"}) \cup ({"hide"} \cup {"quit"})
  BY DEF Requests, UserRequests
<1> QED
  BY <1>3, <1>4, FS_Subset, FS_CardinalityType

(* One request more or less. *)
LEMMA OneRequest ==
    ASSUME NEW S \in SUBSET Requests, NEW x \in Requests
    PROVE  /\ Cardinality(S \cup {x}) \in Nat /\ Cardinality(S) \in Nat
           /\ Cardinality(S \cup {x}) <= Cardinality(S) + 1
           /\ x \in S => Cardinality(S \ {x}) = Cardinality(S) - 1
<1>1. IsFiniteSet(S) /\ Cardinality(S) \in Nat
  BY RequestsFinite
<1>2. x \in S => S \cup {x} = S
  OBVIOUS
<1>3. x \notin S => Cardinality(S \cup {x}) = Cardinality(S) + 1
  BY <1>1, FS_AddElement
<1>4. x \in S => Cardinality(S \ {x}) = Cardinality(S) - 1
  BY <1>1, FS_RemoveElement
<1> QED
  BY <1>1, <1>2, <1>3, <1>4

(* The requests under way in a process are a number. *)
LEMMA LoadType == ASSUME NEW r \in Process PROVE Load(r) \in Nat
<1>1. r.queue \in Seq(Requests) /\ r.pending \in SUBSET Requests
  BY DEF Process
<1>2. Len(r.queue) \in Nat /\ Cardinality(r.pending) \in Nat
  BY <1>1, RequestsFinite
<1> QED
  BY <1>2 DEF Load

(* A process that is gone has none under way. *)
LEMMA OffLoad == Load(Off) = 0
<1>1. Off.queue = <<>> /\ Off.pending = {} /\ Off.removing = {}
  BY DEF Off
<1>2. Cardinality({}) = 0
  BY FS_EmptySet
<1> QED
  BY <1>1, <1>2 DEF Load

(* No request is under way before any launch. *)
LEMMA CountInit == MenuInit => CountInv
<1> SUFFICES ASSUME MenuInit PROVE CountInv
  OBVIOUS
<1>1. Menus = {}
  BY DEF Menus, MenuInit, IsMenu, Off
<1>2. IsFiniteSet({}) /\ Cardinality({}) = 0
  BY FS_EmptySet
<1>3. \A p \in Pids : Load(proc[p]) = 0
  BY OffLoad DEF MenuInit
<1> QED
  BY <1>1, <1>2, <1>3, MenuAssumption DEF CountInv, MenuInit

(* A process that goes on, perhaps with one more signal to answer. *)
LEMMA CountLocal ==
    ASSUME MenuInv, CountInv, NEW p \in Pids, NEW r \in Process, Become(p, r),
           r.pc = "off" <=> proc[p].pc = "off", launches' = launches,
           signals' = signals \/ (signals' = signals + 1 /\ signals < MaxSignals),
           Load(r) <= Load(proc[p]) + (signals' - signals)
    PROVE  CountInv'
<1>1. proc' = [proc EXCEPT ![p] = r] /\ proc \in [Pids -> Process]
  BY DEF Become, MenuInv
<1>2. proc'[p] = r /\ \A q \in Pids \ {p} : proc'[q] = proc[q]
  BY <1>1
<1>3. Menus' = Menus
  BY <1>2 DEF Menus, IsMenu
<1>4. signals' \in Nat /\ signals' <= MaxSignals /\ signals \in Nat /\ signals' >= signals
  BY MenuAssumption DEF CountInv
<1>5. Cardinality(Menus) \in Nat /\ launches \in Nat
  BY FS_CardinalityType DEF CountInv
<1>6. ASSUME NEW q \in Pids PROVE Load(proc'[q]) + Cardinality(Menus) <= launches + signals'
  <2>1. Load(proc[q]) \in Nat /\ Load(proc[p]) \in Nat /\ Load(r) \in Nat
    BY <1>1, LoadType
  <2>2. /\ Load(proc[q]) + Cardinality(Menus) <= launches + signals
        /\ Load(proc[p]) + Cardinality(Menus) <= launches + signals
    BY DEF CountInv
  <2>3. CASE q = p
    BY <1>2, <1>4, <1>5, <2>1, <2>2, <2>3
  <2>4. CASE q # p
    BY <1>2, <1>4, <1>5, <2>1, <2>2, <2>4
  <2> QED
    BY <2>3, <2>4
<1>7. \A q \in Pids : Load(proc[q])' = Load(proc'[q])
  BY DEF Load
<1> QED
  BY <1>3, <1>4, <1>6, <1>7 DEF CountInv

(* A process that ends takes its requests with it. *)
LEMMA CountDie ==
    ASSUME MenuInv, CountInv, NEW p \in Pids, IsMenu(p), Become(p, Off), launches' = launches,
           signals' = signals \/ (signals' = signals + 1 /\ signals < MaxSignals)
    PROVE  CountInv'
<1>1. proc' = [proc EXCEPT ![p] = Off] /\ proc \in [Pids -> Process]
  BY DEF Become, MenuInv
<1>2. proc'[p] = Off /\ \A q \in Pids \ {p} : proc'[q] = proc[q]
  BY <1>1
<1>3. Menus' = Menus \ {p} /\ p \in Menus
  BY <1>2 DEF Menus, IsMenu, Off
<1>4. IsFiniteSet(Menus') /\ Cardinality(Menus') = Cardinality(Menus) - 1 /\ Cardinality(Menus) \in Nat
  BY <1>3, FS_RemoveElement, FS_CardinalityType DEF CountInv
<1>5. signals' \in Nat /\ signals' <= MaxSignals /\ signals \in Nat /\ signals' >= signals /\ launches \in Nat
  BY MenuAssumption DEF CountInv
<1>6. ASSUME NEW q \in Pids PROVE Load(proc'[q]) + Cardinality(Menus') <= launches + signals'
  <2>1. Load(proc[q]) \in Nat /\ Load(proc'[q]) \in Nat /\ Load(proc'[q]) <= Load(proc[q])
    BY <1>1, <1>2, LoadType, OffLoad, OffIsProcess
  <2>2. Load(proc[q]) + Cardinality(Menus) <= launches + signals
    BY DEF CountInv
  <2> QED
    BY <1>4, <1>5, <2>1, <2>2
<1>7. \A q \in Pids : Load(proc[q])' = Load(proc'[q])
  BY DEF Load
<1> QED
  BY <1>4, <1>5, <1>6, <1>7 DEF CountInv

(* A launch is counted and has no request under way yet. *)
LEMMA CountLaunch ==
    ASSUME MenuInv, CountInv, NEW p \in Pids, NEW r \in Process, ~IsMenu(p), Become(p, r),
           r.pc # "off", Load(r) = 0, launches < MaxLaunches, launches' = launches + 1, signals' = signals
    PROVE  CountInv'
<1>1. proc' = [proc EXCEPT ![p] = r] /\ proc \in [Pids -> Process]
  BY DEF Become, MenuInv
<1>2. proc'[p] = r /\ \A q \in Pids \ {p} : proc'[q] = proc[q]
  BY <1>1
<1>3. Menus' = Menus \cup {p} /\ p \notin Menus
  BY <1>2 DEF Menus, IsMenu
<1>4. IsFiniteSet(Menus') /\ Cardinality(Menus') = Cardinality(Menus) + 1 /\ Cardinality(Menus) \in Nat
  BY <1>3, FS_AddElement, FS_CardinalityType DEF CountInv
<1>5. signals \in Nat /\ launches \in Nat /\ launches' \in Nat /\ launches' <= MaxLaunches
  BY MenuAssumption DEF CountInv
<1>6. ASSUME NEW q \in Pids PROVE Load(proc'[q]) + Cardinality(Menus') <= launches' + signals'
  <2>1. Load(proc[q]) \in Nat /\ Load(proc'[q]) \in Nat /\ Load(proc'[q]) <= Load(proc[q])
    BY <1>1, <1>2, LoadType
  <2>2. Load(proc[q]) + Cardinality(Menus) <= launches + signals
    BY DEF CountInv
  <2> QED
    BY <1>4, <1>5, <2>1, <2>2
<1>7. \A q \in Pids : Load(proc[q])' = Load(proc'[q])
  BY DEF Load
<1> QED
  BY <1>4, <1>5, <1>6, <1>7 DEF CountInv

(* The same requests under way. *)
SameLoad(r, s) ==
    /\ s \in Process /\ (s.pc = "off" <=> r.pc = "off")
    /\ s.queue = r.queue /\ s.pending = r.pending
    /\ "signal" \in s.removing <=> "signal" \in r.removing

(* A step that keeps a process's requests keeps the count. *)
LEMMA CountSame ==
    ASSUME MenuInv, CountInv, NEW p \in Pids, NEW r, SameLoad(proc[p], r), Become(p, r),
           UNCHANGED <<launches, signals>>
    PROVE  CountInv'
<1>1. Load(r) = Load(proc[p]) /\ r \in Process
  BY DEF SameLoad, Load
<1>2. proc[p] \in Process
  BY DEF MenuInv
<1>3. Load(r) \in Nat /\ signals \in Nat
  BY <1>1, <1>2, LoadType DEF CountInv
<1> QED
  BY <1>1, <1>3, CountLocal DEF SameLoad

(* A forwarded request was pending, or its thread was about to forward it. *)
LEMMA ForwardLoad ==
    ASSUME NEW r \in Process, NEW request \in Requests
    PROVE  Load(Forward(r, request)) <= Load(r) + 1
<1>1. r.queue \in Seq(Requests) /\ Load(r) \in Nat /\ Cardinality(r.pending) \in Nat
  BY LoadType, RequestsFinite DEF Process
<1>2. CASE r.pc \in {"cleanup", "exit", "returned"}
  BY <1>1, <1>2 DEF Forward
<1>3. CASE r.pc \notin {"cleanup", "exit", "returned"}
  <2> DEFINE u == [r EXCEPT !.queue = Append(r.queue, request)]
  <2>1. u.queue = Append(r.queue, request) /\ u.pending = r.pending /\ u.removing = r.removing
    BY DEF Process
  <2>2. Len(u.queue) = Len(r.queue) + 1 /\ Len(r.queue) \in Nat
    BY <1>1, <2>1
  <2>3. Forward(r, request) = u
    BY <1>3 DEF Forward
  <2> HIDE DEF u
  <2>4. CASE "signal" \in r.removing
    BY <1>1, <2>1, <2>2, <2>3, <2>4 DEF Load
  <2>5. CASE "signal" \notin r.removing
    BY <1>1, <2>1, <2>2, <2>3, <2>5 DEF Load
  <2> QED
    BY <2>4, <2>5
<1> QED
  BY <1>2, <1>3

(* A quit forwarded is at most one request more. *)
LEMMA ForwardQuitLoad ==
    ASSUME NEW r \in Process
    PROVE  Load(ForwardQuit(r)) <= Load(r) + 1
<1> DEFINE a == [r EXCEPT !.armed = TRUE]
<1>1. a \in Process /\ a.queue = r.queue /\ a.pending = r.pending /\ a.removing = r.removing
  BY DEF Process
<1>2. Load(a) = Load(r)
  BY <1>1 DEF Load
<1> QED
  BY <1>1, <1>2, ForwardLoad DEF ForwardQuit, Requests

(* The claim of the residency keeps the count. *)
LEMMA ClaimCounts ==
    ASSUME MenuInv, CountInv, NEW p \in Pids,
           \/ \E hidden \in BOOLEAN : Launch(p, hidden)
           \/ LaunchPlain(p) \/ ClosePlain(p) \/ CheckPidfile(p) \/ TryLock(p) \/ PatienceEnds(p)
           \/ LockFails(p) \/ StartThreads(p) \/ FirstShow(p) \/ WritePidfile(p) \/ WriteFails(p)
           \/ Recheck(p)
    PROVE  CountInv'
<1>0. proc[p] \in Process
  BY DEF MenuInv
<1>1. ASSUME NEW r \in Process, r.pc # "off", r.queue = <<>>, r.pending = {}, r.removing = {}
      PROVE  Load(r) = 0
  BY <1>1, FS_EmptySet DEF Load
<1>2. ASSUME NEW hidden \in BOOLEAN, Launch(p, hidden) PROVE CountInv'
  <2> DEFINE r == [Off EXCEPT !.pc = "check", !.hidden = hidden]
  <2>1. /\ r \in Process /\ r.pc # "off" /\ r.queue = Off.queue /\ r.pending = Off.pending
        /\ r.removing = Off.removing
    BY OffIsProcess DEF Process, Stages
  <2>2. Load(r) = 0
    BY <1>1, <2>1 DEF Off
  <2> QED
    BY <1>2, <2>1, <2>2, CountLaunch DEF Launch, IsMenu
<1>3. CASE LaunchPlain(p)
  <2> DEFINE r == [Off EXCEPT !.pc = "legacy", !.visible = TRUE, !.exitsOnClose = TRUE]
  <2>1. /\ r \in Process /\ r.pc # "off" /\ r.queue = Off.queue /\ r.pending = Off.pending
        /\ r.removing = Off.removing
    BY OffIsProcess DEF Process, Stages
  <2>2. Load(r) = 0
    BY <1>1, <2>1 DEF Off
  <2> QED
    BY <1>3, <2>1, <2>2, CountLaunch DEF LaunchPlain, IsMenu
<1>4. CASE ClosePlain(p) \/ PatienceEnds(p)
  BY <1>4, CountDie DEF ClosePlain, PatienceEnds, Die, Same, IsMenu
<1>5. ASSUME NEW x \in Stages \ {"off"}, proc[p].pc # "off", UNCHANGED <<launches, signals>>,
             Become(p, [proc[p] EXCEPT !.pc = x])
      PROVE  CountInv'
  <2>1. SameLoad(proc[p], [proc[p] EXCEPT !.pc = x])
    BY <1>0, <1>5 DEF SameLoad, Process
  <2> QED
    BY <1>5, <2>1, CountSame
<1>6. CASE CheckPidfile(p)
  <2> DEFINE s == [proc[p] EXCEPT !.pc = "signal", !.peer = pidfile]
  <2>1. SameLoad(proc[p], s)
    BY <1>0, <1>6 DEF SameLoad, Process, Stages, CheckPidfile, MenuInv
  <2>2. Become(p, [proc[p] EXCEPT !.pc = "lock"]) \/ Become(p, Off) \/ Become(p, s)
    BY <1>6 DEF CheckPidfile, Goto, Die
  <2>3. IsMenu(p) /\ UNCHANGED <<launches, signals>>
    BY <1>6 DEF CheckPidfile, IsMenu, Same
  <2> HIDE DEF s
  <2>4. CASE Become(p, s)
    BY <2>1, <2>3, <2>4, CountSame
  <2>5. CASE Become(p, Off)
    BY <2>3, <2>5, CountDie
  <2>6. CASE Become(p, [proc[p] EXCEPT !.pc = "lock"])
    BY <1>5, <2>3, <2>6 DEF IsMenu, Stages
  <2> QED
    BY <2>2, <2>4, <2>5, <2>6
<1>7. CASE TryLock(p) \/ WritePidfile(p)
  <2>1. \E x \in {"init", "check", "recheck"} : Become(p, [proc[p] EXCEPT !.pc = x])
    BY <1>7 DEF TryLock, WritePidfile, Goto
  <2> QED
    BY <1>5, <1>7, <2>1 DEF Stages, TryLock, WritePidfile, Same
<1>8. CASE LockFails(p)
  <2> DEFINE s == [proc[p] EXCEPT !.pc = "init", !.lockless = TRUE]
  <2>1. SameLoad(proc[p], s)
    BY <1>0, <1>8 DEF SameLoad, Process, Stages, LockFails
  <2> QED
    BY <1>8, <2>1, CountSame DEF LockFails
<1>9. CASE StartThreads(p)
  <2> DEFINE s == [proc[p] EXCEPT !.pc = "show", !.listening = TRUE]
  <2>1. SameLoad(proc[p], s)
    BY <1>0, <1>9 DEF SameLoad, Process, Stages, StartThreads
  <2> QED
    BY <1>9, <2>1, CountSame DEF StartThreads, Same
<1>10. CASE FirstShow(p)
  <2> DEFINE s == [proc[p] EXCEPT !.pc = "publish", !.visible = ~proc[p].hidden]
  <2>1. SameLoad(proc[p], s)
    BY <1>0, <1>10 DEF SameLoad, Process, Stages, FirstShow
  <2> QED
    BY <1>10, <2>1, CountSame DEF FirstShow, Same
<1>11. CASE WriteFails(p)
  <2> DEFINE s == [proc[p] EXCEPT !.pc = "recheck", !.exitsOnClose = TRUE]
  <2>1. SameLoad(proc[p], s)
    BY <1>0, <1>11 DEF SameLoad, Process, Stages, WriteFails
  <2>2. IsMenu(p) /\ UNCHANGED <<launches, signals>> /\ (Become(p, Off) \/ Become(p, s))
    BY <1>11 DEF WriteFails, IsMenu, Fault, Die
  <2> HIDE DEF s
  <2> QED
    BY <2>1, <2>2, CountSame, CountDie
<1>12. CASE Recheck(p)
  <2> DEFINE r == [proc[p] EXCEPT !.pc = "loop"]
             u == IF proc[p].quitting THEN ReadOwn(p, r, "main") ELSE r
  <2>1. SameLoad(proc[p], r)
    BY <1>0, <1>12 DEF SameLoad, Process, Stages, Recheck
  <2> HIDE DEF r
  <2>2. SameLoad(r, u)
    BY <2>1 DEF SameLoad, ReadOwn, Process, Threads
  <2>3. SameLoad(proc[p], u)
    BY <2>1, <2>2 DEF SameLoad
  <2> QED
    BY <1>12, <2>3, CountSame DEF Recheck, Same, r
<1> QED
  BY <1>2, <1>3, <1>4, <1>6, <1>7, <1>8, <1>9, <1>10, <1>11, <1>12

(* The request of a launch that hands off was counted as its process. *)
LEMMA SendShowCounts ==
    ASSUME MenuInv, CountInv, NEW p \in Pids, SendShow(p)
    PROVE  CountInv'
<1> DEFINE q == proc[p].peer
<1>0. proc \in [Pids -> Process] /\ IsMenu(p) /\ UNCHANGED <<launches, signals>>
  BY DEF MenuInv, SendShow, IsMenu, Same
<1>1. q \in Pids /\ q # p
  BY DEF SendShow, MenuInv, KeepsTo
<1>2. CASE ~IsMenu(q) /\ proc[p].tries = 2
  BY <1>0, <1>2, CountDie DEF SendShow
<1>3. CASE ~IsMenu(q) /\ proc[p].tries # 2
  <2> DEFINE s == [proc[p] EXCEPT !.pc = "check", !.peer = Nobody, !.tries = @ + 1]
  <2>1. proc[p].tries + 1 \in Nat /\ proc[p] \in Process
    BY <1>0 DEF Process
  <2>2. /\ s \in Process /\ s.pc = "check" /\ s.queue = proc[p].queue
        /\ s.pending = proc[p].pending /\ s.removing = proc[p].removing
    BY <2>1 DEF Process, Stages
  <2>4. SameLoad(proc[p], s)
    BY <1>0, <2>2 DEF SameLoad, IsMenu
  <2>3. Become(p, s)
    BY <1>3 DEF SendShow
  <2> QED
    BY <1>0, <2>3, <2>4, CountSame
<1>4. CASE IsMenu(q)
  <2> DEFINE u == [proc[q] EXCEPT !.pending = @ \cup {"show"}]
             s == IF proc[q].pc = "legacy" THEN Off ELSE u
  <2>1. proc' = [proc EXCEPT ![p] = Off, ![q] = s]
    BY <1>4 DEF SendShow
  <2>2. proc[q].pending \in SUBSET Requests /\ proc[q].pending \cup {"show"} \in SUBSET Requests
    BY <1>0, <1>1 DEF Process, Requests, UserRequests
  <2>3. Cardinality(proc[q].pending \cup {"show"}) <= Cardinality(proc[q].pending) + 1
        /\ Cardinality(proc[q].pending \cup {"show"}) \in Nat /\ Cardinality(proc[q].pending) \in Nat
    BY <2>2, OneRequest DEF Requests, UserRequests
  <2>4. /\ u \in Process /\ u.queue = proc[q].queue /\ u.removing = proc[q].removing
        /\ u.pending = proc[q].pending \cup {"show"} /\ u.pc = proc[q].pc
    BY <1>0, <1>1, <2>2 DEF Process
  <2>5. Load(u) <= Load(proc[q]) + 1
    <3>1. proc[q].queue \in Seq(Requests)
      BY <1>0, <1>1 DEF Process
    <3>2. Len(proc[q].queue) \in Nat
      BY <3>1
    <3> HIDE DEF u
    <3>3. CASE "signal" \in proc[q].removing
      BY <2>3, <2>4, <3>2, <3>3 DEF Load
    <3>4. CASE "signal" \notin proc[q].removing
      BY <2>3, <2>4, <3>2, <3>4 DEF Load
    <3> QED
      BY <3>3, <3>4
  <2> HIDE DEF u
  <2>6. s \in Process /\ Load(s) \in Nat /\ Load(s) <= Load(proc[q]) + 1 /\ Load(proc[q]) \in Nat
    BY <1>0, <1>1, <2>4, <2>5, LoadType, OffLoad, OffIsProcess
  <2>7. s.pc # "off" => IsMenu(q)
    BY <1>4
  <2> HIDE DEF s, q
  <2>8. /\ proc'[p] = Off /\ proc'[q] = s /\ proc' \in [Pids -> Process]
        /\ \A o \in Pids \ {p, q} : proc'[o] = proc[o]
    BY <1>0, <1>1, <2>1, <2>6, OffIsProcess
  <2>9. Menus' \subseteq Menus \ {p} /\ p \in Menus
    BY <1>0, <1>4, <2>8 DEF Menus, IsMenu, Off
  <2>10. /\ IsFiniteSet(Menus') /\ Cardinality(Menus') + 1 <= Cardinality(Menus)
         /\ Cardinality(Menus) \in Nat /\ Cardinality(Menus') \in Nat
    <3>1. IsFiniteSet(Menus \ {p}) /\ Cardinality(Menus \ {p}) = Cardinality(Menus) - 1
          /\ Cardinality(Menus) \in Nat
      BY <2>9, FS_RemoveElement, FS_CardinalityType DEF CountInv
    <3>2. IsFiniteSet(Menus') /\ Cardinality(Menus') <= Cardinality(Menus \ {p})
      BY <2>9, <3>1, FS_Subset
    <3>3. Cardinality(Menus') \in Nat
      BY <3>2, FS_CardinalityType
    <3> QED
      BY <3>1, <3>2, <3>3
  <2>11. ASSUME NEW o \in Pids PROVE Load(proc'[o]) + Cardinality(Menus') <= launches + signals
    <3>1. Load(proc[o]) \in Nat /\ Load(proc'[o]) \in Nat /\ Load(proc'[o]) <= Load(proc[o]) + 1
      BY <1>0, <2>6, <2>8, LoadType, OffLoad
    <3>2. Load(proc[o]) + Cardinality(Menus) <= launches + signals /\ launches \in Nat /\ signals \in Nat
      BY DEF CountInv
    <3> QED
      BY <2>10, <3>1, <3>2
  <2>12. \A o \in Pids : Load(proc[o])' = Load(proc'[o])
    BY DEF Load
  <2> QED
    BY <1>0, <2>10, <2>11, <2>12 DEF CountInv
<1> QED
  BY <1>2, <1>3, <1>4

(* The event loop and the clean-up only answer requests. *)
LEMMA LoopCounts ==
    ASSUME MenuInv, CountInv, NEW p \in Pids,
           RunJob(p) \/ UserCloses(p) \/ CleanUp(p) \/ MainReturns(p) \/ ProcessEnds(p)
    PROVE  CountInv'
<1>0. proc[p] \in Process /\ IsMenu(p) /\ UNCHANGED <<launches, signals>>
  BY DEF MenuInv, RunJob, UserCloses, CleanUp, MainReturns, ProcessEnds, IsMenu, Same
<1>1. ASSUME NEW r \in Process, r.pc # "off", Load(r) <= Load(proc[p]), Become(p, r) PROVE CountInv'
  <2>1. signals \in Nat /\ Load(proc[p]) \in Nat
    BY <1>0, LoadType DEF CountInv
  <2> QED
    BY <1>0, <1>1, <2>1, CountLocal DEF IsMenu
<1>2. ASSUME NEW r \in Process, r.pc # "off", Load(r) <= Load(proc[p]), Become(p, CloseMenu(p, r))
      PROVE  CountInv'
  <2> DEFINE s == [r EXCEPT !.visible = FALSE]
  <2>1. SameLoad(r, s)
    BY <1>2 DEF SameLoad, Process
  <2>2. Load(s) = Load(r) /\ s \in Process /\ s.pc # "off"
    BY <1>2, <2>1 DEF SameLoad, Load
  <2>3. Become(p, Off) \/ Become(p, s)
    BY <1>2 DEF CloseMenu
  <2> HIDE DEF s
  <2> QED
    BY <1>0, <1>1, <1>2, <2>2, <2>3, CountDie
<1>3. CASE UserCloses(p)
  <2>1. Load(proc[p]) \in Nat
    BY <1>0, LoadType
  <2>2. Load(proc[p]) <= Load(proc[p])
    BY <2>1
  <2> QED
    BY <1>0, <1>2, <1>3, <2>2 DEF UserCloses, After, IsMenu
<1>4. CASE RunJob(p)
  <2> DEFINE request == Head(proc[p].queue)
             r == [proc[p] EXCEPT !.queue = Tail(@)]
  <2>1. proc[p].queue \in Seq(Requests) /\ proc[p].queue # <<>>
    BY <1>0, <1>4 DEF Process, RunJob
  <2>2. Tail(proc[p].queue) \in Seq(Requests) /\ Len(Tail(proc[p].queue)) = Len(proc[p].queue) - 1
        /\ Len(proc[p].queue) \in Nat
    BY <2>1
  <2>3. /\ r \in Process /\ r.pc = proc[p].pc /\ r.queue = Tail(proc[p].queue)
        /\ r.pending = proc[p].pending /\ r.removing = proc[p].removing
    BY <1>0, <2>2 DEF Process
  <2>4. Cardinality(proc[p].pending) \in Nat
    BY <1>0, RequestsFinite DEF Process
  <2>5. Become(p, Handle(p, r, request))
    BY <1>4 DEF RunJob, After
  <2> HIDE DEF r, request
  <2>6. Load(r) <= Load(proc[p])
    <3>1. CASE "signal" \in r.removing
      BY <2>2, <2>3, <2>4, <3>1 DEF Load
    <3>2. CASE "signal" \notin r.removing
      BY <2>2, <2>3, <2>4, <3>2 DEF Load
    <3> QED
      BY <3>1, <3>2
  <2>7. ASSUME NEW s, SameLoad(r, s), Become(p, s) PROVE CountInv'
    <3>1. Load(s) = Load(r)
      BY <2>7 DEF SameLoad, Load
    <3> QED
      BY <1>0, <1>1, <2>3, <2>6, <2>7, <3>1 DEF SameLoad, IsMenu
  <2>8. SameLoad(r, [r EXCEPT !.pc = "cleanup"]) /\ SameLoad(r, [r EXCEPT !.visible = TRUE])
    BY <1>0, <2>3 DEF SameLoad, Process, Stages, IsMenu
  <2>9. Handle(p, r, request) \in {[r EXCEPT !.pc = "cleanup"], CloseMenu(p, r), [r EXCEPT !.visible = TRUE]}
    BY Zenon DEF Handle
  <2> QED
    BY <1>0, <1>2, <2>3, <2>5, <2>6, <2>7, <2>8, <2>9 DEF IsMenu
<1>5. CASE CleanUp(p)
  <2> DEFINE r == [proc[p] EXCEPT !.pc = "exit", !.visible = FALSE]
             u == ReadOwn(p, r, "main")
  <2>1. SameLoad(proc[p], r)
    BY <1>0 DEF SameLoad, Process, Stages, IsMenu
  <2> HIDE DEF r
  <2>2. SameLoad(r, u)
    BY <2>1 DEF SameLoad, ReadOwn, Process, Threads
  <2>3. SameLoad(proc[p], u)
    BY <2>1, <2>2 DEF SameLoad
  <2> QED
    BY <1>0, <1>5, <2>3, CountSame DEF CleanUp, r
<1>6. CASE MainReturns(p)
  <2> DEFINE r == [proc[p] EXCEPT !.pc = "returned"]
  <2>1. r \in Process /\ SameLoad(proc[p], r)
    BY <1>0, <1>6 DEF Process, Stages, SameLoad, IsMenu
  <2> QED
    BY <1>0, <1>6, <2>1, CountSame DEF MainReturns, Goto
<1>7. CASE ProcessEnds(p)
  BY <1>0, <1>7, CountDie DEF ProcessEnds, Die
<1> QED
  BY <1>3, <1>4, <1>5, <1>6, <1>7

(* The signal thread and the watchdogs move requests or drop them. *)
LEMMA SignalCounts ==
    ASSUME MenuInv, CountInv, NEW p \in Pids,
           \/ \E request \in Requests : TakeSignal(p, request)
           \/ \E t \in Threads : Unlink(p, t) \/ WatchdogBites(p, t)
           \/ WatchdogExits(p)
    PROVE  CountInv'
<1>0. proc[p] \in Process /\ UNCHANGED <<launches, signals>> /\ signals \in Nat
  BY DEF MenuInv, CountInv, TakeSignal, Unlink, WatchdogBites, WatchdogExits, Same
<1>1. /\ Len(proc[p].queue) \in Nat /\ Cardinality(proc[p].pending) \in Nat
      /\ IsFiniteSet(proc[p].pending) /\ Load(proc[p]) \in Nat
  BY <1>0, RequestsFinite, LoadType DEF Process
<1>2. IsMenu(p)
  <2>1. KeepsTo(p, proc[p], lock, pidfile, lockFaults)
    BY DEF MenuInv
  <2>2. ASSUME NEW request \in Requests, TakeSignal(p, request) PROVE IsMenu(p)
    BY <2>1, <2>2 DEF KeepsTo, TakeSignal, IsMenu, Running, Residents
  <2>3. ASSUME NEW t \in Threads, Unlink(p, t) \/ WatchdogBites(p, t) PROVE IsMenu(p)
    BY <2>1, <2>3 DEF KeepsTo, Unlink, WatchdogBites, IsMenu, Running, Residents
  <2>4. WatchdogExits(p) => IsMenu(p)
    BY <2>1 DEF KeepsTo, WatchdogExits, IsMenu, Running, Residents
  <2> QED
    BY <2>2, <2>3, <2>4
<1>3. ASSUME NEW u \in Process, u.pc = proc[p].pc, Load(u) <= Load(proc[p]), Become(p, u)
      PROVE  CountInv'
  BY <1>0, <1>1, <1>3, CountLocal
<1>4. ASSUME NEW request \in Requests, TakeSignal(p, request) PROVE CountInv'
  <2> DEFINE r == [proc[p] EXCEPT !.pending = @ \ {request}, !.quitting = @ \/ request = "quit"]
             u == IF request # "quit" THEN Forward(r, request)
                  ELSE IF pidfile = p THEN ReadOwn(p, r, "signal") ELSE ForwardQuit(r)
  <2>1. /\ r \in Process /\ r.pc = proc[p].pc /\ r.queue = proc[p].queue
        /\ r.pending = proc[p].pending \ {request} /\ r.removing = proc[p].removing
    BY <1>0 DEF Process
  <2>2. Become(p, u) /\ request \in proc[p].pending /\ "signal" \notin proc[p].removing
    BY <1>4 DEF TakeSignal
  <2> HIDE DEF r
  <2>3. Cardinality(r.pending) = Cardinality(proc[p].pending) - 1
    BY <1>0, <2>1, <2>2, OneRequest DEF Process
  <2>4. Load(r) = Load(proc[p]) - 1 /\ "signal" \notin r.removing
    BY <1>1, <2>1, <2>2, <2>3 DEF Load
  <2>5. CASE request # "quit"
    <3>1. Load(u) <= Load(r) + 1 /\ SameRole(r, u)
      BY <2>1, <2>5, ForwardLoad, ForwardKeeps
    <3>2. Load(u) \in Nat
      BY <3>1, LoadType DEF SameRole
    <3> QED
      BY <1>1, <1>3, <2>1, <2>2, <2>4, <3>1, <3>2 DEF SameRole
  <2>6. CASE request = "quit" /\ pidfile # p
    <3>1. Load(u) <= Load(r) + 1 /\ SameRole(r, u)
      BY <2>1, <2>6, ForwardQuitLoad, ForwardQuitKeeps
    <3>2. Load(u) \in Nat
      BY <3>1, LoadType DEF SameRole
    <3> QED
      BY <1>1, <1>3, <2>1, <2>2, <2>4, <3>1, <3>2 DEF SameRole
  <2>7. CASE request = "quit" /\ pidfile = p
    <3>1. /\ u \in Process /\ u.pc = r.pc /\ u.queue = r.queue /\ u.pending = r.pending
          /\ "signal" \in u.removing
      BY <2>1, <2>7 DEF ReadOwn, Process, Threads
    <3> HIDE DEF u
    <3>2. Load(u) = Load(r) + 1
      BY <1>1, <2>1, <2>3, <2>4, <3>1 DEF Load
    <3> QED
      BY <1>1, <1>3, <2>1, <2>2, <2>4, <3>1, <3>2
  <2> QED
    BY <2>5, <2>6, <2>7
<1>5. ASSUME NEW t \in Threads, Unlink(p, t) PROVE CountInv'
  <2> DEFINE r == [proc[p] EXCEPT !.removing = @ \ {t}]
             u == IF t = "signal" THEN ForwardQuit(r) ELSE r
  <2>1. /\ r \in Process /\ r.pc = proc[p].pc /\ r.queue = proc[p].queue
        /\ r.pending = proc[p].pending /\ r.removing = proc[p].removing \ {t}
    BY <1>0 DEF Process
  <2>2. Become(p, u) /\ t \in proc[p].removing
    BY <1>5 DEF Unlink
  <2> HIDE DEF r
  <2>3. CASE t = "signal"
    <3>1. Load(r) = Load(proc[p]) - 1
      BY <1>1, <2>1, <2>2, <2>3 DEF Load
    <3>2. Load(u) <= Load(r) + 1 /\ SameRole(r, u)
      BY <2>1, <2>3, ForwardQuitLoad, ForwardQuitKeeps
    <3>3. Load(u) \in Nat
      BY <3>2, LoadType DEF SameRole
    <3> QED
      BY <1>1, <1>3, <2>1, <2>2, <3>1, <3>2, <3>3 DEF SameRole
  <2>4. CASE t # "signal"
    <3>1. SameLoad(proc[p], u)
      BY <2>1, <2>4 DEF SameLoad
    <3> QED
      BY <1>0, <2>2, <3>1, CountSame
  <2> QED
    BY <2>3, <2>4
<1>6. ASSUME NEW t \in Threads, WatchdogBites(p, t) PROVE CountInv'
  <2> DEFINE r == [proc[p] EXCEPT !.dying = TRUE]
             u == ReadOwn(p, r, t)
  <2>1. SameLoad(proc[p], r)
    BY <1>0 DEF SameLoad, Process
  <2>2. Become(p, u) /\ t # "signal"
    BY <1>6 DEF WatchdogBites, Bites
  <2> HIDE DEF r
  <2>3. SameLoad(r, u)
    BY <2>1, <2>2 DEF SameLoad, ReadOwn, Process
  <2>4. SameLoad(proc[p], u)
    BY <2>1, <2>3 DEF SameLoad
  <2> QED
    BY <1>0, <2>2, <2>4, CountSame
<1>7. CASE WatchdogExits(p)
  BY <1>0, <1>2, <1>7, CountDie DEF WatchdogExits, Die
<1> QED
  BY <1>4, <1>5, <1>6, <1>7

(* A signal is counted; a crash or a stall makes no request. *)
LEMMA EnvironmentCounts ==
    ASSUME MenuInv, CountInv, NEW p \in Pids,
           \/ \E request \in {"toggle", "hide", "quit"} : Signal(p, request)
           \/ Crash(p) \/ Stall(p) \/ Resume(p)
    PROVE  CountInv'
<1>0. proc[p] \in Process
  BY DEF MenuInv
<1>1. ASSUME NEW request \in {"toggle", "hide", "quit"}, Signal(p, request) PROVE CountInv'
  <2> DEFINE r == [proc[p] EXCEPT !.pending = @ \cup {request}]
  <2>1. proc[p].pending \in SUBSET Requests /\ proc[p].pending \cup {request} \in SUBSET Requests
    BY <1>0 DEF Process, Requests, UserRequests
  <2>2. /\ Cardinality(proc[p].pending \cup {request}) <= Cardinality(proc[p].pending) + 1
        /\ Cardinality(proc[p].pending \cup {request}) \in Nat /\ Cardinality(proc[p].pending) \in Nat
    BY <2>1, OneRequest DEF Requests, UserRequests
  <2>3. /\ r \in Process /\ r.pc = proc[p].pc /\ r.queue = proc[p].queue
        /\ r.removing = proc[p].removing /\ r.pending = proc[p].pending \cup {request}
    BY <1>0, <2>1 DEF Process
  <2>4. Len(proc[p].queue) \in Nat /\ signals \in Nat
    BY <1>0 DEF Process, CountInv
  <2>5. IsMenu(p) /\ signals < MaxSignals /\ signals' = signals + 1 /\ launches' = launches
        /\ (Become(p, Off) \/ Become(p, r))
    BY <1>1 DEF Signal, Die
  <2> HIDE DEF r
  <2>6. Load(r) <= Load(proc[p]) + 1
    <3>1. CASE "signal" \in r.removing
      BY <2>2, <2>3, <2>4, <3>1 DEF Load
    <3>2. CASE "signal" \notin r.removing
      BY <2>2, <2>3, <2>4, <3>2 DEF Load
    <3> QED
      BY <3>1, <3>2
  <2>7. signals' - signals = 1
    BY <2>4, <2>5
  <2>8. CASE Become(p, r)
    BY <2>3, <2>5, <2>6, <2>7, <2>8, CountLocal
  <2>9. CASE Become(p, Off)
    BY <2>5, <2>9, CountDie
  <2> QED
    BY <2>5, <2>8, <2>9
<1>2. CASE Crash(p)
  BY <1>2, CountDie DEF Crash, Fault, Die
<1>3. CASE Stall(p) \/ Resume(p)
  <2>1. ASSUME NEW b \in BOOLEAN PROVE SameLoad(proc[p], [proc[p] EXCEPT !.stuck = b])
    BY <1>0 DEF SameLoad, Process
  <2>2. PICK b \in BOOLEAN : Become(p, [proc[p] EXCEPT !.stuck = b]) /\ UNCHANGED <<launches, signals>>
    BY <1>3 DEF Stall, Resume, Fault, Same
  <2> QED
    BY <2>1, <2>2, CountSame
<1> QED
  BY <1>1, <1>2, <1>3

(* The count is inductive. *)
LEMMA CountKept ==
    ASSUME MenuInv, CountInv, [MenuNext]_menuVars
    PROVE  CountInv'
<1>1. CASE UNCHANGED menuVars
  <2>1. Menus' = Menus /\ \A p \in Pids : Load(proc[p])' = Load(proc[p])
    BY <1>1 DEF menuVars, Menus, IsMenu, Load
  <2> QED
    BY <1>1, <2>1 DEF menuVars, CountInv
<1>2. ASSUME NEW p \in Pids, ProcStep(p) PROVE CountInv'
  BY <1>2, ClaimCounts, SendShowCounts, LoopCounts, SignalCounts DEF ProcStep
<1>3. ASSUME NEW p \in Pids,
             \/ \E hidden \in BOOLEAN : Launch(p, hidden)
             \/ LaunchPlain(p) \/ ClosePlain(p) \/ PatienceEnds(p) \/ UserCloses(p)
             \/ LockFails(p) \/ WriteFails(p) \/ Crash(p) \/ Stall(p) \/ Resume(p)
             \/ \E request \in {"toggle", "hide", "quit"} : Signal(p, request)
      PROVE  CountInv'
  BY <1>3, ClaimCounts, LoopCounts, EnvironmentCounts
<1> QED
  BY <1>1, <1>2, <1>3 DEF MenuNext

-----------------------------------------------------------------------------
(* The settings' launches. *)
SettingsInv == InstanceTypeOK /\ NoRequestLost

(* The settings' invariant holds before any launch. *)
LEMMA SettingsInvInit == InstanceInit => SettingsInv
  BY InstanceAssumption DEF InstanceInit, SettingsInv, InstanceTypeOK, NoRequestLost, InstanceStages

(* The settings' invariant is inductive. *)
LEMMA SettingsInvKept ==
    ASSUME SettingsInv, [InstanceNext]_instanceVars
    PROVE  SettingsInv'
<1> USE DEF SettingsInv, InstanceTypeOK, NoRequestLost
<1>1. CASE UNCHANGED instanceVars
  BY <1>1 DEF instanceVars
<1>2. ASSUME NEW a \in Runs, RunProgram(a) \/ RaiseWindow(a) \/ SendFails(a) \/ PickedUp(a) \/ PickupTimesOut(a)
      PROVE  SettingsInv'
  BY <1>2 DEF RunProgram, RaiseWindow, SendFails, PickedUp, PickupTimesOut, Step, SameRequests, InstanceStages
<1>3. ASSUME NEW a \in Runs, AcquireOrHandOff(a) PROVE SettingsInv'
  BY <1>3, InstanceAssumption DEF AcquireOrHandOff, Step, SameRequests, InstanceStages
<1>4. ASSUME NEW a \in Runs, SendRequest(a) PROVE SettingsInv'
  BY <1>4, InstanceAssumption DEF SendRequest, Step, InstanceStages
<1>5. ASSUME NEW a \in Runs, StartWindow(a) PROVE SettingsInv'
  BY <1>5, InstanceAssumption DEF StartWindow, Step, Navigate, InstanceStages
<1>6. ASSUME NEW a \in Runs, ClaimRequest(a) \/ ApplyRequest(a) PROVE SettingsInv'
  BY <1>6, InstanceAssumption DEF ClaimRequest, ApplyRequest, Navigate, InstanceStages
<1>7. ASSUME NEW a \in Runs, CloseWindow(a) PROVE SettingsInv'
  BY <1>7, InstanceAssumption DEF CloseWindow, Step, InstanceStages
<1> QED
  BY <1>1, <1>2, <1>3, <1>4, <1>5, <1>6, <1>7 DEF InstanceNext

-----------------------------------------------------------------------------
(* The two programs together. *)
AllInv == MenuInv /\ CountInv /\ SettingsInv

(* The invariants hold at the start. *)
LEMMA AllInvInit == Init => AllInv
  BY MenuInvInit, CountInit, SettingsInvInit DEF Init, AllInv

(* The invariants are inductive together. *)
LEMMA AllInvKept == AllInv /\ [Next]_vars => AllInv'
<1> SUFFICES ASSUME AllInv, [Next]_vars PROVE AllInv'
  OBVIOUS
<1>1. [MenuNext]_menuVars /\ [InstanceNext]_instanceVars
  BY DEF Next, vars
<1> QED
  BY <1>1, MenuInvKept, CountKept, SettingsInvKept DEF AllInv

(* They hold always. *)
LEMMA Always == Spec => []AllInv
  BY AllInvInit, AllInvKept, PTL DEF Spec

(* The type invariant of both programs: a resident has the lock or could not    *)
(* use it, nobody else has it, the UI's queue never holds more requests than    *)
(* signals and launches were made, and the settings' window is the lock's       *)
(* holder.                                                                      *)
THEOREM MenuTypeCorrect == Spec => []TypeOK
<1>1. AllInv => TypeOK
  <2> SUFFICES ASSUME AllInv PROVE TypeOK
    OBVIOUS
  <2>1. ASSUME NEW p \in Pids
        PROVE  /\ proc[p].pc \in Stages /\ proc[p].pending \subseteq Requests
               /\ proc[p].removing \subseteq Threads
               /\ proc[p].pc \in Residents => lock = p \/ proc[p].lockless
               /\ proc[p].pc \notin Residents => lock # p
               /\ proc[p].queue \in Seq(Requests) /\ proc[p] \in Process
    BY DEF AllInv, MenuInv, KeepsTo, Process
  <2>2. ASSUME NEW p \in Pids PROVE Len(proc[p].queue) <= MaxSignals + MaxLaunches
    <3>1. Len(proc[p].queue) \in Nat /\ Cardinality(proc[p].pending) \in Nat
      BY <2>1, RequestsFinite
    <3>2. Cardinality(Menus) \in Nat /\ Load(proc[p]) + Cardinality(Menus) <= launches + signals
      BY FS_CardinalityType DEF AllInv, CountInv
    <3>3. Len(proc[p].queue) <= Load(proc[p]) /\ Load(proc[p]) \in Nat
      <4>1. CASE "signal" \in proc[p].removing
        BY <3>1, <4>1 DEF Load
      <4>2. CASE "signal" \notin proc[p].removing
        BY <3>1, <4>2 DEF Load
      <4> QED
        BY <4>1, <4>2
    <3>4. launches \in Nat /\ signals \in Nat /\ launches <= MaxLaunches /\ signals <= MaxSignals
      BY DEF AllInv, CountInv
    <3> QED
      BY <3>1, <3>2, <3>3, <3>4, MenuAssumption
  <2>3. MenuTypeOK
    BY <2>1, <2>2 DEF MenuTypeOK, AllInv, MenuInv
  <2> QED
    BY <2>3 DEF TypeOK, AllInv, SettingsInv
<1> QED
  BY <1>1, Always, PTL

(* A process told to quit is no longer advertised once the threads that take    *)
(* the pidfile back are through, whatever raced with the write, and no request  *)
(* of a launch of the settings vanishes between its file and the window.        *)
THEOREM NothingLost == Spec => []NothingIsLost
<1>1. AllInv => NothingIsLost
  BY DEF AllInv, MenuInv, KeepsTo, SettingsInv, NothingIsLost, QuitWithdraws
<1> QED
  BY <1>1, Always, PTL

(* The residents implement the one residency that scripts and later launches    *)
(* rely on, for any number of processes, launches, signals, crashes and stalls, *)
(* up to the first failure to use the lock file: the name of who serves leaves  *)
(* the pidfile only through a process that dropped the lock with its own        *)
(* removal half done and has not ended yet.                                     *)
THEOREM RefinesResidency == Spec => ImplementsResidency
<1>1. Init => Residency!Init
  BY DEF Init, MenuInit, Residency!Init, Removing, Off
<1>2. AllInv /\ [Next]_vars => [Residency!Next]_(Residency!residentVars)
  <2> SUFFICES ASSUME AllInv, [Next]_vars PROVE Advances
    BY DEF Advances
  <2>1. [MenuNext]_menuVars
    BY DEF Next, vars
  <2> QED
    BY <2>1, MenuAdvances DEF AllInv
<1> QED
  BY <1>1, <1>2, Always, PTL DEF Spec, ImplementsResidency, Residency!Spec
=============================================================================
