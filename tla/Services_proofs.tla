---------------------------- MODULE Services_proofs ----------------------------
(* Proofs about the sync daemon, its window and the keypad's identify mode, for *)
(* every set of profiles and of callers and every bound.                        *)
EXTENDS MCServices, WellFoundedInduction, SequenceTheorems, TLAPS

-----------------------------------------------------------------------------
(* The first of the profiles that are left is one of them. *)
LEMMA FirstProfile ==
    ASSUME NEW S \in SUBSET Profiles, S # {}
    PROVE  (CHOOSE p \in S : \A q \in S : Order[p] <= Order[q]) \in S
<1> DEFINE T == {Order[q] : q \in S}
<1>1. \A q \in S : Order[q] \in Nat
  BY SyncAssumption
<1>2. T \subseteq Nat /\ T # {}
  BY <1>1
<1>3. PICK x \in T : \A y \in T : ~(<<y, x>> \in OpToRel(<, Nat))
  BY <1>2, NatLessThanWellFounded, WFMin
<1>4. \A y \in T : ~(y < x)
  BY <1>2, <1>3 DEF OpToRel
<1>5. PICK p \in S : Order[p] = x
  BY <1>3
<1>6. \A q \in S : Order[p] <= Order[q]
  BY <1>1, <1>4, <1>5
<1> QED
  BY <1>5, <1>6

-----------------------------------------------------------------------------
(* The types of the sync daemon and its window. *)
Snapshot == [Profiles -> States]
Settled == {"none", "idle", "error"} \cup Outcomes
Places == {"no", "list", "head", "start", "spawn", "rsync", "record", "tell", "clear"}
Record == [kind : {"no", "now", "all"}, at : Places, list : SUBSET Profiles, ends : Settled]
Calls == [step : {"idle", "accept", "listing"}, kind : {"no", "now", "all"}, profile : Profiles \cup {NoCaller}]

(* A task from its start to its report has a profile, and a child exactly while *)
(* it waits for rsync.                                                          *)
Working == {"start", "spawn", "rsync", "record", "tell"}

JobsOK ==
    /\ rsyncJob \in [Jobs -> Record]
    /\ child \in [Jobs -> {"no", "running", "error"} \cup Outcomes]
    /\ slot \in {0, Gone} \cup Jobs /\ (slot \in Jobs => child[slot] # "no")
    /\ \A j \in Jobs : /\ child[j] # "no" <=> rsyncJob[j].at = "rsync"
                       /\ rsyncJob[j].at \in Working => rsyncJob[j].list # {}

DaemonOK ==
    /\ config \in [Profiles -> {"none", "on", "off"}]
    /\ active \in Profiles \cup {NoCaller} /\ results \in Snapshot
    /\ cancel \in BOOLEAN /\ queued \in BOOLEAN /\ killer \in {"no", "set", "locked"}
    /\ call \in [Callers -> Calls]
    /\ \A c \in Callers : call[c].step = "accept" /\ call[c].kind = "now" => call[c].profile \in Profiles
    /\ tick = NoSnapshot \/ tick \in Snapshot

SignalsOK ==
    /\ syncSignals \in Seq(Snapshot) /\ Len(syncSignals) <= MaxQueue
    /\ late \in BOOLEAN /\ gap \in BOOLEAN

WindowOK ==
    /\ disk \in [Profiles -> {"none", "on", "off"}]
    /\ rows \in [Profiles -> [busy : BOOLEAN, status : States]]
    /\ listener \in {"off", "on", "lost"}
    /\ syncEvents \in Nat /\ syncEvents <= MaxEvents

TypeInv == JobsOK /\ DaemonOK /\ SignalsOK /\ WindowOK

HistoryOK == raced \in BOOLEAN /\ forgot \in BOOLEAN /\ missed \in BOOLEAN

(* What a slot may name that is not a job. *)
LEMMA GoneIsNoJob == Gone \notin Jobs /\ 0 \notin Jobs
  BY SyncAssumption DEF Gone, Jobs

(* The queue of signals, bounded, ends with the one just sent. *)
LEMMA QueuedType ==
    ASSUME SignalsOK, NEW s \in Snapshot
    PROVE  /\ Queued(s) \in Seq(Snapshot) /\ Len(Queued(s)) <= MaxQueue
           /\ Queued(s) # <<>> /\ Queued(s)[Len(Queued(s))] = s
<1> DEFINE rest == IF Len(syncSignals) < MaxQueue THEN syncSignals ELSE Front(syncSignals)
<1>1. Len(syncSignals) \in Nat /\ MaxQueue \in Nat \ {0} /\ syncSignals \in Seq(Snapshot)
  BY SyncAssumption DEF SignalsOK
<1>2. rest \in Seq(Snapshot) /\ Len(rest) < MaxQueue
  <2>1. CASE Len(syncSignals) < MaxQueue
    BY <1>1, <2>1
  <2>2. CASE ~(Len(syncSignals) < MaxQueue)
    <3>1. Len(syncSignals) = MaxQueue
      BY <1>1, <2>2 DEF SignalsOK
    <3>2. \A i \in 1..(Len(syncSignals) - 1) : syncSignals[i] \in Snapshot
      BY <1>1
    <3>3. Front(syncSignals) \in Seq(Snapshot)
          /\ Len(Front(syncSignals)) = IF 1 <= Len(syncSignals) - 1 THEN Len(syncSignals) - 1 - 1 + 1 ELSE 0
      BY <1>1, <3>2, SubSeqProperties DEF Front
    <3> QED
      BY <1>1, <2>2, <3>1, <3>3
  <2> QED
    BY <2>1, <2>2
<1>3. Queued(s) = Append(rest, s)
  BY DEF Queued
<1> HIDE DEF rest
<1>4. Len(rest) \in Nat
  BY <1>2
<1>5. /\ Append(rest, s) \in Seq(Snapshot) /\ Len(Append(rest, s)) = Len(rest) + 1
      /\ Append(rest, s)[Len(rest) + 1] = s
  BY <1>2, AppendProperties
<1> QED
  BY <1>1, <1>2, <1>3, <1>4, <1>5

(* A signal sent is last in the queue, or missed by a window that does not *)
(* listen.                                                                 *)
LEMMA SendType ==
    ASSUME SignalsOK, NEW s \in Snapshot, NEW b \in BOOLEAN, Send(s, b)
    PROVE  /\ SignalsOK'
           /\ late' = b
           /\ listener = "on" => syncSignals' # <<>> /\ syncSignals'[Len(syncSignals')] = s
           /\ listener # "on" => gap'
  BY QueuedType DEF Send, SignalsOK

(* A job moved to another place changes nothing else. *)
LEMMA MovedType ==
    ASSUME rsyncJob \in [Jobs -> Record], NEW j \in Jobs, NEW x \in Places, Moved(j, x)
    PROVE  /\ rsyncJob' \in [Jobs -> Record]
           /\ \A i \in Jobs \ {j} : rsyncJob'[i] = rsyncJob[i]
           /\ rsyncJob'[j].at = x /\ rsyncJob'[j].list = rsyncJob[j].list
           /\ rsyncJob'[j].kind = rsyncJob[j].kind /\ rsyncJob'[j].ends = rsyncJob[j].ends
<1> DEFINE r == [rsyncJob[j] EXCEPT !.at = x]
<1>1. rsyncJob' = [rsyncJob EXCEPT ![j] = r]
  BY DEF Moved
<1>2. r \in Record /\ r.at = x /\ r.list = rsyncJob[j].list /\ r.kind = rsyncJob[j].kind /\ r.ends = rsyncJob[j].ends
  BY DEF Record
<1> QED
  BY <1>1, <1>2

(* A job whose rsync ended goes on to record how. *)
LEMMA EndedType ==
    ASSUME rsyncJob \in [Jobs -> Record], NEW j \in Jobs, NEW x \in Settled, Ended(j, x)
    PROVE  /\ rsyncJob' \in [Jobs -> Record]
           /\ \A i \in Jobs \ {j} : rsyncJob'[i] = rsyncJob[i]
           /\ rsyncJob'[j].at = "record" /\ rsyncJob'[j].list = rsyncJob[j].list
           /\ rsyncJob'[j].kind = rsyncJob[j].kind
<1> DEFINE r == [rsyncJob[j] EXCEPT !.at = "record", !.ends = x]
<1>1. rsyncJob' = [rsyncJob EXCEPT ![j] = r]
  BY DEF Ended
<1>2. r \in Record /\ r.at = "record" /\ r.list = rsyncJob[j].list /\ r.kind = rsyncJob[j].kind
  BY DEF Record, Places
<1> QED
  BY <1>1, <1>2

(* A job that ends its profile is done, or goes on with its list. *)
LEMMA AfterType ==
    ASSUME rsyncJob \in [Jobs -> Record], NEW j \in Jobs
    PROVE  /\ After(j) \in Record
           /\ rsyncJob[j].kind = "now" => After(j) = NoRsync
           /\ rsyncJob[j].kind # "now" => After(j).at = "head" /\ After(j).kind = rsyncJob[j].kind
<1>1. NoRsync \in Record
  BY DEF NoRsync, Record, Places, Settled
<1>2. rsyncJob[j].list \ {Profile(j)} \in SUBSET Profiles
  BY DEF Record
<1>3. /\ [rsyncJob[j] EXCEPT !.at = "head", !.list = rsyncJob[j].list \ {Profile(j)}, !.ends = "none"] \in Record
      /\ [rsyncJob[j] EXCEPT !.at = "head", !.list = rsyncJob[j].list \ {Profile(j)}, !.ends = "none"].at = "head"
      /\ [rsyncJob[j] EXCEPT !.at = "head", !.list = rsyncJob[j].list \ {Profile(j)}, !.ends = "none"].kind = rsyncJob[j].kind
  BY <1>2 DEF Record, Places, Settled
<1> QED
  BY <1>1, <1>3 DEF After

(* The types hold at the start. *)
LEMMA TypeInvInit == SyncInit => TypeInv
<1> SUFFICES ASSUME SyncInit PROVE TypeInv
  OBVIOUS
<1>1. NoRsync \in Record /\ Quiet \in Calls
  BY DEF NoRsync, Record, Places, Settled, Quiet, Calls
<1>2. NewRow \in [busy : BOOLEAN, status : States] /\ NoRow \in [busy : BOOLEAN, status : States]
  BY DEF NewRow, NoRow, States
<1>3. JobsOK
  BY <1>1, GoneIsNoJob DEF SyncInit, JobsOK, NoRsync, Working
<1>4. DaemonOK
  BY <1>1 DEF SyncInit, DaemonOK, Snapshot, States, Quiet
<1>5. SignalsOK
  <2>1. <<>> \in Seq(Snapshot) /\ Len(<<>>) = 0 /\ MaxQueue \in Nat
    BY SyncAssumption
  <2>2. syncSignals = <<>> /\ late = FALSE /\ gap = FALSE
    BY DEF SyncInit
  <2>3. syncSignals \in Seq(Snapshot) /\ Len(syncSignals) <= MaxQueue
    BY <2>1, <2>2
  <2> QED
    BY <2>2, <2>3 DEF SignalsOK
<1>6. WindowOK
  BY <1>2, SyncAssumption DEF SyncInit, WindowOK
<1> QED
  BY <1>3, <1>4, <1>5, <1>6 DEF TypeInv

(* A job that works does so on a profile of its list. *)
LEMMA ProfileType ==
    ASSUME JobsOK, NEW j \in Jobs, rsyncJob[j].at \in Working
    PROVE  Profile(j) \in rsyncJob[j].list /\ Profile(j) \in Profiles
<1>1. rsyncJob[j].list \in SUBSET Profiles /\ rsyncJob[j].list # {}
  BY DEF JobsOK, Record
<1> QED
  BY <1>1, FirstProfile DEF Profile

(* The daemon's own variables apart, nothing of it can be mistyped by the window. *)
LEMMA SpawnType ==
    ASSUME TypeInv, NEW j \in Jobs, NEW kind \in {"now", "all"}, NEW at \in {"start", "list"},
           NEW list \in SUBSET Profiles, Spawn(j, kind, at, list), at = "start" => list # {},
           UNCHANGED <<child, slot>>
    PROVE  JobsOK' /\ syncEvents' \in Nat /\ syncEvents' <= MaxEvents
<1> DEFINE r == [NoRsync EXCEPT !.kind = kind, !.at = at, !.list = list]
<1>1. NoRsync \in Record /\ NoRsync.at = "no"
  BY DEF NoRsync, Record, Places, Settled
<1>2. r \in Record /\ r.at = at /\ r.list = list
  BY <1>1 DEF Record, Places
<1>3. rsyncJob' = [rsyncJob EXCEPT ![j] = r] /\ rsyncJob[j] = NoRsync
  BY DEF Spawn
<1> HIDE DEF r
<1>4. rsyncJob' \in [Jobs -> Record] /\ rsyncJob'[j] = r /\ \A i \in Jobs \ {j} : rsyncJob'[i] = rsyncJob[i]
  BY <1>2, <1>3 DEF TypeInv, JobsOK
<1>5. JobsOK'
  BY <1>1, <1>2, <1>3, <1>4 DEF TypeInv, JobsOK, Working
<1>6. syncEvents' \in Nat /\ syncEvents' <= MaxEvents
  BY SyncAssumption DEF TypeInv, WindowOK, Spawn, Counted
<1> QED
  BY <1>5, <1>6

(* A call that goes on keeps the types. *)
LEMMA CallType ==
    ASSUME DaemonOK, NEW c \in Callers, NEW r \in Calls, call' = [call EXCEPT ![c] = r],
           r.step = "accept" /\ r.kind = "now" => r.profile \in Profiles
    PROVE  /\ call' \in [Callers -> Calls]
           /\ \A d \in Callers : call'[d].step = "accept" /\ call'[d].kind = "now"
                                     => call'[d].profile \in Profiles
<1>1. call' \in [Callers -> Calls] /\ call'[c] = r /\ \A d \in Callers \ {c} : call'[d] = call[d]
  BY DEF DaemonOK
<1> QED
  BY <1>1 DEF DaemonOK

(* A call that is accepted keeps the types. *)
LEMMA AcceptType ==
    ASSUME TypeInv, NEW c \in Callers, NEW j \in Jobs, AcceptNow(c, j) \/ AcceptAll(c, j)
    PROVE  TypeInv'
<1>0. JobsOK /\ DaemonOK /\ SignalsOK /\ WindowOK /\ Quiet \in Calls /\ call[c] \in Calls
  BY DEF TypeInv, DaemonOK, Quiet, Calls
<1>1. CASE AcceptNow(c, j)
  <2>1. {call[c].profile} \in SUBSET Profiles
    BY <1>0, <1>1 DEF AcceptNow, DaemonOK
  <2>2. Spawn(j, "now", "start", {call[c].profile}) /\ UNCHANGED <<child, slot>>
    BY <1>1 DEF AcceptNow
  <2>3. JobsOK' /\ syncEvents' \in Nat /\ syncEvents' <= MaxEvents
    BY <2>1, <2>2, SpawnType
  <2>4. call' = [call EXCEPT ![c] = Quiet] /\ cancel' = FALSE
    BY <1>1 DEF AcceptNow, Spawn
  <2>5. DaemonOK'
    BY <1>0, <1>1, <2>4, CallType DEF AcceptNow, DaemonOK, Quiet
  <2>6. SignalsOK' /\ WindowOK'
    BY <1>0, <1>1, <2>3 DEF AcceptNow, sentVars, SignalsOK, WindowOK
  <2> QED
    BY <2>3, <2>5, <2>6 DEF TypeInv
<1>2. CASE AcceptAll(c, j)
  <2>1. Spawn(j, "all", "list", {}) /\ UNCHANGED <<child, slot>>
    BY <1>2 DEF AcceptAll
  <2>2. JobsOK' /\ syncEvents' \in Nat /\ syncEvents' <= MaxEvents
    BY <2>1, SpawnType
  <2> DEFINE r == [call[c] EXCEPT !.step = "listing"]
  <2>3. call' = [call EXCEPT ![c] = r] /\ r \in Calls /\ r.step = "listing" /\ cancel' = FALSE
    BY <1>0, <1>2 DEF AcceptAll, Spawn, Calls
  <2> HIDE DEF r
  <2>4. DaemonOK'
    BY <1>0, <1>2, <2>3, CallType DEF AcceptAll, DaemonOK
  <2>5. SignalsOK' /\ WindowOK'
    BY <1>0, <1>2, <2>2 DEF AcceptAll, sentVars, SignalsOK, WindowOK
  <2> QED
    BY <2>2, <2>4, <2>5 DEF TypeInv
<1> QED
  BY <1>1, <1>2

(* Listing the profiles for a run of all keeps the types. *)
LEMMA ListType ==
    ASSUME TypeInv, NEW c \in Callers, NEW j \in Jobs, ListAll(c, j)
    PROVE  TypeInv'
<1>0. JobsOK /\ DaemonOK /\ SignalsOK /\ WindowOK /\ Quiet \in Calls
  BY DEF TypeInv, Quiet, Calls
<1>1. call' = [call EXCEPT ![c] = Quiet] /\ UNCHANGED <<config, active, cancel, slot, child, killer, tick>>
      /\ UNCHANGED windowVars /\ rsyncJob[j].at = "list"
  BY DEF ListAll
<1>2. WindowOK'
  BY <1>0, <1>1 DEF windowVars, WindowOK
<1>3. CASE Enabled = {}
  <2>1. queued' = FALSE /\ rsyncJob' = [rsyncJob EXCEPT ![j] = NoRsync] /\ UNCHANGED results /\ UNCHANGED sentVars
    BY <1>3 DEF ListAll
  <2>2. NoRsync \in Record /\ NoRsync.at = "no"
    BY DEF NoRsync, Record, Places, Settled
  <2>3. rsyncJob' \in [Jobs -> Record] /\ rsyncJob'[j] = NoRsync /\ \A i \in Jobs \ {j} : rsyncJob'[i] = rsyncJob[i]
    BY <1>0, <2>1, <2>2 DEF JobsOK
  <2>4. JobsOK'
    BY <1>0, <1>1, <2>2, <2>3 DEF JobsOK, Working
  <2>5. DaemonOK'
    BY <1>0, <1>1, <2>1, CallType DEF DaemonOK, Quiet
  <2>6. SignalsOK'
    BY <1>0, <2>1 DEF sentVars, SignalsOK
  <2> QED
    BY <1>2, <2>4, <2>5, <2>6 DEF TypeInv
<1>4. CASE Enabled # {}
  <2>1. /\ results' = [p \in Profiles |-> IF p \in Enabled THEN "queued" ELSE results[p]]
        /\ Send(results', FALSE) /\ UNCHANGED queued
        /\ rsyncJob' = [rsyncJob EXCEPT ![j].at = "head", ![j].list = Enabled]
    BY <1>4 DEF ListAll
  <2>2. results' \in Snapshot
    BY <1>0, <2>1 DEF Snapshot, States, Busy, DaemonOK
  <2>3. SignalsOK'
    BY <1>0, <2>1, <2>2, SendType
  <2> DEFINE r == [rsyncJob[j] EXCEPT !.at = "head", !.list = Enabled]
  <2>4. r \in Record /\ r.at = "head"
    BY <1>0 DEF JobsOK, Record, Places, Enabled
  <2>5. rsyncJob' = [rsyncJob EXCEPT ![j] = r]
    BY <1>0, <2>1 DEF JobsOK
  <2> HIDE DEF r
  <2>6. rsyncJob' \in [Jobs -> Record] /\ rsyncJob'[j] = r /\ \A i \in Jobs \ {j} : rsyncJob'[i] = rsyncJob[i]
    BY <1>0, <2>4, <2>5 DEF JobsOK
  <2>7. JobsOK'
    BY <1>0, <1>1, <2>4, <2>6 DEF JobsOK, Working
  <2>8. DaemonOK'
    BY <1>0, <1>1, <2>1, <2>2, CallType DEF DaemonOK, Quiet
  <2> QED
    BY <1>2, <2>3, <2>7, <2>8 DEF TypeInv
<1> QED
  BY <1>3, <1>4

(* The steps of a task. *)
LEMMA TaskType ==
    ASSUME TypeInv, NEW j \in Jobs, Task(j)
    PROVE  TypeInv'
<1>0. JobsOK /\ DaemonOK /\ SignalsOK /\ WindowOK /\ rsyncJob \in [Jobs -> Record]
  BY DEF TypeInv, JobsOK
<1>1. CASE QueueHead(j)
  <2>1. /\ rsyncJob[j].at = "head" /\ UNCHANGED <<config, active, results, cancel, slot, call, child, killer, tick>>
        /\ UNCHANGED windowVars /\ UNCHANGED sentVars /\ queued' \in BOOLEAN
    BY <1>0, <1>1 DEF QueueHead, DaemonOK
  <2>2. DaemonOK' /\ SignalsOK' /\ WindowOK'
    BY <1>0, <2>1 DEF DaemonOK, SignalsOK, WindowOK, windowVars, sentVars
  <2>3. Moved(j, "clear") \/ (rsyncJob[j].list # {} /\ (Ended(j, "idle") \/ Moved(j, "start")))
    BY <1>1 DEF QueueHead
  <2>4. /\ rsyncJob' \in [Jobs -> Record] /\ \A i \in Jobs \ {j} : rsyncJob'[i] = rsyncJob[i]
        /\ rsyncJob'[j].list = rsyncJob[j].list
        /\ rsyncJob'[j].at = "clear" \/ (rsyncJob'[j].at \in {"record", "start"} /\ rsyncJob[j].list # {})
    BY <1>0, <2>3, MovedType, EndedType DEF Places, Settled
  <2>5. JobsOK'
    BY <1>0, <2>1, <2>4 DEF JobsOK, Working
  <2> QED
    BY <2>2, <2>5 DEF TypeInv
<1>2. CASE ClearFlag(j)
  <2>1. NoRsync \in Record /\ NoRsync.at = "no"
    BY DEF NoRsync, Record, Places, Settled
  <2>2. rsyncJob' \in [Jobs -> Record] /\ rsyncJob'[j] = NoRsync /\ \A i \in Jobs \ {j} : rsyncJob'[i] = rsyncJob[i]
    BY <1>0, <1>2, <2>1 DEF ClearFlag
  <2>3. JobsOK'
    BY <1>0, <1>2, <2>1, <2>2 DEF ClearFlag, JobsOK, Working
  <2>4. DaemonOK' /\ SignalsOK' /\ WindowOK'
    BY <1>0, <1>2 DEF ClearFlag, DaemonOK, SignalsOK, WindowOK, windowVars, sentVars
  <2> QED
    BY <2>3, <2>4 DEF TypeInv
<1>3. CASE ExecuteProfile(j)
  <2>1. Profile(j) \in Profiles /\ rsyncJob[j].list # {} /\ rsyncJob[j].at = "start"
    BY <1>0, <1>3, ProfileType DEF ExecuteProfile, Working, JobsOK
  <2>2. results' \in Snapshot /\ Send(results', FALSE) /\ Moved(j, "spawn")
    BY <1>0, <1>3 DEF ExecuteProfile, Snapshot, States, Busy, DaemonOK
  <2>3. SignalsOK'
    BY <1>0, <2>2, SendType
  <2>4. /\ rsyncJob' \in [Jobs -> Record] /\ \A i \in Jobs \ {j} : rsyncJob'[i] = rsyncJob[i]
        /\ rsyncJob'[j].list = rsyncJob[j].list /\ rsyncJob'[j].at = "spawn"
    BY <1>0, <2>2, MovedType DEF Places
  <2>5. JobsOK'
    BY <1>0, <1>3, <2>1, <2>4 DEF ExecuteProfile, JobsOK, Working
  <2>6. DaemonOK' /\ WindowOK'
    BY <1>0, <1>3, <2>1, <2>2 DEF ExecuteProfile, DaemonOK, WindowOK, windowVars
  <2> QED
    BY <2>3, <2>5, <2>6 DEF TypeInv
<1>4. CASE SpawnRsync(j)
  <2>1. DaemonOK' /\ SignalsOK' /\ WindowOK'
    BY <1>0, <1>4 DEF SpawnRsync, DaemonOK, SignalsOK, WindowOK, windowVars, sentVars
  <2>2. CASE Ended(j, "error") /\ UNCHANGED <<slot, child, missed>>
    <3>1. /\ rsyncJob' \in [Jobs -> Record] /\ \A i \in Jobs \ {j} : rsyncJob'[i] = rsyncJob[i]
          /\ rsyncJob'[j].list = rsyncJob[j].list /\ rsyncJob'[j].at = "record"
      BY <1>0, <2>2, EndedType DEF Settled
    <3>2. JobsOK'
      BY <1>0, <1>4, <2>2, <3>1 DEF SpawnRsync, JobsOK, Working
    <3> QED
      BY <2>1, <3>2 DEF TypeInv
  <2>3. CASE child' = [child EXCEPT ![j] = "running"] /\ slot' \in {j, slot} /\ Moved(j, "rsync")
    <3>1. /\ rsyncJob' \in [Jobs -> Record] /\ \A i \in Jobs \ {j} : rsyncJob'[i] = rsyncJob[i]
          /\ rsyncJob'[j].list = rsyncJob[j].list /\ rsyncJob'[j].at = "rsync"
      BY <1>0, <2>3, MovedType DEF Places
    <3>2. JobsOK'
      BY <1>0, <1>4, <2>3, <3>1 DEF SpawnRsync, JobsOK, Working
    <3> QED
      BY <2>1, <3>2 DEF TypeInv
  <2> QED
    BY <1>4, <2>2, <2>3 DEF SpawnRsync
<1>5. CASE PollRsync(j)
  <2> DEFINE outcome == IF cancel THEN "idle" ELSE child[j]
  <2>1. /\ rsyncJob[j].at = "rsync" /\ child' = [child EXCEPT ![j] = "no"]
        /\ slot' \in {0, Gone} \/ (slot' = slot /\ slot # j)
        /\ Ended(j, outcome) /\ (child[j] # "running" \/ cancel)
    BY <1>5 DEF PollRsync, SlotAfter
  <2>2. outcome \in Settled
    BY <1>0, <2>1 DEF JobsOK, Settled
  <2>3. /\ rsyncJob' \in [Jobs -> Record] /\ \A i \in Jobs \ {j} : rsyncJob'[i] = rsyncJob[i]
        /\ rsyncJob'[j].list = rsyncJob[j].list /\ rsyncJob'[j].at = "record"
    BY <1>0, <2>1, <2>2, EndedType
  <2>4. JobsOK'
    BY <1>0, <2>1, <2>3, GoneIsNoJob DEF JobsOK, Working
  <2>5. DaemonOK' /\ SignalsOK' /\ WindowOK'
    BY <1>0, <1>5 DEF PollRsync, DaemonOK, SignalsOK, WindowOK, windowVars, sentVars
  <2> QED
    BY <2>4, <2>5 DEF TypeInv
<1>6. CASE RecordResult(j)
  <2>1. rsyncJob[j].ends \in States /\ Moved(j, "tell") /\ rsyncJob[j].at = "record"
    BY <1>0, <1>6 DEF RecordResult, Record, Settled, States
  <2>2. results' \in Snapshot
    BY <1>0, <1>6, <2>1 DEF RecordResult, DaemonOK, Snapshot
  <2>3. /\ rsyncJob' \in [Jobs -> Record] /\ \A i \in Jobs \ {j} : rsyncJob'[i] = rsyncJob[i]
        /\ rsyncJob'[j].list = rsyncJob[j].list /\ rsyncJob'[j].at = "tell"
    BY <1>0, <2>1, MovedType DEF Places
  <2>4. JobsOK'
    BY <1>0, <1>6, <2>1, <2>3 DEF RecordResult, JobsOK, Working
  <2>5. DaemonOK' /\ SignalsOK' /\ WindowOK'
    BY <1>0, <1>6, <2>2 DEF RecordResult, DaemonOK, SignalsOK, WindowOK, windowVars, sentVars
  <2> QED
    BY <2>4, <2>5 DEF TypeInv
<1>7. CASE TellResult(j)
  <2>1. rsyncJob' = [rsyncJob EXCEPT ![j] = After(j)] /\ Send(results, FALSE) /\ rsyncJob[j].at = "tell"
    BY <1>7 DEF TellResult
  <2>2. After(j) \in Record /\ After(j).at \in {"no", "head"}
    BY <1>0, AfterType DEF NoRsync
  <2>3. rsyncJob' \in [Jobs -> Record] /\ rsyncJob'[j] = After(j) /\ \A i \in Jobs \ {j} : rsyncJob'[i] = rsyncJob[i]
    BY <1>0, <2>1, <2>2
  <2>4. JobsOK'
    BY <1>0, <1>7, <2>1, <2>2, <2>3 DEF TellResult, JobsOK, Working
  <2>5. SignalsOK'
    BY <1>0, <2>1, SendType DEF DaemonOK
  <2>6. DaemonOK' /\ WindowOK'
    BY <1>0, <1>7 DEF TellResult, DaemonOK, WindowOK, windowVars
  <2> QED
    BY <2>4, <2>5, <2>6 DEF TypeInv
<1> QED
  BY <1>1, <1>2, <1>3, <1>4, <1>5, <1>6, <1>7 DEF Task

(* rsync, the progress reports and CancelSync. *)
LEMMA ChildType ==
    ASSUME TypeInv, (\E j \in Jobs : RsyncExits(j) \/ BuildTick(j)) \/ SendTick
                           \/ CancelLock \/ CancelKill
    PROVE  TypeInv'
<1>0. JobsOK /\ DaemonOK /\ SignalsOK /\ WindowOK
  BY DEF TypeInv
<1>1. ASSUME NEW j \in Jobs, RsyncExits(j) PROVE TypeInv'
  <2>1. JobsOK'
    BY <1>0, <1>1, SyncAssumption DEF RsyncExits, JobsOK
  <2> QED
    BY <1>0, <1>1, <2>1 DEF RsyncExits, TypeInv, DaemonOK, SignalsOK, WindowOK, windowVars, sentVars
<1>2. ASSUME NEW j \in Jobs, BuildTick(j) PROVE TypeInv'
  <2>1. JobsOK'
    BY <1>0, <1>2 DEF BuildTick, JobsOK
  <2>2. syncEvents' \in Nat /\ syncEvents' <= MaxEvents
    BY <1>0, <1>2, SyncAssumption DEF BuildTick, Counted, WindowOK
  <2> QED
    BY <1>0, <1>2, <2>1, <2>2 DEF BuildTick, TypeInv, DaemonOK, SignalsOK, WindowOK, sentVars
<1>3. CASE SendTick
  <2>1. JobsOK'
    BY <1>0, <1>3 DEF SendTick, JobsOK
  <2>2. SignalsOK'
    BY <1>0, <1>3, SendType DEF SendTick, DaemonOK
  <2> QED
    BY <1>0, <1>3, <2>1, <2>2 DEF SendTick, TypeInv, DaemonOK, WindowOK, windowVars
<1>4. CASE CancelLock \/ CancelKill
  <2>1. JobsOK'
    BY <1>0, <1>4 DEF CancelLock, CancelKill, JobsOK
  <2> QED
    BY <1>0, <1>4, <2>1 DEF CancelLock, CancelKill, TypeInv, DaemonOK, SignalsOK, WindowOK, windowVars, sentVars
<1> QED
  BY <1>1, <1>2, <1>3, <1>4

(* A status applied to the rows keeps their types. *)
LEMMA ApplyType ==
    ASSUME WindowOK, NEW s \in Snapshot, ApplyStatus(s)
    PROVE  rows' \in [Profiles -> [busy : BOOLEAN, status : States]]
<1>1. ASSUME NEW p \in Profiles PROVE RowAfter(rows[p], s[p]) \in [busy : BOOLEAN, status : States]
  <2>1. rows[p] \in [busy : BOOLEAN, status : States] /\ s[p] \in States
    BY DEF WindowOK, Snapshot
  <2>2. [rows[p] EXCEPT !.busy = FALSE] \in [busy : BOOLEAN, status : States]
    BY <2>1
  <2>3. [busy |-> s[p] \in Busy, status |-> s[p]] \in [busy : BOOLEAN, status : States]
    BY <2>1
  <2> QED
    BY <2>2, <2>3 DEF RowAfter
<1> QED
  BY <1>1 DEF ApplyStatus, WindowOK

(* The calls and the window. *)
LEMMA WindowType ==
    ASSUME TypeInv,
           \/ \E c \in Callers :
                 (\E p \in Profiles : ProfileExists(p) /\ CheckCall(c, "now", p)) \/ CheckCall(c, "all", NoCaller)
           \/ CancelFlag /\ UNCHANGED windowVars /\ UNCHANGED sentVars
           \/ ClickAll \/ ClickStop \/ Refresh \/ Subscribe \/ LoseConnection \/ RefetchStatus \/ ApplySignal
           \/ \E p \in Profiles : ClickRow(p) \/ SaveProfile(p) \/ ToggleProfile(p) \/ DeleteProfile(p)
    PROVE  TypeInv'
<1>0. JobsOK /\ DaemonOK /\ SignalsOK /\ WindowOK /\ Window \in Callers /\ rsyncJob \in [Jobs -> Record]
  BY SyncAssumption DEF TypeInv, JobsOK
<1>1. ASSUME NEW c \in Callers, NEW kind \in {"now", "all"}, NEW p \in Profiles \cup {NoCaller},
             kind = "now" => p \in Profiles, CheckCall(c, kind, p)
      PROVE  TypeInv'
  <2> DEFINE r == [step |-> "accept", kind |-> kind, profile |-> p]
  <2>1. call' = [call EXCEPT ![c] = r] /\ r \in Calls /\ r.profile = p /\ r.kind = kind
    BY <1>1 DEF CheckCall, Calls
  <2> HIDE DEF r
  <2>2. DaemonOK'
    BY <1>0, <1>1, <2>1, CallType DEF CheckCall, DaemonOK
  <2> QED
    BY <1>0, <1>1, <2>2 DEF CheckCall, TypeInv, JobsOK, SignalsOK, WindowOK, windowVars, sentVars
<1>2. ASSUME CancelFlag, UNCHANGED windowVars, UNCHANGED sentVars PROVE TypeInv'
  BY <1>0, <1>2 DEF CancelFlag, TypeInv, JobsOK, DaemonOK, SignalsOK, WindowOK, windowVars, sentVars
<1>3. ASSUME UNCHANGED daemonVars PROVE JobsOK' /\ DaemonOK'
  BY <1>0, <1>3 DEF daemonVars, JobsOK, DaemonOK
<1>4. CASE Refresh
  <2>1. rows' \in [Profiles -> [busy : BOOLEAN, status : States]]
    BY <1>0, <1>4, ApplyType DEF Refresh, DaemonOK
  <2>2. SignalsOK' /\ WindowOK'
    BY <1>0, <1>4, <2>1 DEF Refresh, SignalsOK, WindowOK
  <2> QED
    BY <1>3, <1>4, <2>2 DEF Refresh, TypeInv
<1>5. CASE Subscribe \/ LoseConnection
  <2>1. syncEvents' \in Nat /\ syncEvents' <= MaxEvents
    BY <1>0, <1>5, SyncAssumption DEF Subscribe, LoseConnection, Counted, WindowOK
  <2>2. SignalsOK' /\ WindowOK'
    BY <1>0, <1>5, <2>1 DEF Subscribe, LoseConnection, SignalsOK, WindowOK, sentVars
  <2> QED
    BY <1>3, <1>5, <2>2 DEF Subscribe, LoseConnection, TypeInv
<1>6. CASE RefetchStatus
  <2>1. SignalsOK'
    BY <1>0, <1>6, QueuedType DEF RefetchStatus, SignalsOK, DaemonOK
  <2>2. WindowOK'
    BY <1>0, <1>6 DEF RefetchStatus, WindowOK
  <2> QED
    BY <1>3, <1>6, <2>1, <2>2 DEF RefetchStatus, TypeInv
<1>7. CASE ApplySignal
  <2>1. syncSignals \in Seq(Snapshot) /\ syncSignals # <<>>
    BY <1>0, <1>7 DEF ApplySignal, SignalsOK
  <2>2. Head(syncSignals) \in Snapshot /\ Tail(syncSignals) \in Seq(Snapshot)
        /\ Len(Tail(syncSignals)) = Len(syncSignals) - 1 /\ Len(syncSignals) \in Nat
    BY <2>1
  <2>3. rows' \in [Profiles -> [busy : BOOLEAN, status : States]]
    BY <1>0, <1>7, <2>2, ApplyType DEF ApplySignal
  <2>4. MaxQueue \in Nat
    BY SyncAssumption
  <2>5. SignalsOK'
    BY <1>0, <1>7, <2>2, <2>4 DEF ApplySignal, SignalsOK
  <2>6. WindowOK'
    BY <1>0, <1>7, <2>3 DEF ApplySignal, WindowOK
  <2> QED
    BY <1>3, <1>7, <2>5, <2>6 DEF ApplySignal, TypeInv
<1>8. ASSUME NEW p \in Profiles, SaveProfile(p) PROVE TypeInv'
  <2>1. NewRow \in [busy : BOOLEAN, status : States]
    BY DEF NewRow, States
  <2>2. rows' \in [Profiles -> [busy : BOOLEAN, status : States]] /\ disk' \in [Profiles -> {"none", "on", "off"}]
    BY <1>0, <1>8, <2>1 DEF SaveProfile, WindowOK
  <2>3. config' \in [Profiles -> {"none", "on", "off"}] /\ results' \in Snapshot
    BY <1>0, <1>8, <2>2 DEF SaveProfile, DaemonOK, Snapshot, States
  <2>4. SignalsOK'
    BY <1>0, <1>8, <2>3, SendType DEF SaveProfile
  <2>5. syncEvents' \in Nat /\ syncEvents' <= MaxEvents
    BY <1>0, <1>8, SyncAssumption DEF SaveProfile, Counted, WindowOK
  <2>6. WindowOK'
    BY <1>0, <1>8, <2>2, <2>5 DEF SaveProfile, WindowOK
  <2>7. DaemonOK' /\ JobsOK'
    BY <1>0, <1>8, <2>3 DEF SaveProfile, DaemonOK, JobsOK
  <2> QED
    BY <2>4, <2>6, <2>7 DEF TypeInv
<1>9. ASSUME NEW p \in Profiles, ToggleProfile(p) \/ DeleteProfile(p) PROVE TypeInv'
  <2>1. NoRow \in [busy : BOOLEAN, status : States]
    BY DEF NoRow, States
  <2>2. rows' \in [Profiles -> [busy : BOOLEAN, status : States]] /\ disk' \in [Profiles -> {"none", "on", "off"}]
    BY <1>0, <1>9, <2>1 DEF ToggleProfile, DeleteProfile, WindowOK
  <2>3. syncEvents' \in Nat /\ syncEvents' <= MaxEvents
    BY <1>0, <1>9, SyncAssumption DEF ToggleProfile, DeleteProfile, Counted, WindowOK
  <2>4. WindowOK' /\ SignalsOK'
    BY <1>0, <1>9, <2>2, <2>3 DEF ToggleProfile, DeleteProfile, WindowOK, SignalsOK, sentVars
  <2> QED
    BY <1>3, <1>9, <2>4 DEF ToggleProfile, DeleteProfile, TypeInv
<1>10. ASSUME NEW p \in Profiles, ClickRow(p) PROVE TypeInv'
  BY <1>0, <1>1, <1>2, <1>10 DEF ClickRow
<1>11. CASE ClickAll
  BY <1>0, <1>1, <1>11, SyncAssumption DEF ClickAll, NoCaller
<1>12. CASE ClickStop
  BY <1>2, <1>12 DEF ClickStop
<1> QED
  BY <1>1, <1>2, <1>4, <1>5, <1>6, <1>7, <1>8, <1>9, <1>10, <1>11, <1>12, SyncAssumption DEF NoCaller

(* The types are inductive. *)
LEMMA TypeInvKept ==
    ASSUME TypeInv, [SyncNext]_syncVars
    PROVE  TypeInv'
<1>1. CASE UNCHANGED syncVars
  BY <1>1 DEF syncVars, TypeInv, JobsOK, DaemonOK, SignalsOK, WindowOK
<1>2. ASSUME NEW c \in Callers, Accept(c) PROVE TypeInv'
  BY <1>2, AcceptType, ListType DEF Accept
<1>3. CASE SyncNext
  BY <1>2, <1>3, TaskType, ChildType, WindowType DEF SyncNext, JobsNext, WindowNext
<1> QED
  BY <1>1, <1>3

-----------------------------------------------------------------------------
(* One job at a time, apart from a finished one that has only to tell or to      *)
(* clear the flag, unless calls raced.  While it syncs a profile that is the     *)
(* active one; between the profiles of a queue queue_running is set.             *)
Engaged(j) == rsyncJob[j].at \notin {"no", "clear", "tell"}
              \/ (rsyncJob[j].at = "tell" /\ rsyncJob[j].kind # "now")

OneJob ==
    /\ \A i, j \in Jobs : Engaged(i) /\ Engaged(j) => i = j
    /\ \A j \in Jobs :
          /\ rsyncJob[j].at \in {"spawn", "rsync"} \/ (rsyncJob[j].at = "record" /\ rsyncJob[j].kind = "now")
                => active = Profile(j)
          /\ rsyncJob[j].kind # "now" /\ rsyncJob[j].at \notin {"no", "clear"} => queued
          /\ rsyncJob[j].at \in {"list", "head"} => rsyncJob[j].kind # "now"
          /\ child[j] # "no" => slot = j \/ missed

OneJobKnown == raced \/ OneJob

(* One engaged job is one rsync. *)
LEMMA OneJobGivesOneRsync == ASSUME TypeInv, OneJobKnown PROVE OneRsync
<1> SUFFICES ASSUME NEW j \in Jobs, child[j] # "no", OneJob
             PROVE  (slot = j \/ missed) /\ active = Profile(j) /\ \A i \in Jobs \ {j} : child[i] = "no"
  BY DEF OneRsync, OneJobKnown
<1>1. rsyncJob[j].at = "rsync" /\ (slot = j \/ missed)
  BY DEF TypeInv, JobsOK, OneJob
<1> QED
  BY <1>1 DEF OneJob, TypeInv, JobsOK, Engaged

(* A check that is not overtaken finds no job. *)
LEMMA NobodyEngaged ==
    ASSUME TypeInv, OneJob, ~Overtaken
    PROVE  \A i \in Jobs : ~Engaged(i)
<1> SUFFICES ASSUME NEW i \in Jobs, Engaged(i) PROVE FALSE
  OBVIOUS
<1>1. rsyncJob[i].at \in Places /\ rsyncJob[i].at \notin {"start", "clear"} /\ NothingRuns
  BY DEF TypeInv, JobsOK, Record, Overtaken, Engaged
<1>2. rsyncJob[i].at \notin {"list", "head"} /\ ~(rsyncJob[i].at = "tell" /\ rsyncJob[i].kind # "now")
      /\ (rsyncJob[i].at = "record" => rsyncJob[i].kind = "now")
  BY <1>1 DEF OneJob, NothingRuns
<1>3. rsyncJob[i].at \in {"spawn", "rsync", "record"}
  BY <1>1, <1>2 DEF Engaged, Places
<1>4. active = Profile(i)
  BY <1>2, <1>3 DEF OneJob
<1>5. Profile(i) \in Profiles
  BY <1>3, ProfileType DEF TypeInv, Working
<1> QED
  BY <1>1, <1>4, <1>5, SyncAssumption DEF NothingRuns, NoCaller

(* Profile depends on the job's list alone. *)
LEMMA SameProfile ==
    ASSUME NEW i \in Jobs, rsyncJob'[i].list = rsyncJob[i].list
    PROVE  Profile(i)' = Profile(i)
  BY DEF Profile

(* No job is engaged at the start. *)
LEMMA OneJobInit == SyncInit => OneJob
  BY DEF SyncInit, OneJob, Engaged, NoRsync

(* A step of an engaged job that stays engaged, leaves or clears the queue. *)
LEMMA EngagedStep ==
    ASSUME TypeInv, OneJob, NEW j \in Jobs, Engaged(j),
           rsyncJob' \in [Jobs -> Record], \A i \in Jobs \ {j} : rsyncJob'[i] = rsyncJob[i],
           rsyncJob'[j].at \in {"spawn", "rsync"} \/ (rsyncJob'[j].at = "record" /\ rsyncJob'[j].kind = "now")
               => active' = Profile(j)',
           rsyncJob'[j].kind # "now" /\ rsyncJob'[j].at \notin {"no", "clear"} => queued',
           rsyncJob'[j].at \in {"list", "head"} => rsyncJob'[j].kind # "now",
           \A i \in Jobs : child'[i] # "no" => i = j /\ (slot' = j \/ missed')
    PROVE  OneJob'
<1>1. \A i \in Jobs \ {j} : ~Engaged(i) /\ ~Engaged(i)'
  BY DEF OneJob, Engaged
<1>2. \A i, k \in Jobs : Engaged(i)' /\ Engaged(k)' => i = k
  BY <1>1
<1>3. ASSUME NEW i \in Jobs \ {j}
      PROVE  /\ rsyncJob'[i].at \notin {"spawn", "rsync", "record", "list", "head"}
             /\ rsyncJob'[i].kind # "now" => rsyncJob'[i].at \in {"no", "clear"}
  BY <1>1 DEF Engaged, TypeInv, JobsOK
<1> QED
  BY <1>2, <1>3 DEF OneJob

(* A job that is spawned when none is engaged. *)
LEMMA SpawnedAlone ==
    ASSUME TypeInv, \A i \in Jobs : ~Engaged(i), NEW j \in Jobs, NEW kind \in {"now", "all"}, NEW at \in {"start", "list"},
           NEW list \in SUBSET Profiles, Spawn(j, kind, at, list), (kind = "now" => at = "start"),
           UNCHANGED <<child, slot, active>>, (kind # "now" => queued')
    PROVE  OneJob'
<1> DEFINE r == [NoRsync EXCEPT !.kind = kind, !.at = at, !.list = list]
<1>1. NoRsync \in Record
  BY DEF NoRsync, Record, Places, Settled
<1>2. r \in Record /\ r.at = at /\ r.kind = kind
  BY <1>1 DEF Record, Places
<1>3. rsyncJob' = [rsyncJob EXCEPT ![j] = r]
  BY DEF Spawn
<1> HIDE DEF r
<1>4. rsyncJob' \in [Jobs -> Record] /\ rsyncJob'[j] = r /\ \A i \in Jobs \ {j} : rsyncJob'[i] = rsyncJob[i]
  BY <1>2, <1>3 DEF TypeInv, JobsOK
<1>6. \A i \in Jobs : child'[i] = "no"
  BY DEF Engaged, TypeInv, JobsOK
<1>7. \A i, k \in Jobs : Engaged(i)' /\ Engaged(k)' => i = k
  BY <1>4 DEF Engaged
<1>8. ASSUME NEW i \in Jobs \ {j}
      PROVE  /\ rsyncJob'[i].at \notin {"spawn", "rsync", "record", "list", "head"}
             /\ rsyncJob'[i].kind # "now" => rsyncJob'[i].at \in {"no", "clear"}
  BY <1>4 DEF Engaged
<1> QED
  BY <1>2, <1>4, <1>6, <1>7, <1>8 DEF OneJob

(* A step that changes nothing of the jobs, or only how an rsync ended. *)
LEMMA OneJobSame ==
    ASSUME OneJob, UNCHANGED <<rsyncJob, slot, active, queued, missed>>,
           \A i \in Jobs : child'[i] # "no" => child[i] # "no"
    PROVE  OneJob'
  BY DEF OneJob, Engaged, Profile

(* A task's step keeps one job engaged at most: each holds the flag it set. *)
LEMMA OneJobTask ==
    ASSUME TypeInv, TypeInv', OneJob, NEW j \in Jobs, Task(j)
    PROVE  OneJob'
<1>0. /\ rsyncJob \in [Jobs -> Record] /\ rsyncJob' \in [Jobs -> Record]
      /\ \A i \in Jobs : child[i] # "no" => rsyncJob[i].at = "rsync" /\ (slot = i \/ missed)
      /\ \A i \in Jobs : child'[i] # "no" <=> rsyncJob'[i].at = "rsync"
  BY DEF TypeInv, JobsOK, OneJob
<1>1. \A i \in Jobs \ {j} : rsyncJob'[i] = rsyncJob[i]
  BY <1>0 DEF Task, QueueHead, ClearFlag, ExecuteProfile, SpawnRsync, PollRsync, RecordResult, TellResult,
     Moved, Ended
<1>2. Engaged(j) => \A i \in Jobs \ {j} : child'[i] = "no"
  <2> SUFFICES ASSUME Engaged(j), NEW i \in Jobs \ {j} PROVE child'[i] = "no"
    OBVIOUS
  <2>1. ~Engaged(i)
    BY DEF OneJob
  <2> QED
    BY <1>0, <1>1, <2>1 DEF Engaged
<1>3. CASE QueueHead(j)
  <2>1. rsyncJob[j].at = "head" /\ rsyncJob[j].kind # "now" /\ Engaged(j)
    BY <1>3 DEF QueueHead, OneJob, Engaged
  <2>2. /\ rsyncJob'[j].kind = rsyncJob[j].kind
        /\ \/ rsyncJob'[j].at = "clear"
           \/ rsyncJob'[j].at \in {"record", "start"} /\ UNCHANGED queued
    BY <1>0, <1>3, MovedType, EndedType DEF QueueHead, Places, Settled
  <2>3. queued
    BY <2>1 DEF OneJob
  <2> QED
    BY <1>0, <1>1, <1>2, <2>1, <2>2, <2>3, EngagedStep
<1>4. CASE ClearFlag(j)
  <2>1. rsyncJob'[j].at = "no" /\ UNCHANGED <<active, queued, slot, child, missed>> /\ rsyncJob[j].at = "clear"
    BY <1>0, <1>4 DEF ClearFlag, NoRsync
  <2>2. \A i \in Jobs : Engaged(i)' => Engaged(i) /\ i # j
    BY <1>1, <2>1 DEF Engaged
  <2>3. \A i \in Jobs \ {j} : Profile(i)' = Profile(i)
    BY <1>1, SameProfile
  <2> QED
    BY <1>0, <1>1, <2>1, <2>2, <2>3 DEF OneJob
<1>5. CASE ExecuteProfile(j)
  <2>1. Moved(j, "spawn") /\ rsyncJob[j].at = "start" /\ active' = Profile(j) /\ UNCHANGED queued /\ Engaged(j)
    BY <1>5 DEF ExecuteProfile, Engaged
  <2>2. rsyncJob'[j].at = "spawn" /\ rsyncJob'[j].list = rsyncJob[j].list /\ rsyncJob'[j].kind = rsyncJob[j].kind
    BY <1>0, <2>1, MovedType DEF Places
  <2>3. Profile(j)' = Profile(j)
    BY <2>2, SameProfile
  <2>4. rsyncJob[j].kind # "now" => queued
    BY <2>1 DEF OneJob
  <2> QED
    BY <1>0, <1>1, <1>2, <2>1, <2>2, <2>3, <2>4, EngagedStep
<1>6. CASE SpawnRsync(j)
  <2>1. rsyncJob[j].at = "spawn" /\ UNCHANGED <<active, queued>> /\ Engaged(j)
    BY <1>6 DEF SpawnRsync, Engaged
  <2>2. /\ rsyncJob'[j].list = rsyncJob[j].list /\ rsyncJob'[j].kind = rsyncJob[j].kind
        /\ rsyncJob'[j].at = "record" \/ (rsyncJob'[j].at = "rsync" /\ (slot' = j \/ missed'))
    BY <1>0, <1>6, MovedType, EndedType DEF SpawnRsync, Places, Settled
  <2>3. Profile(j)' = Profile(j) /\ active = Profile(j) /\ (rsyncJob[j].kind # "now" => queued)
    BY <2>1, <2>2, SameProfile DEF OneJob
  <2> QED
    BY <1>0, <1>1, <1>2, <2>1, <2>2, <2>3, EngagedStep
<1>7. CASE PollRsync(j)
  <2>1. rsyncJob[j].at = "rsync" /\ UNCHANGED <<active, queued>> /\ Engaged(j)
    BY <1>7 DEF PollRsync, Engaged
  <2>2. rsyncJob'[j].list = rsyncJob[j].list /\ rsyncJob'[j].kind = rsyncJob[j].kind /\ rsyncJob'[j].at = "record"
    <3>1. (IF cancel THEN "idle" ELSE child[j]) \in Settled
      BY <1>7 DEF PollRsync, TypeInv, JobsOK, Settled
    <3> QED
      BY <1>0, <1>7, <3>1, EndedType DEF PollRsync
  <2>3. Profile(j)' = Profile(j) /\ active = Profile(j) /\ (rsyncJob[j].kind # "now" => queued)
    BY <2>1, <2>2, SameProfile DEF OneJob
  <2> QED
    BY <1>0, <1>1, <1>2, <2>1, <2>2, <2>3, EngagedStep
<1>8. CASE RecordResult(j)
  <2>1. rsyncJob[j].at = "record" /\ UNCHANGED queued /\ Engaged(j)
    BY <1>8 DEF RecordResult, Engaged
  <2>2. rsyncJob'[j].kind = rsyncJob[j].kind /\ rsyncJob'[j].at = "tell"
    BY <1>0, <1>8, MovedType DEF RecordResult, Places
  <2>3. rsyncJob[j].kind # "now" => queued
    BY <2>1 DEF OneJob
  <2> QED
    BY <1>0, <1>1, <1>2, <2>1, <2>2, <2>3, EngagedStep
<1>9. CASE TellResult(j)
  <2>1. rsyncJob'[j] = After(j) /\ UNCHANGED <<active, queued, slot, child, missed>> /\ rsyncJob[j].at = "tell"
    BY <1>0, <1>9, AfterType DEF TellResult, historyVars
  <2>2. CASE rsyncJob[j].kind # "now"
    <3>1. Engaged(j) /\ queued
      BY <2>1, <2>2 DEF Engaged, OneJob
    <3>2. rsyncJob'[j].at = "head" /\ rsyncJob'[j].kind # "now"
      BY <1>0, <2>1, <2>2, AfterType
    <3> QED
      BY <1>0, <1>1, <1>2, <2>1, <3>1, <3>2, EngagedStep
  <2>3. CASE rsyncJob[j].kind = "now"
    <3>1. rsyncJob'[j].at = "no"
      BY <1>0, <2>1, <2>3, AfterType DEF NoRsync
    <3>2. \A i \in Jobs : Engaged(i)' => Engaged(i) /\ i # j
      BY <1>1, <3>1 DEF Engaged
    <3>3. \A i \in Jobs \ {j} : Profile(i)' = Profile(i)
      BY <1>1, SameProfile
    <3> QED
      BY <1>0, <1>1, <2>1, <3>1, <3>2, <3>3 DEF OneJob
  <2> QED
    BY <2>2, <2>3
<1> QED
  BY <1>3, <1>4, <1>5, <1>6, <1>7, <1>8, <1>9 DEF Task

(* A call is acted on. *)
Accepted == \E c \in Callers, j \in Jobs : AcceptNow(c, j) \/ AcceptAll(c, j)

(* No other step breaks it. *)
LEMMA OneJobOther ==
    ASSUME TypeInv, TypeInv', OneJob, [SyncNext]_syncVars, ~Accepted
    PROVE  OneJob'
<1>0. /\ rsyncJob \in [Jobs -> Record] /\ rsyncJob' \in [Jobs -> Record]
      /\ \A i \in Jobs : child[i] # "no" => rsyncJob[i].at = "rsync" /\ (slot = i \/ missed)
      /\ \A i \in Jobs : child'[i] # "no" <=> rsyncJob'[i].at = "rsync"
  BY DEF TypeInv, JobsOK, OneJob
<1>3. ASSUME NEW c \in Callers, NEW j \in Jobs, ListAll(c, j) PROVE OneJob'
  <2>1. rsyncJob[j].at = "list" /\ rsyncJob[j].kind # "now" /\ Engaged(j) /\ queued /\ UNCHANGED <<child, slot>>
    BY <1>3 DEF ListAll, OneJob, Engaged
  <2>2. \A i \in Jobs : child'[i] = "no"
    BY <1>0, <2>1 DEF OneJob, Engaged
  <2>3. \A i \in Jobs \ {j} : rsyncJob'[i] = rsyncJob[i]
    BY <1>0, <1>3 DEF ListAll
  <2>4. \/ rsyncJob'[j].at = "no"
        \/ rsyncJob'[j].at = "head" /\ rsyncJob'[j].kind # "now" /\ queued'
    <3>1. CASE Enabled = {}
      BY <1>0, <1>3, <3>1 DEF ListAll, NoRsync
    <3>2. CASE Enabled # {}
      <4> DEFINE r == [rsyncJob[j] EXCEPT !.at = "head", !.list = Enabled]
      <4>1. r.at = "head" /\ r.kind = rsyncJob[j].kind
        BY <1>0 DEF Record
      <4>2. rsyncJob' = [rsyncJob EXCEPT ![j] = r] /\ UNCHANGED queued
        BY <1>0, <1>3, <3>2 DEF ListAll
      <4> QED
        BY <1>0, <2>1, <4>1, <4>2
    <3> QED
      BY <3>1, <3>2
  <2> QED
    BY <1>0, <2>1, <2>2, <2>3, <2>4, EngagedStep
<1>4. ASSUME NEW j \in Jobs, RsyncExits(j) PROVE OneJob'
  <2>1. \A i \in Jobs : child'[i] # "no" => child[i] # "no"
    BY <1>4 DEF RsyncExits, TypeInv, JobsOK
  <2> QED
    BY <1>4, <2>1, OneJobSame DEF RsyncExits, historyVars
<1>5. CASE CancelLock \/ CancelKill
  <2>1. \A i \in Jobs : child'[i] # "no" => child[i] # "no"
    BY <1>5 DEF CancelLock, CancelKill, TypeInv, JobsOK
  <2> QED
    BY <1>5, <2>1, OneJobSame DEF CancelLock, CancelKill, historyVars
<1>6. ASSUME UNCHANGED <<rsyncJob, slot, active, queued, child, missed>> PROVE OneJob'
  BY <1>6, OneJobSame
<1>7. ASSUME NEW j \in Jobs, BuildTick(j) PROVE OneJob'
  BY <1>6, <1>7 DEF BuildTick, historyVars
<1>8. ASSUME CancelFlag PROVE OneJob'
  BY <1>6, <1>8 DEF CancelFlag
<1>9. ASSUME UNCHANGED daemonVars PROVE OneJob'
  BY <1>6, <1>9 DEF daemonVars
<1>10. ASSUME NEW c, NEW kind, NEW p, CheckCall(c, kind, p) PROVE OneJob'
  BY <1>6, <1>10 DEF CheckCall, historyVars
<1>11. CASE SendTick
  BY <1>6, <1>11 DEF SendTick, historyVars
<1>12. ASSUME NEW p \in Profiles, ClickRow(p) \/ SaveProfile(p) \/ ToggleProfile(p) \/ DeleteProfile(p) PROVE OneJob'
  <2>1. CASE ClickRow(p)
    BY <1>8, <1>10, <2>1 DEF ClickRow
  <2>2. CASE SaveProfile(p)
    BY <1>6, <2>2 DEF SaveProfile, historyVars
  <2>3. CASE ToggleProfile(p) \/ DeleteProfile(p)
    BY <1>9, <2>3 DEF ToggleProfile, DeleteProfile
  <2> QED
    BY <1>12, <2>1, <2>2, <2>3
<1>13. CASE ClickAll \/ ClickStop
  BY <1>8, <1>10, <1>13 DEF ClickAll, ClickStop
<1>14. CASE Refresh \/ Subscribe \/ LoseConnection \/ RefetchStatus \/ ApplySignal
  BY <1>9, <1>14 DEF Refresh, Subscribe, LoseConnection, RefetchStatus, ApplySignal
<1>15. CASE UNCHANGED syncVars
  BY <1>6, <1>15 DEF syncVars
<1>16. CASE SyncNext
  <2>1. CASE \E j \in Jobs : Task(j) \/ RsyncExits(j) \/ BuildTick(j)
    BY <1>4, <1>7, <2>1, OneJobTask
  <2>2. CASE \E c \in Callers : Accept(c)
    BY <1>3, <2>2 DEF Accept, Accepted
  <2>3. CASE \E c \in Callers :
          (\E p \in Profiles : ProfileExists(p) /\ CheckCall(c, "now", p)) \/ CheckCall(c, "all", NoCaller)
    BY <1>10, <2>3
  <2> QED
    BY <1>5, <1>8, <1>11, <1>12, <1>13, <1>14, <1>16, <2>1, <2>2, <2>3 DEF SyncNext, JobsNext, WindowNext
<1> QED
  BY <1>15, <1>16

(* Nothing but a call that is acted on changes what is remembered of the races. *)
LEMMA RacedSame ==
    ASSUME [SyncNext]_syncVars, ~Accepted
    PROVE  raced' = raced
<1>1. ASSUME NEW j \in Jobs, Task(j) \/ RsyncExits(j) \/ BuildTick(j) PROVE raced' = raced
  BY <1>1 DEF Task, QueueHead, ClearFlag, ExecuteProfile, SpawnRsync, PollRsync, RecordResult, TellResult,
     RsyncExits, BuildTick, historyVars
<1>2. ASSUME NEW c \in Callers, Accept(c) PROVE raced' = raced
  BY <1>2 DEF Accept, Accepted, ListAll, historyVars
<1>3. ASSUME NEW c, NEW kind, NEW p, CheckCall(c, kind, p) PROVE raced' = raced
  BY <1>3 DEF CheckCall, historyVars
<1>4. CASE CancelFlag \/ CancelLock \/ CancelKill \/ SendTick
  BY <1>4 DEF CancelFlag, CancelLock, CancelKill, SendTick, historyVars
<1>5. CASE ClickAll \/ ClickStop \/ Refresh \/ Subscribe \/ LoseConnection \/ RefetchStatus \/ ApplySignal
  BY <1>3, <1>4, <1>5 DEF ClickAll, ClickStop, Refresh, Subscribe, LoseConnection, RefetchStatus, ApplySignal, daemonVars
<1>6. ASSUME NEW p \in Profiles, ClickRow(p) \/ SaveProfile(p) \/ ToggleProfile(p) \/ DeleteProfile(p)
      PROVE  raced' = raced
  BY <1>3, <1>4, <1>6 DEF ClickRow, SaveProfile, ToggleProfile, DeleteProfile, daemonVars, historyVars
<1>7. CASE UNCHANGED syncVars
  BY <1>7 DEF syncVars
<1> QED
  BY <1>1, <1>2, <1>3, <1>4, <1>5, <1>6, <1>7 DEF SyncNext, JobsNext, WindowNext

(* A call that acts where no other job is left, or on a check that was not        *)
(* overtaken, makes the only job.                                                 *)
LEMMA OneJobSpawned ==
    ASSUME TypeInv, OneJobKnown, ~raced', NEW j \in Jobs, NEW kind \in {"now", "all"}, NEW at \in {"start", "list"},
           NEW list \in SUBSET Profiles, Spawn(j, kind, at, list), (kind = "now" => at = "start"),
           UNCHANGED <<child, slot, active>>, (kind # "now" => queued')
    PROVE  OneJob'
<1>1. rsyncJob[j] = NoRsync /\ (Others(j) => ~raced /\ ~Overtaken /\ OneJob)
  BY DEF Spawn, OneJobKnown
<1>2. CASE Others(j)
  BY <1>1, <1>2, NobodyEngaged, SpawnedAlone
<1>3. CASE ~Others(j)
  <2>1. \A i \in Jobs : ~Engaged(i)
    BY <1>1, <1>3 DEF Others, Engaged, NoRsync
  <2> QED
    BY <2>1, SpawnedAlone
<1> QED
  BY <1>2, <1>3

(* Only a call that was overtaken can break it. *)
LEMMA OneJobKept ==
    ASSUME TypeInv, TypeInv', OneJobKnown, [SyncNext]_syncVars
    PROVE  OneJobKnown'
<1>1. ASSUME NEW c \in Callers, NEW j \in Jobs, AcceptNow(c, j), ~raced' PROVE OneJob'
  <2>1. /\ Spawn(j, "now", "start", {call[c].profile}) /\ UNCHANGED <<child, slot, active>>
        /\ {call[c].profile} \in SUBSET Profiles
    BY <1>1 DEF AcceptNow, TypeInv, DaemonOK
  <2> QED
    BY <1>1, <2>1, OneJobSpawned
<1>2. ASSUME NEW c \in Callers, NEW j \in Jobs, AcceptAll(c, j), ~raced' PROVE OneJob'
  <2>1. Spawn(j, "all", "list", {}) /\ UNCHANGED <<child, slot, active>> /\ queued' /\ {} \in SUBSET Profiles
    BY <1>2 DEF AcceptAll
  <2> QED
    BY <1>2, <2>1, OneJobSpawned
<1>3. CASE Accepted
  BY <1>1, <1>2, <1>3 DEF Accepted, OneJobKnown
<1>4. CASE ~Accepted
  BY <1>4, RacedSame, OneJobOther DEF OneJobKnown
<1> QED
  BY <1>3, <1>4

-----------------------------------------------------------------------------
(* What the window shows, or will show once it has applied what is on its way.  *)
(* It holds however the calls race: the last snapshot sent is the one that      *)
(* counts, and each change of the results is followed by one.                   *)
Shown == \A p \in Profiles : ProfileExists(p) => RowAfter(rows[p], results[p]) = rows[p]

Follows ==
    (/\ \A j \in Jobs : rsyncJob[j].at # "tell"
     /\ listener # "lost" /\ ~gap /\ ~late) =>
        IF syncSignals # <<>> THEN syncSignals[Len(syncSignals)] = results ELSE Shown

(* Once no signal is on its way, that is what the run's property says. *)
LEMMA FollowsGives == ASSUME Follows PROVE WindowFollows
  BY DEF Follows, WindowFollows, Shown

(* Applying a status twice is applying it once. *)
LEMMA RowAfterTwice ==
    ASSUME NEW row \in [busy : BOOLEAN, status : States], NEW state
    PROVE  RowAfter(RowAfter(row, state), state) = RowAfter(row, state)
  BY DEF RowAfter

(* Rows that applied the daemon's results show them. *)
LEMMA ShownAfterApply ==
    ASSUME WindowOK, ApplyStatus(results), UNCHANGED <<disk, results>>
    PROVE  Shown'
<1> SUFFICES ASSUME NEW p \in Profiles, disk[p] # "none"
             PROVE  RowAfter(rows'[p], results[p]) = rows'[p]
  BY DEF Shown, ProfileExists
<1>1. rows'[p] = RowAfter(rows[p], results[p])
  BY DEF ApplyStatus
<1>2. rows[p] \in [busy : BOOLEAN, status : States]
  BY DEF WindowOK
<1> QED
  BY <1>1, <1>2, RowAfterTwice

(* The window has nothing to follow at the start. *)
LEMMA FollowsInit == SyncInit => Follows
<1> SUFFICES ASSUME SyncInit PROVE Follows
  OBVIOUS
<1>1. syncSignals = <<>>
  BY DEF SyncInit
<1>2. ASSUME NEW p \in Profiles, ProfileExists(p) PROVE RowAfter(rows[p], results[p]) = rows[p]
  <2>1. rows[p] = NewRow /\ results[p] = "none"
    BY <1>2 DEF SyncInit, ProfileExists
  <2>2. NewRow \in [busy : BOOLEAN, status : States] /\ NewRow.busy = FALSE
    BY DEF NewRow, States
  <2>3. ASSUME NEW row \in [busy : BOOLEAN, status : States], row.busy = FALSE
        PROVE  [row EXCEPT !.busy = FALSE] = row
    BY <2>3
  <2> QED
    BY <2>1, <2>2, <2>3 DEF RowAfter
<1> QED
  BY <1>1, <1>2 DEF Follows, Shown

(* A step that touches neither results nor window keeps what is followed. *)
LEMMA FollowsSame ==
    ASSUME Follows, UNCHANGED <<results, rows, disk, listener>>, UNCHANGED sentVars,
           \A j \in Jobs : rsyncJob[j].at = "tell" => rsyncJob'[j].at = "tell"
    PROVE  Follows'
  BY DEF Follows, Shown, ProfileExists, RowAfter, sentVars

(* A signal that carries the results is followed. *)
LEMMA FollowsSent ==
    ASSUME SignalsOK, results' \in Snapshot, UNCHANGED listener, NEW b \in BOOLEAN, Send(results', b)
    PROVE  Follows'
<1>1. /\ listener = "on" => syncSignals' # <<>> /\ syncSignals'[Len(syncSignals')] = results'
      /\ listener # "on" => gap'
  BY SendType
<1> QED
  BY <1>1 DEF Follows

(* A task tells what it recorded before it does anything else, so its steps keep *)
(* what is followed.                                                             *)
LEMMA FollowsTask ==
    ASSUME TypeInv, Follows, NEW j \in Jobs, Task(j)
    PROVE  Follows'
<1>0. /\ rsyncJob \in [Jobs -> Record] /\ SignalsOK /\ results \in Snapshot
      /\ \A i \in Jobs : child[i] # "no" <=> rsyncJob[i].at = "rsync"
  BY DEF TypeInv, JobsOK, DaemonOK
<1>1. \A i \in Jobs \ {j} : rsyncJob'[i] = rsyncJob[i]
  BY <1>0 DEF Task, QueueHead, ClearFlag, ExecuteProfile, SpawnRsync, PollRsync, RecordResult, TellResult,
     Moved, Ended
<1>2. CASE QueueHead(j) \/ ClearFlag(j) \/ SpawnRsync(j) \/ PollRsync(j)
  <2>1. rsyncJob[j].at # "tell" /\ UNCHANGED results /\ UNCHANGED windowVars /\ UNCHANGED sentVars
    BY <1>2 DEF QueueHead, ClearFlag, SpawnRsync, PollRsync
  <2> QED
    BY <1>1, <2>1, FollowsSame DEF windowVars
<1>3. CASE ExecuteProfile(j)
  <2>1. results' \in Snapshot
    BY <1>0, <1>3 DEF ExecuteProfile, Snapshot, States, Busy
  <2> QED
    BY <1>0, <1>3, <2>1, FollowsSent DEF ExecuteProfile, windowVars
<1>4. CASE RecordResult(j)
  <2>1. rsyncJob'[j].at = "tell"
    BY <1>0, <1>4, MovedType DEF RecordResult, Places
  <2> QED
    BY <2>1 DEF Follows
<1>5. CASE TellResult(j)
  <2>1. results' = results /\ Send(results', FALSE) /\ UNCHANGED listener
    BY <1>5 DEF TellResult, windowVars
  <2> QED
    BY <1>0, <2>1, FollowsSent
<1> QED
  BY <1>2, <1>3, <1>4, <1>5 DEF Task

(* The window's own steps keep up with the results. *)
LEMMA FollowsWindow ==
    ASSUME TypeInv, Follows,
           Refresh \/ Subscribe \/ LoseConnection \/ RefetchStatus \/ ApplySignal
    PROVE  Follows'
<1>0. WindowOK /\ SignalsOK /\ results \in Snapshot
  BY DEF TypeInv, DaemonOK
<1>1. UNCHANGED <<rsyncJob, results>> /\ UNCHANGED disk
  BY DEF Refresh, Subscribe, LoseConnection, RefetchStatus, ApplySignal, daemonVars
<1>2. CASE Refresh
  <2>1. Shown'
    BY <1>0, <1>1, <1>2, ShownAfterApply DEF Refresh
  <2>2. syncSignals' = syncSignals /\ listener' = listener /\ late' = late
        /\ gap' = (gap /\ (listener # "on" \/ syncSignals # <<>>))
    BY <1>2 DEF Refresh
  <2> QED
    BY <1>1, <2>1, <2>2 DEF Follows
<1>3. CASE Subscribe
  BY <1>1, <1>3 DEF Subscribe, sentVars, Follows, Shown, ProfileExists, RowAfter
<1>4. CASE LoseConnection
  BY <1>4 DEF LoseConnection, Follows
<1>5. CASE RefetchStatus
  <2>1. syncSignals' # <<>> /\ syncSignals'[Len(syncSignals')] = results
    BY <1>0, <1>5, QueuedType DEF RefetchStatus
  <2> QED
    BY <1>1, <2>1 DEF Follows
<1>6. CASE ApplySignal
  <2>1. syncSignals \in Seq(Snapshot) /\ syncSignals # <<>> /\ syncSignals' = Tail(syncSignals)
        /\ UNCHANGED <<listener, late, gap>> /\ ApplyStatus(Head(syncSignals))
    BY <1>0, <1>6 DEF ApplySignal, SignalsOK
  <2>2. CASE Len(syncSignals) = 1
    <3>1. Head(syncSignals) = syncSignals[Len(syncSignals)] /\ syncSignals' = <<>>
      BY <2>1, <2>2
    <3>2. Head(syncSignals) = results => Shown'
      BY <1>0, <1>1, <2>1, ShownAfterApply
    <3> QED
      BY <1>1, <2>1, <3>1, <3>2 DEF Follows
  <2>3. CASE Len(syncSignals) # 1
    <3>1. Len(syncSignals) \in Nat \ {0, 1}
      BY <2>1, <2>3, EmptySeq
    <3>2. /\ Len(Tail(syncSignals)) = Len(syncSignals) - 1
          /\ \A i \in 1..Len(Tail(syncSignals)) : Tail(syncSignals)[i] = syncSignals[i + 1]
      BY <2>1, HeadTailProperties
    <3>3. Len(syncSignals') \in 1..Len(Tail(syncSignals)) /\ Len(syncSignals') = Len(syncSignals) - 1
      BY <2>1, <3>1, <3>2
    <3>4. syncSignals'[Len(syncSignals')] = syncSignals[Len(syncSignals') + 1]
      BY <2>1, <3>2, <3>3
    <3>5. syncSignals'[Len(syncSignals')] = syncSignals[Len(syncSignals)]
      BY <3>1, <3>3, <3>4
    <3>6. syncSignals' # <<>>
      BY <3>1, <3>3, EmptySeq
    <3> QED
      BY <1>1, <2>1, <3>5, <3>6 DEF Follows
  <2> QED
    BY <2>2, <2>3
<1> QED
  BY <1>2, <1>3, <1>4, <1>5, <1>6

(* That the window follows is inductive. *)
LEMMA FollowsKept ==
    ASSUME TypeInv, TypeInv', Follows, [SyncNext]_syncVars
    PROVE  Follows'
<1>0. rsyncJob \in [Jobs -> Record] /\ SignalsOK /\ results \in Snapshot /\ results' \in Snapshot
  BY DEF TypeInv, JobsOK, DaemonOK
<1>1. ASSUME UNCHANGED rsyncJob, UNCHANGED <<results, rows, disk, listener>>, UNCHANGED sentVars PROVE Follows'
  BY <1>1, FollowsSame
<1>2. ASSUME NEW c \in Callers, NEW j \in Jobs, AcceptNow(c, j) \/ AcceptAll(c, j) PROVE Follows'
  <2>1. \A i \in Jobs : rsyncJob[i].at = "tell" => rsyncJob'[i] = rsyncJob[i]
    BY <1>0, <1>2 DEF AcceptNow, AcceptAll, Spawn, NoRsync
  <2>2. UNCHANGED <<results, rows, disk, listener>> /\ UNCHANGED sentVars
    BY <1>2 DEF AcceptNow, AcceptAll
  <2> QED
    BY <2>1, <2>2, FollowsSame
<1>3. ASSUME NEW c \in Callers, NEW j \in Jobs, ListAll(c, j) PROVE Follows'
  <2>1. CASE Enabled = {}
    <3>1. \A i \in Jobs : rsyncJob[i].at = "tell" => rsyncJob'[i] = rsyncJob[i]
      BY <1>0, <1>3, <2>1 DEF ListAll
    <3> QED
      BY <1>3, <2>1, <3>1, FollowsSame DEF ListAll, windowVars
  <2>2. CASE Enabled # {}
    BY <1>0, <1>3, <2>2, FollowsSent DEF ListAll, windowVars
  <2> QED
    BY <2>1, <2>2
<1>4. ASSUME NEW j \in Jobs, RsyncExits(j) \/ BuildTick(j) PROVE Follows'
  BY <1>1, <1>4 DEF RsyncExits, BuildTick, windowVars
<1>5. CASE CancelLock \/ CancelKill
  BY <1>1, <1>5 DEF CancelLock, CancelKill, windowVars
<1>6. CASE SendTick
  <2>1. tick # NoSnapshot /\ Send(tick, tick # results) /\ UNCHANGED results /\ UNCHANGED windowVars
    BY <1>6 DEF SendTick
  <2>2. CASE tick = results
    BY <1>0, <2>1, <2>2, FollowsSent DEF windowVars
  <2>3. CASE tick # results
    BY <2>1, <2>3 DEF Send, Follows
  <2> QED
    BY <2>2, <2>3
<1>7. ASSUME CancelFlag, UNCHANGED windowVars, UNCHANGED sentVars PROVE Follows'
  BY <1>1, <1>7 DEF CancelFlag, windowVars
<1>8. ASSUME NEW c, NEW kind, NEW p, CheckCall(c, kind, p) PROVE Follows'
  BY <1>1, <1>8 DEF CheckCall, windowVars
<1>9. ASSUME NEW p \in Profiles, SaveProfile(p) PROVE Follows'
  BY <1>0, <1>9, FollowsSent DEF SaveProfile
<1>10. ASSUME NEW p \in Profiles, ToggleProfile(p) PROVE Follows'
  <2>1. WindowOK /\ UNCHANGED <<rsyncJob, results, rows, listener>> /\ UNCHANGED sentVars
        /\ \A q \in Profiles : ProfileExists(q)' => ProfileExists(q)
    BY <1>10 DEF ToggleProfile, daemonVars, ProfileExists, TypeInv, WindowOK
  <2> QED
    BY <2>1 DEF Follows, Shown, RowAfter, sentVars
<1>11. ASSUME NEW p \in Profiles, DeleteProfile(p) PROVE Follows'
  <2>1. /\ WindowOK /\ UNCHANGED <<rsyncJob, results, listener>> /\ UNCHANGED sentVars
        /\ \A q \in Profiles : ProfileExists(q)' => ProfileExists(q) /\ rows'[q] = rows[q]
    BY <1>11 DEF DeleteProfile, daemonVars, ProfileExists, TypeInv, WindowOK
  <2> QED
    BY <2>1 DEF Follows, Shown, RowAfter, sentVars
<1>12. ASSUME NEW p \in Profiles, ClickRow(p) PROVE Follows'
  BY <1>7, <1>8, <1>12 DEF ClickRow
<1>13. CASE ClickAll \/ ClickStop
  BY <1>7, <1>8, <1>13 DEF ClickAll, ClickStop
<1>14. CASE UNCHANGED syncVars
  BY <1>1, <1>14 DEF syncVars, sentVars
<1>15. CASE SyncNext
  <2>1. CASE \E j \in Jobs : Task(j) \/ RsyncExits(j) \/ BuildTick(j)
    BY <1>4, <2>1, FollowsTask
  <2>2. CASE \E c \in Callers : Accept(c)
    BY <1>2, <1>3, <2>2 DEF Accept
  <2>3. CASE \E c \in Callers :
          (\E p \in Profiles : ProfileExists(p) /\ CheckCall(c, "now", p)) \/ CheckCall(c, "all", NoCaller)
    BY <1>8, <2>3
  <2> QED
    BY <1>5, <1>6, <1>7, <1>9, <1>10, <1>11, <1>12, <1>13, <1>15, <2>1, <2>2, <2>3, FollowsWindow
       DEF SyncNext, JobsNext, WindowNext
<1> QED
  BY <1>14, <1>15

-----------------------------------------------------------------------------
(* The identify mode.  Each click leaves at most one message on the channel, at *)
(* once or when the page notices, and each fault ends at most one connection.   *)
Noticed == identifySent = (identify /\ tab)

IdentifyInv ==
    /\ alive \in BOOLEAN /\ tab \in BOOLEAN /\ identify \in BOOLEAN /\ identifySent \in BOOLEAN
    /\ wanted \in BOOLEAN /\ held \in BOOLEAN /\ up \in BOOLEAN
    /\ clicks \in Nat /\ clicks <= MaxClicks /\ busFaults \in Nat /\ busFaults <= MaxBusFaults
    /\ channel \in Seq(BOOLEAN)
    /\ Len(channel) <= clicks /\ (~Noticed => Len(channel) + 1 <= clicks)
    /\ conn \in 0..(busFaults + 1) /\ owner \in 0..(busFaults + 1) /\ lost \in SUBSET (1..(busFaults + 1))

(* The types of identify mode. *)
LEMMA IdentifyInvGives == ASSUME IdentifyInv PROVE IdentifyTypeOK
<1>1. /\ {alive, tab, identify, identifySent, wanted, held, up} \subseteq BOOLEAN
      /\ channel \in Seq(BOOLEAN)
  BY DEF IdentifyInv
<1>2. Len(channel) <= MaxClicks /\ clicks \in 0..MaxClicks /\ busFaults \in 0..MaxBusFaults
  <2>1. Len(channel) \in Nat
    BY <1>1
  <2> QED
    BY <2>1, IdentifyAssumption DEF IdentifyInv
<1>3. {conn, owner} \subseteq {0} \cup Conns /\ lost \subseteq Conns
  BY IdentifyAssumption DEF IdentifyInv, Conns
<1> QED
  BY <1>1, <1>2, <1>3 DEF IdentifyTypeOK

(* The invariant of identify mode holds at the start. *)
LEMMA IdentifyInvInit == ASSUME IdentifyInit PROVE IdentifyInv
<1>1. <<>> \in Seq(BOOLEAN) /\ Len(<<>>) = 0
  OBVIOUS
<1>2. channel \in Seq(BOOLEAN) /\ Len(channel) = 0 /\ Noticed
  BY <1>1 DEF IdentifyInit, Noticed
<1>3. /\ clicks \in Nat /\ clicks <= MaxClicks /\ busFaults \in Nat /\ busFaults <= MaxBusFaults
      /\ Len(channel) <= clicks
      /\ conn \in 0..(busFaults + 1) /\ owner \in 0..(busFaults + 1) /\ lost \in SUBSET (1..(busFaults + 1))
  BY <1>2, IdentifyAssumption DEF IdentifyInit
<1>4. /\ alive \in BOOLEAN /\ tab \in BOOLEAN /\ identify \in BOOLEAN /\ identifySent \in BOOLEAN
      /\ wanted \in BOOLEAN /\ held \in BOOLEAN /\ up \in BOOLEAN
  BY DEF IdentifyInit
<1> QED
  BY <1>2, <1>3, <1>4 DEF IdentifyInv

(* The page sends at most one message, and only when its state changed. *)
LEMMA SyncMessage ==
    ASSUME IdentifyInv, NEW on \in BOOLEAN, NEW showing \in BOOLEAN, Sync(on, showing), tab' = showing
    PROVE  /\ identify' \in BOOLEAN /\ identifySent' \in BOOLEAN /\ Noticed'
           /\ channel' \in Seq(BOOLEAN) /\ Len(channel') <= Len(channel) + 1
           /\ identifySent' = identifySent => channel' = channel
<1>1. identify' = (on /\ showing) /\ identifySent' = (on /\ showing)
  BY DEF Sync
<1>2. identify' \in BOOLEAN /\ identifySent' \in BOOLEAN /\ Noticed'
  BY <1>1 DEF Noticed
<1>3. channel' = channel \/ channel' = Append(channel, identifySent')
  BY DEF Sync
<1>4. channel \in Seq(BOOLEAN) /\ Len(channel) \in Nat
  BY DEF IdentifyInv
<1>5. /\ Append(channel, identifySent') \in Seq(BOOLEAN)
      /\ Len(Append(channel, identifySent')) = Len(channel) + 1
  BY <1>2, <1>4, AppendProperties
<1>6. channel' \in Seq(BOOLEAN) /\ Len(channel') <= Len(channel) + 1
  BY <1>3, <1>4, <1>5
<1>7. identifySent' = identifySent => channel' = channel
  BY DEF Sync
<1> QED
  BY <1>2, <1>6, <1>7

(* A call of SetIdentify, heard or lost, keeps the invariant. *)
LEMMA SetIdentifyKeeps ==
    ASSUME IdentifyInv, NEW on \in BOOLEAN, SetIdentify(on)
    PROVE  /\ busFaults' \in Nat /\ busFaults' <= MaxBusFaults /\ held' \in BOOLEAN
           /\ conn' \in 0..(busFaults' + 1) /\ owner' \in 0..(busFaults' + 1)
           /\ lost' \in SUBSET (1..(busFaults' + 1))
<1> DEFINE c == IF conn = 0 THEN 1 + busFaults ELSE conn
<1>1. c \in 1..(busFaults + 1)
  BY DEF IdentifyInv
<1>2. \/ (owner' = c \/ owner' = 0 \/ owner' = owner) /\ conn' = c /\ held' = on /\ lost' = lost /\ busFaults' = busFaults
      \/ /\ ~up \/ busFaults < MaxBusFaults
         /\ owner' = c \/ owner' = 0 \/ owner' = owner
         /\ held' = FALSE /\ (conn' = 0 \/ conn' = c) /\ (lost' = lost \cup {c} \/ lost' = lost)
         /\ busFaults' = IF up THEN busFaults + 1 ELSE busFaults
  BY DEF SetIdentify, Granted
<1>3. busFaults' \in {busFaults, busFaults + 1} /\ busFaults' <= MaxBusFaults
  BY <1>2, IdentifyAssumption DEF IdentifyInv
<1>4. /\ owner' = c \/ owner' = 0 \/ owner' = owner
      /\ conn' = c \/ conn' = 0
      /\ lost' = lost \cup {c} \/ lost' = lost
      /\ held' \in BOOLEAN
  BY <1>2
<1> HIDE DEF c
<1>5. busFaults \in Nat /\ busFaults' \in Nat /\ busFaults <= busFaults'
  BY <1>3 DEF IdentifyInv
<1>6. 0..(busFaults + 1) \subseteq 0..(busFaults' + 1) /\ 1..(busFaults + 1) \subseteq 1..(busFaults' + 1)
  <2>1. ASSUME NEW n \in Nat, NEW m \in Nat, n <= m PROVE 0..(n + 1) \subseteq 0..(m + 1) /\ 1..(n + 1) \subseteq 1..(m + 1)
    BY <2>1
  <2> QED
    BY <1>5, <2>1
<1>7. c \in 0..(busFaults + 1) /\ 0 \in 0..(busFaults + 1)
  BY <1>1, <1>5
<1>8. /\ owner' \in 0..(busFaults + 1) /\ conn' \in 0..(busFaults + 1)
      /\ lost' \in SUBSET (1..(busFaults + 1))
  BY <1>1, <1>4, <1>7 DEF IdentifyInv
<1> QED
  BY <1>3, <1>4, <1>5, <1>6, <1>8

(* The invariant of identify mode is inductive. *)
LEMMA IdentifyInvKept ==
    ASSUME IdentifyInv, [IdentifyNext]_identifyVars
    PROVE  IdentifyInv'
<1>0. Len(channel) \in Nat
  BY DEF IdentifyInv
<1>1. CASE Toggle
  <2>1. /\ tab /\ tab' = tab /\ clicks < MaxClicks /\ clicks' = clicks + 1 /\ Sync(~identify, TRUE)
        /\ UNCHANGED <<alive, threadSide, daemonSide, lost, busFaults>>
    BY <1>1 DEF Toggle
  <2>2. (~identify) \in BOOLEAN
    OBVIOUS
  <2>3. tab' = TRUE
    BY <2>1 DEF IdentifyInv
  <2>4. /\ identify' \in BOOLEAN /\ identifySent' \in BOOLEAN /\ Noticed'
        /\ channel' \in Seq(BOOLEAN) /\ Len(channel') <= Len(channel) + 1
    BY <2>1, <2>2, <2>3, SyncMessage
  <2>5. clicks' \in Nat /\ clicks' <= MaxClicks /\ Len(channel') <= clicks'
    BY <1>0, <2>1, <2>4, IdentifyAssumption DEF IdentifyInv
  <2> QED
    BY <2>1, <2>3, <2>4, <2>5 DEF IdentifyInv, threadSide, daemonSide
<1>2. CASE SwitchTab
  <2>1. /\ tab' \in BOOLEAN /\ clicks < MaxClicks /\ clicks' = clicks + 1
        /\ UNCHANGED <<alive, identify, identifySent, channel, threadSide, daemonSide, lost, busFaults>>
    BY <1>2 DEF SwitchTab, IdentifyInv
  <2>2. clicks' \in Nat /\ clicks' <= MaxClicks /\ Len(channel) + 1 <= clicks'
    BY <1>0, <2>1, IdentifyAssumption DEF IdentifyInv
  <2> QED
    BY <1>0, <2>1, <2>2 DEF IdentifyInv, threadSide, daemonSide
<1>3. CASE PollOrStatus
  <2>1. /\ ~Noticed /\ Sync(identify, tab) /\ tab' = tab
        /\ UNCHANGED <<alive, tab, clicks, threadSide, daemonSide, lost, busFaults>>
    BY <1>3 DEF PollOrStatus, Noticed
  <2>2. /\ identify' \in BOOLEAN /\ identifySent' \in BOOLEAN /\ Noticed'
        /\ channel' \in Seq(BOOLEAN) /\ Len(channel') <= Len(channel) + 1
    BY <2>1, SyncMessage DEF IdentifyInv
  <2>3. Len(channel') \in Nat /\ Len(channel') <= clicks
    BY <1>0, <2>1, <2>2 DEF IdentifyInv
  <2> QED
    BY <2>1, <2>2, <2>3 DEF IdentifyInv, threadSide, daemonSide
<1>4. CASE Take
  <2>1. /\ channel # <<>> /\ channel' = Tail(channel) /\ wanted' = Head(channel) /\ SetIdentify(Head(channel))
        /\ UNCHANGED <<alive, tab, identify, identifySent, up, clicks>>
    BY <1>4 DEF Take
  <2>2. Head(channel) \in BOOLEAN /\ channel' \in Seq(BOOLEAN) /\ Len(channel') = Len(channel) - 1
    BY <2>1, HeadTailProperties DEF IdentifyInv
  <2>3. /\ busFaults' \in Nat /\ busFaults' <= MaxBusFaults /\ held' \in BOOLEAN
        /\ conn' \in 0..(busFaults' + 1) /\ owner' \in 0..(busFaults' + 1) /\ lost' \in SUBSET (1..(busFaults' + 1))
    BY <2>1, <2>2, SetIdentifyKeeps
  <2>4. Noticed' <=> Noticed
    BY <2>1 DEF Noticed
  <2>5. Len(channel') <= clicks' /\ (~Noticed' => Len(channel') + 1 <= clicks')
    BY <1>0, <2>1, <2>2, <2>4 DEF IdentifyInv
  <2> QED
    BY <2>1, <2>2, <2>3, <2>5 DEF IdentifyInv
<1>5. CASE Renew
  <2>1. SetIdentify(TRUE) /\ UNCHANGED <<alive, tab, identify, identifySent, channel, wanted, up, clicks>>
    BY <1>5 DEF Renew
  <2>2. /\ busFaults' \in Nat /\ busFaults' <= MaxBusFaults /\ held' \in BOOLEAN
        /\ conn' \in 0..(busFaults' + 1) /\ owner' \in 0..(busFaults' + 1) /\ lost' \in SUBSET (1..(busFaults' + 1))
    BY <2>1, SetIdentifyKeeps
  <2>3. Noticed' <=> Noticed
    BY <2>1 DEF Noticed
  <2> QED
    BY <2>1, <2>2, <2>3 DEF IdentifyInv
<1>6. CASE OwnerGone
  <2>1. /\ lost' \in SUBSET (1..(busFaults + 1)) /\ owner' \in 0..(busFaults + 1)
        /\ UNCHANGED <<pageSide, threadSide, up, busFaults>>
    BY <1>6 DEF OwnerGone, IdentifyInv
  <2> QED
    BY <2>1 DEF IdentifyInv, Noticed, pageSide, threadSide
<1>7. CASE SafetyNet
  BY <1>7 DEF SafetyNet, IdentifyInv, Noticed, pageSide, threadSide
<1>8. CASE DaemonStops
  <2>1. /\ busFaults < MaxBusFaults /\ busFaults' = busFaults + 1 /\ up' = FALSE /\ owner' = 0
        /\ UNCHANGED <<pageSide, threadSide, lost>>
    BY <1>8 DEF DaemonStops
  <2>2. /\ busFaults' \in Nat /\ busFaults' <= MaxBusFaults
        /\ conn' \in 0..(busFaults' + 1) /\ owner' \in 0..(busFaults' + 1) /\ lost' \in SUBSET (1..(busFaults' + 1))
    BY <2>1, IdentifyAssumption DEF IdentifyInv, threadSide
  <2> QED
    BY <2>1, <2>2 DEF IdentifyInv, Noticed, pageSide, threadSide
<1>9. CASE DaemonStarts
  BY <1>9 DEF DaemonStarts, IdentifyInv, Noticed, pageSide, threadSide
<1>10. CASE SettingsDies
  <2>1. /\ busFaults < MaxBusFaults /\ busFaults' = busFaults + 1 /\ alive' = FALSE
        /\ lost' = lost \cup ({conn} \ {0}) /\ conn' = 0
        /\ UNCHANGED <<tab, identify, identifySent, channel, clicks, wanted, held, daemonSide>>
    BY <1>10 DEF SettingsDies
  <2>2. /\ busFaults' \in Nat /\ busFaults' <= MaxBusFaults
        /\ conn' \in 0..(busFaults' + 1) /\ owner' \in 0..(busFaults' + 1) /\ lost' \in SUBSET (1..(busFaults' + 1))
    BY <2>1, IdentifyAssumption DEF IdentifyInv, daemonSide
  <2> QED
    BY <2>1, <2>2 DEF IdentifyInv, Noticed, daemonSide
<1>11. CASE UNCHANGED identifyVars
  BY <1>11 DEF identifyVars, IdentifyInv, Noticed
<1> QED
  BY <1>1, <1>2, <1>3, <1>4, <1>5, <1>6, <1>7, <1>8, <1>9, <1>10, <1>11 DEF IdentifyNext

-----------------------------------------------------------------------------
(* The types of the sync center. *)
LEMMA TypeInvGives == ASSUME TypeInv, HistoryOK PROVE SyncTypeOK
<1>1. syncEvents \in 0..MaxEvents
  BY SyncAssumption DEF TypeInv, WindowOK
<1>2. {cancel, queued, raced, forgot, missed, late, gap} \subseteq BOOLEAN
  BY DEF TypeInv, DaemonOK, SignalsOK, HistoryOK
<1>3. \A j \in Jobs : rsyncJob[j].kind \in {"no", "now", "all"}
                      /\ child[j] \in {"no", "running"} \cup Outcomes \cup {"error"}
  BY DEF TypeInv, JobsOK, Record
<1>4. \A p \in Profiles : rows[p].busy \in BOOLEAN /\ rows[p].status \in States
  BY DEF TypeInv, WindowOK
<1> QED
  BY <1>1, <1>2, <1>3, <1>4 DEF TypeInv, JobsOK, DaemonOK, SignalsOK, WindowOK, Snapshot, SyncTypeOK

(* The histories are truth values. *)
LEMMA HistoryInit == SyncInit => HistoryOK
  BY DEF SyncInit, HistoryOK

(* And every step leaves them so. *)
LEMMA HistoryKept ==
    ASSUME HistoryOK, [SyncNext]_syncVars
    PROVE  HistoryOK'
<1>1. ASSUME UNCHANGED historyVars PROVE HistoryOK'
  BY <1>1 DEF historyVars, HistoryOK
<1>2. ASSUME NEW j \in Jobs, NEW kind, NEW at, NEW list, Spawn(j, kind, at, list), UNCHANGED missed PROVE HistoryOK'
  BY <1>2 DEF Spawn, HistoryOK
<1>3. ASSUME NEW c \in Callers, Accept(c) PROVE HistoryOK'
  BY <1>1, <1>2, <1>3 DEF Accept, AcceptNow, AcceptAll, ListAll
<1>4. ASSUME NEW j \in Jobs, Task(j) \/ RsyncExits(j) \/ BuildTick(j) PROVE HistoryOK'
  <2>1. CASE ClearFlag(j)
    BY <2>1 DEF ClearFlag, HistoryOK
  <2>2. CASE SpawnRsync(j)
    BY <2>2 DEF SpawnRsync, HistoryOK
  <2>3. CASE PollRsync(j)
    BY <2>3 DEF PollRsync, HistoryOK
  <2> QED
    BY <1>1, <1>4, <2>1, <2>2, <2>3 DEF Task, QueueHead, ExecuteProfile, RecordResult, TellResult, RsyncExits, BuildTick
<1>5. ASSUME NEW c, NEW kind, NEW p, CheckCall(c, kind, p) PROVE HistoryOK'
  BY <1>1, <1>5 DEF CheckCall
<1>6. CASE CancelFlag
  BY <1>6 DEF CancelFlag, HistoryOK
<1>7. CASE CancelLock \/ CancelKill \/ SendTick
  BY <1>1, <1>7 DEF CancelLock, CancelKill, SendTick
<1>8. CASE UNCHANGED daemonVars
  BY <1>1, <1>8 DEF daemonVars, historyVars
<1>9. CASE ClickAll \/ ClickStop \/ Refresh \/ Subscribe \/ LoseConnection \/ RefetchStatus \/ ApplySignal
  BY <1>5, <1>6, <1>8, <1>9 DEF ClickAll, ClickStop, Refresh, Subscribe, LoseConnection, RefetchStatus, ApplySignal
<1>10. ASSUME NEW p \in Profiles, ClickRow(p) \/ SaveProfile(p) \/ ToggleProfile(p) \/ DeleteProfile(p)
       PROVE  HistoryOK'
  BY <1>1, <1>5, <1>6, <1>8, <1>10 DEF ClickRow, SaveProfile, ToggleProfile, DeleteProfile
<1>11. CASE UNCHANGED syncVars
  BY <1>1, <1>11 DEF syncVars, historyVars
<1> QED
  BY <1>3, <1>4, <1>5, <1>6, <1>7, <1>9, <1>10, <1>11 DEF SyncNext, JobsNext, WindowNext

(* Whichever of the parts a behaviour is of, the sync daemon takes its steps.     *)
LEMMA SyncSteps == ASSUME [Next]_vars PROVE [SyncNext]_syncVars /\ [IdentifyNext]_identifyVars
  BY DEF Next, vars, SyncNext

(* Every state of the two is well typed, the counters and queues are within the *)
(* bounds, and a slot that names a job names one whose process was not waited   *)
(* for yet, however calls race and whoever holds the slot's mutex when it is to *)
(* be set or cleared (SyncTypeOK, IdentifyTypeOK; run_rsync, cancel_sync).      *)
THEOREM ServicesTypeCorrect == Spec => []TypeOK
<1>1. Init => TypeInv /\ HistoryOK /\ IdentifyInv
  BY TypeInvInit, HistoryInit, IdentifyInvInit DEF Init
<1>2. TypeInv /\ HistoryOK /\ IdentifyInv /\ [Next]_vars => (TypeInv /\ HistoryOK /\ IdentifyInv)'
  BY SyncSteps, TypeInvKept, HistoryKept, IdentifyInvKept
<1>3. TypeInv /\ HistoryOK /\ IdentifyInv => TypeOK
  BY TypeInvGives, IdentifyInvGives DEF TypeOK
<1> QED
  BY <1>1, <1>2, <1>3, PTL DEF Spec

(* Whatever signals and reports are lost, late or out of order, a window that   *)
(* has applied its signals shows what the daemon knows (execute_profile,        *)
(* record_result, broadcast_status; the listener of the window), also when two  *)
(* calls race past their checks.                                                *)
THEOREM WindowShowsTheDaemon == Spec => []WindowFollows
<1>1. Init => TypeInv /\ Follows
  BY TypeInvInit, FollowsInit DEF Init
<1>2. TypeInv /\ Follows /\ [Next]_vars => (TypeInv /\ Follows)'
  BY SyncSteps, TypeInvKept, FollowsKept
<1>3. TypeInv /\ Follows => WindowFollows
  BY FollowsGives
<1> QED
  BY <1>1, <1>2, <1>3, PTL DEF Spec

(* A call that acts on a check another call has overtaken, while a job is under *)
(* way, is the only way to two rsyncs at a time or to one that is not of the    *)
(* active profile; the slot names the process unless a CancelSync held its      *)
(* mutex when it was started; and the window shows what the daemon knows        *)
(* (sync_now and sync_all check and act in two steps; nothing else races).      *)
THEOREM OneKnownSync == Spec => []SyncIsKnown
<1>1. Init => TypeInv /\ OneJobKnown /\ Follows
  BY TypeInvInit, OneJobInit, FollowsInit DEF Init, OneJobKnown
<1>2. TypeInv /\ OneJobKnown /\ Follows /\ [Next]_vars => (TypeInv /\ OneJobKnown /\ Follows)'
  BY SyncSteps, TypeInvKept, OneJobKept, FollowsKept
<1>3. TypeInv /\ OneJobKnown /\ Follows => SyncIsKnown
  BY OneJobGivesOneRsync, FollowsGives DEF SyncIsKnown
<1> QED
  BY <1>1, <1>2, <1>3, PTL DEF Spec
=============================================================================
