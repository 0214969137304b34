----------------------------- MODULE RawSession -----------------------------
(***************************************************************************)
(* The daemon's raw input session (control-surface/src/daemon/             *)
(* rawpaddevice.cpp) against the pad's raw mode: heartbeats that keep raw  *)
(* mode alive, snapshots in their answers that restore what was lost, and  *)
(* timeouts on both sides.  The engine behind the daemon appears as the    *)
(* set of slots it was told are down and the detents it was given.         *)
(*                                                                         *)
(* One request at a time is parked in the pad (padcfg.c holds EP2 with NAK *)
(* and the daemon's write() waits).  Reports travel in order through the   *)
(* hidraw ring of the open file.                                           *)
(***************************************************************************)
EXTENDS RawPad, SequencesExt

CONSTANTS
  NoEpoch,    (* m_epoch = -1: the daemon follows no session                 *)
  ChanCap,    (* bound: reports queued in the hidraw ring (64 in Linux)      *)
  MaxLoss,    (* bound: reports and requests lost in one behaviour           *)
  MaxTurned,  (* bound: detents turned in raw mode in one behaviour          *)
  MaxRestarts (* bound: daemon crashes and pad resets in one behaviour       *)

ASSUME SessionAssumption ==
  /\ NoEpoch \notin Nat
  /\ {ChanCap, MaxLoss, MaxTurned, MaxRestarts} \subseteq Nat

VARIABLES
  cmd,        (* the request parked in the pad, or "NONE"                    *)
  chan,       (* reports queued for the daemon's open file                   *)
  linked,     (* the open file belongs to the pad now plugged in             *)
  dstate,     (* closed | opening (its write of GET_INFO waits) | asking     *)
              (* (GET_INFO sent) | running (m_info set)                      *)
  dActive,    (* m_active                                                    *)
  dEpoch,     (* m_epoch                                                     *)
  dSeq,       (* m_lastSeq                                                   *)
  dHeld,      (* m_held                                                      *)
  base,       (* m_detentBase                                                *)
  recv,       (* m_detentRecv                                                *)
  quiet,      (* m_sinceReply.elapsed() in heartbeat intervals               *)
  due,        (* the heartbeat timer has fired and onHeartbeat not yet run   *)
  eng,        (* slots the engine got DOWN for and no UP since               *)
  turned,     (* history: detents turned in raw mode, not wrapped            *)
  seen,       (* history: detents accounted for in the session followed      *)
  synced,     (* history: nothing was lost or dropped since the last answer  *)
  losses, restarts

daemonVars == <<dstate, dActive, dEpoch, dSeq, dHeld, base, recv, quiet, due>>
histVars == <<turned, seen, synced, losses, restarts>>
vars == <<padVars, cmd, chan, linked, daemonVars, eng, histVars>>

ZeroCounts == [d \in Dirs |-> 0]
Requests == {"GET_INFO", "RAW_ON", "RAW_OFF", "GET_KEYS"}

EventMsg ==
  [type : {"EVENT"}, seq : 0..SeqWrap - 1, kind : {"DOWN", "UP"}, slot : Keys]
    \cup
  [type : {"TAP"}, seq : 0..SeqWrap - 1, slot : Dirs, n : 1..MaxTake]
SnapshotMsg ==
  [type : {"RAW_MODE", "GET_KEYS"}, active : BOOLEAN, epoch : 0..EpochWrap - 1,
   seq : 0..SeqWrap - 1, held : SUBSET Keys,
   total : [Dirs -> 0..CountWrap - 1], turned : [Dirs -> 0..MaxTurned]]
Message == EventMsg \cup SnapshotMsg \cup [type : {"GET_INFO", "GONE"}]
(* The answers handleSnapshot is called for.                                 *)
Restores(m) == m.type \in {"RAW_MODE", "GET_KEYS"} /\ m.active

TypeOK ==
  /\ PadTypeOK
  /\ cmd \in Requests \cup {"NONE"}
  /\ chan \in Seq(Message)
  /\ linked \in BOOLEAN
  /\ dstate \in {"closed", "opening", "asking", "running"}
  /\ dActive \in BOOLEAN
  /\ dEpoch \in 0..EpochWrap - 1 \cup {NoEpoch}
  /\ dSeq \in 0..SeqWrap - 1
  /\ dHeld \in SUBSET Keys
  /\ base \in [Dirs -> 0..CountWrap - 1]
  /\ recv \in [Dirs -> 0..CountWrap - 1]
  /\ quiet \in 0..Timeout + 1
  /\ due \in BOOLEAN
  /\ eng \in SUBSET Keys
  /\ turned \in [Dirs -> 0..MaxTurned]
  /\ seen \in [Dirs -> Nat]
  /\ synced \in BOOLEAN
  /\ losses \in 0..MaxLoss
  /\ restarts \in 0..MaxRestarts

Init ==
  /\ PadInit
  /\ cmd = "NONE" /\ chan = <<>> /\ linked = FALSE
  /\ dstate = "closed" /\ dActive = FALSE
  /\ dEpoch = NoEpoch /\ dSeq = 0 /\ dHeld = {}
  /\ base = ZeroCounts /\ recv = ZeroCounts
  /\ quiet = 0 /\ due = FALSE
  /\ eng = {}
  /\ turned = ZeroCounts /\ seen = ZeroCounts
  /\ synced = FALSE /\ losses = 0 /\ restarts = 0

-----------------------------------------------------------------------------
(* The pad's side of the cable.                                              *)

(* A report is queued for the daemon if it has the pad's node open.          *)
Report(msgs) == chan' = IF linked THEN chan \o msgs ELSE chan
HasRoom(n) == linked => Len(chan) + n <= ChanCap

PadKeys(g, t) ==
  /\ ScanKeys(g, t)
  /\ LET sent == RawKeyEvents(g, t) IN
     /\ HasRoom(Len(sent))
     /\ Report([i \in 1..Len(sent) |->
       [type |-> "EVENT", seq |-> (seq + i) % SeqWrap,
        kind |-> sent[i].kind, slot |-> sent[i].slot]])
  /\ UNCHANGED <<cmd, linked, daemonVars, eng, histVars>>

PadTurn(d, n) ==
  /\ TurnRaw(d, n)
  /\ HasRoom(1)
  /\ turned[d] + n <= MaxTurned
  /\ turned' = [turned EXCEPT ![d] = @ + n]
  /\ Report(<<[type |-> "TAP", seq |-> seq', slot |-> d, n |-> n]>>)
  /\ UNCHANGED <<cmd, linked, daemonVars, eng, seen, synced, losses, restarts>>

(* Mutant: the answer lists the keys that are down instead of rawHeld.       *)
SnapshotOfKeys(type) ==
  [type |-> type, active |-> left' > 0, epoch |-> epoch', seq |-> seq',
   held |-> PadDown', total |-> total', turned |-> turned]

SnapshotOf(type) ==
  [type |-> type, active |-> left' > 0, epoch |-> epoch', seq |-> seq',
   held |-> rawHeld', total |-> total', turned |-> turned]

(* PADCFG_task: the parked request is handled and answered.                  *)
PadAnswer ==
  /\ \/ cmd = "GET_INFO" /\ UNCHANGED <<padVars, synced>>
        /\ Report(<<[type |-> "GET_INFO"]>>)
     \/ cmd = "RAW_ON" /\ SetRawOn /\ Report(<<SnapshotOf("RAW_MODE")>>)
        /\ synced' = linked
     \/ cmd = "RAW_OFF" /\ SetRawOff /\ Report(<<SnapshotOf("RAW_MODE")>>)
        /\ synced' = linked
     \/ cmd = "GET_KEYS" /\ UNCHANGED padVars /\ Report(<<SnapshotOf("GET_KEYS")>>)
        /\ synced' = (synced \/ (linked /\ PadActive))
  /\ cmd' = "NONE"
  /\ UNCHANGED <<linked, daemonVars, eng, turned, seen, losses, restarts>>

(* One heartbeat interval passes for both sides.                             *)
Tick ==
  /\ TickRaw
  /\ quiet' = IF dstate # "running" \/ quiet > Timeout THEN quiet ELSE quiet + 1
  /\ due' = (dstate = "running")
  /\ synced' = (synced /\ rawHeld' = rawHeld)
  /\ UNCHANGED <<cmd, chan, linked, dstate, dActive, dEpoch, dSeq, dHeld, base,
                 recv, eng, turned, seen, losses, restarts>>

(* A report does not reach the daemon: the ring was full, or a USB error.    *)
LoseReport ==
  /\ losses < MaxLoss
  /\ \E i \in 1..Len(chan) :
       /\ chan[i].type # "GONE"
       /\ chan' = RemoveAt(chan, i)
       /\ synced' = (synced /\ \E j \in i + 1..Len(chan) : Restores(chan[j]))
  /\ losses' = losses + 1
  /\ UNCHANGED <<padVars, cmd, linked, daemonVars, eng, turned, seen, restarts>>

(* The daemon's write fails: send() ignores the error.                       *)
LoseRequest ==
  /\ losses < MaxLoss
  /\ cmd # "NONE"
  /\ cmd' = "NONE"
  /\ losses' = losses + 1
  /\ UNCHANGED <<padVars, chan, linked, daemonVars, eng, turned, seen, synced, restarts>>

(* The pad is unplugged and plugged in again.  What the old node queued can  *)
(* still be read; then its reads fail.                                       *)
Replug ==
  /\ restarts < MaxRestarts
  /\ restarts' = restarts + 1
  /\ ResetPad
  /\ cmd' = "NONE"
  /\ linked' = FALSE
  /\ chan' = IF linked THEN Append(chan, [type |-> "GONE"]) ELSE chan
  /\ synced' = FALSE
  /\ UNCHANGED <<daemonVars, eng, turned, seen, losses>>

-----------------------------------------------------------------------------
(* The daemon's side.                                                        *)

(* send(): the write waits until the pad has taken the request before it.    *)
SendRequest(c) == IF linked THEN cmd = "NONE" /\ cmd' = c ELSE UNCHANGED cmd

(* close(): releaseHeld(), then the file and the timers go.  The fields the  *)
(* next startOnFd or first snapshot sets anew are forgotten here already.    *)
Forget ==
  /\ dEpoch' = NoEpoch
  /\ dSeq' = 0
  /\ dHeld' = {}
  /\ base' = ZeroCounts
  /\ recv' = ZeroCounts
  /\ quiet' = 0
  /\ due' = FALSE
  /\ dActive' = FALSE
  /\ chan' = <<>>
  /\ linked' = FALSE
  /\ synced' = FALSE
  /\ seen' = ZeroCounts

(* Mutant: close() without releaseHeld().                                    *)
CloseDeviceHolding ==
  /\ UNCHANGED eng
  /\ dstate' = "closed"
  /\ Forget

CloseDevice ==
  /\ eng' = eng \ dHeld
  /\ dstate' = "closed"
  /\ Forget

(* start(): a fresh file, nothing known, GET_INFO asked.                     *)
Start ==
  /\ dstate = "closed"
  /\ dstate' = "opening"
  /\ linked' = TRUE
  /\ chan' = <<>>
  /\ UNCHANGED <<padVars, cmd, dActive, dEpoch, dSeq, dHeld, base, recv, quiet,
                 due, eng, histVars>>

(* Mutant: startOnFd keeps the m_info of the session before.                 *)
AskInfoKeepsInfo ==
  /\ dstate = "opening"
  /\ dstate' = "running"
  /\ SendRequest("GET_INFO")
  /\ UNCHANGED <<padVars, chan, linked, dActive, dEpoch, dSeq, dHeld, base, recv,
                 quiet, due, eng, histVars>>

AskInfo ==
  /\ dstate = "opening"
  /\ dstate' = "asking"
  /\ SendRequest("GET_INFO")
  /\ UNCHANGED <<padVars, chan, linked, dActive, dEpoch, dSeq, dHeld, base, recv,
                 quiet, due, eng, histVars>>

(* stop(), or setLayout() with a layout that does not fit the firmware.      *)
Stop ==
  /\ dstate \in {"asking", "running"}
  /\ IF dActive THEN SendRequest("RAW_OFF") ELSE UNCHANGED cmd
  /\ CloseDevice
  /\ UNCHANGED <<padVars, turned, losses, restarts>>

(* m_infoTimer: no answer to GET_INFO.                                       *)
InfoTimeout ==
  /\ dstate = "asking"
  /\ CloseDevice
  /\ UNCHANGED <<padVars, cmd, turned, losses, restarts>>

(* The daemon dies and its engine with it; the pad is not told.              *)
Crash ==
  /\ restarts < MaxRestarts
  /\ restarts' = restarts + 1
  /\ dstate # "closed"
  /\ dstate' = "closed"
  /\ eng' = {}
  /\ Forget
  /\ UNCHANGED <<padVars, cmd, turned, losses>>

(* onHeartbeat.  When the pad has been silent past its own timeout, what it  *)
(* held is released and the next answer starts a new session.                *)
GivesUp == quiet > Timeout /\ dActive

Heartbeat ==
  /\ dstate = "running" /\ due
  /\ HasRoom(1)
  /\ due' = FALSE
  /\ IF GivesUp
     THEN /\ eng' = eng \ dHeld
          /\ dHeld' = {}
          /\ dEpoch' = NoEpoch
          /\ dActive' = FALSE
          /\ synced' = FALSE
     ELSE UNCHANGED <<eng, dHeld, dEpoch, dActive, synced>>
  /\ SendRequest("RAW_ON")
  /\ UNCHANGED <<padVars, chan, linked, dstate, dSeq, base, recv, quiet,
                 turned, seen, losses, restarts>>

(* Mutant: the totals are compared without the session's base.               *)
MissingNoBase(m, d) == (m.total[d] - recv[d]) % CountWrap

Missing(m, d) == (m.total[d] - base[d] - recv[d]) % CountWrap
Half == CountWrap \div 2

(* Mutant: an answer restores DOWN and detents, never UP.                    *)
TakeSnapshotNoUps(m) ==
  /\ quiet' = 0
  /\ dSeq' = m.seq
  /\ dHeld' = dHeld \cup m.held
  /\ eng' = eng \cup (m.held \ dHeld)
  /\ dEpoch' = m.epoch
  /\ UNCHANGED <<base, recv, seen>>

(* handleSnapshot: adopt a new session as it is, or restore in the same one. *)
TakeSnapshot(m) ==
  /\ quiet' = 0
  /\ dSeq' = m.seq
  /\ dHeld' = m.held
  /\ IF m.epoch # dEpoch
     THEN /\ eng' = IF dEpoch = NoEpoch THEN eng ELSE eng \ dHeld
          /\ dEpoch' = m.epoch
          /\ base' = m.total
          /\ recv' = ZeroCounts
          /\ seen' = m.turned
     ELSE /\ eng' = (eng \cup (m.held \ dHeld)) \ (dHeld \ m.held)
          /\ UNCHANGED dEpoch
          /\ base' = [d \in Dirs |-> IF Missing(m, d) >= Half
                                     THEN m.total[d] ELSE base[d]]
          /\ recv' = [d \in Dirs |-> IF Missing(m, d) >= Half THEN 0
                                     ELSE (recv[d] + Missing(m, d)) % CountWrap]
          /\ seen' = [d \in Dirs |-> IF Missing(m, d) >= Half THEN m.turned[d]
                                     ELSE seen[d] + Missing(m, d)]

(* handleReport: the next report from the file, by what it is.               *)
ReadInfo(m) ==
  /\ m.type = "GET_INFO" /\ dstate = "asking"
  /\ chan' = Tail(chan)
  /\ dstate' = "running"
  /\ quiet' = 0
  /\ due' = FALSE
  /\ SendRequest("RAW_ON")
  /\ synced' = FALSE
  /\ UNCHANGED <<linked, dActive, dEpoch, dSeq, dHeld, base, recv, eng, seen>>

(* An answer that is not this protocol, not reliable raw mode or another     *)
(* layout: the daemon stays on evdev.                                        *)
RefuseInfo(m) ==
  /\ m.type = "GET_INFO" /\ dstate = "asking"
  /\ CloseDevice
  /\ UNCHANGED cmd

ReadRawMode(m) ==
  /\ m.type = "RAW_MODE" /\ dstate = "running" /\ m.active
  /\ chan' = Tail(chan)
  /\ TakeSnapshot(m)
  /\ dActive' = TRUE
  /\ UNCHANGED <<cmd, linked, dstate, due, synced>>

(* The pad answered without entering raw mode.                               *)
ReadRefusal(m) ==
  /\ m.type = "RAW_MODE" /\ dstate = "running" /\ ~m.active
  /\ CloseDevice
  /\ UNCHANGED cmd

ReadKeys(m) ==
  /\ m.type = "GET_KEYS" /\ dstate = "running" /\ m.active
  /\ chan' = Tail(chan)
  /\ TakeSnapshot(m)
  /\ UNCHANGED <<cmd, linked, dstate, dActive, due, synced>>

(* DOWN and UP are passed on as they come; a gap in the sequence numbers     *)
(* asks the pad what is down.                                                *)
IsGap(m) == dEpoch # NoEpoch /\ (dSeq + 1) % SeqWrap # m.seq

ReadKeyEvent(m) ==
  /\ m.type = "EVENT" /\ dstate = "running"
  /\ chan' = Tail(chan)
  /\ IF IsGap(m) THEN SendRequest("GET_KEYS") ELSE UNCHANGED cmd
  /\ dSeq' = m.seq
  /\ IF m.kind = "DOWN"
     THEN dHeld' = dHeld \cup {m.slot} /\ eng' = eng \cup {m.slot}
     ELSE dHeld' = dHeld \ {m.slot} /\ eng' = eng \ {m.slot}
  /\ UNCHANGED <<linked, dstate, dActive, dEpoch, base, recv, quiet, due, seen, synced>>

(* Mutant: a report's detents are not counted as received.                   *)
ReadTapUncounted(m) ==
  /\ m.type = "TAP" /\ dstate = "running"
  /\ chan' = Tail(chan)
  /\ IF IsGap(m) THEN SendRequest("GET_KEYS") ELSE UNCHANGED cmd
  /\ dSeq' = m.seq
  /\ seen' = IF dEpoch = NoEpoch THEN seen ELSE [seen EXCEPT ![m.slot] = @ + m.n]
  /\ UNCHANGED <<linked, dstate, dActive, dEpoch, dHeld, base, recv, quiet, due, eng,
                 synced>>

ReadTap(m) ==
  /\ m.type = "TAP" /\ dstate = "running"
  /\ chan' = Tail(chan)
  /\ IF IsGap(m) THEN SendRequest("GET_KEYS") ELSE UNCHANGED cmd
  /\ dSeq' = m.seq
  /\ recv' = [recv EXCEPT ![m.slot] = (@ + m.n) % CountWrap]
  /\ seen' = IF dEpoch = NoEpoch THEN seen ELSE [seen EXCEPT ![m.slot] = @ + m.n]
  /\ UNCHANGED <<linked, dstate, dActive, dEpoch, dHeld, base, quiet, due, eng, synced>>

(* The read fails: the pad is gone.                                          *)
ReadGone(m) ==
  /\ m.type = "GONE"
  /\ CloseDevice
  /\ UNCHANGED cmd

(* Everything handleReport returns from without a change.                    *)
Skips(m) ==
  \/ dstate = "asking" /\ m.type \notin {"GET_INFO", "GONE"}
  \/ dstate = "running" /\ m.type = "GET_INFO"
  \/ dstate = "running" /\ m.type = "GET_KEYS" /\ ~m.active

ReadSkipped(m) ==
  /\ Skips(m)
  /\ chan' = Tail(chan)
  /\ UNCHANGED <<cmd, linked, daemonVars, eng, seen, synced>>

ReadReport ==
  /\ dstate \in {"asking", "running"}
  /\ chan # <<>>
  /\ LET m == Head(chan) IN
       \/ ReadInfo(m)
       \/ RefuseInfo(m)
       \/ ReadRawMode(m)
       \/ ReadRefusal(m)
       \/ ReadKeys(m)
       \/ ReadKeyEvent(m)
       \/ ReadTap(m)
       \/ ReadGone(m)
       \/ ReadSkipped(m)
  /\ UNCHANGED <<padVars, turned, losses, restarts>>

Next ==
  \/ \E g \in GpioLevels, t \in TmKeys \cup {NoKey} : PadKeys(g, t)
  \/ \E d \in Dirs, n \in 1..MaxTake : PadTurn(d, n)
  \/ PadAnswer
  \/ Tick
  \/ LoseReport
  \/ LoseRequest
  \/ Replug
  \/ Start
  \/ AskInfo
  \/ Stop
  \/ InfoTimeout
  \/ Crash
  \/ Heartbeat
  \/ ReadReport

Spec == Init /\ [][Next]_vars

(* The pad's main loop and the daemon's event loop keep running, time passes. *)
(* Nothing forces the user to act, and nothing forces losses or restarts.     *)
FairSpec == /\ Spec
            /\ WF_vars(PadAnswer)
            /\ WF_vars(Tick)
            /\ WF_vars(AskInfo)
            /\ WF_vars(Heartbeat)
            /\ WF_vars(ReadReport)

-----------------------------------------------------------------------------
(* What the daemon will make of slot k once it has read the reports s: what  *)
(* the last one about k says, or what it holds already if none is.           *)
About(m, k) == Restores(m) \/ (m.type = "EVENT" /\ m.slot = k)
Says(m, k) == IF m.type = "EVENT" THEN m.kind = "DOWN" ELSE k \in m.held

EndsDown(s, h, k) ==
  \/ \E i \in 1..Len(s) :
       About(s[i], k) /\ Says(s[i], k) /\ \A j \in i + 1..Len(s) : ~About(s[j], k)
  \/ k \in h /\ \A i \in 1..Len(s) : ~About(s[i], k)

(* Unless an event was lost, or raw mode ended, since the pad's last answer, *)
(* the daemon's view after its queue is the pad's view: one answer repairs   *)
(* whatever losses, expiries and restarts came before (handleSnapshot and    *)
(* snapshot() of padstore.c).                                                *)
AnswersRestoreHeld ==
  dstate = "running" /\ synced =>
    \A k \in Keys : EndsDown(chan, dHeld, k) <=> k \in rawHeld

(* The daemon never takes the answer to its own stop request, sent on an     *)
(* earlier file, for the firmware refusing raw mode (m_info.reset() in       *)
(* startOnFd; the refusal test in handleReport).                             *)
NoSelfRefusal ==
  dstate = "running" =>
    \A i \in 1..Len(chan) : chan[i].type = "RAW_MODE" => chan[i].active

(* A slot the engine holds down is one the daemon still tracks, so that the  *)
(* end of the session, a lost UP or close() will bring it up (the comment on *)
(* m_held in rawpaddevice.h).                                                *)
EngineDownIsTracked == eng \subseteq dHeld

(* Only reports read outside any session can leave a slot down that nothing  *)
(* tracks: while a session is followed, releases, restored events and its    *)
(* end cover everything the engine was told.                                 *)
OnlyUnfollowedReportsStrand ==
  [][dEpoch # NoEpoch => (eng' \ dHeld') \subseteq (eng \ dHeld)]_vars

(* A key the user let go of does not stay in the daemon's view: an UP that   *)
(* was lost is restored by a later answer or by the end of the session.      *)
ReleasedKeyComesUp ==
  \A k \in Keys : (k \in dHeld /\ k \notin PadDown) ~> (k \notin dHeld \/ k \in PadDown)

(* Detents in the reports of s, added up to each of them.                    *)
SumUpTo(f, n) == LET sum[i \in 0..n] == IF i = 0 THEN 0 ELSE sum[i - 1] + f[i] IN sum
TapOf(m, d) == IF m.type = "TAP" /\ m.slot = d THEN m.n ELSE 0
Tapped(s, d) == SumUpTo([i \in 1..Len(s) |-> TapOf(s[i], d)], Len(s))

(* Detents queued for the daemon.                                            *)
Queued(d) == Tapped(chan, d)[Len(chan)]

(* The engine never gets a detent twice: not from a report that arrives      *)
(* after a snapshot restored it, nor from totals that wrapped (m_detentBase  *)
(* and m_detentRecv).                                                        *)
NoDetentTwice ==
  dstate = "running" /\ dEpoch # NoEpoch =>
    \A d \in Dirs : seen[d] + Queued(d) <= turned[d]

(* A snapshot of the session followed accounts for every detent turned       *)
(* before it, provided fewer than half the counter's range went missing.     *)
AnswerRestoresDetents ==
  (ReadReport /\ dstate = "running" /\ Restores(Head(chan)) /\ dEpoch = Head(chan).epoch)
    => \A d \in Dirs :
         Head(chan).turned[d] - seen[d] < Half => seen'[d] = Head(chan).turned[d]
=============================================================================
