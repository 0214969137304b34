--------------------------- MODULE KdenliveControl ---------------------------
(***************************************************************************)
(* Knobs that control Kdenlive: the engine's gestures and navigation       *)
(* (control-surface/src/daemon/engine.cpp), the coalescer that merges      *)
(* detents per key (coalescer.cpp), the client that matches acks           *)
(* (kdenlivedbusclient.cpp) and the host, as the mock of the repository    *)
(* implements its contract (src/mock/mockkdenlive.cpp).                    *)
(*                                                                         *)
(* One lease is held throughout.  D-Bus keeps the order of each direction. *)
(* Contexts that change neither the epoch nor the position are left out,   *)
(* an editing binding always has its target, and the only refusal is       *)
(* stale_context.                                                          *)
(***************************************************************************)
EXTENDS Integers, Sequences, FiniteSets, SequencesExt

CONSTANTS
  Bindings,    (* bindings of editing controls: slot and options             *)
  Stepped,     (* those of edit.trim and edit.nudge: Kdenlive keeps each step *)
  FrameBound,  (* those that edit a key at a captured frame (liveGrading off) *)
  Navs,        (* keys of navigation controls, which change the epoch        *)
  Jogs,        (* keys of controls that move the playhead                    *)
  Deltas,      (* detents of one turn: 1 and -1                              *)
  NoSlot,      (* the coalescer has no slot for a key                        *)
  MaxKeys,     (* 64 in the code: limit of live slots                        *)
  TrimSteps,   (* 128 in the code: limits.trimGestureSteps                   *)
  Rules,       (* an automatic mode rule may match a context                 *)
  MaxTurns,    (* bound: turns of the user                                   *)
  MaxGestures, (* bound: gestures opened                                     *)
  MaxEpoch,    (* bound: epochs of the host                                  *)
  MaxPos       (* bound: positions of the playhead                           *)

Ids == 1..MaxGestures
Controls == Navs \cup Jogs
Keys == Ids \cup Controls

ASSUME ControlAssumption ==
  /\ Navs \cap Jogs = {} /\ Controls \cap Nat = {} /\ IsFiniteSet(Controls)
  /\ Deltas \subseteq Int
  /\ NoSlot \notin [n : Int, merged : BOOLEAN, inFlight : BOOLEAN, clock : 0..2]
  /\ MaxKeys \in Nat \ {0} /\ TrimSteps \in Nat \ {0, 1}
  /\ Stepped \subseteq Bindings /\ FrameBound \subseteq Bindings /\ Rules \in BOOLEAN
  /\ {MaxTurns, MaxGestures, MaxPos} \subseteq Nat /\ MaxEpoch \in Nat \ {0}

VARIABLES
  client,   (* the daemon: see ClientState                                   *)
  host,     (* Kdenlive: see HostState                                       *)
  toHost,   (* Control calls on their way                                    *)
  toClient, (* acks and contexts on their way                                *)
  turns

vars == <<client, host, toHost, toClient, turns>>

None == 0   (* no epoch, no sequence number, no gesture                      *)

(* A coalescer slot.  clock is the time since its last flush: less than the  *)
(* minimum interval (8 ms), less than the ack timeout (60 ms), or more.      *)
Slot == [n : Int, merged : BOOLEAN, inFlight : BOOLEAN, clock : 0..2]
EmptySlot == [n |-> 0, merged |-> FALSE, inFlight |-> FALSE, clock |-> 2]

(* A gesture, by the number in its id.  It is live while m_gestures has it.  *)
(* batches are counted where they are read: for the stepped bindings.        *)
(* turned is history: detents the coalescer took for it.                     *)
Gesture == [binding : Bindings, epoch : 1..MaxEpoch, pos : 0..MaxPos, batches : Nat,
            turned : Int, fate : {"live", "ended", "forgotten"}]

(* A message of m_sent; young is history: neither answered nor timed out nor *)
(* dropped.                                                                  *)
Sent == [seq : Nat, key : Keys, young : BOOLEAN]

Call == [seq : Nat, key : Keys, n : Int, phase : {"update", "end"}, epoch : 1..MaxEpoch]
Ack == [type : {"ACK"}, seq : Nat, ok : BOOLEAN, changed : BOOLEAN]
Context == [type : {"CONTEXT"}, epoch : 1..MaxEpoch, pos : 0..MaxPos]

ClientState ==
  [epoch : 1..MaxEpoch,                (* m_epoch                            *)
   pos : 0..MaxPos,                    (* position in m_context              *)
   slots : [Keys -> Slot \cup {NoSlot}],
   gestures : Seq(Gesture),            (* m_gestures and those of the past   *)
   navInFlight : [Navs -> 0..MaxEpoch],
   navAwaiting : SUBSET Navs,          (* m_navAwaitingEpoch                 *)
   sent : SUBSET Sent,                 (* m_sent                             *)
   latest : [Keys -> Nat],             (* m_latestForKey                     *)
   seq : Nat,                          (* m_seq                              *)
   out : {<<>>}]                       (* calls of the running handler       *)

HostState ==
  [epoch : 1..MaxEpoch,
   pos : 0..MaxPos,
   pending : Seq(Call),                (* m_pending in m_pendingOrder        *)
   open : Ids \cup {None},             (* m_gestures: at most one            *)
   due : BOOLEAN,                      (* a context is to be emitted         *)
   applied : [Ids -> Int],             (* history: detents applied           *)
   cut : SUBSET [gesture : Ids, by : Keys],
                                       (* history: gestures ended because    *)
                                       (* another control was applied        *)
   out : {<<>>}]

Init ==
  /\ client = [epoch |-> 1, pos |-> 0, slots |-> [k \in Keys |-> NoSlot],
               gestures |-> <<>>, navInFlight |-> [k \in Navs |-> None],
               navAwaiting |-> {}, sent |-> {}, latest |-> [k \in Keys |-> None],
               seq |-> 0, out |-> <<>>]
  /\ host = [epoch |-> 1, pos |-> 0, pending |-> <<>>, open |-> None, due |-> FALSE,
             applied |-> [g \in Ids |-> 0], cut |-> {}, out |-> <<>>]
  /\ toHost = <<>> /\ toClient = <<>>
  /\ turns = 0

-----------------------------------------------------------------------------
(* The daemon.  Operators on its state c; calls it makes go to c.out.        *)
Live(c) == {g \in 1..Len(c.gestures) : c.gestures[g].fate = "live"}
Slots(c) == {k \in Keys : c.slots[k] # NoSlot}
SetFate(c, ids, fate) ==
  [c EXCEPT !.gestures = [g \in 1..Len(c.gestures) |->
    IF g \in ids THEN [c.gestures[g] EXCEPT !.fate = fate] ELSE c.gestures[g]]]

TypeOK ==
  /\ client \in ClientState
  /\ Len(client.gestures) <= MaxGestures /\ Cardinality(Slots(client)) <= MaxKeys
  /\ host \in HostState
  /\ toHost \in Seq(Call)
  /\ toClient \in Seq(Ack \cup Context)
  /\ turns \in 0..MaxTurns

Steps(b) == IF b \in Stepped THEN 1 ELSE 0

(* KdenliveDBusClient::control, and what Engine::onFlush does after it, for  *)
(* each of some keys, the one after the other.                               *)
Control(c, ks, n, phase) ==
  LET order == SetToSeq(ks)
      place == [k \in ks |-> CHOOSE i \in 1..Len(order) : order[i] = k]
      calls == [i \in 1..Len(order) |->
                 [seq |-> c.seq + i, key |-> order[i], n |-> n[order[i]], phase |-> phase,
                  epoch |-> c.epoch]]
      new == {[seq |-> c.seq + place[k], key |-> k, young |-> phase = "update"] : k \in ks}
  IN [c EXCEPT
       !.seq = @ + Len(order),
       !.sent = @ \cup new,
       !.latest = [k \in Keys |-> IF k \in ks THEN c.seq + place[k] ELSE c.latest[k]],
       !.out = @ \o calls,
       !.navInFlight = [k \in Navs |-> IF k \in ks THEN c.epoch ELSE c.navInFlight[k]],
       !.gestures = [g \in 1..Len(c.gestures) |->
         IF g \in ks /\ g \in Live(c)
         THEN [c.gestures[g] EXCEPT !.batches = @ + Steps(c.gestures[g].binding)]
         ELSE c.gestures[g]]]

(* DeltaCoalescer::removeSlot                                                *)
RemoveSlots(c, ks) ==
  [c EXCEPT !.slots = [k \in Keys |-> IF k \in ks THEN NoSlot ELSE c.slots[k]],
            !.sent = {[s EXCEPT !.young = s.young /\ s.key \notin ks] : s \in c.sent}]

(* DeltaCoalescer::tryFlush, unless an end is requested.                     *)
(* Mutant: no ack timeout.                                                   *)
BlockedForGood(s) == s.clock = 0 \/ s.inFlight

Blocked(s) == s.clock = 0 \/ (s.inFlight /\ s.clock < 2)
Waiting(c, k) == c.slots[k] # NoSlot /\ c.slots[k].merged

TryFlush(c, ks) ==
  LET ready == {k \in ks : Waiting(c, k) /\ ~Blocked(c.slots[k])}
      full == {k \in ready : c.slots[k].n # 0}
      flushed(k) ==
        IF k \in full THEN [n |-> 0, merged |-> FALSE, inFlight |-> TRUE, clock |-> 0]
        ELSE [c.slots[k] EXCEPT !.merged = FALSE, !.inFlight = FALSE]
  IN Control([c EXCEPT !.slots = [k \in Keys |-> IF k \in ready THEN flushed(k) ELSE c.slots[k]]],
             full, [k \in full |-> c.slots[k].n], "update")

(* DeltaCoalescer::add: a new key over the limit is refused.                 *)
(* Mutant: one slot too many.                                                *)
TakesOneMore(c, k) == c.slots[k] # NoSlot \/ Cardinality(Slots(c)) <= MaxKeys

Takes(c, k) == c.slots[k] # NoSlot \/ Cardinality(Slots(c)) < MaxKeys
Add(c, k, n) ==
  IF ~Takes(c, k) THEN c
  ELSE LET s == IF c.slots[k] = NoSlot THEN EmptySlot ELSE c.slots[k] IN
       TryFlush([c EXCEPT !.slots[k] = [s EXCEPT !.n = s.n + n, !.merged = TRUE]], {k})

(* DeltaCoalescer::ack, for each of some keys.                               *)
AckSlots(c, ks) ==
  TryFlush([c EXCEPT !.slots = [k \in Keys |->
             IF k \in ks /\ c.slots[k] # NoSlot THEN [c.slots[k] EXCEPT !.inFlight = FALSE]
             ELSE c.slots[k]]], ks)

(* Mutant: what was not sent yet is dropped.                                 *)
EndGesturesDropping(c, gs) ==
  LET sending == {g \in gs : c.slots[g] # NoSlot}
  IN Control(SetFate(RemoveSlots(c, sending), gs, "ended"), sending,
             [g \in sending |-> 0], "end")

(* Engine::endGesture: the end takes what was not sent yet with it.          *)
EndGestures(c, gs) ==
  LET sending == {g \in gs : c.slots[g] # NoSlot}
  IN Control(SetFate(RemoveSlots(c, sending), gs, "ended"), sending,
             [g \in sending |-> c.slots[g].n], "end")
EndAllGestures(c) == EndGestures(c, Live(c))

(* Engine::releaseNavigation and dropPendingWork                             *)
ReleaseNavigation(c) == AckSlots([c EXCEPT !.navAwaiting = {}], c.navAwaiting)
DropPendingWork(c) ==
  [SetFate(RemoveSlots(c, Keys), Live(c), "forgotten") EXCEPT
     !.navInFlight = [k \in Navs |-> None], !.navAwaiting = {}]

-----------------------------------------------------------------------------
(* The user.                                                                 *)
Daemon(c) ==
  /\ client' = [c EXCEPT !.out = <<>>]
  /\ toHost' = toHost \o c.out

(* Mutant: the gesture of another binding is left open.                      *)
NewGestureBeside(c, b) ==
  [c EXCEPT !.gestures = Append(@,
     [binding |-> b, epoch |-> c.epoch, pos |-> c.pos, batches |-> 0, turned |-> 0,
      fate |-> "live"])]

NewGesture(c, b) ==
  LET ended == EndAllGestures(c)
  IN [ended EXCEPT !.gestures = Append(@,
       [binding |-> b, epoch |-> c.epoch, pos |-> c.pos, batches |-> 0, turned |-> 0,
        fate |-> "live"])]

(* Engine::executeControl, an editing binding.  A turn after the gesture was *)
(* idle is EndIdle and then this.                                            *)
Current(c, b) == {g \in Live(c) : c.gestures[g].binding = b}
(* Mutant: the end's own step is not counted.                                *)
WornLate(c, g) ==
  c.gestures[g].epoch # c.epoch \/ c.gestures[g].batches >= TrimSteps

Worn(c, g) ==
  c.gestures[g].epoch # c.epoch \/ c.gestures[g].batches >= TrimSteps - 1

Turn(b, n) ==
  /\ turns < MaxTurns /\ turns' = turns + 1
  /\ LET worn == {g \in Current(client, b) : Worn(client, g)}
         kept == EndGestures(client, worn)
         c == IF Current(kept, b) = {} THEN NewGesture(kept, b) ELSE kept
     IN /\ Len(c.gestures) <= MaxGestures
        /\ \E g \in Current(c, b) :
             Daemon(Add(IF Takes(c, g) THEN [c EXCEPT !.gestures[g].turned = @ + n] ELSE c,
                        g, n))
  /\ UNCHANGED <<host, toClient>>

(* Engine::executeControl, any other control.                                *)
TurnControl(k, n) ==
  /\ turns < MaxTurns /\ turns' = turns + 1
  /\ Daemon(Add(EndAllGestures(client), k, n))
  /\ UNCHANGED <<host, toClient>>

(* Engine::checkIdleGestures                                                 *)
EndIdle(g) ==
  /\ g \in Live(client)
  /\ Daemon(EndGestures(client, {g}))
  /\ UNCHANGED <<host, toClient, turns>>

(* Time passes for a slot, and the timer tryFlush has armed for it fires.    *)
Elapse(k) ==
  /\ k \in Slots(client) /\ client.slots[k].clock < 2
  /\ client' = [client EXCEPT
       !.slots[k].clock = @ + 1,
       !.sent = {[s EXCEPT !.young = s.young /\ (s.key # k \/ client.slots[k].clock = 0)]
                   : s \in client.sent}]
  /\ UNCHANGED <<host, toHost, toClient, turns>>

FlushTimer(k) ==
  /\ Waiting(client, k) /\ ~Blocked(client.slots[k])
  /\ Daemon(TryFlush(client, {k}))
  /\ UNCHANGED <<host, toClient, turns>>

(* m_navTimer: the new epoch did not come within 250 ms.                     *)
NavFallback ==
  /\ client.navAwaiting # {}
  /\ Daemon(ReleaseNavigation(client))
  /\ UNCHANGED <<host, toClient, turns>>

-----------------------------------------------------------------------------
(* What the daemon makes of an ack or a context.                             *)
Settled(c, s) == [c EXCEPT !.sent = {x \in @ : x.key # s.key \/ x.seq > s.seq}]

(* Engine, controlAcked: a change waits for the epoch it started.            *)
Acked(c, k, m) ==
  LET clear == IF k \in Navs THEN [c EXCEPT !.navInFlight[k] = None] ELSE c
  IN IF k \in Navs /\ m.ok /\ m.changed /\ c.navInFlight[k] = c.epoch
     THEN [clear EXCEPT !.navAwaiting = @ \cup {k}]
     ELSE AckSlots(clear, {k})

(* Mutant: any ack of a key releases it.                                     *)
OnControlAckAny(c, m, s) ==
  LET settled == Settled(c, s)
      heard == IF m.ok THEN settled ELSE DropPendingWork(settled)
  IN Acked(heard, s.key, m)

(* KdenliveDBusClient::onControlAck                                          *)
OnControlAck(c, m, s) ==
  LET settled == Settled(c, s)
      heard == IF m.ok THEN settled ELSE DropPendingWork(settled)
  IN IF c.latest[s.key] # m.seq THEN heard
     ELSE Acked([heard EXCEPT !.latest[s.key] = None], s.key, m)

ReadAck ==
  /\ toClient # <<>> /\ Head(toClient).type = "ACK"
  /\ toClient' = Tail(toClient)
  /\ \/ \E s \in client.sent :
          /\ s.seq = Head(toClient).seq
          /\ Daemon(OnControlAck(client, Head(toClient), s))
     \/ /\ \A s \in client.sent : s.seq # Head(toClient).seq
        /\ UNCHANGED <<client, toHost>>
  /\ UNCHANGED <<host, turns>>

(* Engine, contextChanged: a seek ended gestures that edit a captured frame; *)
(* applyAutoModes ends all gestures when a rule changed a mode.              *)
ContextChanged(c, rule) ==
  LET moved == {g \in Live(c) : c.gestures[g].binding \in FrameBound /\ c.gestures[g].pos # c.pos}
      forgot == SetFate(RemoveSlots(c, moved), moved, "forgotten")
  IN IF rule THEN EndAllGestures(forgot) ELSE forgot

(* Mutant: the slots stay.                                                   *)
EpochChangedKeepsSlots(c) ==
  ReleaseNavigation([SetFate(c, Live(c), "forgotten")
                       EXCEPT !.navInFlight = [k \in Navs |-> None]])

(* Engine, epochChanged                                                      *)
EpochChanged(c) ==
  ReleaseNavigation([SetFate(RemoveSlots(c, Keys \ c.navAwaiting), Live(c), "forgotten")
                       EXCEPT !.navInFlight = [k \in Navs |-> None]])

(* KdenliveDBusClient::applyContext                                          *)
ApplyContext(c, m, rule) ==
  LET heard == ContextChanged([c EXCEPT !.epoch = m.epoch, !.pos = m.pos], rule)
  IN IF m.epoch = c.epoch THEN heard ELSE EpochChanged(heard)

ReadContext(rule) ==
  /\ toClient # <<>> /\ Head(toClient).type = "CONTEXT"
  /\ toClient' = Tail(toClient)
  /\ Daemon(ApplyContext(client, Head(toClient), rule))
  /\ UNCHANGED <<host, turns>>

-----------------------------------------------------------------------------
(* Kdenlive.  Operators on its state h; signals go to h.out.                 *)
Reply(h, seq, ok, changed) ==
  [h EXCEPT !.out = Append(@, [type |-> "ACK", seq |-> seq, ok |-> ok, changed |-> changed])]

(* emitContext: at once, or later if one was sent a moment ago.              *)
EmitContext(h) ==
  [h EXCEPT !.due = FALSE,
            !.out = Append(@, [type |-> "CONTEXT", epoch |-> h.epoch, pos |-> h.pos])]
ContextSoon(h, now) == IF now THEN EmitContext(h) ELSE [h EXCEPT !.due = TRUE]

(* bumpSerial(true): a new epoch, nothing pending, no gesture.               *)
BumpEpoch(h, now) ==
  LET refusals == [i \in 1..Len(h.pending) |->
                    [type |-> "ACK", seq |-> h.pending[i].seq, ok |-> FALSE, changed |-> FALSE]]
  IN ContextSoon([h EXCEPT !.epoch = @ + 1, !.open = None, !.pending = <<>>,
                           !.out = @ \o refusals], now)

(* finishFrameBoundGestures: Kdenlive knows what is edited from the calls.   *)
Captured(g) == g # None /\ client.gestures[g].binding \in FrameBound
Seek(h, now) ==
  ContextSoon([h EXCEPT !.pos = @ + 1, !.open = IF Captured(@) THEN None ELSE @], now)

(* A gesture that another control ends (finishAllGestures in applyOne).      *)
Cut(h, k) ==
  IF h.open \in {None, k} THEN h
  ELSE [h EXCEPT !.open = None, !.cut = @ \cup {[gesture |-> h.open, by |-> k]}]

(* applyOne.  The end of a gesture that never started owns nothing.          *)
ApplyEdit(h, p) ==
  LET cut == Cut(h, p.key)
      done == [cut EXCEPT !.applied[p.key] = @ + p.n,
                          !.open = IF p.phase = "end" \/ (p.n = 0 /\ @ = None) THEN None
                                   ELSE p.key]
  IN Reply(done, p.seq, TRUE, p.n # 0)

(* A navigation at the end of its list, or a jog at the end of the timeline, *)
(* changes nothing.                                                          *)
ApplyControl(h, p, changes, now) ==
  LET cut == Cut(h, p.key)
      new == p.n # 0 /\ p.key \in changes
  IN IF new /\ p.key \in Navs /\ h.epoch < MaxEpoch
     THEN Reply(BumpEpoch(cut, now), p.seq, TRUE, TRUE)
     ELSE IF new /\ p.key \in Jogs /\ h.pos < MaxPos
     THEN Reply(Seek(cut, now), p.seq, TRUE, TRUE)
     ELSE Reply(cut, p.seq, TRUE, FALSE)

(* applyPending, call by call; what a call before it has made stale is       *)
(* refused.                                                                  *)
Apply(h, p, changes, now) ==
  IF p.epoch # h.epoch THEN Reply(h, p.seq, FALSE, FALSE)
  ELSE IF p.key \in Ids THEN ApplyEdit(h, p)
  ELSE ApplyControl(h, p, changes, now)

ApplyPending(h, changes, now) ==
  LET applied[i \in 0..Len(h.pending)] ==
        IF i = 0 THEN [h EXCEPT !.pending = <<>>]
        ELSE Apply(applied[i - 1], h.pending[i], changes, now)
  IN applied[Len(h.pending)]

(* control: into what is pending under the same key and epoch.               *)
Same(p, m) == p.key = m.key /\ p.epoch = m.epoch
Merge(h, m) ==
  LET into(p) == [p EXCEPT !.n = p.n + m.n, !.seq = m.seq,
                           !.phase = IF m.phase = "end" THEN "end" ELSE p.phase]
  IN IF \A i \in 1..Len(h.pending) : ~Same(h.pending[i], m)
     THEN [h EXCEPT !.pending = Append(@, m)]
     ELSE [h EXCEPT !.pending = [i \in 1..Len(h.pending) |->
            IF Same(h.pending[i], m) THEN into(h.pending[i]) ELSE h.pending[i]]]

Host(h) ==
  /\ host' = [h EXCEPT !.out = <<>>]
  /\ toClient' = toClient \o h.out

HostControl(changes, now) ==
  /\ toHost # <<>>
  /\ toHost' = Tail(toHost)
  /\ LET m == Head(toHost) IN
       IF m.epoch # host.epoch THEN Host(Reply(host, m.seq, FALSE, FALSE))
       ELSE Host(Merge(IF m.phase = "end" THEN ApplyPending(host, changes, now) ELSE host, m))
  /\ UNCHANGED <<client, turns>>

HostApply(changes, now) ==
  /\ host.pending # <<>>
  /\ Host(ApplyPending(host, changes, now))
  /\ UNCHANGED <<client, toHost, turns>>

(* Its own user picks another target, or moves the playhead.                 *)
HostFocus(now) ==
  /\ host.epoch < MaxEpoch
  /\ Host(BumpEpoch(host, now))
  /\ UNCHANGED <<client, toHost, turns>>

HostSeek(now) ==
  /\ host.pos < MaxPos
  /\ Host(Seek(host, now))
  /\ UNCHANGED <<client, toHost, turns>>

HostIdle ==
  /\ host.open # None
  /\ host' = [host EXCEPT !.open = None]
  /\ UNCHANGED <<client, toHost, toClient, turns>>

HostEmit ==
  /\ host.due
  /\ Host(EmitContext(host))
  /\ UNCHANGED <<client, toHost, turns>>

Next ==
  \/ \E b \in Bindings, n \in Deltas : Turn(b, n)
  \/ \E k \in Controls, n \in Deltas : TurnControl(k, n)
  \/ \E g \in Ids : EndIdle(g)
  \/ \E k \in Keys : Elapse(k)
  \/ \E k \in Keys : FlushTimer(k)
  \/ NavFallback
  \/ ReadAck
  \/ \E rule \in {FALSE, Rules} : ReadContext(rule)
  \/ \E changes \in SUBSET Controls, now \in BOOLEAN : HostControl(changes, now)
  \/ \E changes \in SUBSET Controls, now \in BOOLEAN : HostApply(changes, now)
  \/ \E now \in BOOLEAN : HostFocus(now)
  \/ \E now \in BOOLEAN : HostSeek(now)
  \/ HostIdle
  \/ HostEmit

Spec == Init /\ [][Next]_vars

(* Qt's timers fire; nothing is assumed of Kdenlive, the bus or the user.    *)
FairSpec == /\ Spec
            /\ \A k \in Keys : WF_vars(Elapse(k)) /\ WF_vars(FlushTimer(k))

-----------------------------------------------------------------------------
(* At most one update of a key is on its way that was neither answered nor   *)
(* given up by the ack timeout: a late ack, or the ack of an earlier gesture *)
(* or of dropped work, releases nothing (m_latestForKey, tryFlush).          *)
OneUpdateInFlight ==
  \A s, t \in client.sent : s.key = t.key /\ s.young /\ t.young /\ s.key \notin Navs => s = t

(* What a knob was turned while it had one target is never sent under the    *)
(* epoch of another (epochChanged in the engine).                            *)
SentUnderItsEpoch ==
  \A i \in 1..Len(toHost) :
    toHost[i].key \in Ids => toHost[i].epoch = client.gestures[toHost[i].key].epoch

(* Kdenlive applies all the detents of a gesture that was ended, and none    *)
(* twice, unless its target changed meanwhile: the end barrier overtakes     *)
(* nothing and takes what was not sent yet with it.                          *)
OnTheWay(g) ==
  \/ \E i \in 1..Len(toHost) : toHost[i].key = g
  \/ \E i \in 1..Len(host.pending) : host.pending[i].key = g
EndedGestureIsWhole ==
  \A g \in 1..Len(client.gestures) :
    LET t == client.gestures[g] IN
    t.fate = "ended" /\ t.epoch = host.epoch /\ ~OnTheWay(g) => host.applied[g] = t.turned

(* A gesture is ended before another one starts: Kdenlive never has to end   *)
(* one to begin the next, except one the daemon had to forget.               *)
OneGestureAtATime ==
  \A x \in host.cut : x.by \in Ids => client.gestures[x.gesture].fate = "forgotten"

(* No gesture of a trim or a nudge has more steps than Kdenlive retains, its *)
(* end included.                                                             *)
StepsOf(c, g) == c.gestures[g].batches + IF c.gestures[g].fate = "ended" THEN 1 ELSE 0
StepsWithinLimit ==
  \A g \in 1..Len(client.gestures) : StepsOf(client, g) <= TrimSteps

(* The three together: what Kdenlive is sent can be sorted out by it.        *)
HostCanFollow == OneUpdateInFlight /\ OneGestureAtATime /\ StepsWithinLimit

(* Detents do not wait for ever for an ack that is lost or late (tryFlush).  *)
KnobNeverStalls == \A k \in Keys : Waiting(client, k) ~> ~Waiting(client, k)

(* Detents of a navigation knob wait for the epoch its last change started,  *)
(* or for the fallback, and then go out with it.                             *)
NavigationWaits ==
  [][ \A k \in client.navAwaiting :
        client'.latest[k] # client.latest[k] =>
          client'.epoch # client.epoch \/ NavFallback ]_vars
=============================================================================
