----------------------- MODULE KdenliveControl_proofs -----------------------
(***************************************************************************)
(* Proofs about the Kdenlive control stream, for all sets of controls,     *)
(* limits, users and answers of Kdenlive.                                  *)
(*                                                                         *)
(* First the daemon alone, whatever Kdenlive answers (StreamInv): one      *)
(* update of a key in flight, the limit of a gesture, the epoch of a call. *)
(* Then both ends (FullInv): all calls pending or on their way, oldest     *)
(* first, are what is left to do of the gestures (Flow), and the contexts  *)
(* on their way come in the order of their epochs (ToldOK).                *)
(***************************************************************************)
EXTENDS KdenliveControl, SequenceTheorems, FiniteSetTheorems, WellFoundedInduction, TLAPS

(* The daemon's state while a handler runs.  E.epochs and E.spots are the     *)
(* epochs and positions of Kdenlive, which may be anything.                  *)
Fates == {"live", "ended", "forgotten"}
GestureT(E) ==
  [binding : Bindings, epoch : E.epochs, pos : E.spots, batches : Nat, turned : Int, fate : Fates]
CallT(E) == [seq : Nat, key : Keys, n : Int, phase : {"update", "end"}, epoch : E.epochs]
ClientT(E) ==
  [epoch : E.epochs, pos : E.spots, slots : [Keys -> Slot \cup {NoSlot}], gestures : Seq(GestureT(E)),
   navInFlight : [Navs -> E.epochs \cup {None}], navAwaiting : SUBSET Navs, sent : SUBSET Sent,
   latest : [Keys -> Nat], seq : Nat, out : Seq(CallT(E))]

(* Only a live gesture has a slot, it was opened in this epoch and was given *)
(* its steps.                                                                *)
SlotsOK(c) ==
  /\ Len(c.gestures) <= MaxGestures
  /\ \A g \in Ids : c.slots[g] # NoSlot => g \in Live(c)
EpochsOK(c) == \A g \in Live(c) : c.gestures[g].epoch = c.epoch
StepsOK(c) ==
  \A g \in 1..Len(c.gestures) :
    /\ c.gestures[g].batches <= TrimSteps - 1
    /\ g \in Ids /\ Waiting(c, g) => c.gestures[g].batches <= TrimSteps - 2
(* An update that may still be answered blocks its slot.                     *)
YoungOK(c) ==
  \A s \in c.sent : s.young /\ s.key \notin Navs =>
    /\ c.slots[s.key] # NoSlot /\ c.slots[s.key].inFlight /\ c.slots[s.key].clock < 2
    /\ c.latest[s.key] = s.seq
CallsOK(c, calls) ==
  \A i \in 1..Len(calls) : calls[i].key \in Ids =>
    calls[i].key \in 1..Len(c.gestures) /\ calls[i].epoch = c.gestures[calls[i].key].epoch

Core(c) == SlotsOK(c) /\ StepsOK(c) /\ YoungOK(c)
Told(c) == EpochsOK(c) /\ CallsOK(c, c.out)

(* A step of a handler keeps both, the gestures and the epoch.               *)
Grows(c, q) ==
  /\ Len(c.gestures) <= Len(q.gestures)
  /\ \A g \in 1..Len(c.gestures) : q.gestures[g].epoch = c.gestures[g].epoch
Keeps(c, q) ==
  /\ q.epoch = c.epoch
  /\ Core(c) => Core(q)
  /\ Grows(c, q)
  /\ Told(c) => Told(q)

-----------------------------------------------------------------------------
(* The keys of some set, the one after the other.                            *)
LEMMA ListIs ==
  ASSUME NEW S, IsFiniteSet(S)
  PROVE  /\ SetToSeq(S) \in Seq(S)
         /\ \A i, j \in 1..Len(SetToSeq(S)) : SetToSeq(S)[i] = SetToSeq(S)[j] => i = j
         /\ \A x \in S : \E i \in 1..Len(SetToSeq(S)) : SetToSeq(S)[i] = x
<1> DEFINE n == Cardinality(S)
           q == SetToSeq(S)
<1>1. n \in Nat /\ ExistsBijection(1..n, S)
  BY FS_CardinalityType
<1>2. PICK f \in [1..n -> S] : IsInjective(f)
  BY <1>1 DEF ExistsBijection, Bijection, Injection, IsInjective
<1>3. q \in [1..n -> S] /\ IsInjective(q)
  BY <1>2 DEF SetToSeq
<1>4. q \in Seq(S) /\ Len(q) = n
  BY <1>1, <1>3
<1>5. q \in Injection(1..n, S)
  BY <1>3 DEF Injection, IsInjective
<1>6. Cardinality(1..n) = n
  BY <1>1, FS_Interval
<1>7. q \in Surjection(1..n, S)
  BY <1>5, <1>6, FS_Injection
<1> HIDE DEF q, n
<1>8. \A x \in S : \E i \in 1..n : q[i] = x
  BY <1>7 DEF Surjection
<1>9. \A i, j \in 1..n : q[i] = q[j] => i = j
  BY <1>3 DEF IsInjective
<1> QED
  BY <1>4, <1>8, <1>9 DEF q

(* Gestures, the navigation and the jog are finitely many keys. *)
LEMMA KeysAreFinite == IsFiniteSet(Keys)
<1>1. IsFiniteSet(Ids)
  BY ControlAssumption, FS_Interval DEF Ids
<1> QED
  BY <1>1, ControlAssumption, FS_Union DEF Keys

(* No gesture is a control.                                                  *)
LEMMA IdsAreKeys ==
  Ids \subseteq Keys /\ Ids \cap Controls = {} /\ Navs \subseteq Keys /\ Jogs \subseteq Keys
    /\ Ids \cap Navs = {}
  BY ControlAssumption DEF Ids, Keys, Controls

(* A batch is a step of a trim or a nudge, and none of another binding.      *)
LEMMA StepsAre == \A b : Steps(b) \in {0, 1}
  BY DEF Steps

(* Control, field by field.                                                  *)
AfterControl(E, c, ks, phase, q) ==
  /\ q \in ClientT(E)
  /\ q.epoch = c.epoch /\ q.pos = c.pos /\ q.slots = c.slots /\ q.navAwaiting = c.navAwaiting
  /\ Len(q.gestures) = Len(c.gestures)
  /\ \A g \in 1..Len(c.gestures) :
       q.gestures[g] = IF g \in ks /\ g \in Live(c)
                       THEN [c.gestures[g] EXCEPT !.batches = @ + Steps(c.gestures[g].binding)] ELSE c.gestures[g]
  /\ \A s \in q.sent : \/ s \in c.sent
                       \/ /\ s.key \in ks /\ s.young = (phase = "update")
                          /\ s.seq = q.latest[s.key]
  /\ \A k \in Keys \ ks : q.latest[k] = c.latest[k]
  /\ Len(c.out) <= Len(q.out)
  /\ \A i \in 1..Len(q.out) : \/ i \in 1..Len(c.out) /\ q.out[i] = c.out[i]
                              \/ q.out[i].key \in ks /\ q.out[i].epoch = c.epoch

(* Control queues at most one call for each of its keys, numbered after all *)
(* earlier ones, and changes no other key's slot, gesture or call.          *)
LEMMA ControlIs ==
  ASSUME NEW E, NEW c \in ClientT(E), NEW ks \in SUBSET Keys, NEW n \in [ks -> Int],
         NEW phase \in {"update", "end"}
  PROVE  AfterControl(E, c, ks, phase, Control(c, ks, n, phase))
<1> DEFINE order == SetToSeq(ks)
           place == [k \in ks |-> CHOOSE i \in 1..Len(order) : order[i] = k]
           calls == [i \in 1..Len(order) |->
                      [seq |-> c.seq + i, key |-> order[i], n |-> n[order[i]], phase |-> phase,
                       epoch |-> c.epoch]]
           new == {[seq |-> c.seq + place[k], key |-> k, young |-> phase = "update"] : k \in ks}
           seqs == c.seq + Len(order)
           sents == c.sent \cup new
           lat == [k \in Keys |-> IF k \in ks THEN c.seq + place[k] ELSE c.latest[k]]
           outs == c.out \o calls
           nav == [k \in Navs |-> IF k \in ks THEN c.epoch ELSE c.navInFlight[k]]
           gest == [g \in 1..Len(c.gestures) |->
                     IF g \in ks /\ g \in Live(c)
                     THEN [c.gestures[g] EXCEPT !.batches = @ + Steps(c.gestures[g].binding)] ELSE c.gestures[g]]
           q == [c EXCEPT !.seq = seqs, !.sent = sents, !.latest = lat, !.out = outs,
                          !.navInFlight = nav, !.gestures = gest]
<1>1. Control(c, ks, n, phase) = q
  BY DEF Control, ClientT
<1>2. /\ order \in Seq(ks) /\ Len(order) \in Nat
      /\ \A i \in 1..Len(order) : order[i] \in ks
      /\ \A k \in ks : \E i \in 1..Len(order) : order[i] = k
  <2>1. IsFiniteSet(ks)
    BY KeysAreFinite, FS_Subset
  <2>2. order \in Seq(ks) /\ \A k \in ks : \E i \in 1..Len(order) : order[i] = k
    BY <2>1, ListIs
  <2> HIDE DEF order
  <2> QED
    BY <2>2
<1> HIDE DEF order
<1>3. \A k \in ks : place[k] \in 1..Len(order)
  BY <1>2
<1>4. /\ c.seq \in Nat /\ c.sent \in SUBSET Sent /\ c.latest \in [Keys -> Nat]
      /\ c.out \in Seq(CallT(E)) /\ c.gestures \in Seq(GestureT(E)) /\ c.epoch \in E.epochs
      /\ c.navInFlight \in [Navs -> E.epochs \cup {None}]
  BY DEF ClientT
<1> HIDE DEF place
<1>5. seqs \in Nat
  BY <1>2, <1>4
<1>6. sents \in SUBSET Sent
  <2>1. \A k \in ks : c.seq + place[k] \in Nat
    BY <1>3, <1>4
  <2>2. \A k \in ks : [seq |-> c.seq + place[k], key |-> k, young |-> phase = "update"] \in Sent
    BY <2>1 DEF Sent
  <2> QED
    BY <1>4, <2>2
<1>7. lat \in [Keys -> Nat]
  BY <1>3, <1>4
<1>8. calls \in Seq(CallT(E)) /\ Len(calls) = Len(order)
  <2>1. \A i \in 1..Len(order) : calls[i] \in CallT(E)
    <3> SUFFICES ASSUME NEW i \in 1..Len(order) PROVE calls[i] \in CallT(E)
      OBVIOUS
    <3>1. c.seq + i \in Nat
      <4>1. c.seq \in Nat /\ i \in Nat
        BY <1>2, <1>4
      <4> QED
        BY <4>1
    <3>2. order[i] \in ks
      BY <1>2
    <3>3. order[i] \in Keys /\ n[order[i]] \in Int
      BY <3>2
    <3> QED
      BY <1>4, <3>1, <3>3 DEF CallT
  <2> QED
    BY <1>2, <2>1
<1>9. outs \in Seq(CallT(E)) /\ Len(outs) = Len(c.out) + Len(order)
  BY <1>4, <1>8, ConcatProperties
<1>10. nav \in [Navs -> E.epochs \cup {None}]
  BY <1>4
<1>11. gest \in Seq(GestureT(E)) /\ Len(gest) = Len(c.gestures)
  <2>1. \A g \in 1..Len(c.gestures) : gest[g] \in GestureT(E)
    <3> SUFFICES ASSUME NEW g \in 1..Len(c.gestures) PROVE gest[g] \in GestureT(E)
      OBVIOUS
    <3>1. c.gestures[g] \in GestureT(E)
      BY <1>4
    <3>2. CASE g \in ks /\ g \in Live(c)
      <4>1. c.gestures[g].batches + Steps(c.gestures[g].binding) \in Nat
        BY <3>1, StepsAre DEF GestureT
      <4>2. [c.gestures[g] EXCEPT !.batches = c.gestures[g].batches + Steps(c.gestures[g].binding)]
              \in GestureT(E)
        BY <3>1, <4>1 DEF GestureT
      <4> QED
        BY <3>2, <4>2
    <3>3. CASE ~(g \in ks /\ g \in Live(c))
      BY <3>1, <3>3
    <3> QED
      BY <3>2, <3>3
  <2>2. Len(c.gestures) \in Nat
    BY <1>4
  <2>3. gest \in [1..Len(c.gestures) -> GestureT(E)]
    BY <2>1
  <2> HIDE DEF gest
  <2> QED
    BY <2>2, <2>3
<1>12. \A i \in 1..Len(outs) : \/ i \in 1..Len(c.out) /\ outs[i] = c.out[i]
                               \/ outs[i].key \in ks /\ outs[i].epoch = c.epoch
  <2> SUFFICES ASSUME NEW i \in 1..Len(outs)
               PROVE  \/ i \in 1..Len(c.out) /\ outs[i] = c.out[i]
                      \/ outs[i].key \in ks /\ outs[i].epoch = c.epoch
    OBVIOUS
  <2>a. CASE i \in 1..Len(c.out)
    <3>1. outs[i] = c.out[i]
      BY <1>4, <1>8, <2>a, ConcatProperties
    <3> HIDE DEF outs
    <3> QED
      BY <2>a, <3>1
  <2>b. CASE i \notin 1..Len(c.out)
    <3>1. i - Len(c.out) \in 1..Len(order) /\ Len(c.out) \in Nat /\ i = Len(c.out) + (i - Len(c.out))
      <4>1. Len(c.out) \in Nat /\ Len(order) \in Nat /\ Len(outs) = Len(c.out) + Len(order)
        BY <1>2, <1>4, <1>9
      <4> HIDE DEF outs
      <4> QED
        BY <4>1, <2>b
    <3>2. outs[i] = calls[i - Len(c.out)]
      BY <1>4, <1>8, <1>9, <3>1, ConcatProperties
    <3> HIDE DEF outs
    <3>3. \A j \in 1..Len(order) : calls[j].key = order[j] /\ calls[j].epoch = c.epoch
      OBVIOUS
    <3> HIDE DEF calls
    <3> QED
      BY <1>2, <3>1, <3>2, <3>3
  <2> QED
    BY <2>a, <2>b
<1>13. \A s \in sents : \/ s \in c.sent
                        \/ /\ s.key \in ks /\ s.young = (phase = "update")
                           /\ s.seq = lat[s.key]
  OBVIOUS
<1>14. \A g \in 1..Len(c.gestures) :
         gest[g] = IF g \in ks /\ g \in Live(c)
                   THEN [c.gestures[g] EXCEPT !.batches = @ + Steps(c.gestures[g].binding)] ELSE c.gestures[g]
  OBVIOUS
<1>15. \A k \in Keys \ ks : lat[k] = c.latest[k]
  OBVIOUS
<1> HIDE DEF seqs, sents, lat, outs, nav, gest
<1>16. /\ q \in ClientT(E) /\ q.epoch = c.epoch /\ q.pos = c.pos /\ q.slots = c.slots
       /\ q.navAwaiting = c.navAwaiting /\ q.gestures = gest /\ q.sent = sents /\ q.latest = lat
       /\ q.out = outs
  BY <1>5, <1>6, <1>7, <1>9, <1>10, <1>11 DEF ClientT
<1> HIDE DEF q
<1>17. Len(c.out) <= Len(outs)
  BY <1>2, <1>4, <1>9
<1> QED
  BY <1>1, <1>11, <1>12, <1>13, <1>14, <1>15, <1>16, <1>17 DEF AfterControl

(* Setting fates, field by field.                                            *)
LEMMA SetFateIs ==
  ASSUME NEW E, NEW c \in ClientT(E), NEW ids, NEW fate \in Fates
  PROVE  LET q == SetFate(c, ids, fate)
         IN /\ q \in ClientT(E)
            /\ q.epoch = c.epoch /\ q.slots = c.slots /\ q.navAwaiting = c.navAwaiting
            /\ q.sent = c.sent /\ q.latest = c.latest /\ q.out = c.out
            /\ Len(q.gestures) = Len(c.gestures)
            /\ \A g \in 1..Len(c.gestures) :
                 /\ g \notin ids => q.gestures[g] = c.gestures[g]
                 /\ g \in ids => /\ q.gestures[g].fate = fate
                                 /\ q.gestures[g].epoch = c.gestures[g].epoch
                                 /\ q.gestures[g].batches = c.gestures[g].batches
                                 /\ q.gestures[g].turned = c.gestures[g].turned
<1> DEFINE gest == [g \in 1..Len(c.gestures) |->
              IF g \in ids THEN [c.gestures[g] EXCEPT !.fate = fate] ELSE c.gestures[g]]
           q == [c EXCEPT !.gestures = gest]
<1>1. SetFate(c, ids, fate) = q
  BY DEF SetFate
<1>2. c.gestures \in Seq(GestureT(E)) /\ Len(c.gestures) \in Nat
  BY DEF ClientT
<1>3. \A g \in 1..Len(c.gestures) :
        /\ gest[g] \in GestureT(E)
        /\ g \notin ids => gest[g] = c.gestures[g]
        /\ g \in ids => /\ gest[g].fate = fate
                        /\ gest[g].epoch = c.gestures[g].epoch
                        /\ gest[g].batches = c.gestures[g].batches
                        /\ gest[g].turned = c.gestures[g].turned
  <2> SUFFICES ASSUME NEW g \in 1..Len(c.gestures)
               PROVE  /\ gest[g] \in GestureT(E)
                      /\ g \notin ids => gest[g] = c.gestures[g]
                      /\ g \in ids => /\ gest[g].fate = fate
                                      /\ gest[g].epoch = c.gestures[g].epoch
                                      /\ gest[g].batches = c.gestures[g].batches
                                      /\ gest[g].turned = c.gestures[g].turned
                        /\ gest[g].turned = c.gestures[g].turned
    OBVIOUS
  <2>1. c.gestures[g] \in GestureT(E)
    BY <1>2
  <2>2. CASE g \in ids
    BY <2>1, <2>2 DEF GestureT
  <2>3. CASE g \notin ids
    BY <2>1, <2>3
  <2> QED
    BY <2>2, <2>3
<1>4. gest \in [1..Len(c.gestures) -> GestureT(E)]
  BY <1>3
<1> HIDE DEF gest
<1>5. gest \in Seq(GestureT(E)) /\ Len(gest) = Len(c.gestures)
  BY <1>2, <1>4
<1>6. /\ q \in ClientT(E) /\ q.epoch = c.epoch /\ q.slots = c.slots
      /\ q.navAwaiting = c.navAwaiting /\ q.sent = c.sent /\ q.latest = c.latest
      /\ q.out = c.out /\ q.gestures = gest
  BY <1>5 DEF ClientT
<1> HIDE DEF q
<1> QED
  BY <1>1, <1>3, <1>5, <1>6

(* Removing slots, field by field.                                           *)
LEMMA RemoveSlotsIs ==
  ASSUME NEW E, NEW c \in ClientT(E), NEW ks
  PROVE  LET q == RemoveSlots(c, ks)
         IN /\ q \in ClientT(E)
            /\ q.epoch = c.epoch /\ q.gestures = c.gestures /\ q.navAwaiting = c.navAwaiting
            /\ q.latest = c.latest /\ q.out = c.out
            /\ \A k \in Keys : q.slots[k] = IF k \in ks THEN NoSlot ELSE c.slots[k]
            /\ \A s \in q.sent : \E t \in c.sent :
                 s.seq = t.seq /\ s.key = t.key /\ (s.young => t.young /\ t.key \notin ks)
<1> DEFINE slots == [k \in Keys |-> IF k \in ks THEN NoSlot ELSE c.slots[k]]
           sent == {[s EXCEPT !.young = s.young /\ s.key \notin ks] : s \in c.sent}
           q == [c EXCEPT !.slots = slots, !.sent = sent]
<1>1. RemoveSlots(c, ks) = q
  BY DEF RemoveSlots
<1>2. c.slots \in [Keys -> Slot \cup {NoSlot}] /\ c.sent \in SUBSET Sent
  BY DEF ClientT
<1>3. slots \in [Keys -> Slot \cup {NoSlot}]
  BY <1>2
<1>4. \A t \in c.sent : LET s == [t EXCEPT !.young = t.young /\ t.key \notin ks]
                        IN /\ s \in Sent /\ s.seq = t.seq /\ s.key = t.key
                           /\ s.young => t.young /\ t.key \notin ks
  <2> SUFFICES ASSUME NEW t \in c.sent
               PROVE  LET s == [t EXCEPT !.young = t.young /\ t.key \notin ks]
                      IN /\ s \in Sent /\ s.seq = t.seq /\ s.key = t.key
                         /\ s.young => t.young /\ t.key \notin ks
    OBVIOUS
  <2> DEFINE y == t.young /\ t.key \notin ks
             s == [t EXCEPT !.young = y]
  <2>1. y \in BOOLEAN /\ (y => t.young /\ t.key \notin ks)
    OBVIOUS
  <2>2. t \in Sent
    BY <1>2
  <2> HIDE DEF y
  <2>3. s \in Sent /\ s.seq = t.seq /\ s.key = t.key /\ s.young = y
    BY <2>1, <2>2 DEF Sent
  <2> HIDE DEF s
  <2>4. s.young => t.young /\ t.key \notin ks
    BY <2>1, <2>3
  <2> QED
    BY <2>3, <2>4 DEF s, y
<1>5. sent \in SUBSET Sent
  BY <1>4
<1>6. \A s \in sent : \E t \in c.sent :
        s.seq = t.seq /\ s.key = t.key /\ (s.young => t.young /\ t.key \notin ks)
  <2> SUFFICES ASSUME NEW s \in sent
               PROVE  \E t \in c.sent :
                        s.seq = t.seq /\ s.key = t.key /\ (s.young => t.young /\ t.key \notin ks)
    OBVIOUS
  <2>1. PICK t \in c.sent : s = [t EXCEPT !.young = t.young /\ t.key \notin ks]
    OBVIOUS
  <2> QED
    BY <1>4, <2>1
<1>7. \A k \in Keys : slots[k] = IF k \in ks THEN NoSlot ELSE c.slots[k]
  OBVIOUS
<1> HIDE DEF slots, sent
<1>8. /\ q \in ClientT(E) /\ q.epoch = c.epoch /\ q.gestures = c.gestures
      /\ q.navAwaiting = c.navAwaiting /\ q.latest = c.latest /\ q.out = c.out
      /\ q.slots = slots /\ q.sent = sent
  BY <1>3, <1>5 DEF ClientT
<1> HIDE DEF q
<1> QED
  BY <1>1, <1>6, <1>7, <1>8

(* Handlers are steps in a row.                                              *)
LEMMA KeepsOn ==
  ASSUME NEW c, NEW q, NEW r, Keeps(c, q), Keeps(q, r),
         Len(c.gestures) \in Nat, Len(q.gestures) \in Nat, Len(r.gestures) \in Nat
  PROVE  Keeps(c, r)
<1>1. Grows(c, r)
  BY DEF Keeps, Grows
<1> QED
  BY <1>1 DEF Keeps

(* Slots may always be removed.                                              *)
LEMMA RemoveSlotsKeeps ==
  ASSUME NEW E, NEW c \in ClientT(E), NEW ks
  PROVE  Keeps(c, RemoveSlots(c, ks)) /\ Live(RemoveSlots(c, ks)) = Live(c)
<1> DEFINE q == RemoveSlots(c, ks)
<1>1. /\ q \in ClientT(E)
      /\ q.epoch = c.epoch /\ q.gestures = c.gestures /\ q.latest = c.latest /\ q.out = c.out
  BY RemoveSlotsIs
<1>2. \A k \in Keys : q.slots[k] = IF k \in ks THEN NoSlot ELSE c.slots[k]
  BY RemoveSlotsIs
<1>3. \A s \in q.sent : \E t \in c.sent :
        s.seq = t.seq /\ s.key = t.key /\ (s.young => t.young /\ t.key \notin ks)
  BY RemoveSlotsIs
<1> HIDE DEF q
<1>4. Live(q) = Live(c)
  BY <1>1 DEF Live
<1>5. Grows(c, q) /\ (Told(c) => Told(q))
  <2>1. Len(c.gestures) \in Nat
    BY DEF ClientT
  <2>2. Grows(c, q)
    BY <1>1, <2>1 DEF Grows
  <2>3. Told(c) => Told(q)
    BY <1>1, <1>4 DEF Told, EpochsOK, CallsOK
  <2> QED
    BY <2>2, <2>3
<1>6. ASSUME Core(c) PROVE Core(q)
  <2>1. SlotsOK(q)
    <3>1. Len(q.gestures) <= MaxGestures
      BY <1>1, <1>6 DEF Core, SlotsOK
    <3>2. \A g \in Ids : q.slots[g] # NoSlot => g \in Live(q)
      BY <1>2, <1>4, <1>6, IdsAreKeys DEF Core, SlotsOK
    <3> QED
      BY <3>1, <3>2 DEF SlotsOK
  <2>2. StepsOK(q)
    <3>1. \A g \in Ids : Waiting(q, g) => Waiting(c, g)
      BY <1>2, IdsAreKeys DEF Waiting
    <3> QED
      BY <1>1, <1>6, <3>1 DEF Core, StepsOK
  <2>3. YoungOK(q)
    <3> SUFFICES ASSUME NEW s \in q.sent, s.young, s.key \notin Navs
                 PROVE  /\ q.slots[s.key] # NoSlot /\ q.slots[s.key].inFlight
                        /\ q.slots[s.key].clock < 2 /\ q.latest[s.key] = s.seq
      BY DEF YoungOK
    <3>1. PICK t \in c.sent : s.seq = t.seq /\ s.key = t.key /\ t.young /\ t.key \notin ks
      BY <1>3
    <3>2. t.key \in Keys
      BY DEF ClientT, Sent
    <3>3. q.slots[s.key] = c.slots[t.key]
      BY <1>2, <3>1, <3>2
    <3>4. /\ c.slots[t.key] # NoSlot /\ c.slots[t.key].inFlight
          /\ c.slots[t.key].clock < 2 /\ c.latest[t.key] = t.seq
      BY <1>6, <3>1 DEF Core, YoungOK
    <3> QED
      BY <1>1, <3>1, <3>3, <3>4
  <2> QED
    BY <2>1, <2>2, <2>3 DEF Core
<1> QED
  BY <1>1, <1>4, <1>5, <1>6 DEF q, Keeps

(* A gesture without a slot may be given up.                                 *)
LEMMA SetFateKeeps ==
  ASSUME NEW E, NEW c \in ClientT(E), NEW ids, NEW fate \in {"ended", "forgotten"},
         \A g \in ids : c.slots[g] = NoSlot
  PROVE  Keeps(c, SetFate(c, ids, fate)) /\ Live(SetFate(c, ids, fate)) = Live(c) \ ids
<1> DEFINE q == SetFate(c, ids, fate)
<1>0. fate \in Fates /\ fate # "live"
  BY DEF Fates
<1>1. /\ q.epoch = c.epoch /\ q.slots = c.slots /\ q.sent = c.sent /\ q.latest = c.latest
      /\ q.out = c.out /\ Len(q.gestures) = Len(c.gestures)
  BY <1>0, SetFateIs
<1>2. \A g \in 1..Len(c.gestures) :
        /\ g \notin ids => q.gestures[g] = c.gestures[g]
        /\ g \in ids => /\ q.gestures[g].fate = fate
                        /\ q.gestures[g].epoch = c.gestures[g].epoch
                        /\ q.gestures[g].batches = c.gestures[g].batches
  BY <1>0, SetFateIs
<1> HIDE DEF q
<1>3. Live(q) = Live(c) \ ids
  BY <1>0, <1>1, <1>2 DEF Live
<1>4. Len(c.gestures) \in Nat
  BY DEF ClientT
<1>5. Grows(c, q)
  BY <1>1, <1>2, <1>4 DEF Grows
<1>6. Told(c) => Told(q)
  <2>1. \A g \in 1..Len(c.gestures) : q.gestures[g].epoch = c.gestures[g].epoch
    BY <1>2
  <2>2. ASSUME EpochsOK(c) PROVE EpochsOK(q)
    BY <1>1, <1>3, <2>1, <2>2 DEF EpochsOK, Live
  <2>3. ASSUME CallsOK(c, c.out) PROVE CallsOK(q, q.out)
    BY <1>1, <2>1, <2>3 DEF CallsOK
  <2> QED
    BY <2>2, <2>3 DEF Told
<1>7. ASSUME Core(c) PROVE Core(q)
  <2>1. SlotsOK(q)
    BY <1>1, <1>3, <1>7 DEF Core, SlotsOK
  <2>2. StepsOK(q)
    <3>1. \A g \in 1..Len(c.gestures) : q.gestures[g].batches = c.gestures[g].batches
      BY <1>2
    <3> QED
      BY <1>1, <1>7, <3>1 DEF Core, StepsOK, Waiting
  <2>3. YoungOK(q)
    BY <1>1, <1>7 DEF Core, YoungOK
  <2> QED
    BY <2>1, <2>2, <2>3 DEF Core
<1> QED
  BY <1>1, <1>3, <1>5, <1>6, <1>7 DEF q, Keeps

(* Sending: what is sent belongs to this epoch, a gesture has a step left,   *)
(* and the slot of an update waits for its answer.                           *)
MaySend(c, ks, phase) ==
  /\ \A s \in c.sent : s.young /\ s.key \notin Navs => s.key \notin ks
  /\ phase = "update" => \A k \in ks \ Navs :
       c.slots[k] # NoSlot /\ c.slots[k].inFlight /\ c.slots[k].clock < 2
  /\ \A k \in ks \cap Ids :
       /\ k \in 1..Len(c.gestures)
       /\ k \in Live(c) => c.gestures[k].batches <= TrimSteps - 2 /\ ~Waiting(c, k)

(* Control keeps what the invariant says of the daemon, if each key may send *)
(* now and is of a gesture of the epoch.                                     *)
LEMMA ControlKeeps ==
  ASSUME NEW E, NEW c \in ClientT(E), NEW ks \in SUBSET Keys, NEW n \in [ks -> Int],
         NEW phase \in {"update", "end"}, Core(c) => MaySend(c, ks, phase),
         \A k \in ks \cap Ids : k \in 1..Len(c.gestures)
  PROVE  LET q == Control(c, ks, n, phase)
         IN /\ Live(q) = Live(c)
            /\ Core(c) => Core(q)
            /\ Grows(c, q)
            /\ Told(c) /\ (\A k \in ks \cap Ids : c.gestures[k].epoch = c.epoch) => Told(q)
<1> DEFINE q == Control(c, ks, n, phase)
<1>0. AfterControl(E, c, ks, phase, q)
  BY ControlIs
<1> HIDE DEF q
<1>1. /\ q \in ClientT(E) /\ q.epoch = c.epoch /\ q.slots = c.slots
      /\ Len(q.gestures) = Len(c.gestures)
  BY <1>0 DEF AfterControl
<1>2. \A g \in 1..Len(c.gestures) :
        q.gestures[g] = IF g \in ks /\ g \in Live(c)
                        THEN [c.gestures[g] EXCEPT !.batches = @ + Steps(c.gestures[g].binding)] ELSE c.gestures[g]
  BY <1>0 DEF AfterControl
<1>3. \A s \in q.sent : \/ s \in c.sent
                        \/ /\ s.key \in ks /\ s.young = (phase = "update")
                           /\ s.seq = q.latest[s.key]
  BY <1>0 DEF AfterControl
<1>4. \A k \in Keys \ ks : q.latest[k] = c.latest[k]
  BY <1>0 DEF AfterControl
<1>5. \A i \in 1..Len(q.out) : \/ i \in 1..Len(c.out) /\ q.out[i] = c.out[i]
                               \/ q.out[i].key \in ks /\ q.out[i].epoch = c.epoch
  BY <1>0 DEF AfterControl
<1>6. c.gestures \in Seq(GestureT(E)) /\ Len(c.gestures) \in Nat
  BY DEF ClientT
<1>7. \A g \in 1..Len(c.gestures) :
        /\ q.gestures[g].epoch = c.gestures[g].epoch
        /\ q.gestures[g].fate = c.gestures[g].fate
        /\ ~(g \in ks /\ g \in Live(c)) => q.gestures[g].batches = c.gestures[g].batches
        /\ g \in ks /\ g \in Live(c) => q.gestures[g].batches = c.gestures[g].batches + Steps(c.gestures[g].binding)
  <2> SUFFICES ASSUME NEW g \in 1..Len(c.gestures)
               PROVE  /\ q.gestures[g].epoch = c.gestures[g].epoch
                      /\ q.gestures[g].fate = c.gestures[g].fate
                      /\ ~(g \in ks /\ g \in Live(c)) =>
                           q.gestures[g].batches = c.gestures[g].batches
                      /\ g \in ks /\ g \in Live(c) =>
                           q.gestures[g].batches = c.gestures[g].batches + Steps(c.gestures[g].binding)
    OBVIOUS
  <2>1. c.gestures[g] \in GestureT(E)
    BY <1>6
  <2>2. CASE g \in ks /\ g \in Live(c)
    BY <1>2, <2>1, <2>2 DEF GestureT
  <2>3. CASE ~(g \in ks /\ g \in Live(c))
    BY <1>2, <2>3
  <2> QED
    BY <2>2, <2>3
<1>8. Live(q) = Live(c)
  BY <1>1, <1>7 DEF Live
<1>9. Grows(c, q)
  BY <1>1, <1>6, <1>7 DEF Grows
<1>10. ASSUME Told(c), \A k \in ks \cap Ids : c.gestures[k].epoch = c.epoch PROVE Told(q)
  <2>1. EpochsOK(q)
    BY <1>1, <1>7, <1>8, <1>10 DEF Told, EpochsOK, Live
  <2>2. CallsOK(q, q.out)
    <3> SUFFICES ASSUME NEW i \in 1..Len(q.out), q.out[i].key \in Ids
                 PROVE  /\ q.out[i].key \in 1..Len(c.gestures)
                        /\ q.out[i].epoch = c.gestures[q.out[i].key].epoch
      BY <1>1, <1>7 DEF CallsOK
    <3>1. CASE i \in 1..Len(c.out) /\ q.out[i] = c.out[i]
      BY <1>10, <3>1 DEF Told, CallsOK
    <3>2. CASE q.out[i].key \in ks /\ q.out[i].epoch = c.epoch
      BY <1>10, <3>2
    <3> QED
      BY <1>5, <3>1, <3>2
  <2> QED
    BY <2>1, <2>2 DEF Told
<1>11. ASSUME Core(c) PROVE Core(q)
  <2>1. SlotsOK(q)
    BY <1>1, <1>8, <1>11 DEF Core, SlotsOK
  <2>2. StepsOK(q)
    <3> SUFFICES ASSUME NEW g \in 1..Len(c.gestures)
                 PROVE  /\ q.gestures[g].batches <= TrimSteps - 1
                        /\ g \in Ids /\ Waiting(q, g) => q.gestures[g].batches <= TrimSteps - 2
      BY <1>1 DEF StepsOK
    <3>1. /\ c.gestures[g].batches <= TrimSteps - 1
          /\ g \in Ids /\ Waiting(q, g) => c.gestures[g].batches <= TrimSteps - 2
      BY <1>1, <1>11 DEF Core, StepsOK, Waiting
    <3>2. CASE g \in ks /\ g \in Live(c)
      <4>1. g \in Ids
        <5>1. Len(c.gestures) <= MaxGestures
          BY <1>11 DEF Core, SlotsOK
        <5> QED
          BY <1>6, <5>1, ControlAssumption DEF Ids
      <4>2. c.gestures[g].batches <= TrimSteps - 2 /\ ~Waiting(q, g)
        BY <1>1, <1>11, <3>2, <4>1 DEF MaySend, Waiting
      <4>3. c.gestures[g].batches \in Nat
        <5>1. c.gestures[g] \in GestureT(E)
          BY <1>6
        <5> QED
          BY <5>1 DEF GestureT
      <4>4. TrimSteps \in Nat /\ Steps(c.gestures[g].binding) \in {0, 1}
        BY ControlAssumption, StepsAre
      <4>5. q.gestures[g].batches = c.gestures[g].batches + Steps(c.gestures[g].binding)
        BY <1>7, <3>2
      <4> QED
        BY <4>2, <4>3, <4>4, <4>5
    <3>3. CASE ~(g \in ks /\ g \in Live(c))
      BY <1>7, <3>1, <3>3
    <3> QED
      BY <3>2, <3>3
  <2>3. YoungOK(q)
    <3> SUFFICES ASSUME NEW s \in q.sent, s.young, s.key \notin Navs
                 PROVE  /\ q.slots[s.key] # NoSlot /\ q.slots[s.key].inFlight
                        /\ q.slots[s.key].clock < 2 /\ q.latest[s.key] = s.seq
      BY DEF YoungOK
    <3>1. CASE s \in c.sent
      <4>1. s.key \notin ks /\ s.key \in Keys
        BY <1>11, <3>1 DEF MaySend, ClientT, Sent
      <4>2. /\ c.slots[s.key] # NoSlot /\ c.slots[s.key].inFlight
            /\ c.slots[s.key].clock < 2 /\ c.latest[s.key] = s.seq
        BY <1>11, <3>1 DEF Core, YoungOK
      <4> QED
        BY <1>1, <1>4, <4>1, <4>2
    <3>2. CASE s \notin c.sent
      <4>1. s.key \in ks /\ phase = "update" /\ s.seq = q.latest[s.key]
        BY <1>3, <3>2
      <4>2. c.slots[s.key] # NoSlot /\ c.slots[s.key].inFlight /\ c.slots[s.key].clock < 2
        BY <1>11, <4>1 DEF MaySend
      <4> QED
        BY <1>1, <4>1, <4>2
    <3> QED
      BY <3>1, <3>2
  <2> QED
    BY <2>1, <2>2, <2>3 DEF Core
<1> QED
  BY <1>1, <1>8, <1>9, <1>10, <1>11 DEF q

(* A change of slots: gestures that are not live get none, one that waits    *)
(* has a step left, and none that still waits for an answer is let go.       *)
LEMMA SlotsKeep ==
  ASSUME NEW E, NEW c \in ClientT(E), NEW slots \in [Keys -> Slot \cup {NoSlot}], Core(c),
         \A g \in Ids : slots[g] # NoSlot => g \in Live(c),
         \A g \in Ids : slots[g] # NoSlot /\ slots[g].merged =>
                          Waiting(c, g) \/ c.gestures[g].batches <= TrimSteps - 2,
         \A s \in c.sent : s.young /\ s.key \notin Navs =>
           slots[s.key] # NoSlot /\ slots[s.key].inFlight /\ slots[s.key].clock < 2
  PROVE  LET q == [c EXCEPT !.slots = slots]
         IN /\ q \in ClientT(E) /\ Keeps(c, q) /\ Live(q) = Live(c)
            /\ q.slots = slots /\ q.gestures = c.gestures /\ q.sent = c.sent
<1> DEFINE q == [c EXCEPT !.slots = slots]
<1>1. /\ q \in ClientT(E) /\ q.epoch = c.epoch /\ q.gestures = c.gestures /\ q.sent = c.sent
      /\ q.latest = c.latest /\ q.out = c.out /\ q.slots = slots
  BY DEF ClientT
<1> HIDE DEF q
<1>2. Live(q) = Live(c)
  BY <1>1 DEF Live
<1>3. Len(c.gestures) \in Nat
  BY DEF ClientT
<1>4. Grows(c, q)
  BY <1>1, <1>3 DEF Grows
<1>5. Told(c) => Told(q)
  BY <1>1, <1>2 DEF Told, EpochsOK, CallsOK
<1>6. SlotsOK(q)
  BY <1>1, <1>2 DEF Core, SlotsOK
<1>7. StepsOK(q)
  BY <1>1 DEF Core, StepsOK, Waiting
<1>8. YoungOK(q)
  BY <1>1 DEF Core, YoungOK
<1> QED
  BY <1>1, <1>2, <1>4, <1>5, <1>6, <1>7, <1>8 DEF q, Keeps, Core

(* A flush sends only what has no answer to wait for any more.               *)
LEMMA TryFlushKeeps ==
  ASSUME NEW E, NEW c \in ClientT(E), NEW ks \in SUBSET Keys, Core(c)
  PROVE  TryFlush(c, ks) \in ClientT(E) /\ Keeps(c, TryFlush(c, ks))
<1> DEFINE ready == {k \in ks : Waiting(c, k) /\ ~Blocked(c.slots[k])}
           full == {k \in ready : c.slots[k].n # 0}
           flushed(k) ==
             IF k \in full THEN [n |-> 0, merged |-> FALSE, inFlight |-> TRUE, clock |-> 0]
             ELSE [c.slots[k] EXCEPT !.merged = FALSE, !.inFlight = FALSE]
           slots == [k \in Keys |-> IF k \in ready THEN flushed(k) ELSE c.slots[k]]
           d == [c EXCEPT !.slots = slots]
           n == [k \in full |-> c.slots[k].n]
<1>1. TryFlush(c, ks) = Control(d, full, n, "update")
  BY DEF TryFlush
<1>2. c.slots \in [Keys -> Slot \cup {NoSlot}] /\ full \in SUBSET Keys /\ ready \in SUBSET Keys
  BY DEF ClientT
<1>3. \A k \in ready : c.slots[k] \in Slot /\ Waiting(c, k) /\ ~Blocked(c.slots[k])
  BY <1>2 DEF Waiting
<1>4. n \in [full -> Int]
  <2>1. \A k \in full : c.slots[k].n \in Int
    BY <1>3 DEF Slot
  <2> QED
    BY <2>1
<1>5. \A k \in ready : /\ flushed(k) \in Slot /\ flushed(k) # NoSlot /\ ~flushed(k).merged
                       /\ k \in full => flushed(k).inFlight /\ flushed(k).clock = 0
  <2> SUFFICES ASSUME NEW k \in ready
               PROVE  /\ flushed(k) \in Slot /\ ~flushed(k).merged
                      /\ k \in full => flushed(k).inFlight /\ flushed(k).clock = 0
    BY ControlAssumption DEF Slot
  <2>1. c.slots[k] \in Slot
    BY <1>3
  <2>2. CASE k \in full
    BY <2>2 DEF Slot
  <2>3. CASE k \notin full
    BY <2>1, <2>3 DEF Slot
  <2> QED
    BY <2>2, <2>3
<1>6. \A k \in full : k \in ready
  OBVIOUS
<1> HIDE DEF ready, full, flushed, n
<1>7. \A k \in Keys : slots[k] = IF k \in ready THEN flushed(k) ELSE c.slots[k]
  OBVIOUS
<1>8. slots \in [Keys -> Slot \cup {NoSlot}]
  BY <1>2, <1>5
<1> HIDE DEF slots
<1>9. \A s \in c.sent : s.young /\ s.key \notin Navs => s.key \in Keys /\ s.key \notin ready
  <2> SUFFICES ASSUME NEW s \in c.sent, s.young, s.key \notin Navs, s.key \in ready PROVE FALSE
    BY DEF ClientT, Sent
  <2>1. c.slots[s.key].inFlight /\ c.slots[s.key].clock < 2
    BY DEF Core, YoungOK
  <2> QED
    BY <1>3, <2>1 DEF Blocked
<1>10. \A g \in Ids : slots[g] # NoSlot => g \in Live(c)
  BY <1>3, <1>7, IdsAreKeys DEF Core, SlotsOK, Waiting
<1>11. \A g \in Ids : slots[g] # NoSlot /\ slots[g].merged => Waiting(c, g)
  BY <1>5, <1>7, IdsAreKeys DEF Waiting
<1>12. \A s \in c.sent : s.young /\ s.key \notin Navs =>
         slots[s.key] # NoSlot /\ slots[s.key].inFlight /\ slots[s.key].clock < 2
  BY <1>7, <1>9 DEF Core, YoungOK
<1>13. /\ d \in ClientT(E) /\ Keeps(c, d) /\ Live(d) = Live(c)
       /\ d.slots = slots /\ d.gestures = c.gestures /\ d.sent = c.sent
  BY <1>8, <1>10, <1>11, <1>12, SlotsKeep
<1> HIDE DEF d
<1>14. Core(d)
  BY <1>13 DEF Keeps
<1>15. \A k \in full \cap Ids : /\ k \in Live(d) /\ k \in 1..Len(d.gestures)
                                /\ d.gestures[k].batches <= TrimSteps - 2 /\ ~Waiting(d, k)
  <2> SUFFICES ASSUME NEW k \in full \cap Ids
               PROVE  /\ k \in Live(d) /\ k \in 1..Len(d.gestures)
                      /\ d.gestures[k].batches <= TrimSteps - 2 /\ ~Waiting(d, k)
    OBVIOUS
  <2>1. k \in Keys /\ k \in ready /\ Waiting(c, k)
    BY <1>3, <1>6, IdsAreKeys
  <2>2. k \in Live(c)
    BY <2>1 DEF Core, SlotsOK, Waiting
  <2>3. k \in Live(d) /\ k \in 1..Len(d.gestures)
    BY <1>13, <2>2 DEF Live
  <2>4. ~Waiting(d, k)
    BY <1>5, <1>7, <1>13, <2>1 DEF Waiting
  <2>5. d.gestures[k].batches <= TrimSteps - 2
    BY <1>13, <2>1, <2>3 DEF Core, StepsOK
  <2> QED
    BY <2>3, <2>4, <2>5
<1>16. MaySend(d, full, "update")
  <2>1. \A s \in d.sent : s.young /\ s.key \notin Navs => s.key \notin full
    BY <1>6, <1>9, <1>13
  <2>2. \A k \in full \ Navs : d.slots[k] # NoSlot /\ d.slots[k].inFlight /\ d.slots[k].clock < 2
    BY <1>2, <1>5, <1>6, <1>7, <1>13
  <2> QED
    BY <1>15, <2>1, <2>2 DEF MaySend
<1>17. Told(d) => \A k \in full \cap Ids : d.gestures[k].epoch = d.epoch
  BY <1>15 DEF Told, EpochsOK
<1> DEFINE r == Control(d, full, n, "update")
<1>18. r \in ClientT(E) /\ r.epoch = d.epoch
  <2>1. AfterControl(E, d, full, "update", r)
    BY <1>2, <1>4, <1>13, ControlIs
  <2> HIDE DEF r
  <2> QED
    BY <2>1 DEF AfterControl
<1>19. Keeps(d, r)
  <2>1. /\ Core(d) => Core(r)
        /\ Grows(d, r)
        /\ Told(d) /\ (\A k \in full \cap Ids : d.gestures[k].epoch = d.epoch) => Told(r)
    BY <1>2, <1>4, <1>13, <1>15, <1>16, ControlKeeps
  <2> QED
    BY <1>17, <1>18, <2>1 DEF Keeps
<1> HIDE DEF r
<1>20. Len(c.gestures) \in Nat /\ Len(d.gestures) \in Nat /\ Len(r.gestures) \in Nat
  BY <1>13, <1>18 DEF ClientT
<1>21. Keeps(c, r)
  BY <1>13, <1>19, <1>20, KeepsOn
<1> QED
  BY <1>1, <1>18, <1>21 DEF r

(* Keys are released when none of their updates waits for an answer.         *)
LEMMA AckSlotsKeeps ==
  ASSUME NEW E, NEW c \in ClientT(E), NEW ks \in SUBSET Keys, Core(c),
         \A s \in c.sent : s.young /\ s.key \notin Navs => s.key \notin ks
  PROVE  AckSlots(c, ks) \in ClientT(E) /\ Keeps(c, AckSlots(c, ks))
<1> DEFINE slots == [k \in Keys |->
              IF k \in ks /\ c.slots[k] # NoSlot THEN [c.slots[k] EXCEPT !.inFlight = FALSE]
              ELSE c.slots[k]]
           d == [c EXCEPT !.slots = slots]
           r == TryFlush(d, ks)
<1>1. AckSlots(c, ks) = r
  BY DEF AckSlots
<1>2. c.slots \in [Keys -> Slot \cup {NoSlot}]
  BY DEF ClientT
<1>3. \A k \in Keys : /\ slots[k] \in Slot \cup {NoSlot}
                      /\ slots[k] # NoSlot <=> c.slots[k] # NoSlot
                      /\ slots[k] # NoSlot /\ slots[k].merged => c.slots[k].merged
                      /\ k \notin ks => slots[k] = c.slots[k]
  <2> SUFFICES ASSUME NEW k \in Keys
               PROVE  /\ slots[k] \in Slot \cup {NoSlot}
                      /\ slots[k] # NoSlot <=> c.slots[k] # NoSlot
                      /\ slots[k] # NoSlot /\ slots[k].merged => c.slots[k].merged
                      /\ k \notin ks => slots[k] = c.slots[k]
    OBVIOUS
  <2>1. CASE k \in ks /\ c.slots[k] # NoSlot
    <3>1. c.slots[k] \in Slot
      BY <1>2, <2>1
    <3>2. /\ [c.slots[k] EXCEPT !.inFlight = FALSE] \in Slot
          /\ [c.slots[k] EXCEPT !.inFlight = FALSE].merged = c.slots[k].merged
      BY <3>1 DEF Slot
    <3>3. [c.slots[k] EXCEPT !.inFlight = FALSE] # NoSlot
      BY <3>2, ControlAssumption DEF Slot
    <3> QED
      BY <2>1, <3>2, <3>3
  <2>2. CASE ~(k \in ks /\ c.slots[k] # NoSlot)
    BY <1>2, <2>2
  <2> QED
    BY <2>1, <2>2
<1>4. slots \in [Keys -> Slot \cup {NoSlot}]
  BY <1>3
<1> HIDE DEF slots
<1>5. \A g \in Ids : slots[g] # NoSlot => g \in Live(c)
  BY <1>3, IdsAreKeys DEF Core, SlotsOK
<1>6. \A g \in Ids : slots[g] # NoSlot /\ slots[g].merged => Waiting(c, g)
  BY <1>3, IdsAreKeys DEF Waiting
<1>7. \A s \in c.sent : s.young /\ s.key \notin Navs =>
        slots[s.key] # NoSlot /\ slots[s.key].inFlight /\ slots[s.key].clock < 2
  <2>1. \A s \in c.sent : s.key \in Keys
    BY DEF ClientT, Sent
  <2> QED
    BY <1>3, <2>1 DEF Core, YoungOK
<1>8. d \in ClientT(E) /\ Keeps(c, d)
  BY <1>4, <1>5, <1>6, <1>7, SlotsKeep
<1> HIDE DEF d
<1>9. Core(d)
  BY <1>8 DEF Keeps
<1>10. r \in ClientT(E) /\ Keeps(d, r)
  BY <1>8, <1>9, TryFlushKeeps
<1> HIDE DEF r
<1>11. Len(c.gestures) \in Nat /\ Len(d.gestures) \in Nat /\ Len(r.gestures) \in Nat
  BY <1>8, <1>10 DEF ClientT
<1>12. Keeps(c, r)
  BY <1>8, <1>10, <1>11, KeepsOn
<1> QED
  BY <1>1, <1>10, <1>12

(* Detents are added for a gesture that is live and has a step left.         *)
LEMMA AddKeeps ==
  ASSUME NEW E, NEW c \in ClientT(E), NEW k \in Keys, NEW n \in Int, Core(c),
         k \in Ids => k \in Live(c) /\ c.gestures[k].batches <= TrimSteps - 2
  PROVE  Add(c, k, n) \in ClientT(E) /\ Keeps(c, Add(c, k, n))
<1>1. CASE ~Takes(c, k)
  <2>1. Add(c, k, n) = c
    BY <1>1 DEF Add
  <2>2. Len(c.gestures) \in Nat
    BY DEF ClientT
  <2> QED
    BY <2>1, <2>2 DEF Keeps, Grows
<1>2. CASE Takes(c, k)
  <2> DEFINE s == IF c.slots[k] = NoSlot THEN EmptySlot ELSE c.slots[k]
             new == [s EXCEPT !.n = s.n + n, !.merged = TRUE]
             slots == [c.slots EXCEPT ![k] = new]
             d == [c EXCEPT !.slots = slots]
             r == TryFlush(d, {k})
  <2>1. Add(c, k, n) = r
    BY <1>2 DEF Add
  <2>2. c.slots \in [Keys -> Slot \cup {NoSlot}]
    BY DEF ClientT
  <2>3. s \in Slot
    BY <2>2 DEF Slot, EmptySlot
  <2>4. s = c.slots[k] \/ c.slots[k] = NoSlot
    OBVIOUS
  <2> HIDE DEF s
  <2>5. new \in Slot /\ new.inFlight = s.inFlight /\ new.clock = s.clock
    <3>1. s.n + n \in Int
      BY <2>3 DEF Slot
    <3> QED
      BY <2>3, <3>1 DEF Slot
  <2>6. new # NoSlot
    BY <2>5, ControlAssumption DEF Slot
  <2> HIDE DEF new
  <2>7. \A x \in Keys : slots[x] = IF x = k THEN new ELSE c.slots[x]
    BY <2>2
  <2>8. slots \in [Keys -> Slot \cup {NoSlot}]
    BY <2>2, <2>5
  <2> HIDE DEF slots
  <2>9. \A g \in Ids : slots[g] # NoSlot => g \in Live(c)
    BY <2>7, IdsAreKeys DEF Core, SlotsOK
  <2>10. \A g \in Ids : slots[g] # NoSlot /\ slots[g].merged =>
           Waiting(c, g) \/ c.gestures[g].batches <= TrimSteps - 2
    BY <2>7, IdsAreKeys DEF Waiting
  <2>11. \A t \in c.sent : t.young /\ t.key \notin Navs =>
           slots[t.key] # NoSlot /\ slots[t.key].inFlight /\ slots[t.key].clock < 2
    <3> SUFFICES ASSUME NEW t \in c.sent, t.young, t.key \notin Navs
                 PROVE  slots[t.key] # NoSlot /\ slots[t.key].inFlight /\ slots[t.key].clock < 2
      OBVIOUS
    <3>1. /\ t.key \in Keys /\ c.slots[t.key] # NoSlot
          /\ c.slots[t.key].inFlight /\ c.slots[t.key].clock < 2
      BY DEF Core, YoungOK, ClientT, Sent
    <3>2. CASE t.key = k
      BY <2>4, <2>5, <2>6, <2>7, <3>1, <3>2
    <3>3. CASE t.key # k
      BY <2>7, <3>1, <3>3
    <3> QED
      BY <3>2, <3>3
  <2>12. d \in ClientT(E) /\ Keeps(c, d)
    BY <2>8, <2>9, <2>10, <2>11, SlotsKeep
  <2> HIDE DEF d
  <2>13. Core(d)
    BY <2>12 DEF Keeps
  <2>14. r \in ClientT(E) /\ Keeps(d, r)
    BY <2>12, <2>13, TryFlushKeeps
  <2> HIDE DEF r
  <2>15. Len(c.gestures) \in Nat /\ Len(d.gestures) \in Nat /\ Len(r.gestures) \in Nat
    BY <2>12, <2>14 DEF ClientT
  <2>16. Keeps(c, r)
    BY <2>12, <2>14, <2>15, KeepsOn
  <2> QED
    BY <2>1, <2>14, <2>16
<1> QED
  BY <1>1, <1>2

(* Gestures are ended with what they have to send, and no other is touched.  *)
LEMMA EndGesturesKeep ==
  ASSUME NEW E, NEW c \in ClientT(E), NEW gs, gs \subseteq Live(c), Core(c)
  PROVE  LET q == EndGestures(c, gs)
         IN /\ q \in ClientT(E) /\ Keeps(c, q) /\ Live(q) = Live(c) \ gs
            /\ Len(q.gestures) = Len(c.gestures)
            /\ \A g \in 1..Len(c.gestures) : g \notin gs => q.gestures[g] = c.gestures[g]
<1> DEFINE sending == {g \in gs : c.slots[g] # NoSlot}
           d == RemoveSlots(c, sending)
           e == SetFate(d, gs, "ended")
           n == [g \in sending |-> c.slots[g].n]
           r == Control(e, sending, n, "end")
<1>1. EndGestures(c, gs) = r
  BY DEF EndGestures
<1>2. c.gestures \in Seq(GestureT(E)) /\ Len(c.gestures) \in Nat
  BY DEF ClientT
<1>3. gs \subseteq 1..Len(c.gestures) /\ gs \subseteq Ids
  <2>1. gs \subseteq 1..Len(c.gestures) /\ Len(c.gestures) <= MaxGestures
    BY DEF Live, Core, SlotsOK
  <2> QED
    BY <1>2, <2>1, ControlAssumption DEF Ids
<1>4. sending \in SUBSET Keys /\ sending \subseteq gs
  BY <1>3, IdsAreKeys
<1>5. n \in [sending -> Int]
  <2>1. \A g \in sending : c.slots[g].n \in Int
    BY <1>4 DEF ClientT, Slot
  <2> QED
    BY <2>1
<1>6. \A g \in gs : g \notin sending => c.slots[g] = NoSlot
  OBVIOUS
<1> HIDE DEF sending, n
<1>7. Keeps(c, d) /\ Live(d) = Live(c)
  BY RemoveSlotsKeeps
<1>8. d \in ClientT(E) /\ d.gestures = c.gestures
  BY RemoveSlotsIs
<1>9. \A k \in Keys : d.slots[k] = IF k \in sending THEN NoSlot ELSE c.slots[k]
  BY RemoveSlotsIs
<1>10. \A g \in gs : d.slots[g] = NoSlot
  BY <1>3, <1>6, <1>9, IdsAreKeys
<1> HIDE DEF d
<1>11. "ended" \in Fates /\ "ended" \in {"ended", "forgotten"}
  BY DEF Fates
<1>12. Keeps(d, e) /\ Live(e) = Live(d) \ gs
  BY <1>8, <1>10, <1>11, SetFateKeeps
<1>13. e \in ClientT(E) /\ Len(e.gestures) = Len(d.gestures) /\ e.slots = d.slots
  BY <1>8, <1>11, SetFateIs
<1>14. \A g \in 1..Len(d.gestures) : g \notin gs => e.gestures[g] = d.gestures[g]
  BY <1>8, <1>11, SetFateIs
<1>15. \A g \in 1..Len(d.gestures) : e.gestures[g].epoch = d.gestures[g].epoch
  BY <1>12 DEF Keeps, Grows
<1> HIDE DEF e
<1>16. Keeps(c, e)
  <2>1. Len(d.gestures) \in Nat /\ Len(e.gestures) \in Nat
    BY <1>8, <1>13 DEF ClientT
  <2> QED
    BY <1>2, <1>7, <1>12, <2>1, KeepsOn
<1>17. Core(e)
  BY <1>16 DEF Keeps
<1>18. \A k \in sending : k \notin Live(e) /\ k \in 1..Len(e.gestures) /\ e.slots[k] = NoSlot
  BY <1>3, <1>4, <1>8, <1>10, <1>12, <1>13
<1>19. MaySend(e, sending, "end")
  BY <1>17, <1>18 DEF MaySend, Core, YoungOK
<1>20. Told(c) => \A k \in sending \cap Ids : e.gestures[k].epoch = e.epoch
  <2> SUFFICES ASSUME Told(c), NEW k \in sending PROVE e.gestures[k].epoch = e.epoch
    OBVIOUS
  <2>1. k \in Live(c) /\ k \in 1..Len(c.gestures)
    BY <1>3, <1>4
  <2>2. c.gestures[k].epoch = c.epoch
    BY <2>1 DEF Told, EpochsOK
  <2> QED
    BY <1>8, <1>15, <1>16, <2>1, <2>2 DEF Keeps
<1>21. AfterControl(E, e, sending, "end", r)
  BY <1>4, <1>5, <1>13, ControlIs
<1>22. /\ Live(r) = Live(e)
       /\ Core(e) => Core(r)
       /\ Grows(e, r)
       /\ Told(e) /\ (\A k \in sending \cap Ids : e.gestures[k].epoch = e.epoch) => Told(r)
  BY <1>4, <1>5, <1>13, <1>18, <1>19, ControlKeeps
<1> HIDE DEF r
<1>23. /\ r \in ClientT(E) /\ r.epoch = e.epoch /\ Len(r.gestures) = Len(e.gestures)
       /\ \A g \in 1..Len(e.gestures) : g \notin sending => r.gestures[g] = e.gestures[g]
  BY <1>21 DEF AfterControl
<1>24. Grows(c, r)
  BY <1>2, <1>8, <1>13, <1>16, <1>22, <1>23 DEF Keeps, Grows
<1>25. Keeps(c, r)
  BY <1>16, <1>17, <1>20, <1>22, <1>23, <1>24 DEF Keeps
<1>26. Live(r) = Live(c) \ gs
  BY <1>7, <1>12, <1>22
<1>27. Len(r.gestures) = Len(c.gestures)
  BY <1>8, <1>13, <1>23
<1>28. \A g \in 1..Len(c.gestures) : g \notin gs => r.gestures[g] = c.gestures[g]
  BY <1>4, <1>8, <1>13, <1>14, <1>23
<1> QED
  BY <1>1, <1>23, <1>25, <1>26, <1>27, <1>28

(* A step that changes nothing of slots, gestures' steps and calls.          *)
LEMMA QuietKeeps ==
  ASSUME NEW E, NEW c \in ClientT(E), NEW q \in ClientT(E),
         q.epoch = c.epoch, q.slots = c.slots, q.out = c.out,
         Len(q.gestures) = Len(c.gestures),
         \A g \in 1..Len(c.gestures) : /\ q.gestures[g].epoch = c.gestures[g].epoch
                                       /\ q.gestures[g].batches = c.gestures[g].batches
                                       /\ q.gestures[g].fate = c.gestures[g].fate,
         \A s \in q.sent : s.young /\ s.key \notin Navs =>
           s \in c.sent /\ q.latest[s.key] = c.latest[s.key]
  PROVE  Keeps(c, q) /\ Live(q) = Live(c)
<1>1. Live(q) = Live(c)
  BY DEF Live
<1>2. Len(c.gestures) \in Nat
  BY DEF ClientT
<1>3. Grows(c, q)
  BY <1>2 DEF Grows
<1>4. ASSUME Told(c) PROVE Told(q)
  <2>1. EpochsOK(q)
    BY <1>1, <1>4 DEF Told, EpochsOK, Live
  <2>2. CallsOK(q, q.out)
    BY <1>4 DEF Told, CallsOK
  <2> QED
    BY <2>1, <2>2 DEF Told
<1>5. ASSUME Core(c) PROVE Core(q)
  <2>1. SlotsOK(q)
    BY <1>1, <1>5 DEF Core, SlotsOK
  <2>2. StepsOK(q)
    BY <1>5 DEF Core, StepsOK, Waiting
  <2>3. YoungOK(q)
    BY <1>5 DEF Core, YoungOK
  <2> QED
    BY <2>1, <2>2, <2>3 DEF Core
<1> QED
  BY <1>1, <1>3, <1>4, <1>5 DEF Keeps

(* All that is pending is given up, and no answer is waited for.             *)
LEMMA DropPendingWorkKeeps ==
  ASSUME NEW E, NEW c \in ClientT(E), Core(c)
  PROVE  LET q == DropPendingWork(c)
         IN /\ q \in ClientT(E) /\ Keeps(c, q)
            /\ q.latest = c.latest /\ \A s \in q.sent : ~s.young
<1> DEFINE d == RemoveSlots(c, Keys)
           e == SetFate(d, Live(c), "forgotten")
           nav == [k \in Navs |-> None]
           r == [e EXCEPT !.navInFlight = nav, !.navAwaiting = {}]
<1>1. DropPendingWork(c) = r
  BY DEF DropPendingWork
<1>2. Len(c.gestures) \in Nat /\ Live(c) \subseteq Keys
  <2>1. Len(c.gestures) \in Nat /\ Len(c.gestures) <= MaxGestures
    BY DEF ClientT, Core, SlotsOK
  <2>2. 1..Len(c.gestures) \subseteq Ids
    BY <2>1, ControlAssumption DEF Ids
  <2> QED
    BY <2>1, <2>2, IdsAreKeys DEF Live
<1>3. Keeps(c, d)
  BY RemoveSlotsKeeps
<1>4. d \in ClientT(E) /\ d.latest = c.latest
  BY RemoveSlotsIs
<1>5. \A k \in Keys : d.slots[k] = NoSlot
  BY RemoveSlotsIs
<1>6. \A s \in d.sent : \E t \in c.sent :
        s.seq = t.seq /\ s.key = t.key /\ (s.young => t.young /\ t.key \notin Keys)
  BY RemoveSlotsIs
<1> HIDE DEF d
<1>7. \A s \in d.sent : ~s.young
  BY <1>6 DEF ClientT, Sent
<1>8. "forgotten" \in Fates /\ "forgotten" \in {"ended", "forgotten"}
  BY DEF Fates
<1>9. Keeps(d, e)
  BY <1>2, <1>4, <1>5, <1>8, SetFateKeeps
<1>10. e \in ClientT(E) /\ e.sent = d.sent /\ e.latest = d.latest
  BY <1>4, <1>8, SetFateIs
<1> HIDE DEF e
<1>11. nav \in [Navs -> E.epochs \cup {None}]
  OBVIOUS
<1> HIDE DEF nav
<1>12. /\ r \in ClientT(E) /\ r.epoch = e.epoch /\ r.slots = e.slots /\ r.out = e.out
       /\ r.gestures = e.gestures /\ r.sent = e.sent /\ r.latest = e.latest
  BY <1>10, <1>11 DEF ClientT
<1> HIDE DEF r
<1>13. Keeps(e, r)
  BY <1>10, <1>12, QuietKeeps
<1>14. Len(d.gestures) \in Nat /\ Len(e.gestures) \in Nat /\ Len(r.gestures) \in Nat
  BY <1>4, <1>10, <1>12 DEF ClientT
<1>15. Keeps(c, r)
  <2>1. Keeps(c, e)
    BY <1>2, <1>3, <1>9, <1>14, KeepsOn
  <2> QED
    BY <1>2, <1>13, <1>14, <2>1, KeepsOn
<1> QED
  BY <1>1, <1>4, <1>7, <1>10, <1>12, <1>15

(* The engine's part of an ack, for a key without an update in flight.       *)
LEMMA AckedKeeps ==
  ASSUME NEW E, NEW c \in ClientT(E), NEW k \in Keys, NEW m, Core(c),
         \A s \in c.sent : s.young /\ s.key \notin Navs => s.key # k
  PROVE  Acked(c, k, m) \in ClientT(E) /\ Keeps(c, Acked(c, k, m))
<1> DEFINE clear == IF k \in Navs THEN [c EXCEPT !.navInFlight[k] = None] ELSE c
           wait == [clear EXCEPT !.navAwaiting = @ \cup {k}]
<1>1. /\ clear \in ClientT(E) /\ clear.epoch = c.epoch /\ clear.slots = c.slots
      /\ clear.out = c.out /\ clear.gestures = c.gestures /\ clear.sent = c.sent
      /\ clear.latest = c.latest
  <2>1. CASE k \in Navs
    <3> DEFINE nav == [c.navInFlight EXCEPT ![k] = None]
               q == [c EXCEPT !.navInFlight = nav]
    <3>1. clear = q
      BY <2>1
    <3>2. nav \in [Navs -> E.epochs \cup {None}]
      BY <2>1 DEF ClientT
    <3> HIDE DEF clear, nav
    <3>3. /\ q \in ClientT(E) /\ q.epoch = c.epoch /\ q.slots = c.slots
          /\ q.out = c.out /\ q.gestures = c.gestures /\ q.sent = c.sent
          /\ q.latest = c.latest
      BY <3>2 DEF ClientT
    <3> QED
      BY <3>1, <3>3
  <2>2. CASE k \notin Navs
    BY <2>2
  <2> QED
    BY <2>1, <2>2
<1> HIDE DEF clear
<1>2. Keeps(c, clear)
  BY <1>1, QuietKeeps
<1>3. CASE k \in Navs /\ m.ok /\ m.changed /\ c.navInFlight[k] = c.epoch
  <2>1. Acked(c, k, m) = wait
    BY <1>3 DEF Acked, clear
  <2>2. clear.navAwaiting \cup {k} \in SUBSET Navs
    BY <1>1, <1>3 DEF ClientT
  <2>3. /\ wait \in ClientT(E) /\ wait.epoch = clear.epoch /\ wait.slots = clear.slots
        /\ wait.out = clear.out /\ wait.gestures = clear.gestures /\ wait.sent = clear.sent
        /\ wait.latest = clear.latest
    BY <1>1, <2>2 DEF ClientT
  <2> HIDE DEF wait
  <2>4. Keeps(c, wait)
    BY <1>1, <2>3, QuietKeeps
  <2> QED
    BY <2>1, <2>3, <2>4
<1>4. CASE ~(k \in Navs /\ m.ok /\ m.changed /\ c.navInFlight[k] = c.epoch)
  <2> DEFINE r == AckSlots(clear, {k})
  <2>1. Acked(c, k, m) = r
    BY <1>4 DEF Acked, clear
  <2>2. Core(clear)
    BY <1>2 DEF Keeps
  <2>3. r \in ClientT(E) /\ Keeps(clear, r)
    BY <1>1, <2>2, AckSlotsKeeps
  <2> HIDE DEF r
  <2>4. Len(c.gestures) \in Nat /\ Len(clear.gestures) \in Nat /\ Len(r.gestures) \in Nat
    BY <1>1, <2>3 DEF ClientT
  <2> QED
    BY <1>2, <2>1, <2>3, <2>4, KeepsOn
<1> QED
  BY <1>3, <1>4

(* An ack releases its key only if it is for the last message of the key,    *)
(* and then no earlier one waits.                                            *)
LEMMA OnControlAckKeeps ==
  ASSUME NEW E, NEW c \in ClientT(E), NEW s \in c.sent, NEW m, m.seq = s.seq, Core(c)
  PROVE  OnControlAck(c, m, s) \in ClientT(E) /\ Keeps(c, OnControlAck(c, m, s))
<1> DEFINE left == {x \in c.sent : x.key # s.key \/ x.seq > s.seq}
           settled == [c EXCEPT !.sent = left]
           heard == IF m.ok THEN settled ELSE DropPendingWork(settled)
           lat == [heard.latest EXCEPT ![s.key] = None]
           d == [heard EXCEPT !.latest = lat]
           r == Acked(d, s.key, m)
<1>1. OnControlAck(c, m, s) = IF c.latest[s.key] # m.seq THEN heard ELSE r
  BY DEF OnControlAck, Settled
<1>2. s.key \in Keys /\ s.seq \in Nat
  BY DEF ClientT, Sent
<1>3. left \subseteq c.sent /\ left \in SUBSET Sent
  BY DEF ClientT
<1>4. \A x \in left : x.young /\ x.key \notin Navs => c.latest[x.key] = x.seq
  BY DEF Core, YoungOK
<1>5. \A x \in left : x.key = s.key => x.seq > s.seq
  OBVIOUS
<1> HIDE DEF left
<1>6. /\ settled \in ClientT(E) /\ settled.epoch = c.epoch /\ settled.slots = c.slots
      /\ settled.out = c.out /\ settled.gestures = c.gestures /\ settled.sent = left
      /\ settled.latest = c.latest
  BY <1>3 DEF ClientT
<1> HIDE DEF settled
<1>7. Keeps(c, settled)
  BY <1>3, <1>6, QuietKeeps
<1>8. Core(settled)
  BY <1>7 DEF Keeps
<1>9. Len(c.gestures) \in Nat /\ Len(settled.gestures) \in Nat
  BY <1>6 DEF ClientT
<1>10. /\ heard \in ClientT(E) /\ Keeps(c, heard) /\ heard.latest = c.latest
       /\ \A x \in heard.sent : x.young => x \in left
  <2>1. CASE m.ok
    BY <1>6, <1>7, <2>1
  <2>2. CASE ~m.ok
    <3> DEFINE q == DropPendingWork(settled)
    <3>1. /\ q \in ClientT(E) /\ Keeps(settled, q)
          /\ q.latest = settled.latest /\ \A x \in q.sent : ~x.young
      BY <1>6, <1>8, DropPendingWorkKeeps
    <3>2. heard = q
      BY <2>2
    <3> HIDE DEF q, heard
    <3>3. Len(q.gestures) \in Nat
      BY <3>1 DEF ClientT
    <3>4. Keeps(c, q)
      BY <1>7, <1>9, <3>1, <3>3, KeepsOn
    <3> QED
      BY <1>6, <3>1, <3>2, <3>4
  <2> QED
    BY <2>1, <2>2
<1> HIDE DEF heard
<1>11. CASE c.latest[s.key] # m.seq
  BY <1>1, <1>10, <1>11
<1>12. CASE c.latest[s.key] = m.seq
  <2>1. lat \in [Keys -> Nat] /\ \A k \in Keys : k # s.key => lat[k] = heard.latest[k]
    BY <1>2, <1>10 DEF ClientT, None
  <2> HIDE DEF lat
  <2>2. /\ d \in ClientT(E) /\ d.epoch = heard.epoch /\ d.slots = heard.slots
        /\ d.out = heard.out /\ d.gestures = heard.gestures /\ d.sent = heard.sent
        /\ d.latest = lat
    BY <1>10, <2>1 DEF ClientT
  <2> HIDE DEF d
  <2>3. \A x \in d.sent : x.young /\ x.key \notin Navs => x.key # s.key
    <3> SUFFICES ASSUME NEW x \in d.sent, x.young, x.key \notin Navs, x.key = s.key PROVE FALSE
      OBVIOUS
    <3>1. x \in left
      BY <1>10, <2>2
    <3>2. x.seq = s.seq /\ x.seq > s.seq
      BY <1>4, <1>5, <1>12, <3>1
    <3> QED
      BY <1>2, <3>2
  <2>4. \A x \in d.sent : x.key \in Keys
    BY <2>2 DEF ClientT, Sent
  <2>5. Keeps(heard, d)
    BY <1>10, <2>1, <2>2, <2>3, <2>4, QuietKeeps
  <2>6. Core(d)
    BY <1>10, <2>5 DEF Keeps
  <2>7. r \in ClientT(E) /\ Keeps(d, r)
    BY <1>2, <2>2, <2>3, <2>6, AckedKeeps
  <2>8. OnControlAck(c, m, s) = r
    BY <1>1, <1>12
  <2> HIDE DEF r
  <2>9. Len(heard.gestures) \in Nat /\ Len(d.gestures) \in Nat /\ Len(r.gestures) \in Nat
    BY <1>10, <2>2, <2>7 DEF ClientT
  <2>10. Keeps(c, d)
    BY <1>9, <1>10, <2>5, <2>9, KeepsOn
  <2> QED
    BY <1>9, <2>7, <2>8, <2>9, <2>10, KeepsOn
<1> QED
  BY <1>11, <1>12

(* Only controls wait for a new epoch.                                       *)
LEMMA ReleaseNavigationKeeps ==
  ASSUME NEW E, NEW c \in ClientT(E), Core(c)
  PROVE  ReleaseNavigation(c) \in ClientT(E) /\ Keeps(c, ReleaseNavigation(c))
<1> DEFINE d == [c EXCEPT !.navAwaiting = {}]
           r == AckSlots(d, c.navAwaiting)
<1>1. ReleaseNavigation(c) = r
  BY DEF ReleaseNavigation
<1>2. /\ d \in ClientT(E) /\ d.epoch = c.epoch /\ d.slots = c.slots
      /\ d.out = c.out /\ d.gestures = c.gestures /\ d.sent = c.sent
      /\ d.latest = c.latest
  BY DEF ClientT
<1> HIDE DEF d
<1>3. Keeps(c, d)
  BY <1>2, QuietKeeps
<1>4. Core(d)
  BY <1>3 DEF Keeps
<1>5. c.navAwaiting \subseteq Navs /\ c.navAwaiting \in SUBSET Keys
  BY IdsAreKeys DEF ClientT
<1>6. r \in ClientT(E) /\ Keeps(d, r)
  BY <1>2, <1>4, <1>5, AckSlotsKeeps
<1> HIDE DEF r
<1>7. Len(c.gestures) \in Nat /\ Len(d.gestures) \in Nat /\ Len(r.gestures) \in Nat
  BY <1>2, <1>6 DEF ClientT
<1> QED
  BY <1>1, <1>3, <1>6, <1>7, KeepsOn

(* A context makes no call but the ends of a mode rule.                      *)
LEMMA ContextChangedKeeps ==
  ASSUME NEW E, NEW c \in ClientT(E), NEW rule, Core(c)
  PROVE  LET q == ContextChanged(c, rule)
         IN q \in ClientT(E) /\ Keeps(c, q) /\ (~rule => q.out = c.out)
<1> DEFINE moved == {g \in Live(c) : c.gestures[g].binding \in FrameBound /\ c.gestures[g].pos # c.pos}
           d == RemoveSlots(c, moved)
           e == SetFate(d, moved, "forgotten")
           r == EndAllGestures(e)
<1>1. ContextChanged(c, rule) = IF rule THEN r ELSE e
  BY DEF ContextChanged
<1>2. moved \subseteq Keys
  <2>1. Len(c.gestures) \in Nat /\ Len(c.gestures) <= MaxGestures
    BY DEF ClientT, Core, SlotsOK
  <2>2. 1..Len(c.gestures) \subseteq Ids
    BY <2>1, ControlAssumption DEF Ids
  <2> QED
    BY <2>1, <2>2, IdsAreKeys DEF Live
<1> HIDE DEF moved
<1>3. Keeps(c, d)
  BY RemoveSlotsKeeps
<1>4. d \in ClientT(E) /\ d.out = c.out
  BY RemoveSlotsIs
<1>5. \A k \in Keys : d.slots[k] = IF k \in moved THEN NoSlot ELSE c.slots[k]
  BY RemoveSlotsIs
<1> HIDE DEF d
<1>6. "forgotten" \in Fates /\ "forgotten" \in {"ended", "forgotten"}
  BY DEF Fates
<1>7. \A g \in moved : d.slots[g] = NoSlot
  BY <1>2, <1>5
<1>8. Keeps(d, e)
  BY <1>4, <1>6, <1>7, SetFateKeeps
<1>9. e \in ClientT(E) /\ e.out = d.out
  BY <1>4, <1>6, SetFateIs
<1> HIDE DEF e
<1>10. Len(c.gestures) \in Nat /\ Len(d.gestures) \in Nat /\ Len(e.gestures) \in Nat
  BY <1>4, <1>9 DEF ClientT
<1>11. Keeps(c, e)
  BY <1>3, <1>8, <1>10, KeepsOn
<1>12. Core(e)
  BY <1>11 DEF Keeps
<1>13. r \in ClientT(E) /\ Keeps(e, r)
  BY <1>9, <1>12, EndGesturesKeep DEF EndAllGestures
<1> HIDE DEF r
<1>14. Len(r.gestures) \in Nat
  BY <1>13 DEF ClientT
<1>15. Keeps(c, r)
  BY <1>10, <1>11, <1>13, <1>14, KeepsOn
<1>16. CASE rule
  BY <1>1, <1>13, <1>15, <1>16
<1>17. CASE ~rule
  BY <1>1, <1>4, <1>9, <1>11, <1>17
<1> QED
  BY <1>16, <1>17

(* A new epoch leaves no gesture and no slot of one.                         *)
LEMMA EpochChangedKeeps ==
  ASSUME NEW E, NEW c \in ClientT(E), Core(c)
  PROVE  LET q == EpochChanged(c)
         IN /\ q \in ClientT(E) /\ Core(q) /\ Grows(c, q) /\ q.epoch = c.epoch
            /\ c.out = <<>> => Told(q)
<1> DEFINE ks == Keys \ c.navAwaiting
           d == RemoveSlots(c, ks)
           e == SetFate(d, Live(c), "forgotten")
           nav == [k \in Navs |-> None]
           f == [e EXCEPT !.navInFlight = nav]
           r == ReleaseNavigation(f)
<1>1. EpochChanged(c) = r
  BY DEF EpochChanged
<1>2. Live(c) \subseteq Ids /\ Ids \subseteq ks /\ Ids \subseteq Keys
  <2>1. Len(c.gestures) \in Nat /\ Len(c.gestures) <= MaxGestures
    BY DEF ClientT, Core, SlotsOK
  <2>2. 1..Len(c.gestures) \subseteq Ids
    BY <2>1, ControlAssumption DEF Ids
  <2>3. Ids \subseteq ks
    BY IdsAreKeys DEF ClientT
  <2> QED
    BY <2>1, <2>2, <2>3, IdsAreKeys DEF Live
<1> HIDE DEF ks
<1>3. Keeps(c, d) /\ Live(d) = Live(c)
  BY RemoveSlotsKeeps
<1>4. d \in ClientT(E) /\ d.out = c.out
  BY RemoveSlotsIs
<1>5. \A k \in Keys : d.slots[k] = IF k \in ks THEN NoSlot ELSE c.slots[k]
  BY RemoveSlotsIs
<1> HIDE DEF d
<1>6. "forgotten" \in Fates /\ "forgotten" \in {"ended", "forgotten"}
  BY DEF Fates
<1>7. \A g \in Live(c) : d.slots[g] = NoSlot
  BY <1>2, <1>5
<1>8. Keeps(d, e) /\ Live(e) = {}
  BY <1>3, <1>4, <1>6, <1>7, SetFateKeeps
<1>9. e \in ClientT(E) /\ e.out = d.out
  BY <1>4, <1>6, SetFateIs
<1> HIDE DEF e
<1>10. nav \in [Navs -> E.epochs \cup {None}]
  OBVIOUS
<1> HIDE DEF nav
<1>11. /\ f \in ClientT(E) /\ f.epoch = e.epoch /\ f.slots = e.slots /\ f.out = e.out
       /\ f.gestures = e.gestures /\ f.sent = e.sent /\ f.latest = e.latest
  BY <1>9, <1>10 DEF ClientT
<1> HIDE DEF f
<1>12. Keeps(e, f) /\ Live(f) = Live(e)
  BY <1>9, <1>11, QuietKeeps
<1>13. Len(c.gestures) \in Nat /\ Len(d.gestures) \in Nat /\ Len(e.gestures) \in Nat
         /\ Len(f.gestures) \in Nat
  BY <1>4, <1>9, <1>11 DEF ClientT
<1>14. Keeps(c, f)
  <2>1. Keeps(c, e)
    BY <1>3, <1>8, <1>13, KeepsOn
  <2> QED
    BY <1>12, <1>13, <2>1, KeepsOn
<1>15. Core(f)
  BY <1>14 DEF Keeps
<1>16. r \in ClientT(E) /\ Keeps(f, r)
  BY <1>11, <1>15, ReleaseNavigationKeeps
<1> HIDE DEF r
<1>17. Len(r.gestures) \in Nat
  BY <1>16 DEF ClientT
<1>18. Keeps(c, r)
  BY <1>13, <1>14, <1>16, <1>17, KeepsOn
<1>19. ASSUME c.out = <<>> PROVE Told(r)
  <2>1. EpochsOK(f)
    BY <1>8, <1>12 DEF EpochsOK
  <2>2. f.out = <<>>
    BY <1>4, <1>9, <1>11, <1>19
  <2>3. CallsOK(f, f.out)
    BY <2>2, EmptySeq DEF CallsOK
  <2> QED
    BY <1>16, <2>1, <2>3 DEF Told, Keeps
<1> QED
  BY <1>1, <1>16, <1>18, <1>19 DEF Keeps

(* A context under a new epoch, or the one the client has.                   *)
LEMMA ApplyContextKeeps ==
  ASSUME NEW E, NEW c \in ClientT(E), NEW m, m.epoch \in E.epochs, m.pos \in E.spots, NEW rule,
         Core(c), c.out = <<>>
  PROVE  LET q == ApplyContext(c, m, rule)
         IN /\ q \in ClientT(E) /\ Core(q) /\ Grows(c, q) /\ q.epoch = m.epoch
            /\ Told(c) /\ ~rule => Told(q)
<1> DEFINE d == [c EXCEPT !.epoch = m.epoch, !.pos = m.pos]
           e == ContextChanged(d, rule)
           r == EpochChanged(e)
<1>1. ApplyContext(c, m, rule) = IF m.epoch = c.epoch THEN e ELSE r
  BY DEF ApplyContext
<1>2. /\ d \in ClientT(E) /\ d.epoch = m.epoch /\ d.slots = c.slots /\ d.out = c.out
      /\ d.gestures = c.gestures /\ d.sent = c.sent /\ d.latest = c.latest
  BY DEF ClientT
<1> HIDE DEF d
<1>3. Core(d)
  BY <1>2 DEF Core, SlotsOK, StepsOK, YoungOK, Live, Waiting
<1>4. e \in ClientT(E) /\ Keeps(d, e) /\ (~rule => e.out = d.out)
  BY <1>2, <1>3, ContextChangedKeeps
<1> HIDE DEF e
<1>5. Core(e)
  BY <1>3, <1>4 DEF Keeps
<1>6. r \in ClientT(E) /\ Core(r) /\ Grows(e, r) /\ (e.out = <<>> => Told(r)) /\ r.epoch = e.epoch
  BY <1>4, <1>5, EpochChangedKeeps
<1> HIDE DEF r
<1>7. Len(c.gestures) \in Nat /\ Len(d.gestures) \in Nat /\ Len(e.gestures) \in Nat
        /\ Len(r.gestures) \in Nat
  BY <1>2, <1>4, <1>6 DEF ClientT
<1>8. CASE m.epoch = c.epoch
  <2>1. Keeps(c, d)
    BY <1>2, <1>8, QuietKeeps
  <2>2. Keeps(c, e)
    BY <1>4, <1>7, <2>1, KeepsOn
  <2>3. e.epoch = m.epoch
    BY <1>2, <1>4 DEF Keeps
  <2> QED
    BY <1>1, <1>4, <1>8, <2>2, <2>3 DEF Keeps
<1>9. CASE m.epoch # c.epoch
  <2>1. Grows(c, r)
    BY <1>2, <1>4, <1>6, <1>7 DEF Grows, Keeps
  <2>2. ~rule => Told(r)
    BY <1>2, <1>4, <1>6
  <2>3. r.epoch = m.epoch
    BY <1>2, <1>4, <1>6 DEF Keeps
  <2> QED
    BY <1>1, <1>6, <1>9, <2>1, <2>2, <2>3
<1> QED
  BY <1>8, <1>9

(* A new gesture belongs to this epoch and is the only live one.             *)
LEMMA NewGestureKeeps ==
  ASSUME NEW E, NEW c \in ClientT(E), NEW b \in Bindings, Core(c),
         Len(c.gestures) + 1 <= MaxGestures
  PROVE  LET q == NewGesture(c, b)
         IN /\ q \in ClientT(E) /\ Keeps(c, q)
            /\ \A g \in Live(q) : q.gestures[g].batches = 0
<1> DEFINE d == EndAllGestures(c)
           new == [binding |-> b, epoch |-> c.epoch, pos |-> c.pos, batches |-> 0, turned |-> 0,
                   fate |-> "live"]
           gest == Append(d.gestures, new)
           r == [d EXCEPT !.gestures = gest]
<1>1. d \in ClientT(E) /\ Keeps(c, d) /\ Live(d) = {} /\ Len(d.gestures) = Len(c.gestures)
  BY EndGesturesKeep DEF EndAllGestures
<1>2. NewGesture(c, b) = r
  BY DEF NewGesture
<1> HIDE DEF d
<1>3. new \in GestureT(E) /\ new.epoch = c.epoch /\ new.batches = 0
  BY DEF GestureT, ClientT, Fates
<1> HIDE DEF new
<1>4. d.gestures \in Seq(GestureT(E)) /\ Len(d.gestures) \in Nat
  BY <1>1 DEF ClientT
<1> DEFINE n == Len(d.gestures)
<1>5. /\ gest \in Seq(GestureT(E)) /\ Len(gest) = n + 1
      /\ \A g \in 1..n : gest[g] = d.gestures[g]
      /\ gest[n + 1] = new
  BY <1>3, <1>4, AppendProperties
<1> HIDE DEF gest
<1>6. /\ r \in ClientT(E) /\ r.epoch = d.epoch /\ r.slots = d.slots /\ r.out = d.out
      /\ r.gestures = gest /\ r.sent = d.sent /\ r.latest = d.latest
  BY <1>1, <1>5 DEF ClientT
<1> HIDE DEF r
<1>7. \A g \in Live(r) : g = n + 1
  <2> SUFFICES ASSUME NEW g \in Live(r), g # n + 1 PROVE FALSE
    OBVIOUS
  <2>1. g \in 1..n /\ r.gestures[g].fate = "live"
    BY <1>4, <1>5, <1>6 DEF Live
  <2>2. g \in Live(d)
    BY <1>5, <1>6, <2>1 DEF Live
  <2> QED
    BY <1>1, <2>2
<1>8. Core(d) /\ \A g \in Ids : d.slots[g] = NoSlot
  BY <1>1 DEF Core, Keeps, SlotsOK
<1>9. Core(r)
  <2>1. SlotsOK(r)
    BY <1>1, <1>5, <1>6, <1>8 DEF SlotsOK
  <2>2. StepsOK(r)
    <3> SUFFICES ASSUME NEW g \in 1..(n + 1)
                 PROVE  /\ r.gestures[g].batches <= TrimSteps - 1
                        /\ g \in Ids /\ Waiting(r, g) => r.gestures[g].batches <= TrimSteps - 2
      BY <1>5, <1>6 DEF StepsOK
    <3>1. CASE g = n + 1
      BY <1>3, <1>5, <1>6, <3>1, ControlAssumption
    <3>2. CASE g # n + 1
      <4>1. g \in 1..n
        BY <1>4, <3>2
      <4> QED
        BY <1>5, <1>6, <1>8, <4>1 DEF Core, StepsOK, Waiting
    <3> QED
      BY <3>1, <3>2
  <2>3. YoungOK(r)
    BY <1>6, <1>8 DEF Core, YoungOK
  <2> QED
    BY <2>1, <2>2, <2>3 DEF Core
<1>10. Grows(d, r)
  BY <1>4, <1>5, <1>6 DEF Grows
<1>11. ASSUME Told(d) PROVE Told(r)
  <2>1. EpochsOK(r)
    BY <1>1, <1>3, <1>5, <1>6, <1>7 DEF EpochsOK, Keeps
  <2>2. CallsOK(r, r.out)
    <3> SUFFICES ASSUME NEW i \in 1..Len(d.out), d.out[i].key \in Ids
                 PROVE  /\ d.out[i].key \in 1..(n + 1)
                        /\ d.out[i].epoch = gest[d.out[i].key].epoch
      BY <1>5, <1>6 DEF CallsOK
    <3>1. d.out[i].key \in 1..n /\ d.out[i].epoch = d.gestures[d.out[i].key].epoch
      BY <1>11 DEF Told, CallsOK
    <3> QED
      BY <1>4, <1>5, <3>1
  <2> QED
    BY <2>1, <2>2 DEF Told
<1>12. Keeps(d, r)
  BY <1>6, <1>9, <1>10, <1>11 DEF Keeps
<1>13. Len(c.gestures) \in Nat /\ Len(r.gestures) \in Nat
  BY <1>6 DEF ClientT
<1>14. Keeps(c, r)
  BY <1>1, <1>4, <1>12, <1>13, KeepsOn
<1>15. \A g \in Live(r) : r.gestures[g].batches = 0
  BY <1>3, <1>5, <1>6, <1>7
<1> QED
  BY <1>2, <1>6, <1>14, <1>15

-----------------------------------------------------------------------------
(* Between handlers.  Without mode rules, what is on its way to Kdenlive     *)
(* carries the epoch of its gesture.                                         *)
StreamOK(E) ==
  /\ client \in ClientT(E) /\ client.out = <<>> /\ Core(client)
  /\ toHost \in Seq(CallT(E))
  /\ ~Rules => Told(client) /\ CallsOK(client, toHost)
StreamInv == \E E : StreamOK(E)

(* The invariant does not depend on how much Kdenlive has told so far. *)
LEMMA MoreTold ==
  ASSUME NEW E, NEW F, E.epochs \subseteq F.epochs, E.spots \subseteq F.spots, StreamOK(E)
  PROVE  StreamOK(F)
<1>1. GestureT(E) \subseteq GestureT(F) /\ CallT(E) \subseteq CallT(F)
  BY DEF GestureT, CallT
<1>2. client.gestures \in Seq(GestureT(F))
  <2>1. client.gestures \in Seq(GestureT(E))
    BY DEF StreamOK, ClientT
  <2> QED
    BY <1>1, <2>1
<1>3. client.out \in Seq(CallT(F)) /\ toHost \in Seq(CallT(F))
  BY <1>1, EmptySeq DEF StreamOK
<1>4. client \in ClientT(F)
  BY <1>2, <1>3 DEF StreamOK, ClientT
<1> QED
  BY <1>3, <1>4 DEF StreamOK

(* The end of a handler: its calls join those on their way.                  *)
LEMMA DaemonKeeps ==
  ASSUME NEW E, StreamOK(E), NEW c \in ClientT(E), Daemon(c), Core(c), Grows(client, c),
         ~Rules => Told(c)
  PROVE  StreamOK(E)'
<1>1. client' = [c EXCEPT !.out = <<>>] /\ toHost' = toHost \o c.out
  BY DEF Daemon
<1>2. /\ client' \in ClientT(E) /\ client'.epoch = c.epoch /\ client'.slots = c.slots
      /\ client'.out = <<>> /\ client'.gestures = c.gestures /\ client'.sent = c.sent
      /\ client'.latest = c.latest
  BY <1>1, EmptySeq DEF ClientT
<1>3. toHost \in Seq(CallT(E)) /\ c.out \in Seq(CallT(E))
  BY DEF StreamOK, ClientT
<1>4. toHost' \in Seq(CallT(E))
  BY <1>1, <1>3, ConcatProperties
<1>5. Core(client')
  BY <1>2 DEF Core, SlotsOK, StepsOK, YoungOK, Live, Waiting
<1>6. ASSUME ~Rules PROVE Told(client') /\ CallsOK(client', toHost')
  <2>1. EpochsOK(client')
    BY <1>2, <1>6 DEF Told, EpochsOK, Live
  <2>2. CallsOK(client', client'.out)
    BY <1>2, EmptySeq DEF CallsOK
  <2>3. CallsOK(client, toHost) /\ CallsOK(c, c.out)
    BY <1>6 DEF StreamOK, Told
  <2>4. CallsOK(client', toHost')
    <3> SUFFICES ASSUME NEW i \in 1..Len(toHost'), toHost'[i].key \in Ids
                 PROVE  /\ toHost'[i].key \in 1..Len(c.gestures)
                        /\ toHost'[i].epoch = c.gestures[toHost'[i].key].epoch
      BY <1>2 DEF CallsOK
    <3>1. CASE i \in 1..Len(toHost)
      <4>1. toHost'[i] = toHost[i]
        BY <1>1, <1>3, <3>1, ConcatProperties
      <4>2. /\ toHost[i].key \in 1..Len(client.gestures)
            /\ toHost[i].epoch = client.gestures[toHost[i].key].epoch
        BY <2>3, <3>1, <4>1 DEF CallsOK
      <4>3. Len(client.gestures) \in Nat /\ Len(c.gestures) \in Nat
        BY DEF StreamOK, ClientT
      <4> QED
        BY <4>1, <4>2, <4>3 DEF Grows
    <3>2. CASE i \notin 1..Len(toHost)
      <4>1. Len(toHost) \in Nat /\ Len(c.out) \in Nat /\ Len(toHost') = Len(toHost) + Len(c.out)
        BY <1>1, <1>3, ConcatProperties
      <4> DEFINE j == i - Len(toHost)
      <4>2. j \in 1..Len(c.out) /\ i = Len(toHost) + j
        BY <3>2, <4>1
      <4> HIDE DEF j
      <4>3. toHost'[i] = c.out[j]
        BY <1>1, <1>3, <4>2, ConcatProperties
      <4> QED
        BY <2>3, <4>2, <4>3 DEF CallsOK
    <3> QED
      BY <3>1, <3>2
  <2> QED
    BY <2>1, <2>2, <2>4 DEF Told
<1> QED
  BY <1>2, <1>4, <1>5, <1>6 DEF StreamOK

(* The same for a handler that keeps the epoch.                              *)
LEMMA HandlerKeeps ==
  ASSUME NEW E, StreamOK(E), NEW c \in ClientT(E), Daemon(c), Keeps(client, c)
  PROVE  StreamOK(E)' /\ client'.epoch = client.epoch
<1>1. StreamOK(E)'
  BY DaemonKeeps DEF Keeps, StreamOK
<1>2. client'.epoch = client.epoch
  BY DEF Daemon, Keeps, ClientT
<1> QED
  BY <1>1, <1>2

(* What each action of the daemon keeps.                                     *)
LEMMA TurnKeeps ==
  ASSUME NEW E, StreamOK(E), NEW b \in Bindings, NEW n \in Deltas, Turn(b, n)
  PROVE  StreamOK(E)' /\ client'.epoch = client.epoch
<1> DEFINE worn == {g \in Current(client, b) : Worn(client, g)}
           kept == EndGestures(client, worn)
           c == IF Current(kept, b) = {} THEN NewGesture(kept, b) ELSE kept
<1>1. client \in ClientT(E) /\ Core(client) /\ n \in Int
  BY ControlAssumption DEF StreamOK
<1>2. Len(c.gestures) <= MaxGestures
  BY DEF Turn
<1>3. PICK g \in Current(c, b) :
        Daemon(Add(IF Takes(c, g) THEN [c EXCEPT !.gestures[g].turned = @ + n] ELSE c, g, n))
  BY DEF Turn
<1>4. worn \subseteq Live(client)
  BY DEF Current
<1>5. \A x \in Live(client) : client.gestures[x].binding = b /\ x \notin worn =>
                                ~Worn(client, x)
  BY DEF Current
<1> HIDE DEF worn
<1>6. /\ kept \in ClientT(E) /\ Keeps(client, kept) /\ Live(kept) = Live(client) \ worn
      /\ Len(kept.gestures) = Len(client.gestures)
      /\ \A x \in 1..Len(client.gestures) : x \notin worn => kept.gestures[x] = client.gestures[x]
  BY <1>1, <1>4, EndGesturesKeep
<1> HIDE DEF kept
<1>7. Core(kept) /\ Len(client.gestures) \in Nat /\ Len(kept.gestures) \in Nat
  BY <1>1, <1>6 DEF Keeps, ClientT
<1>8. c \in ClientT(E) /\ Keeps(client, c) /\ c.gestures[g].batches <= TrimSteps - 2
  <2>1. CASE Current(kept, b) = {}
    <3>1. c = NewGesture(kept, b)
      BY <2>1
    <3>2. Len(kept.gestures) + 1 <= MaxGestures
      <4>1. Len(EndAllGestures(kept).gestures) = Len(kept.gestures)
              /\ EndAllGestures(kept) \in ClientT(E)
        BY <1>6, <1>7, EndGesturesKeep DEF EndAllGestures
      <4>2. EndAllGestures(kept).gestures \in Seq(GestureT(E))
        BY <4>1 DEF ClientT
      <4> DEFINE d == EndAllGestures(kept)
      <4>3. c.gestures = Append(d.gestures,
              [binding |-> b, epoch |-> kept.epoch, pos |-> kept.pos, batches |-> 0, turned |-> 0,
               fate |-> "live"])
        BY <3>1, <4>1 DEF NewGesture, ClientT
      <4> HIDE DEF d
      <4>4. Len(c.gestures) = Len(d.gestures) + 1
        BY <4>2, <4>3 DEF d
      <4> QED
        BY <1>2, <4>1, <4>4 DEF d
    <3> HIDE DEF c
    <3>3. /\ c \in ClientT(E) /\ Keeps(kept, c)
          /\ \A x \in Live(c) : c.gestures[x].batches = 0
      BY <1>6, <1>7, <3>1, <3>2, NewGestureKeeps
    <3>4. Len(c.gestures) \in Nat
      BY <3>3 DEF ClientT
    <3>5. Keeps(client, c)
      BY <1>6, <1>7, <3>3, <3>4, KeepsOn
    <3>6. g \in Live(c)
      BY DEF Current
    <3>7. c.gestures[g].batches <= TrimSteps - 2
      BY <3>3, <3>6, ControlAssumption
    <3> QED
      BY <3>3, <3>5, <3>7
  <2>2. CASE Current(kept, b) # {}
    <3>1. c = kept
      BY <2>2
    <3> HIDE DEF c
    <3>2. g \in Live(kept) /\ kept.gestures[g].binding = b
      BY <3>1 DEF Current
    <3>3. g \in Live(client) /\ g \notin worn /\ g \in 1..Len(client.gestures)
      BY <1>6, <3>2 DEF Live
    <3>4. kept.gestures[g] = client.gestures[g]
      BY <1>6, <3>3
    <3>5. ~Worn(client, g)
      BY <1>5, <3>2, <3>3, <3>4
    <3>6. ~(client.gestures[g].batches >= TrimSteps - 1)
      BY <3>5 DEF Worn
    <3>7. client.gestures[g].batches \in Nat
      <4>1. client.gestures[g] \in GestureT(E)
        BY <1>1, <3>3 DEF ClientT
      <4> QED
        BY <4>1 DEF GestureT
    <3>8. client.gestures[g].batches <= TrimSteps - 2
      BY <3>6, <3>7, ControlAssumption
    <3> QED
      BY <1>6, <3>1, <3>4, <3>8
  <2> QED
    BY <2>1, <2>2
<1> HIDE DEF c
<1>9. g \in Live(c) /\ g \in 1..Len(c.gestures)
  BY <1>3 DEF Current, Live
<1>10. c.gestures \in Seq(GestureT(E)) /\ Len(c.gestures) \in Nat
  BY <1>8 DEF ClientT
<1> DEFINE gest == [c.gestures EXCEPT ![g] = [c.gestures[g] EXCEPT !.turned = c.gestures[g].turned + n]]
           t == [c EXCEPT !.gestures = gest]
           d == IF Takes(c, g) THEN t ELSE c
<1>11. /\ gest \in Seq(GestureT(E)) /\ Len(gest) = Len(c.gestures)
       /\ \A x \in 1..Len(c.gestures) : /\ gest[x].epoch = c.gestures[x].epoch
                                        /\ gest[x].batches = c.gestures[x].batches
                                        /\ gest[x].fate = c.gestures[x].fate
  <2> DEFINE new == [c.gestures[g] EXCEPT !.turned = c.gestures[g].turned + n]
  <2>1. c.gestures[g] \in GestureT(E)
    BY <1>9, <1>10
  <2>2. c.gestures[g].turned + n \in Int
    BY <1>1, <2>1 DEF GestureT
  <2>3. /\ new \in GestureT(E) /\ new.epoch = c.gestures[g].epoch
        /\ new.batches = c.gestures[g].batches /\ new.fate = c.gestures[g].fate
    BY <2>1, <2>2 DEF GestureT
  <2> HIDE DEF new
  <2>4. /\ gest \in Seq(GestureT(E)) /\ Len(gest) = Len(c.gestures)
        /\ \A x \in 1..Len(c.gestures) : gest[x] = IF x = g THEN new ELSE c.gestures[x]
    BY <1>9, <1>10, <2>3, ExceptSeq DEF new
  <2> HIDE DEF gest
  <2> QED
    BY <2>3, <2>4
<1>12. Daemon(Add(d, g, n))
  BY <1>3
<1> HIDE DEF gest
<1>13. /\ t \in ClientT(E) /\ t.epoch = c.epoch /\ t.slots = c.slots /\ t.out = c.out
       /\ t.gestures = gest /\ t.sent = c.sent /\ t.latest = c.latest
  BY <1>8, <1>11 DEF ClientT
<1> HIDE DEF t
<1>14. Keeps(c, t) /\ Live(t) = Live(c)
  BY <1>8, <1>11, <1>13, QuietKeeps
<1>15. /\ d \in ClientT(E) /\ Keeps(client, d) /\ g \in Live(d)
       /\ d.gestures[g].batches <= TrimSteps - 2
  <2>1. Len(t.gestures) \in Nat
    BY <1>10, <1>11, <1>13
  <2>2. Keeps(client, t)
    BY <1>7, <1>8, <1>10, <1>14, <2>1, KeepsOn
  <2>3. t.gestures[g].batches <= TrimSteps - 2
    BY <1>8, <1>9, <1>11, <1>13
  <2> QED
    BY <1>8, <1>9, <1>13, <1>14, <2>2, <2>3
<1> HIDE DEF d
<1>16. Core(d) /\ g \in Keys
  <2>1. Core(d)
    BY <1>1, <1>15 DEF Keeps
  <2>2. g \in Ids
    BY <1>2, <1>9, <1>10, ControlAssumption DEF Ids
  <2> QED
    BY <2>1, <2>2, IdsAreKeys
<1> DEFINE r == Add(d, g, n)
<1>17. r \in ClientT(E) /\ Keeps(d, r)
  BY <1>1, <1>15, <1>16, AddKeeps
<1> HIDE DEF r
<1>18. Len(d.gestures) \in Nat /\ Len(r.gestures) \in Nat
  BY <1>15, <1>17 DEF ClientT
<1>19. Keeps(client, r)
  BY <1>7, <1>15, <1>17, <1>18, KeepsOn
<1> QED
  BY <1>12, <1>17, <1>19, HandlerKeeps DEF r

(* A detent (Engine::handleDetent) keeps the invariant. *)
LEMMA TurnControlKeeps ==
  ASSUME NEW E, StreamOK(E), NEW k \in Controls, NEW n \in Deltas, TurnControl(k, n)
  PROVE  StreamOK(E)' /\ client'.epoch = client.epoch
<1> DEFINE d == EndAllGestures(client)
           r == Add(d, k, n)
<1>1. client \in ClientT(E) /\ Core(client) /\ n \in Int
  BY ControlAssumption DEF StreamOK
<1>2. d \in ClientT(E) /\ Keeps(client, d)
  BY <1>1, EndGesturesKeep DEF EndAllGestures
<1> HIDE DEF d
<1>3. Core(d) /\ k \in Keys /\ k \notin Ids
  BY <1>1, <1>2, IdsAreKeys DEF Keeps, Keys
<1>4. r \in ClientT(E) /\ Keeps(d, r)
  BY <1>1, <1>2, <1>3, AddKeeps
<1>5. Daemon(r)
  BY DEF TurnControl, d
<1> HIDE DEF r
<1>6. Len(client.gestures) \in Nat /\ Len(d.gestures) \in Nat /\ Len(r.gestures) \in Nat
  BY <1>1, <1>2, <1>4 DEF ClientT
<1>7. Keeps(client, r)
  BY <1>2, <1>4, <1>6, KeepsOn
<1> QED
  BY <1>4, <1>5, <1>7, HandlerKeeps

(* The idle timer of a gesture keeps the invariant. *)
LEMMA EndIdleKeeps ==
  ASSUME NEW E, StreamOK(E), NEW g \in Ids, EndIdle(g)
  PROVE  StreamOK(E)' /\ client'.epoch = client.epoch
<1> DEFINE r == EndGestures(client, {g})
<1>1. client \in ClientT(E) /\ Core(client) /\ {g} \subseteq Live(client) /\ Daemon(r)
  BY DEF StreamOK, EndIdle
<1>2. r \in ClientT(E) /\ Keeps(client, r)
  BY <1>1, EndGesturesKeep
<1> HIDE DEF r
<1> QED
  BY <1>1, <1>2, HandlerKeeps

(* Time passing for a key keeps the invariant. *)
LEMMA ElapseKeeps ==
  ASSUME NEW E, StreamOK(E), NEW k \in Keys, Elapse(k)
  PROVE  StreamOK(E)' /\ client'.epoch = client.epoch
<1> DEFINE slots == [client.slots EXCEPT ![k] = [client.slots[k] EXCEPT !.clock = client.slots[k].clock + 1]]
           still(s) == s.young /\ (s.key # k \/ client.slots[k].clock = 0)
           sent == {[s EXCEPT !.young = still(s)] : s \in client.sent}
           d == [client EXCEPT !.sent = sent]
           r == [d EXCEPT !.slots = slots]
<1>1. client \in ClientT(E) /\ Core(client) /\ client.out = <<>>
  BY DEF StreamOK
<1>2. client' = r /\ toHost' = toHost /\ client.slots[k] # NoSlot /\ client.slots[k].clock < 2
  BY <1>1 DEF Elapse, Slots, ClientT
<1>3. client.slots \in [Keys -> Slot \cup {NoSlot}] /\ client.slots[k] \in Slot
  BY <1>1, <1>2 DEF ClientT
<1>4. \A s \in client.sent : /\ [s EXCEPT !.young = still(s)] \in Sent
                             /\ still(s) => [s EXCEPT !.young = still(s)] = s
                             /\ [s EXCEPT !.young = still(s)].young <=> still(s)
  <2> SUFFICES ASSUME NEW s \in client.sent
               PROVE  /\ [s EXCEPT !.young = still(s)] \in Sent
                      /\ still(s) => [s EXCEPT !.young = still(s)] = s
                      /\ [s EXCEPT !.young = still(s)].young <=> still(s)
    OBVIOUS
  <2> DEFINE y == still(s)
  <2>1. s \in Sent
    BY <1>1 DEF ClientT
  <2>2. y \in BOOLEAN /\ (y => y = TRUE /\ s.young = TRUE)
    BY <2>1 DEF Sent
  <2> HIDE DEF y
  <2>3. [s EXCEPT !.young = y] \in Sent /\ [s EXCEPT !.young = y].young = y
    BY <2>1, <2>2 DEF Sent
  <2>4. y => [s EXCEPT !.young = y] = s
    BY <2>1, <2>2 DEF Sent
  <2> QED
    BY <2>3, <2>4 DEF y
<1>5. sent \in SUBSET Sent
  BY <1>4
<1>6. \A x \in sent : x.young => x \in client.sent /\ (x.key # k \/ client.slots[k].clock = 0)
  <2> SUFFICES ASSUME NEW x \in sent, x.young
               PROVE  x \in client.sent /\ (x.key # k \/ client.slots[k].clock = 0)
    OBVIOUS
  <2>1. PICK s \in client.sent : x = [s EXCEPT !.young = still(s)]
    OBVIOUS
  <2>2. still(s)
    BY <1>4, <2>1
  <2>3. x = s
    BY <1>4, <2>1, <2>2
  <2> QED
    BY <2>2, <2>3
<1> HIDE DEF sent
<1>7. /\ d \in ClientT(E) /\ d.epoch = client.epoch /\ d.slots = client.slots
      /\ d.out = client.out /\ d.gestures = client.gestures /\ d.sent = sent
      /\ d.latest = client.latest
  BY <1>1, <1>5 DEF ClientT
<1> HIDE DEF d
<1>8. Keeps(client, d) /\ Live(d) = Live(client)
  BY <1>1, <1>6, <1>7, QuietKeeps
<1>9. Core(d)
  BY <1>1, <1>8 DEF Keeps
<1> DEFINE new == [client.slots[k] EXCEPT !.clock = client.slots[k].clock + 1]
<1>10. /\ new \in Slot /\ new.inFlight = client.slots[k].inFlight
       /\ new.merged = client.slots[k].merged /\ new.clock = client.slots[k].clock + 1
  <2>1. client.slots[k].clock + 1 \in 0..2
    BY <1>2, <1>3 DEF Slot
  <2> QED
    BY <1>3, <2>1 DEF Slot
<1>11. new # NoSlot
  BY <1>10, ControlAssumption DEF Slot
<1>12. slots = [client.slots EXCEPT ![k] = new]
  OBVIOUS
<1> HIDE DEF new
<1>13. \A x \in Keys : slots[x] = IF x = k THEN new ELSE client.slots[x]
  BY <1>3, <1>12
<1>14. slots \in [Keys -> Slot \cup {NoSlot}]
  BY <1>3, <1>10, <1>12
<1> HIDE DEF slots
<1>15. \A g \in Ids : slots[g] # NoSlot => g \in Live(d)
  BY <1>2, <1>7, <1>9, <1>13, IdsAreKeys DEF Core, SlotsOK
<1>16. \A g \in Ids : slots[g] # NoSlot /\ slots[g].merged => Waiting(d, g)
  BY <1>2, <1>7, <1>10, <1>13, IdsAreKeys DEF Waiting
<1>17. \A s \in d.sent : s.young /\ s.key \notin Navs =>
         slots[s.key] # NoSlot /\ slots[s.key].inFlight /\ slots[s.key].clock < 2
  <2> SUFFICES ASSUME NEW s \in d.sent, s.young, s.key \notin Navs
               PROVE  slots[s.key] # NoSlot /\ slots[s.key].inFlight /\ slots[s.key].clock < 2
    OBVIOUS
  <2>1. s.key \in Keys /\ (s.key # k \/ client.slots[k].clock = 0)
    BY <1>6, <1>7 DEF ClientT, Sent
  <2>2. /\ d.slots[s.key] # NoSlot /\ d.slots[s.key].inFlight /\ d.slots[s.key].clock < 2
    BY <1>9 DEF Core, YoungOK
  <2>3. CASE s.key = k
    BY <1>7, <1>10, <1>11, <1>13, <2>1, <2>2, <2>3
  <2>4. CASE s.key # k
    BY <1>7, <1>13, <2>1, <2>2, <2>4
  <2> QED
    BY <2>3, <2>4
<1>18. r \in ClientT(E) /\ Keeps(d, r) /\ r.out = d.out
  <2>1. r \in ClientT(E) /\ Keeps(d, r)
    BY <1>7, <1>9, <1>14, <1>15, <1>16, <1>17, SlotsKeep
  <2>2. r.out = d.out
    BY <1>7 DEF ClientT
  <2> QED
    BY <2>1, <2>2
<1> HIDE DEF r
<1>19. Keeps(client, r)
  <2>1. Len(client.gestures) \in Nat /\ Len(d.gestures) \in Nat /\ Len(r.gestures) \in Nat
    BY <1>1, <1>7, <1>18 DEF ClientT
  <2> QED
    BY <1>8, <1>18, <2>1, KeepsOn
<1>20. Core(client')
  BY <1>1, <1>2, <1>19 DEF Keeps
<1>21. ASSUME ~Rules PROVE Told(client') /\ CallsOK(client', toHost')
  <2>1. Told(client')
    BY <1>2, <1>19, <1>21 DEF Keeps, StreamOK
  <2>2. CallsOK(client, toHost)
    BY <1>21 DEF StreamOK
  <2>3. Grows(client, r)
    BY <1>19 DEF Keeps
  <2>4. Len(client.gestures) \in Nat /\ Len(r.gestures) \in Nat
    BY <1>1, <1>18 DEF ClientT
  <2>5. CallsOK(r, toHost)
    <3> SUFFICES ASSUME NEW i \in 1..Len(toHost), toHost[i].key \in Ids
                 PROVE  /\ toHost[i].key \in 1..Len(r.gestures)
                        /\ toHost[i].epoch = r.gestures[toHost[i].key].epoch
      BY DEF CallsOK
    <3>1. /\ toHost[i].key \in 1..Len(client.gestures)
          /\ toHost[i].epoch = client.gestures[toHost[i].key].epoch
      BY <2>2 DEF CallsOK
    <3> QED
      BY <2>3, <2>4, <3>1 DEF Grows
  <2> QED
    BY <1>2, <2>1, <2>5
<1>22. client'.epoch = client.epoch
  BY <1>2, <1>19 DEF Keeps
<1> QED
  BY <1>1, <1>2, <1>7, <1>18, <1>20, <1>21, <1>22 DEF StreamOK

(* The flush timer of the coalescer keeps the invariant. *)
LEMMA FlushTimerKeeps ==
  ASSUME NEW E, StreamOK(E), NEW k \in Keys, FlushTimer(k)
  PROVE  StreamOK(E)' /\ client'.epoch = client.epoch
<1> DEFINE r == TryFlush(client, {k})
<1>1. client \in ClientT(E) /\ Core(client) /\ Daemon(r)
  BY DEF StreamOK, FlushTimer
<1>2. r \in ClientT(E) /\ Keeps(client, r)
  BY <1>1, TryFlushKeeps
<1> HIDE DEF r
<1> QED
  BY <1>1, <1>2, HandlerKeeps

(* The 250 ms fallback of a navigation keeps the invariant. *)
LEMMA NavFallbackKeeps ==
  ASSUME NEW E, StreamOK(E), NavFallback
  PROVE  StreamOK(E)' /\ client'.epoch = client.epoch
<1> DEFINE r == ReleaseNavigation(client)
<1>1. client \in ClientT(E) /\ Core(client) /\ Daemon(r)
  BY DEF StreamOK, NavFallback
<1>2. r \in ClientT(E) /\ Keeps(client, r)
  BY <1>1, ReleaseNavigationKeeps
<1> HIDE DEF r
<1> QED
  BY <1>1, <1>2, HandlerKeeps

(* An ack or refusal, however late, keeps the invariant. *)
LEMMA ReadAckKeeps ==
  ASSUME NEW E, StreamOK(E), ReadAck
  PROVE  StreamOK(E)' /\ client'.epoch = client.epoch
<1>1. client \in ClientT(E) /\ Core(client)
  BY DEF StreamOK
<1>2. ASSUME NEW s \in client.sent, s.seq = Head(toClient).seq,
             Daemon(OnControlAck(client, Head(toClient), s))
      PROVE  StreamOK(E)' /\ client'.epoch = client.epoch
  <2> DEFINE r == OnControlAck(client, Head(toClient), s)
  <2>1. r \in ClientT(E) /\ Keeps(client, r)
    BY <1>1, <1>2, OnControlAckKeeps
  <2>2. Daemon(r)
    BY <1>2
  <2> HIDE DEF r
  <2> QED
    BY <2>1, <2>2, HandlerKeeps
<1>3. CASE UNCHANGED <<client, toHost>>
  BY <1>3 DEF StreamOK, Told, EpochsOK, CallsOK, Live, Core, SlotsOK, StepsOK, YoungOK,
              Waiting
<1> QED
  BY <1>2, <1>3 DEF ReadAck

(* A context, with a new epoch or position or neither, and with or without a *)
(* mode rule that matches, keeps the invariant.                              *)
LEMMA ReadContextKeeps ==
  ASSUME NEW E, StreamOK(E), NEW rule \in {FALSE, Rules}, ReadContext(rule),
         Head(toClient).epoch \in E.epochs, Head(toClient).pos \in E.spots
  PROVE  StreamOK(E)' /\ client'.epoch = Head(toClient).epoch
<1> DEFINE m == Head(toClient)
           r == ApplyContext(client, m, rule)
<1>1. Daemon(r)
  BY DEF ReadContext
<1>2. client \in ClientT(E) /\ Core(client) /\ client.out = <<>>
  BY DEF StreamOK
<1>3. r \in ClientT(E) /\ Core(r) /\ Grows(client, r) /\ (Told(client) /\ ~rule => Told(r))
      /\ r.epoch = m.epoch
  BY <1>2, ApplyContextKeeps
<1> HIDE DEF r
<1>4. ~Rules => Told(r)
  BY <1>3, ControlAssumption DEF StreamOK
<1>5. StreamOK(E)'
  BY <1>1, <1>3, <1>4, DaemonKeeps
<1>6. client'.epoch = r.epoch
  BY <1>1, <1>3 DEF Daemon, ClientT
<1> QED
  BY <1>3, <1>5, <1>6

(* Kdenlive only takes calls.                                                *)
CallTaken == UNCHANGED toHost \/ (toHost # <<>> /\ toHost' = Tail(toHost))

(* Whatever Kdenlive does with the calls it takes keeps the invariant. *)
LEMMA HostKeeps ==
  ASSUME NEW E, StreamOK(E), client' = client, CallTaken
  PROVE  StreamOK(E)'
<1>1. toHost \in Seq(CallT(E))
  BY DEF StreamOK
<1>2. toHost' \in Seq(CallT(E))
  BY <1>1, HeadTailProperties DEF CallTaken
<1>3. Core(client') /\ (Told(client) => Told(client'))
  BY DEF StreamOK, Core, SlotsOK, StepsOK, YoungOK, Told, EpochsOK, CallsOK, Live, Waiting
<1>4. ASSUME CallsOK(client, toHost) PROVE CallsOK(client', toHost')
  <2>1. \A i \in 1..Len(toHost') : \E j \in 1..Len(toHost) : toHost'[i] = toHost[j]
    <3>1. CASE UNCHANGED toHost
      BY <3>1
    <3>2. CASE toHost # <<>> /\ toHost' = Tail(toHost)
      <4> SUFFICES ASSUME NEW i \in 1..Len(toHost')
                   PROVE  \E j \in 1..Len(toHost) : toHost'[i] = toHost[j]
        OBVIOUS
      <4>1. /\ Len(toHost') = Len(toHost) - 1 /\ Len(toHost) \in Nat
            /\ toHost'[i] = toHost[i + 1]
        BY <1>1, <3>2, HeadTailProperties
      <4>2. i + 1 \in 1..Len(toHost)
        BY <4>1
      <4> QED
        BY <4>1, <4>2
    <3> QED
      BY <3>1, <3>2 DEF CallTaken
  <2> QED
    BY <1>4, <2>1 DEF CallsOK
<1> QED
  BY <1>2, <1>3, <1>4 DEF StreamOK

(* The invariant is inductive. *)
LEMMA StreamStep == StreamInv /\ [Next]_vars => StreamInv'
<1> SUFFICES ASSUME StreamInv, [Next]_vars PROVE StreamInv'
  OBVIOUS
<1>1. PICK E : StreamOK(E)
  BY DEF StreamInv
<1>2. ASSUME NEW b \in Bindings, NEW n \in Deltas, Turn(b, n) PROVE StreamInv'
  BY <1>1, <1>2, TurnKeeps DEF StreamInv
<1>3. ASSUME NEW k \in Controls, NEW n \in Deltas, TurnControl(k, n) PROVE StreamInv'
  BY <1>1, <1>3, TurnControlKeeps DEF StreamInv
<1>4. ASSUME NEW g \in Ids, EndIdle(g) PROVE StreamInv'
  BY <1>1, <1>4, EndIdleKeeps DEF StreamInv
<1>5. ASSUME NEW k \in Keys, Elapse(k) PROVE StreamInv'
  BY <1>1, <1>5, ElapseKeeps DEF StreamInv
<1>6. ASSUME NEW k \in Keys, FlushTimer(k) PROVE StreamInv'
  BY <1>1, <1>6, FlushTimerKeeps DEF StreamInv
<1>7. CASE NavFallback
  BY <1>1, <1>7, NavFallbackKeeps DEF StreamInv
<1>8. CASE ReadAck
  BY <1>1, <1>8, ReadAckKeeps DEF StreamInv
<1>9. ASSUME NEW rule \in {FALSE, Rules}, ReadContext(rule) PROVE StreamInv'
  <2> DEFINE m == Head(toClient)
  <2>1. PICK F : F = [epochs |-> E.epochs \cup {m.epoch}, spots |-> E.spots \cup {m.pos}]
    OBVIOUS
  <2>2. /\ E.epochs \subseteq F.epochs /\ E.spots \subseteq F.spots
        /\ m.epoch \in F.epochs /\ m.pos \in F.spots
    BY <2>1
  <2>3. StreamOK(F)
    BY <1>1, <2>2, MoreTold
  <2>4. StreamOK(F)'
    BY <1>9, <2>2, <2>3, ReadContextKeeps
  <2> QED
    BY <2>4 DEF StreamInv
<1>10. ASSUME client' = client, CallTaken PROVE StreamInv'
  BY <1>1, <1>10, HostKeeps DEF StreamInv
<1>11. ASSUME NEW changes \in SUBSET Controls, NEW now \in BOOLEAN, HostControl(changes, now)
       PROVE  StreamInv'
  <2>1. client' = client /\ CallTaken
    BY <1>11 DEF HostControl, CallTaken
  <2> QED
    BY <1>10, <2>1
<1>12. ASSUME NEW changes \in SUBSET Controls, NEW now \in BOOLEAN, HostApply(changes, now)
       PROVE  StreamInv'
  <2>1. client' = client /\ CallTaken
    BY <1>12 DEF HostApply, CallTaken
  <2> QED
    BY <1>10, <2>1
<1>13. ASSUME NEW now \in BOOLEAN, HostFocus(now) \/ HostSeek(now) PROVE StreamInv'
  <2>1. client' = client /\ CallTaken
    BY <1>13 DEF HostFocus, HostSeek, CallTaken
  <2> QED
    BY <1>10, <2>1
<1>14. CASE HostIdle \/ HostEmit
  <2>1. client' = client /\ CallTaken
    BY <1>14 DEF HostIdle, HostEmit, CallTaken
  <2> QED
    BY <1>10, <2>1
<1>15. CASE UNCHANGED vars
  BY <1>10, <1>15 DEF vars, CallTaken
<1> QED
  BY <1>2, <1>3, <1>4, <1>5, <1>6, <1>7, <1>8, <1>9, <1>11, <1>12, <1>13, <1>14, <1>15 DEF Next

(* The epoch and position at the start.                                      *)
First == [epochs |-> {1}, spots |-> {0}]

(* At the start nothing was sent and there is no gesture.                    *)
LEMMA StreamStart == Init => StreamOK(First)
<1> SUFFICES ASSUME Init PROVE StreamOK(First)
  OBVIOUS
<1> DEFINE E == First
<1>1. client \in ClientT(E)
  <2>1. [k \in Keys |-> NoSlot] \in [Keys -> Slot \cup {NoSlot}]
    OBVIOUS
  <2>2. [k \in Navs |-> None] \in [Navs -> E.epochs \cup {None}] /\ [k \in Keys |-> None] \in [Keys -> Nat]
    BY DEF None
  <2>3. <<>> \in Seq(GestureT(E)) /\ <<>> \in Seq(CallT(E))
    BY EmptySeq
  <2> QED
    BY <2>1, <2>2, <2>3 DEF Init, ClientT, First
<1>2. client.gestures = <<>> /\ client.out = <<>> /\ client.sent = {} /\ Len(client.gestures) = 0
  BY EmptySeq DEF Init
<1>3. \A k \in Keys : client.slots[k] = NoSlot
  BY DEF Init
<1>4. Core(client)
  <2>1. SlotsOK(client)
    BY <1>2, <1>3, IdsAreKeys, ControlAssumption DEF SlotsOK
  <2>2. StepsOK(client) /\ YoungOK(client)
    BY <1>2 DEF StepsOK, YoungOK
  <2> QED
    BY <2>1, <2>2 DEF Core
<1>5. Told(client) /\ CallsOK(client, toHost) /\ toHost \in Seq(CallT(E))
  <2>1. toHost = <<>> /\ Len(toHost) = 0 /\ Len(client.out) = 0 /\ Live(client) = {}
    BY <1>2, EmptySeq DEF Init, Live
  <2> QED
    BY <2>1, EmptySeq DEF Told, EpochsOK, CallsOK
<1> QED
  BY <1>1, <1>2, <1>4, <1>5 DEF StreamOK

(* In every reachable state, whatever Kdenlive answers: only live gestures   *)
(* have a slot, an update that may still be answered blocks its key, and     *)
(* gestures that wait have a step left.                                      *)
THEOREM StreamIsSound == Spec => []StreamInv
<1>1. Init => StreamInv
  BY StreamStart DEF StreamInv
<1>2. StreamInv /\ [Next]_vars => StreamInv'
  BY StreamStep
<1> QED
  BY <1>1, <1>2, PTL DEF Spec

(* At most one update of a key is on its way that was neither answered nor   *)
(* given up, and no gesture has more steps than Kdenlive retains: for every  *)
(* limit, set of controls and order of answers.                              *)
THEOREM KdenliveCanFollow == Spec => [](OneUpdateInFlight /\ StepsWithinLimit)
<1>1. StreamInv => OneUpdateInFlight
  <2> SUFFICES ASSUME StreamInv, NEW s \in client.sent, NEW t \in client.sent,
                      s.key = t.key, s.young, t.young, s.key \notin Navs
               PROVE  s = t
    BY DEF OneUpdateInFlight
  <2>1. PICK E : StreamOK(E)
    BY DEF StreamInv
  <2>2. s.seq = t.seq
    BY <2>1 DEF StreamOK, Core, YoungOK
  <2>3. s \in Sent /\ t \in Sent
    BY <2>1 DEF StreamOK, ClientT
  <2>4. s.young = TRUE /\ t.young = TRUE
    BY <2>3 DEF Sent
  <2> QED
    BY <2>2, <2>3, <2>4 DEF Sent
<1>2. StreamInv => StepsWithinLimit
  <2> SUFFICES ASSUME StreamInv, NEW g \in 1..Len(client.gestures)
               PROVE  StepsOf(client, g) <= TrimSteps
    BY DEF StepsWithinLimit
  <2>1. PICK E : StreamOK(E)
    BY DEF StreamInv
  <2>2. client.gestures[g].batches <= TrimSteps - 1
    BY <2>1 DEF StreamOK, Core, StepsOK
  <2>3. client.gestures[g].batches \in Nat
    <3>1. client.gestures[g] \in GestureT(E)
      BY <2>1 DEF StreamOK, ClientT
    <3> QED
      BY <3>1 DEF GestureT
  <2>4. TrimSteps \in Nat
    BY ControlAssumption
  <2> QED
    BY <2>2, <2>3, <2>4 DEF StepsOf
<1> QED
  BY <1>1, <1>2, StreamIsSound, PTL

(* Without automatic mode rules, what a knob was turned while it had one     *)
(* target is never sent under the epoch of another.  With such a rule it can *)
(* be, which a run shows.                                                    *)
THEOREM SentInItsEpoch == ASSUME ~Rules PROVE Spec => []SentUnderItsEpoch
<1>1. StreamInv => SentUnderItsEpoch
  BY DEF StreamInv, StreamOK, CallsOK, SentUnderItsEpoch
<1> QED
  BY <1>1, StreamIsSound, PTL

-----------------------------------------------------------------------------
(* Both ends: what the calls on their way owe to gestures.                   *)
(* Calls on their way, oldest first, with the daemon and Kdenlive.           *)
SlotN(c, g) == IF c.slots[g] = NoSlot THEN 0 ELSE c.slots[g].n
FateOf(c, g) == c.gestures[g].fate

(* What a call is about: its epoch and, of gestures, which one.              *)
InOrder(s) ==
  \A i, j \in 1..Len(s) : i < j =>
    /\ s[i].epoch <= s[j].epoch
    /\ s[i].key \in Ids /\ s[j].key \in Ids => s[i].key <= s[j].key
KnownOK(s, c) ==
  \A i \in 1..Len(s) :
    /\ s[i].epoch <= c.epoch
    /\ s[i].key \in Ids => s[i].key \in 1..Len(c.gestures)
                           /\ c.gestures[s[i].key].epoch <= s[i].epoch
(* The calls of an ended gesture close with its end.                         *)
EndFollows(s, g, i) == \E m \in i..Len(s) : s[m].key = g /\ s[m].phase = "end"
EndsOK(s, c) ==
  \A i \in 1..Len(s) :
    s[i].key \in Ids /\ FateOf(c, s[i].key) = "ended" => EndFollows(s, s[i].key, i)
(* Without a slot nothing was sent yet.                                      *)
UnsentOK(s, c) ==
  \A g \in Live(c) : c.slots[g] = NoSlot => \A i \in 1..Len(s) : s[i].key # g
LastLives(c) == \A g \in Live(c) : g = Len(c.gestures)
PastEpochs(c) == \A g \in 1..Len(c.gestures) : c.gestures[g].epoch <= c.epoch

(* A gesture Kdenlive has open is of this epoch, and no call on its way      *)
(* belongs to an earlier one.                                                *)
OpenOK(s, c, h) ==
  h.open # None =>
    /\ h.open \in 1..Len(c.gestures) /\ c.epoch = h.epoch
    /\ \A i \in 1..Len(s) : /\ s[i].epoch = h.epoch
                            /\ s[i].key \in Ids => h.open <= s[i].key
    /\ FateOf(c, h.open) = "ended" => EndFollows(s, h.open, 1)
    /\ FateOf(c, h.open) = "live" => c.slots[h.open] # NoSlot
CutOK(c, h) ==
  \A x \in h.cut : x.by \in Ids =>
    x.gesture \in 1..Len(c.gestures) /\ FateOf(c, x.gesture) = "forgotten"

(* The detents of a gesture: applied, on their way and in its slot make what *)
(* it was turned.  b is the balance after so many calls.                     *)
Due(p, g) == IF p.key = g THEN p.n ELSE 0
Balance(s, g, from, to) ==
  \E b \in [0..Len(s) -> Int] :
    /\ b[0] = from /\ b[Len(s)] = to
    /\ \A i \in 1..Len(s) : b[i] = b[i - 1] + Due(s[i], g)
WholeOK(s, c, h) ==
  \A g \in 1..Len(c.gestures) :
    FateOf(c, g) # "forgotten" /\ c.gestures[g].epoch = h.epoch =>
      Balance(s, g, h.applied[g], c.gestures[g].turned - SlotN(c, g))
UnusedOK(c, h) == \A g \in Ids : Len(c.gestures) < g => h.applied[g] = 0
RoomOK(c) == Cardinality(Slots(c)) <= MaxKeys

Flow(s, c, h) ==
  /\ InOrder(s) /\ KnownOK(s, c) /\ EndsOK(s, c) /\ UnsentOK(s, c)
  /\ LastLives(c) /\ PastEpochs(c) /\ RoomOK(c) /\ c.epoch <= h.epoch
  /\ OpenOK(s, c, h) /\ CutOK(c, h)
  /\ WholeOK(s, c, h) /\ UnusedOK(c, h)

(* What of Kdenlive this is about.                                           *)
HostT(h) ==
  /\ h.epoch \in Nat /\ h.open \in Ids \cup {None} /\ h.applied \in [Ids -> Int]
  /\ h.cut \in SUBSET [gesture : Ids, by : Keys]

Bounds == [epochs |-> 1..MaxEpoch, spots |-> 0..MaxPos]
Calls == CallT(Bounds)
Daemons == ClientT(Bounds)

(* Induction over the naturals, for a set instead of a formula.              *)
LEMMA SetInduction ==
  ASSUME NEW S, 0 \in S, \A n \in Nat : n \in S => n + 1 \in S
  PROVE  Nat \subseteq S
<1> DEFINE Bad == Nat \ S
<1>1. SUFFICES ASSUME Bad # {} PROVE FALSE
  OBVIOUS
<1>2. PICK x \in Bad : \A y \in Bad : ~ (<<y, x>> \in OpToRel(<, Nat))
  <2> HIDE DEF Bad
  <2>1. Bad \subseteq Nat
    BY DEF Bad
  <2> QED
    BY <1>1, <2>1, WFMin, NatLessThanWellFounded, Zenon
<1>3. x \in Nat /\ x # 0
  OBVIOUS
<1>4. x - 1 \in Nat /\ x - 1 < x
  BY <1>3
<1>5. x - 1 \notin Bad
  BY <1>2, <1>3, <1>4 DEF OpToRel
<1> QED
  BY <1>3, <1>4, <1>5

(* Calls put behind others.                                                  *)
Joined(t, s, new) ==
  /\ Len(s) \in Nat /\ Len(new) \in Nat /\ Len(t) = Len(s) + Len(new)
  /\ \A i \in 1..Len(s) : t[i] = s[i]
  /\ \A i \in 1..Len(new) : t[Len(s) + i] = new[i]

(* What concatenation does, call by call.                                    *)
LEMMA JoinedIs ==
  ASSUME NEW S, NEW s \in Seq(S), NEW new \in Seq(S)
  PROVE  Joined(s \o new, s, new) /\ s \o new \in Seq(S)
<1>1. /\ s \o new \in Seq(S) /\ Len(s) \in Nat /\ Len(new) \in Nat
      /\ Len(s \o new) = Len(s) + Len(new)
      /\ \A i \in 1..Len(s) + Len(new) :
           (s \o new)[i] = IF i <= Len(s) THEN s[i] ELSE new[i - Len(s)]
  BY ConcatProperties
<1> DEFINE t == s \o new
<1> HIDE DEF t
<1>2. ASSUME NEW i \in 1..Len(s) PROVE t[i] = s[i]
  BY <1>1 DEF t
<1>3. ASSUME NEW i \in 1..Len(new) PROVE t[Len(s) + i] = new[i]
  <2>1. Len(s) + i \in 1..Len(s) + Len(new) /\ ~(Len(s) + i <= Len(s)) /\ (Len(s) + i) - Len(s) = i
    BY <1>1
  <2> QED
    BY <1>1, <2>1 DEF t
<1> QED
  BY <1>1, <1>2, <1>3 DEF Joined, t

(* A call of two sequences put together is of the one or of the other.       *)
LEMMA IndexOf ==
  ASSUME NEW t, NEW s, NEW new, Joined(t, s, new), NEW i \in 1..Len(t)
  PROVE  \/ i \in 1..Len(s) /\ t[i] = s[i]
         \/ \E j \in 1..Len(new) : i = Len(s) + j /\ t[i] = new[j]
<1>1. CASE i <= Len(s)
  BY <1>1 DEF Joined
<1>2. CASE ~(i <= Len(s))
  <2>1. i - Len(s) \in 1..Len(new) /\ i = Len(s) + (i - Len(s))
    BY <1>2 DEF Joined
  <2> QED
    BY <2>1 DEF Joined
<1> QED
  BY <1>1, <1>2

(* Calls of other keys leave the balance.                                    *)
LEMMA BalanceBeyond ==
  ASSUME NEW E, NEW s \in Seq(CallT(E)), NEW new \in Seq(CallT(E)), NEW t, Joined(t, s, new),
         NEW g, NEW from, NEW to, Balance(s, g, from, to),
         \A i \in 1..Len(new) : new[i].key # g
  PROVE  Balance(t, g, from, to)
<1>1. PICK b \in [0..Len(s) -> Int] :
        /\ b[0] = from /\ b[Len(s)] = to
        /\ \A i \in 1..Len(s) : b[i] = b[i - 1] + Due(s[i], g)
  BY DEF Balance
<1> DEFINE d == [i \in 0..Len(t) |-> IF i <= Len(s) THEN b[i] ELSE to]
<1>2. Len(s) \in Nat /\ Len(new) \in Nat /\ Len(t) = Len(s) + Len(new)
  BY DEF Joined
<1>3. d \in [0..Len(t) -> Int] /\ d[0] = from /\ d[Len(t)] = to
  BY <1>1, <1>2
<1>4. ASSUME NEW i \in 1..Len(t) PROVE d[i] = d[i - 1] + Due(t[i], g)
  <2>1. CASE i \in 1..Len(s) /\ t[i] = s[i]
    <3>1. b[i] = b[i - 1] + Due(t[i], g)
      BY <1>1, <2>1
    <3>2. d[i] = b[i] /\ d[i - 1] = b[i - 1]
      BY <1>2, <2>1
    <3> QED
      BY <3>1, <3>2
  <2>2. ASSUME NEW j \in 1..Len(new), i = Len(s) + j, t[i] = new[j]
        PROVE  d[i] = d[i - 1] + Due(t[i], g)
    <3>1. Due(t[i], g) = 0
      BY <2>2 DEF Due
    <3>2. d[Len(s)] = to /\ to \in Int
      BY <1>1, <1>2
    <3>3. d[i] = to /\ d[i - 1] = to
      BY <1>2, <2>2, <3>2
    <3> QED
      BY <3>1, <3>2, <3>3
  <2>3. (i \in 1..Len(s) /\ t[i] = s[i]) \/ \E j \in 1..Len(new) : i = Len(s) + j /\ t[i] = new[j]
    BY IndexOf
  <2> HIDE DEF d
  <2> QED
    BY <2>1, <2>2, <2>3
<1> QED
  BY <1>3, <1>4 DEF Balance

(* One call of the key adds to it.                                           *)
LEMMA BalanceWith ==
  ASSUME NEW E, NEW s \in Seq(CallT(E)), NEW new \in Seq(CallT(E)), NEW t, Joined(t, s, new),
         NEW g, NEW from, NEW to, Balance(s, g, from, to),
         NEW p \in 1..Len(new), \A i \in 1..Len(new) : new[i].key = g <=> i = p
  PROVE  Balance(t, g, from, to + new[p].n)
<1>1. PICK b \in [0..Len(s) -> Int] :
        /\ b[0] = from /\ b[Len(s)] = to
        /\ \A i \in 1..Len(s) : b[i] = b[i - 1] + Due(s[i], g)
  BY DEF Balance
<1>2. Len(s) \in Nat /\ Len(new) \in Nat /\ Len(t) = Len(s) + Len(new) /\ p \in 1..Len(new)
  BY DEF Joined
<1> DEFINE more == to + new[p].n
           d == [i \in 0..Len(t) |-> IF i <= Len(s) THEN b[i]
                                     ELSE IF i < Len(s) + p THEN to ELSE more]
<1>a. more \in Int /\ to \in Int /\ new[p].n \in Int
  <2>1. new[p] \in CallT(E)
    BY ElementOfSeq
  <2>2. to \in Int
    BY <1>1, <1>2
  <2> QED
    BY <2>1, <2>2 DEF CallT
<1> HIDE DEF more
<1>3. d \in [0..Len(t) -> Int] /\ d[0] = from /\ d[Len(t)] = more
  BY <1>a, <1>1, <1>2
<1>4. ASSUME NEW i \in 1..Len(t) PROVE d[i] = d[i - 1] + Due(t[i], g)
  <2>1. CASE i \in 1..Len(s) /\ t[i] = s[i]
    <3>1. b[i] = b[i - 1] + Due(t[i], g)
      BY <1>1, <2>1
    <3>2. d[i] = b[i] /\ d[i - 1] = b[i - 1]
      BY <1>2, <2>1
    <3> QED
      BY <3>1, <3>2
  <2>2. ASSUME NEW j \in 1..Len(new), i = Len(s) + j, t[i] = new[j]
        PROVE  d[i] = d[i - 1] + Due(t[i], g)
    <3>0. d[Len(s)] = to
      BY <1>1, <1>2
    <3>1. CASE j = p
      <4>1. Due(t[i], g) = new[p].n
        BY <2>2, <3>1 DEF Due
      <4>2. d[i] = more /\ d[i - 1] = to
        BY <1>2, <2>2, <3>0, <3>1
      <4> HIDE DEF d
      <4> QED
        BY <4>1, <4>2 DEF more
    <3>2. CASE j # p
      <4>1. Due(t[i], g) = 0
        BY <2>2, <3>2 DEF Due
      <4>2. d[i] = d[i - 1] /\ d[i] \in Int
        BY <1>a, <1>2, <2>2, <3>0, <3>2
      <4> HIDE DEF d
      <4> QED
        BY <4>1, <4>2
    <3> QED
      BY <3>1, <3>2
  <2>3. (i \in 1..Len(s) /\ t[i] = s[i]) \/ \E j \in 1..Len(new) : i = Len(s) + j /\ t[i] = new[j]
    BY IndexOf
  <2> HIDE DEF d
  <2> QED
    BY <2>1, <2>2, <2>3
<1> QED
  BY <1>3, <1>4 DEF Balance, more

(* No call of the key: the balance is what it was.                           *)
LEMMA BalanceOfNone ==
  ASSUME NEW s, Len(s) \in Nat, NEW g, NEW from, NEW to, Balance(s, g, from, to),
         \A i \in 1..Len(s) : s[i].key # g
  PROVE  from = to
<1>1. PICK b \in [0..Len(s) -> Int] :
        /\ b[0] = from /\ b[Len(s)] = to
        /\ \A i \in 1..Len(s) : b[i] = b[i - 1] + Due(s[i], g)
  BY DEF Balance
<1>2. \A i \in 1..Len(s) : b[i] = b[i - 1]
  <2> TAKE i \in 1..Len(s)
  <2>1. Due(s[i], g) = 0 /\ b[i] = b[i - 1] + Due(s[i], g)
    BY <1>1 DEF Due
  <2>2. b[i - 1] \in Int
    OBVIOUS
  <2> QED
    BY <2>1, <2>2
<1> DEFINE S == {k \in Nat : k \in 0..Len(s) => b[k] = from}
<1>3. 0 \in S
  BY <1>1
<1>4. ASSUME NEW k \in Nat, k \in S PROVE k + 1 \in S
  <2> SUFFICES ASSUME k + 1 \in 0..Len(s) PROVE b[k + 1] = from
    OBVIOUS
  <2>1. k + 1 \in 1..Len(s) /\ (k + 1) - 1 = k /\ k \in 0..Len(s)
    OBVIOUS
  <2>2. b[k + 1] = b[k]
    BY <1>2, <2>1
  <2> QED
    BY <1>4, <2>1, <2>2
<1>5. Nat \subseteq S
  <2> HIDE DEF S
  <2> QED
    BY <1>3, <1>4, SetInduction
<1>6. b[Len(s)] = from
  BY <1>5
<1> QED
  BY <1>1, <1>6

(* Where no call is of the key there is nothing to apply.                    *)
LEMMA BalanceSame ==
  ASSUME NEW s, Len(s) \in Nat, NEW g, NEW to \in Int,
         \A i \in 1..Len(s) : s[i].key # g
  PROVE  Balance(s, g, to, to)
<1> DEFINE b == [i \in 0..Len(s) |-> to]
<1>1. b \in [0..Len(s) -> Int] /\ b[0] = to /\ b[Len(s)] = to
  OBVIOUS
<1>2. ASSUME NEW i \in 1..Len(s) PROVE b[i] = b[i - 1] + Due(s[i], g)
  <2>1. Due(s[i], g) = 0
    BY DEF Due
  <2>2. b[i] = to /\ b[i - 1] = to
    OBVIOUS
  <2> HIDE DEF b
  <2> QED
    BY <2>1, <2>2
<1> QED
  BY <1>1, <1>2 DEF Balance

(* The oldest call is taken, and applied.                                    *)
LEMMA BalanceOfTail ==
  ASSUME NEW E, NEW s \in Seq(CallT(E)), s # <<>>, NEW g, NEW from, NEW to,
         Balance(s, g, from, to)
  PROVE  Balance(Tail(s), g, from + Due(Head(s), g), to)
<1>1. PICK b \in [0..Len(s) -> Int] :
        /\ b[0] = from /\ b[Len(s)] = to
        /\ \A i \in 1..Len(s) : b[i] = b[i - 1] + Due(s[i], g)
  BY DEF Balance
<1> DEFINE t == Tail(s)
<1>2. /\ Len(s) \in Nat \ {0} /\ Len(t) = Len(s) - 1 /\ Head(s) = s[1]
      /\ \A i \in 1..Len(t) : t[i] = s[i + 1]
  BY HeadTailProperties, EmptySeq
<1> HIDE DEF t
<1> DEFINE d == [i \in 0..Len(t) |-> b[i + 1]]
<1>3. \A i \in 0..Len(t) : d[i] = b[i + 1] /\ b[i + 1] \in Int
  BY <1>2
<1>4. d \in [0..Len(t) -> Int]
  BY <1>3
<1> HIDE DEF d
<1>5. d[0] = from + Due(Head(s), g)
  <2>1. 0 \in 0..Len(t) /\ 1 \in 1..Len(s) /\ 0 + 1 = 1 /\ 1 - 1 = 0
    BY <1>2
  <2>2. d[0] = b[1] /\ b[1] = b[0] + Due(s[1], g)
    BY <1>1, <1>3, <2>1
  <2> QED
    BY <1>1, <1>2, <2>2
<1>6. d[Len(t)] = to
  <2>1. Len(t) \in 0..Len(t) /\ Len(t) + 1 = Len(s)
    BY <1>2
  <2> QED
    BY <1>1, <1>3, <2>1
<1>7. ASSUME NEW i \in 1..Len(t) PROVE d[i] = d[i - 1] + Due(t[i], g)
  <2>1. i + 1 \in 1..Len(s) /\ (i + 1) - 1 = i /\ i \in 0..Len(t) /\ i - 1 \in 0..Len(t)
        /\ (i - 1) + 1 = i
    BY <1>2
  <2>2. b[i + 1] = b[i] + Due(s[i + 1], g)
    BY <1>1, <2>1
  <2>3. d[i] = b[i + 1] /\ d[i - 1] = b[i] /\ t[i] = s[i + 1]
    BY <1>2, <1>3, <2>1
  <2> QED
    BY <2>2, <2>3
<1> QED
  BY <1>4, <1>5, <1>6, <1>7 DEF Balance, t

(* A call is merged into one before it.                                      *)
Without(i, j) == IF i < j THEN i ELSE i + 1
Merged(t, s, p, j) ==
  /\ Len(t) = Len(s) - 1
  /\ \A i \in 1..Len(t) :
       LET x == Without(i, j)
       IN /\ t[i].key = s[x].key /\ t[i].epoch = s[x].epoch
          /\ t[i].phase = s[x].phase
          /\ t[i].n = IF i = p THEN s[p].n + s[j].n ELSE s[x].n

(* Kdenlive merges a call into one of the same key: the sum stays the same   *)
(* (control in the mock).                                                    *)
LEMMA BalanceOfMerged ==
  ASSUME NEW E, NEW s \in Seq(CallT(E)), NEW t, NEW p, NEW j \in 1..Len(s), p \in 1..j - 1,
         Merged(t, s, p, j), s[p].key = s[j].key,
         NEW g, NEW from, NEW to, Balance(s, g, from, to)
  PROVE  Balance(t, g, from, to)
<1>1. PICK b \in [0..Len(s) -> Int] :
        /\ b[0] = from /\ b[Len(s)] = to
        /\ \A i \in 1..Len(s) : b[i] = b[i - 1] + Due(s[i], g)
  BY DEF Balance
<1>2. Len(s) \in Nat /\ Len(t) = Len(s) - 1 /\ Len(t) \in Nat /\ p \in Nat /\ p >= 1 /\ p < j
      /\ j \in Nat /\ j <= Len(s)
  BY DEF Merged
<1> DEFINE m == Due(s[j], g)
           d == [i \in 0..Len(t) |-> IF i < p THEN b[i] ELSE IF i < j THEN b[i] + m ELSE b[i + 1]]
<1>3. \A i \in 1..Len(s) : Due(s[i], g) \in Int
  <2> TAKE i \in 1..Len(s)
  <2>1. s[i] \in CallT(E)
    BY ElementOfSeq
  <2> QED
    BY <2>1 DEF CallT, Due
<1>4. m \in Int /\ b[j] = b[j - 1] + m
  BY <1>1, <1>3
<1> HIDE DEF m
<1>5. \A i \in 0..Len(t) :
        /\ b[i] \in Int /\ b[i + 1] \in Int
        /\ d[i] = IF i < p THEN b[i] ELSE IF i < j THEN b[i] + m ELSE b[i + 1]
  <2>1. \A i \in 0..Len(t) : b[i] \in Int /\ b[i + 1] \in Int
    <3> TAKE i \in 0..Len(t)
    <3>1. i \in 0..Len(s) /\ i + 1 \in 0..Len(s)
      BY <1>2
    <3> QED
      BY <3>1
  <2> QED
    BY <2>1
<1>6. d \in [0..Len(t) -> Int]
  BY <1>4, <1>5
<1> HIDE DEF d
<1>7. d[0] = from
  <2>1. 0 \in 0..Len(t) /\ 0 < p
    BY <1>2
  <2> QED
    BY <1>1, <1>5, <2>1
<1>8. d[Len(t)] = to
  <2>1. Len(t) \in 0..Len(t) /\ Len(t) + 1 = Len(s) /\ ~(Len(t) < p)
    BY <1>2
  <2>2. CASE Len(t) < j
    <3>1. Len(t) = j - 1 /\ Len(s) = j
      BY <1>2, <2>2
    <3>2. d[Len(t)] = b[Len(t)] + m
      BY <1>5, <2>1, <2>2
    <3> QED
      BY <1>1, <1>4, <3>1, <3>2
  <2>3. CASE ~(Len(t) < j)
    BY <1>1, <1>5, <2>1, <2>3
  <2> QED
    BY <2>2, <2>3
<1>9. ASSUME NEW i \in 1..Len(t) PROVE d[i] = d[i - 1] + Due(t[i], g)
  <2>0. i \in Nat /\ i >= 1 /\ i \in 0..Len(t) /\ i - 1 \in 0..Len(t) /\ i \in 1..Len(s)
        /\ i + 1 \in 1..Len(s) /\ (i - 1) + 1 = i /\ (i + 1) - 1 = i
    BY <1>2
  <2>1. /\ b[i] = b[i - 1] + Due(s[i], g) /\ b[i + 1] = b[i] + Due(s[i + 1], g)
        /\ b[i - 1] \in Int /\ b[i] \in Int /\ b[i + 1] \in Int
        /\ Due(s[i], g) \in Int /\ Due(s[i + 1], g) \in Int
    BY <1>1, <1>3, <1>5, <2>0
  <2>a. p <= j /\ (i = p \/ i < p \/ (i > p /\ i < j) \/ ~(i < j))
    BY <1>2, <2>0
  <2>2. CASE i < p
    <3>1. t[i].key = s[i].key /\ t[i].n = s[i].n
      BY <1>2, <2>0, <2>2 DEF Merged, Without
    <3>2. Due(t[i], g) = Due(s[i], g)
      BY <3>1 DEF Due
    <3>3. i - 1 < p
      BY <1>2, <2>0, <2>2
    <3>4. d[i] = b[i] /\ d[i - 1] = b[i - 1]
      BY <1>5, <2>0, <2>2, <3>3
    <3> QED
      BY <2>1, <3>2, <3>4
  <2>3. CASE i = p
    <3>1. t[i].key = s[i].key /\ t[i].n = s[i].n + s[j].n
      BY <1>2, <2>0, <2>3 DEF Merged, Without
    <3>2. Due(t[i], g) = Due(s[i], g) + m
      BY <2>1, <2>3, <3>1 DEF Due, m
    <3>3. i - 1 < p /\ ~(i < p) /\ i < j
      BY <1>2, <2>0, <2>3
    <3>4. d[i] = b[i] + m /\ d[i - 1] = b[i - 1]
      BY <1>5, <2>0, <3>3
    <3>5. b[i] + m = b[i - 1] + (Due(s[i], g) + m)
      <4>1. /\ b[i] = b[i - 1] + Due(s[i], g)
            /\ b[i - 1] \in Int /\ Due(s[i], g) \in Int /\ m \in Int
        BY <1>4, <2>1
      <4> QED
        BY <4>1
    <3> QED
      BY <3>2, <3>4, <3>5
  <2>4. CASE i > p /\ i < j
    <3>1. t[i].key = s[i].key /\ t[i].n = s[i].n
      BY <1>2, <2>0, <2>4 DEF Merged, Without
    <3>2. Due(t[i], g) = Due(s[i], g)
      BY <3>1 DEF Due
    <3>3. ~(i - 1 < p) /\ i - 1 < j /\ ~(i < p)
      BY <1>2, <2>0, <2>4
    <3>4. d[i] = b[i] + m /\ d[i - 1] = b[i - 1] + m
      BY <1>5, <2>0, <2>4, <3>3
    <3>5. /\ b[i] = b[i - 1] + Due(s[i], g)
          /\ b[i - 1] \in Int /\ Due(s[i], g) \in Int /\ m \in Int
      BY <1>4, <2>1
    <3>6. b[i] + m = (b[i - 1] + m) + Due(s[i], g)
      BY <3>5
    <3> QED
      BY <3>2, <3>4, <3>6
  <2>5. CASE ~(i < j)
    <3>0. ~(i < p) /\ i # p
      BY <1>2, <2>0, <2>5
    <3>1. t[i].key = s[i + 1].key /\ t[i].n = s[i + 1].n
      BY <1>2, <2>0, <2>5, <3>0 DEF Merged, Without
    <3>2. Due(t[i], g) = Due(s[i + 1], g)
      BY <3>1 DEF Due
    <3>3. d[i] = b[i + 1]
      BY <1>5, <2>0, <2>5, <3>0
    <3>4. d[i - 1] = b[i]
      <4>1. CASE i - 1 < j
        <5>1. i = j /\ ~(i - 1 < p)
          BY <1>2, <2>0, <2>5, <4>1
        <5>2. d[i - 1] = b[i - 1] + m
          BY <1>5, <2>0, <4>1, <5>1
        <5> QED
          BY <1>4, <5>1, <5>2
      <4>2. CASE ~(i - 1 < j)
        <5>1. ~(i - 1 < p)
          BY <1>2, <2>0, <4>2
        <5> QED
          BY <1>5, <2>0, <4>2, <5>1
      <4> QED
        BY <4>1, <4>2
    <3>5. b[i + 1] = b[i] + Due(s[i + 1], g)
      BY <2>1
    <3> QED
      BY <3>2, <3>3, <3>4, <3>5
  <2> QED
    BY <2>a, <2>2, <2>3, <2>4, <2>5
<1> QED
  BY <1>6, <1>7, <1>8, <1>9 DEF Balance

(* The types a call and the daemon have for certain.                         *)
LEMMA CallIs ==
  ASSUME NEW p \in Calls
  PROVE  p.key \in Keys /\ p.n \in Int /\ p.phase \in {"update", "end"} /\ p.epoch \in Nat /\ p.seq \in Nat
<1>1. Bounds.epochs = 1..MaxEpoch /\ MaxEpoch \in Nat
  BY ControlAssumption DEF Bounds
<1> HIDE DEF Bounds
<1> QED
  BY <1>1 DEF Calls, CallT

(* The parts of the daemon the argument needs, with their types.             *)
LEMMA DaemonIs ==
  ASSUME NEW c \in Daemons, SlotsOK(c)
  PROVE  /\ c.epoch \in Nat
         /\ Len(c.gestures) \in Nat /\ 1..Len(c.gestures) \subseteq Ids
         /\ \A g \in 1..Len(c.gestures) :
              /\ c.gestures[g].epoch \in Nat /\ c.gestures[g].turned \in Int
              /\ c.gestures[g].fate \in Fates
         /\ c.slots \in [Keys -> Slot \cup {NoSlot}]
<1>1. Bounds.epochs = 1..MaxEpoch /\ MaxEpoch \in Nat /\ MaxGestures \in Nat
  BY ControlAssumption DEF Bounds
<1> HIDE DEF Bounds
<1>2. c \in ClientT(Bounds) /\ Len(c.gestures) <= MaxGestures
  BY DEF Daemons, SlotsOK
<1>3. c.epoch \in 1..MaxEpoch /\ c.gestures \in Seq(GestureT(Bounds))
      /\ c.slots \in [Keys -> Slot \cup {NoSlot}]
  BY <1>1, <1>2 DEF ClientT
<1>4. Len(c.gestures) \in Nat
  BY <1>3
<1>5. 1..Len(c.gestures) \subseteq Ids
  BY <1>1, <1>2, <1>4 DEF Ids
<1>6. ASSUME NEW g \in 1..Len(c.gestures)
      PROVE  /\ c.gestures[g].epoch \in Nat /\ c.gestures[g].turned \in Int
             /\ c.gestures[g].fate \in Fates
  <2>1. c.gestures[g] \in GestureT(Bounds)
    BY <1>3, ElementOfSeq
  <2> QED
    BY <1>1, <2>1 DEF GestureT
<1> QED
  BY <1>1, <1>3, <1>4, <1>5, <1>6

(* The detents in a slot.                                                    *)
LEMMA SlotNIs ==
  ASSUME NEW c \in Daemons, SlotsOK(c), NEW g \in Ids
  PROVE  SlotN(c, g) \in Int
<1>1. c.slots \in [Keys -> Slot \cup {NoSlot}] /\ g \in Keys
  BY DaemonIs, IdsAreKeys
<1> QED
  BY <1>1 DEF SlotN, Slot

(* What a step of a handler may do: c becomes q and makes the calls new.     *)
SameGestures(c, q) ==
  /\ q.epoch = c.epoch /\ Len(q.gestures) = Len(c.gestures)
  /\ \A g \in 1..Len(c.gestures) : /\ q.gestures[g].epoch = c.gestures[g].epoch
                                   /\ q.gestures[g].turned = c.gestures[g].turned
Sending(c, new) ==
  \A i \in 1..Len(new) :
    /\ new[i].epoch = c.epoch
    /\ new[i].key \in Ids => new[i].key \in Live(c) /\ c.slots[new[i].key] # NoSlot
OnceEach(new) ==
  \A i, j \in 1..Len(new) : new[i].key \in Ids /\ new[i].key = new[j].key => i = j
FatesMove(c, q, new) ==
  \A g \in 1..Len(c.gestures) :
    \/ FateOf(q, g) = FateOf(c, g)
    \/ FateOf(c, g) = "live" /\ FateOf(q, g) = "forgotten" /\ q.slots[g] = NoSlot
    \/ /\ FateOf(c, g) = "live" /\ FateOf(q, g) = "ended" /\ q.slots[g] = NoSlot
       /\ c.slots[g] = NoSlot \/ EndFollows(new, g, 1)
HandsOver(c, q, new) ==
  \A g \in 1..Len(c.gestures) : FateOf(q, g) # "forgotten" =>
    \/ (\A i \in 1..Len(new) : new[i].key # g) /\ SlotN(q, g) = SlotN(c, g)
    \/ \E p \in 1..Len(new) : new[p].key = g /\ SlotN(c, g) = new[p].n + SlotN(q, g)
KeepsSlots(c, q) == \A g \in Live(q) : c.slots[g] # NoSlot => q.slots[g] # NoSlot
NoNewSlots(c, q) == \A k \in Keys : c.slots[k] = NoSlot => q.slots[k] = NoSlot
Moves(c, q, new) ==
  /\ SameGestures(c, q) /\ Sending(c, new) /\ OnceEach(new) /\ FatesMove(c, q, new)
  /\ HandsOver(c, q, new) /\ KeepsSlots(c, q) /\ NoNewSlots(c, q)

(* The calls of a gesture close with its end, wherever they are.             *)
LEMMA EndInJoined ==
  ASSUME NEW t, NEW s, NEW new, Joined(t, s, new), NEW g
  PROVE  /\ \A i \in 1..Len(s) : EndFollows(s, g, i) => EndFollows(t, g, i)
         /\ EndFollows(s, g, 1) => EndFollows(t, g, 1)
         /\ EndFollows(new, g, 1) => \A i \in 1..Len(s) + 1 : EndFollows(t, g, i)
<1>0. Len(s) \in Nat /\ Len(new) \in Nat /\ Len(t) = Len(s) + Len(new)
  BY DEF Joined
<1>1. ASSUME NEW i \in Nat, i >= 1, EndFollows(s, g, i) PROVE EndFollows(t, g, i)
  <2>1. PICK m \in i..Len(s) : s[m].key = g /\ s[m].phase = "end"
    BY <1>1 DEF EndFollows
  <2>2. m \in i..Len(t) /\ m \in 1..Len(s)
    BY <1>0, <1>1, <2>1
  <2>3. t[m] = s[m]
    BY <2>2 DEF Joined
  <2> QED
    BY <2>1, <2>2, <2>3 DEF EndFollows
<1>2. ASSUME EndFollows(new, g, 1), NEW i \in 1..Len(s) + 1 PROVE EndFollows(t, g, i)
  <2>1. PICK m \in 1..Len(new) : new[m].key = g /\ new[m].phase = "end"
    BY <1>2 DEF EndFollows
  <2>2. Len(s) + m \in i..Len(t)
    BY <1>0, <2>1
  <2>3. t[Len(s) + m] = new[m]
    BY <2>1 DEF Joined
  <2> QED
    BY <2>1, <2>2, <2>3 DEF EndFollows
<1> QED
  BY <1>0, <1>1, <1>2

(* An end among calls with one of each gesture.                              *)
LEMMA MovesKeep ==
  ASSUME NEW s \in Seq(Calls), NEW new \in Seq(Calls), NEW c \in Daemons, NEW q \in Daemons,
         SlotsOK(c), SlotsOK(q), NEW h, HostT(h), Moves(c, q, new), Flow(s, c, h)
  PROVE  Flow(s \o new, q, h)
<1> DEFINE t == s \o new
           len == Len(c.gestures)
<1>1. Joined(t, s, new) /\ t \in Seq(Calls)
  BY JoinedIs
<1> HIDE DEF t
<1>2. /\ Len(s) \in Nat /\ Len(new) \in Nat /\ Len(t) = Len(s) + Len(new)
      /\ \A i \in 1..Len(s) : t[i] = s[i]
      /\ \A i \in 1..Len(new) : t[Len(s) + i] = new[i]
  BY <1>1 DEF Joined
<1>3. c.epoch \in Nat /\ len \in Nat /\ 1..len \subseteq Ids
      /\ \A g \in 1..len : c.gestures[g].epoch \in Nat /\ c.gestures[g].turned \in Int
  BY DaemonIs
<1>4. /\ q.epoch = c.epoch /\ Len(q.gestures) = len
      /\ \A g \in 1..len : /\ q.gestures[g].epoch = c.gestures[g].epoch
                           /\ q.gestures[g].turned = c.gestures[g].turned
  BY DEF Moves, SameGestures
<1>5. \A i \in 1..Len(new) :
        /\ new[i].epoch = c.epoch
        /\ new[i].key \in Ids => /\ new[i].key = len /\ new[i].key \in Live(c)
                                 /\ c.slots[new[i].key] # NoSlot
  <2> TAKE i \in 1..Len(new)
  <2>1. /\ new[i].epoch = c.epoch
        /\ new[i].key \in Ids => new[i].key \in Live(c) /\ c.slots[new[i].key] # NoSlot
    BY DEF Moves, Sending
  <2>2. \A g \in Live(c) : g = len
    BY DEF Flow, LastLives
  <2> QED
    BY <2>1, <2>2
<1>6. \A i \in 1..Len(s) :
        /\ s[i].epoch \in Nat /\ s[i].epoch <= c.epoch
        /\ s[i].key \in Ids => s[i].key \in 1..len /\ c.gestures[s[i].key].epoch <= s[i].epoch
  <2> TAKE i \in 1..Len(s)
  <2>1. s[i] \in Calls
    BY ElementOfSeq
  <2>2. s[i].epoch \in Nat
    BY <2>1, CallIs
  <2> QED
    BY <2>2 DEF Flow, KnownOK
<1>7. \A g \in 1..len :
        \/ FateOf(q, g) = FateOf(c, g)
        \/ FateOf(c, g) = "live" /\ FateOf(q, g) = "forgotten"
        \/ /\ FateOf(c, g) = "live" /\ FateOf(q, g) = "ended"
           /\ c.slots[g] = NoSlot \/ EndFollows(new, g, 1)
  BY DEF Moves, FatesMove
<1>8. Live(c) = {g \in 1..len : FateOf(c, g) = "live"} /\ Live(q) = {g \in 1..len : FateOf(q, g) = "live"}
      /\ Live(q) \subseteq Live(c)
  <2>1. Live(c) = {g \in 1..len : FateOf(c, g) = "live"}
    BY DEF Live, FateOf
  <2>2. Live(q) = {g \in 1..len : FateOf(q, g) = "live"}
    BY <1>4 DEF Live, FateOf
  <2> QED
    BY <1>7, <2>1, <2>2
<1>9. \A i \in 1..Len(t) :
        \/ i \in 1..Len(s) /\ t[i] = s[i]
        \/ \E y \in 1..Len(new) : i = Len(s) + y /\ t[i] = new[y]
  <2> TAKE i \in 1..Len(t)
  <2> QED
    BY <1>1, IndexOf
<1>10. InOrder(t)
  <2>1. ASSUME NEW i \in 1..Len(t), NEW j \in 1..Len(t), i < j
        PROVE  /\ t[i].epoch <= t[j].epoch
               /\ t[i].key \in Ids /\ t[j].key \in Ids => t[i].key <= t[j].key
    <3>1. CASE j \in 1..Len(s)
      <4>1. i \in 1..Len(s)
        BY <1>2, <2>1, <3>1
      <4> QED
        BY <1>2, <2>1, <3>1, <4>1 DEF Flow, InOrder
    <3>2. ASSUME NEW y \in 1..Len(new), t[j] = new[y], i \in 1..Len(s), t[i] = s[i]
          PROVE  /\ t[i].epoch <= t[j].epoch
                 /\ t[i].key \in Ids /\ t[j].key \in Ids => t[i].key <= t[j].key
      <4>1. new[y].epoch = c.epoch /\ s[i].epoch <= c.epoch
        BY <1>5, <1>6, <3>2
      <4>2. new[y].key \in Ids => new[y].key = len
        BY <1>5
      <4>3. s[i].key \in Ids => s[i].key \in 1..len
        BY <1>6, <3>2
      <4> QED
        BY <1>3, <3>2, <4>1, <4>2, <4>3
    <3>3. ASSUME NEW y \in 1..Len(new), t[j] = new[y], NEW x \in 1..Len(new), t[i] = new[x]
          PROVE  /\ t[i].epoch <= t[j].epoch
                 /\ t[i].key \in Ids /\ t[j].key \in Ids => t[i].key <= t[j].key
      <4>1. new[x].epoch = c.epoch /\ new[y].epoch = c.epoch
        BY <1>5
      <4>2. (new[x].key \in Ids => new[x].key = len) /\ (new[y].key \in Ids => new[y].key = len)
        BY <1>5
      <4>3. /\ t[i].epoch = c.epoch /\ t[j].epoch = c.epoch
            /\ (t[i].key \in Ids => t[i].key = len) /\ (t[j].key \in Ids => t[j].key = len)
        BY <3>3, <4>1, <4>2
      <4>4. c.epoch <= c.epoch /\ len <= len
        BY <1>3
      <4> QED
        BY <4>3, <4>4
    <3> QED
      BY <1>9, <3>1, <3>2, <3>3
  <2> QED
    BY <2>1 DEF InOrder
<1>11. KnownOK(t, q)
  <2>1. ASSUME NEW i \in 1..Len(t)
        PROVE  /\ t[i].epoch <= q.epoch
               /\ t[i].key \in Ids => t[i].key \in 1..len /\ q.gestures[t[i].key].epoch <= t[i].epoch
    <3>1. CASE i \in 1..Len(s) /\ t[i] = s[i]
      BY <1>4, <1>6, <3>1
    <3>2. ASSUME NEW y \in 1..Len(new), t[i] = new[y]
          PROVE  /\ t[i].epoch <= q.epoch
                 /\ t[i].key \in Ids => t[i].key \in 1..len
                                        /\ q.gestures[t[i].key].epoch <= t[i].epoch
      <4>1. new[y].epoch = c.epoch /\ (new[y].key \in Ids => new[y].key \in 1..len)
        BY <1>5, <1>8
      <4>2. \A g \in 1..len : c.gestures[g].epoch <= c.epoch
        BY DEF Flow, PastEpochs
      <4>3. \A g \in 1..len : q.gestures[g].epoch <= c.epoch
        BY <1>4, <4>2
      <4>4. t[i].epoch = c.epoch /\ (t[i].key \in Ids => t[i].key \in 1..len)
        BY <3>2, <4>1
      <4>5. c.epoch <= c.epoch
        BY <1>3
      <4> QED
        BY <1>4, <4>3, <4>4, <4>5
    <3> QED
      BY <1>9, <3>1, <3>2
  <2> QED
    BY <1>4, <2>1 DEF KnownOK
<1>12. EndsOK(t, q)
  <2>1. ASSUME NEW i \in 1..Len(t), t[i].key \in Ids, FateOf(q, t[i].key) = "ended"
        PROVE  EndFollows(t, t[i].key, i)
    <3> DEFINE g == t[i].key
    <3>0. g \in 1..len
      BY <1>4, <1>11, <2>1 DEF KnownOK
    <3>1. CASE i \in 1..Len(s) /\ t[i] = s[i]
      <4>1. CASE FateOf(c, g) = "ended"
        <5>1. EndFollows(s, g, i)
          BY <2>1, <3>1, <4>1 DEF Flow, EndsOK
        <5> QED
          BY <1>1, <3>1, <5>1, EndInJoined
      <4>2. CASE FateOf(c, g) # "ended"
        <5>1. FateOf(c, g) = "live" /\ (c.slots[g] = NoSlot \/ EndFollows(new, g, 1))
          BY <1>7, <2>1, <3>0, <4>2
        <5>2. c.slots[g] # NoSlot
          <6>1. g \in Live(c)
            BY <1>8, <3>0, <5>1
          <6>2. c.slots[g] = NoSlot => \A j \in 1..Len(s) : s[j].key # g
            BY <6>1 DEF Flow, UnsentOK
          <6> QED
            BY <3>1, <6>2
        <5>3. i \in 1..Len(s) + 1
          BY <1>2, <3>1
        <5> QED
          BY <1>1, <5>1, <5>2, <5>3, EndInJoined
      <4> QED
        BY <4>1, <4>2
    <3>2. ASSUME NEW y \in 1..Len(new), i = Len(s) + y, t[i] = new[y] PROVE EndFollows(t, g, i)
      <4>1. new[y].key = g /\ g \in Live(c) /\ c.slots[g] # NoSlot
        BY <1>5, <2>1, <3>2
      <4>2. FateOf(c, g) = "live"
        BY <1>8, <4>1
      <4>3. EndFollows(new, g, 1)
        BY <1>7, <2>1, <3>0, <4>1, <4>2
      <4>4. PICK m \in 1..Len(new) : new[m].key = g /\ new[m].phase = "end"
        BY <4>3 DEF EndFollows
      <4>5. m = y
        BY <2>1, <4>1, <4>4 DEF Moves, OnceEach
      <4>6. i \in i..Len(t)
        BY <1>2, <2>1
      <4> QED
        BY <3>2, <4>4, <4>5, <4>6 DEF EndFollows
    <3> QED
      BY <1>9, <3>1, <3>2
  <2> QED
    BY <2>1 DEF EndsOK
<1>13. UnsentOK(t, q)
  <2>1. ASSUME NEW g \in Live(q), q.slots[g] = NoSlot, NEW i \in 1..Len(t) PROVE t[i].key # g
    <3>1. g \in Live(c) /\ g \in Ids
      BY <1>3, <1>8
    <3>2. c.slots[g] = NoSlot
      BY <2>1 DEF Moves, KeepsSlots
    <3>3. \A j \in 1..Len(s) : s[j].key # g
      BY <3>1, <3>2 DEF Flow, UnsentOK
    <3>4. \A j \in 1..Len(new) : new[j].key # g
      BY <1>5, <3>1, <3>2
    <3> QED
      BY <1>9, <3>3, <3>4
  <2> QED
    BY <2>1 DEF UnsentOK
<1>14. LastLives(q)
  BY <1>4, <1>8 DEF Flow, LastLives
<1>15. PastEpochs(q) /\ q.epoch <= h.epoch
  BY <1>4 DEF Flow, PastEpochs
<1>16. RoomOK(q)
  <2>1. Slots(q) \subseteq Slots(c)
    BY DEF Moves, NoNewSlots, Slots
  <2>2. IsFiniteSet(Slots(c))
    BY KeysAreFinite, FS_Subset DEF Slots
  <2>3. IsFiniteSet(Slots(q)) /\ Cardinality(Slots(q)) <= Cardinality(Slots(c))
    BY <2>1, <2>2, FS_Subset
  <2>4. Cardinality(Slots(c)) \in Nat /\ Cardinality(Slots(q)) \in Nat /\ MaxKeys \in Nat
    BY <2>2, <2>3, FS_CardinalityType, ControlAssumption
  <2>5. Cardinality(Slots(c)) <= MaxKeys
    BY DEF Flow, RoomOK
  <2> QED
    BY <2>3, <2>4, <2>5 DEF RoomOK
<1>17. OpenOK(t, q, h)
  <2> SUFFICES ASSUME h.open # None
               PROVE  /\ h.open \in 1..len /\ q.epoch = h.epoch
                      /\ \A i \in 1..Len(t) : /\ t[i].epoch = h.epoch
                                              /\ t[i].key \in Ids => h.open <= t[i].key
                      /\ FateOf(q, h.open) = "ended" => EndFollows(t, h.open, 1)
                      /\ FateOf(q, h.open) = "live" => q.slots[h.open] # NoSlot
    BY <1>4 DEF OpenOK
  <2>1. /\ h.open \in 1..len /\ c.epoch = h.epoch
        /\ \A i \in 1..Len(s) : /\ s[i].epoch = h.epoch
                                /\ s[i].key \in Ids => h.open <= s[i].key
        /\ FateOf(c, h.open) = "ended" => EndFollows(s, h.open, 1)
        /\ FateOf(c, h.open) = "live" => c.slots[h.open] # NoSlot
    BY DEF Flow, OpenOK
  <2>2. ASSUME NEW i \in 1..Len(t)
        PROVE  t[i].epoch = h.epoch /\ (t[i].key \in Ids => h.open <= t[i].key)
    <3>1. CASE i \in 1..Len(s) /\ t[i] = s[i]
      BY <2>1, <3>1
    <3>2. ASSUME NEW y \in 1..Len(new), t[i] = new[y]
          PROVE  t[i].epoch = h.epoch /\ (t[i].key \in Ids => h.open <= t[i].key)
      BY <1>3, <1>5, <2>1, <3>2
    <3> QED
      BY <1>9, <3>1, <3>2
  <2>3. ASSUME FateOf(q, h.open) = "ended" PROVE EndFollows(t, h.open, 1)
    <3>1. CASE FateOf(c, h.open) = "ended"
      BY <1>1, <2>1, <3>1, EndInJoined
    <3>2. CASE FateOf(c, h.open) # "ended"
      <4>1. EndFollows(new, h.open, 1)
        BY <1>7, <2>1, <2>3, <3>2
      <4>2. 1 \in 1..Len(s) + 1
        BY <1>2
      <4> QED
        BY <1>1, <4>1, <4>2, EndInJoined
    <3> QED
      BY <3>1, <3>2
  <2>4. ASSUME FateOf(q, h.open) = "live" PROVE q.slots[h.open] # NoSlot
    <3>1. h.open \in Live(q) /\ h.open \in Live(c)
      BY <1>8, <2>1, <2>4
    <3>2. c.slots[h.open] # NoSlot
      BY <1>8, <2>1, <3>1
    <3> QED
      BY <3>1, <3>2 DEF Moves, KeepsSlots
  <2> QED
    BY <1>4, <2>1, <2>2, <2>3, <2>4
<1>18. CutOK(q, h)
  <2>1. ASSUME NEW x \in h.cut, x.by \in Ids
        PROVE  x.gesture \in 1..len /\ FateOf(q, x.gesture) = "forgotten"
    <3>1. x.gesture \in 1..len /\ FateOf(c, x.gesture) = "forgotten"
      BY <2>1 DEF Flow, CutOK
    <3> QED
      BY <1>7, <3>1
  <2> QED
    BY <1>4, <2>1 DEF CutOK
<1>19. WholeOK(t, q, h)
  <2>1. ASSUME NEW g \in 1..len, FateOf(q, g) # "forgotten", c.gestures[g].epoch = h.epoch
        PROVE  Balance(t, g, h.applied[g], c.gestures[g].turned - SlotN(q, g))
    <3>1. g \in Ids /\ FateOf(c, g) # "forgotten" /\ c.gestures[g].turned \in Int
      BY <1>3, <1>7, <2>1
    <3>2. SlotN(c, g) \in Int /\ SlotN(q, g) \in Int
      BY <3>1, SlotNIs
    <3> DEFINE to == c.gestures[g].turned - SlotN(c, g)
    <3>3. Balance(s, g, h.applied[g], to)
      BY <2>1, <3>1 DEF Flow, WholeOK
    <3>4. CASE (\A i \in 1..Len(new) : new[i].key # g) /\ SlotN(q, g) = SlotN(c, g)
      BY <1>1, <3>3, <3>4, BalanceBeyond DEF Calls
    <3>5. ASSUME NEW p \in 1..Len(new), new[p].key = g, SlotN(c, g) = new[p].n + SlotN(q, g)
          PROVE  Balance(t, g, h.applied[g], c.gestures[g].turned - SlotN(q, g))
      <4>1. \A i \in 1..Len(new) : new[i].key = g <=> i = p
        <5>1. OnceEach(new)
          BY DEF Moves
        <5> QED
          BY <3>1, <3>5, <5>1 DEF OnceEach
      <4>2. new[p].n \in Int
        <5>1. new[p] \in Calls
          BY <3>5, ElementOfSeq
        <5> QED
          BY <5>1, CallIs
      <4>3. c.gestures[g].turned - SlotN(q, g) = to + new[p].n
        BY <3>1, <3>2, <3>5, <4>2
      <4> HIDE DEF to
      <4>4. Balance(t, g, h.applied[g], to + new[p].n)
        BY <1>1, <3>3, <3>5, <4>1, BalanceWith DEF Calls
      <4> QED
        BY <4>3, <4>4
    <3>6. \/ (\A i \in 1..Len(new) : new[i].key # g) /\ SlotN(q, g) = SlotN(c, g)
          \/ \E p \in 1..Len(new) : new[p].key = g /\ SlotN(c, g) = new[p].n + SlotN(q, g)
      BY <2>1 DEF Moves, HandsOver
    <3> QED
      BY <3>4, <3>5, <3>6
  <2> QED
    BY <1>4, <2>1 DEF WholeOK
<1>20. UnusedOK(q, h)
  BY <1>4 DEF Flow, UnusedOK
<1> QED
  BY <1>10, <1>11, <1>12, <1>13, <1>14, <1>15, <1>16, <1>17, <1>18, <1>19, <1>20 DEF Flow, t

(* The daemon in a handler: pre is what was on its way when it began.        *)
Flows(pre, c, h) == c \in Daemons /\ SlotsOK(c) /\ Flow(pre \o c.out, c, h)
Way(pre, h) == pre \in Seq(Calls) /\ HostT(h)

(* A gesture that is not live has no slot.                                   *)
LEMMA SlotsMove ==
  ASSUME NEW c \in Daemons, NEW q \in Daemons, NEW new, SlotsOK(c), Moves(c, q, new)
  PROVE  SlotsOK(q)
<1>1. Len(q.gestures) = Len(c.gestures) /\ 1..Len(c.gestures) \subseteq Ids
  BY DaemonIs DEF Moves, SameGestures
<1>2. ASSUME NEW g \in Ids, q.slots[g] # NoSlot PROVE g \in Live(q)
  <2>1. c.slots[g] # NoSlot
    BY <1>2, IdsAreKeys DEF Moves, NoNewSlots
  <2>2. g \in 1..Len(c.gestures) /\ FateOf(c, g) = "live"
    BY <2>1 DEF SlotsOK, Live, FateOf
  <2>3. FateOf(q, g) = FateOf(c, g)
    BY <1>2, <2>2 DEF Moves, FatesMove
  <2> QED
    BY <1>1, <2>2, <2>3 DEF Live, FateOf
<1> QED
  BY <1>1, <1>2 DEF SlotsOK

(* The same for a handler in the middle of its work, with its calls so far   *)
(* last on their way.                                                        *)
LEMMA MovesFlow ==
  ASSUME NEW pre, NEW h, Way(pre, h), NEW c, Flows(pre, c, h),
         NEW q \in Daemons, NEW new \in Seq(Calls), q.out = c.out \o new, Moves(c, q, new)
  PROVE  Flows(pre, q, h)
<1>1. c \in Daemons /\ SlotsOK(c) /\ Flow(pre \o c.out, c, h)
  BY DEF Flows
<1>2. SlotsOK(q)
  BY <1>1, SlotsMove
<1>3. c.out \in Seq(Calls)
  BY <1>1 DEF Daemons, Calls, ClientT
<1>4. pre \in Seq(Calls) /\ HostT(h)
  BY DEF Way
<1> DEFINE s == pre \o c.out
<1>5. s \in Seq(Calls) /\ s \o new = pre \o q.out
  <2>1. s \in Seq(Calls)
    BY <1>3, <1>4, ConcatProperties
  <2>2. s \o new = pre \o (c.out \o new)
    <3>1. \A x, y, z \in Seq(Calls) : (x \o y) \o z = x \o (y \o z)
      <4> TAKE x, y, z \in Seq(Calls)
      <4> QED
        BY ConcatAssociative
    <3>2. new \in Seq(Calls) /\ pre \in Seq(Calls) /\ c.out \in Seq(Calls)
      BY <1>3, <1>4
    <3> QED
      BY <3>1, <3>2, Zenon
  <2> HIDE DEF s
  <2> QED
    BY <2>1, <2>2
<1> HIDE DEF s
<1>6. Flow(s, c, h)
  BY <1>1 DEF s
<1>7. Flow(s \o new, q, h)
  BY <1>1, <1>2, <1>4, <1>5, <1>6, MovesKeep
<1> QED
  BY <1>2, <1>5, <1>7 DEF Flows

(* Without a call.                                                           *)
LEMMA NothingSent ==
  ASSUME NEW pre, NEW h, Way(pre, h), NEW c, Flows(pre, c, h),
         NEW q \in Daemons, q.out = c.out, Moves(c, q, <<>>)
  PROVE  Flows(pre, q, h)
<1>1. c.out \in Seq(Calls)
  BY DEF Flows, Daemons, Calls, ClientT
<1>2. <<>> \in Seq(Calls) /\ c.out \o <<>> = c.out
  BY <1>1, ConcatEmptySeq
<1> QED
  BY <1>2, MovesFlow

(* A step that leaves gestures, what is in the slots and calls as they are.  *)
Alike(c, q) ==
  /\ SameGestures(c, q)
  /\ \A g \in 1..Len(c.gestures) : FateOf(q, g) = FateOf(c, g)
  /\ \A k \in Keys : /\ q.slots[k] = NoSlot <=> c.slots[k] = NoSlot
                     /\ c.slots[k] # NoSlot => q.slots[k].n = c.slots[k].n

(* A step of a handler that changes neither slots nor fates nor what was     *)
(* turned.                                                                   *)
LEMMA AlikeFlows ==
  ASSUME NEW pre, NEW h, Way(pre, h), NEW c, Flows(pre, c, h),
         NEW q \in Daemons, q.out = c.out, Alike(c, q)
  PROVE  Flows(pre, q, h)
<1>1. c \in Daemons /\ SlotsOK(c)
  BY DEF Flows
<1>2. Len(q.gestures) = Len(c.gestures) /\ 1..Len(c.gestures) \subseteq Keys /\ Len(<<>>) = 0
  BY <1>1, DaemonIs, IdsAreKeys DEF Alike, SameGestures
<1>3. Sending(c, <<>>) /\ OnceEach(<<>>)
  BY DEF Sending, OnceEach
<1>4. FatesMove(c, q, <<>>)
  BY DEF Alike, FatesMove
<1>5. HandsOver(c, q, <<>>)
  <2>1. \A g \in 1..Len(c.gestures) : SlotN(q, g) = SlotN(c, g)
    BY <1>2 DEF Alike, SlotN
  <2> QED
    BY <1>2, <2>1 DEF HandsOver
<1>6. KeepsSlots(c, q) /\ NoNewSlots(c, q)
  BY <1>2 DEF Alike, KeepsSlots, NoNewSlots, Live
<1>7. SameGestures(c, q)
  BY DEF Alike
<1> QED
  BY <1>3, <1>4, <1>5, <1>6, <1>7, NothingSent DEF Moves

(* Control, as its calls: one for each key.                                  *)
Called(c, q, ks, n, phase, new) ==
  /\ q \in Daemons /\ q.epoch = c.epoch /\ q.slots = c.slots /\ Len(q.gestures) = Len(c.gestures)
  /\ \A g \in 1..Len(c.gestures) : /\ q.gestures[g].epoch = c.gestures[g].epoch
                                   /\ q.gestures[g].turned = c.gestures[g].turned
                                   /\ q.gestures[g].fate = c.gestures[g].fate
  /\ new \in Seq(Calls) /\ q.out = c.out \o new
  /\ \A i \in 1..Len(new) : /\ new[i].key \in ks /\ new[i].n = n[new[i].key]
                            /\ new[i].phase = phase /\ new[i].epoch = c.epoch
  /\ \A i, j \in 1..Len(new) : new[i].key = new[j].key => i = j
  /\ \A k \in ks : \E i \in 1..Len(new) : new[i].key = k

(* KdenliveDBusClient::control sends one call of each key, with the detents  *)
(* it was given.                                                             *)
LEMMA ControlCalls ==
  ASSUME NEW c \in Daemons, NEW ks \in SUBSET Keys, NEW n \in [ks -> Int],
         NEW phase \in {"update", "end"}
  PROVE  \E new : Called(c, Control(c, ks, n, phase), ks, n, phase, new)
<1> DEFINE order == SetToSeq(ks)
           new == [i \in 1..Len(order) |->
                    [seq |-> c.seq + i, key |-> order[i], n |-> n[order[i]], phase |-> phase,
                     epoch |-> c.epoch]]
           q == Control(c, ks, n, phase)
<1>1. c \in ClientT(Bounds)
  BY DEF Daemons
<1>2. q.out = c.out \o new
  BY <1>1 DEF Control, ClientT
<1>3. AfterControl(Bounds, c, ks, phase, q)
  BY <1>1, ControlIs
<1>4. /\ order \in Seq(ks) /\ Len(order) \in Nat
      /\ \A i \in 1..Len(order) : order[i] \in ks
      /\ \A k \in ks : \E i \in 1..Len(order) : order[i] = k
      /\ \A i, j \in 1..Len(order) : order[i] = order[j] => i = j
  <2>1. IsFiniteSet(ks)
    BY KeysAreFinite, FS_Subset
  <2>2. /\ order \in Seq(ks) /\ \A k \in ks : \E i \in 1..Len(order) : order[i] = k
        /\ \A i, j \in 1..Len(order) : order[i] = order[j] => i = j
    BY <2>1, ListIs
  <2> HIDE DEF order
  <2> QED
    BY <2>2
<1> HIDE DEF order
<1>5. c.seq \in Nat /\ c.epoch \in Bounds.epochs
  BY <1>1 DEF ClientT
<1>6. \A i \in 1..Len(order) :
        /\ new[i].key = order[i] /\ new[i].n = n[order[i]] /\ new[i].phase = phase
        /\ new[i].epoch = c.epoch /\ new[i] \in Calls
  <2> TAKE i \in 1..Len(order)
  <2>1. c.seq + i \in Nat
    <3>1. i \in Nat
      BY <1>4
    <3> QED
      BY <1>5, <3>1
  <2>2. order[i] \in Keys /\ n[order[i]] \in Int
    <3>1. order[i] \in ks
      BY <1>4
    <3> QED
      BY <3>1
  <2>3. [seq |-> c.seq + i, key |-> order[i], n |-> n[order[i]], phase |-> phase,
         epoch |-> c.epoch] \in CallT(Bounds)
    BY <1>5, <2>1, <2>2 DEF CallT
  <2> QED
    BY <2>3 DEF Calls
<1>7. new \in Seq(Calls) /\ Len(new) = Len(order)
  <2>1. new \in [1..Len(order) -> Calls]
    <3>1. \A i \in 1..Len(order) : new[i] \in Calls
      BY <1>6
    <3> QED
      BY <3>1, Zenon
  <2> HIDE DEF new
  <2>2. new \in Seq(Calls)
    <3>1. Len(order) \in Nat
      BY <1>4
    <3> QED
      BY <2>1, <3>1, SeqDef
  <2> QED
    BY <1>4, <2>1, <2>2, LenProperties
<1> HIDE DEF new, q
<1>8. /\ q \in Daemons /\ q.epoch = c.epoch /\ q.slots = c.slots
      /\ Len(q.gestures) = Len(c.gestures)
  BY <1>3 DEF AfterControl, Daemons
<1>9. \A g \in 1..Len(c.gestures) : /\ q.gestures[g].epoch = c.gestures[g].epoch
                                    /\ q.gestures[g].turned = c.gestures[g].turned
                                    /\ q.gestures[g].fate = c.gestures[g].fate
  <2> TAKE g \in 1..Len(c.gestures)
  <2>1. c.gestures[g] \in GestureT(Bounds)
    BY <1>1, ElementOfSeq DEF ClientT
  <2>2. \/ q.gestures[g] = [c.gestures[g] EXCEPT !.batches = @ + Steps(c.gestures[g].binding)]
        \/ q.gestures[g] = c.gestures[g]
    BY <1>3 DEF AfterControl
  <2> QED
    BY <2>1, <2>2 DEF GestureT
<1>10. \A i \in 1..Len(new) : /\ new[i].key \in ks /\ new[i].n = n[new[i].key]
                              /\ new[i].phase = phase /\ new[i].epoch = c.epoch
  BY <1>4, <1>6, <1>7
<1>11. \A i, j \in 1..Len(new) : new[i].key = new[j].key => i = j
  BY <1>4, <1>6, <1>7
<1>12. \A k \in ks : \E i \in 1..Len(new) : new[i].key = k
  BY <1>4, <1>6, <1>7
<1>13. Called(c, q, ks, n, phase, new)
  BY <1>2, <1>7, <1>8, <1>9, <1>10, <1>11, <1>12 DEF Called
<1> QED
  BY <1>13 DEF q

(* Other slots for the daemon.                                               *)
LEMMA WithSlots ==
  ASSUME NEW c \in Daemons, NEW slots \in [Keys -> Slot \cup {NoSlot}]
  PROVE  LET d == [c EXCEPT !.slots = slots]
         IN /\ d \in Daemons /\ d.epoch = c.epoch /\ d.slots = slots /\ d.gestures = c.gestures
            /\ d.out = c.out
  BY DEF Daemons, ClientT

(* A slot of every key, or none.                                             *)
LEMMA DaemonSlots ==
  ASSUME NEW c \in Daemons
  PROVE  c.slots \in [Keys -> Slot \cup {NoSlot}]
  BY DEF Daemons, ClientT

(* A flush hands over what is in the slots.                                  *)
LEMMA TryFlushFlows ==
  ASSUME NEW pre, NEW h, Way(pre, h), NEW c, Flows(pre, c, h), NEW ks \in SUBSET Keys
  PROVE  Flows(pre, TryFlush(c, ks), h)
<1> DEFINE ready == {k \in ks : Waiting(c, k) /\ ~Blocked(c.slots[k])}
           full == {k \in ready : c.slots[k].n # 0}
           flushed(k) ==
             IF k \in full THEN [n |-> 0, merged |-> FALSE, inFlight |-> TRUE, clock |-> 0]
             ELSE [c.slots[k] EXCEPT !.merged = FALSE, !.inFlight = FALSE]
           slots == [k \in Keys |-> IF k \in ready THEN flushed(k) ELSE c.slots[k]]
           d == [c EXCEPT !.slots = slots]
           n == [k \in full |-> c.slots[k].n]
           q == Control(d, full, n, "update")
<1>1. TryFlush(c, ks) = q
  BY DEF TryFlush
<1>2. c \in Daemons /\ SlotsOK(c) /\ c.slots \in [Keys -> Slot \cup {NoSlot}]
      /\ full \in SUBSET Keys /\ ready \in SUBSET Keys
  BY DaemonSlots DEF Flows
<1>3. \A k \in ready : c.slots[k] \in Slot /\ c.slots[k] # NoSlot
  BY <1>2 DEF Waiting
<1>4. n \in [full -> Int]
  <2>1. \A k \in full : c.slots[k].n \in Int
    BY <1>3 DEF Slot
  <2> QED
    BY <2>1
<1>5. \A k \in ready : /\ flushed(k) \in Slot /\ flushed(k) # NoSlot
                       /\ flushed(k).n = IF k \in full THEN 0 ELSE c.slots[k].n
  <2> SUFFICES ASSUME NEW k \in ready
               PROVE  /\ flushed(k) \in Slot
                      /\ flushed(k).n = IF k \in full THEN 0 ELSE c.slots[k].n
    BY ControlAssumption DEF Slot
  <2>1. c.slots[k] \in Slot
    BY <1>3
  <2>2. CASE k \in full
    BY <2>2 DEF Slot
  <2>3. CASE k \notin full
    BY <2>1, <2>3 DEF Slot
  <2> QED
    BY <2>2, <2>3
<1>6. /\ \A k \in full : k \in ready
      /\ \A k \in full : n[k] = c.slots[k].n
  OBVIOUS
<1> HIDE DEF ready, full, flushed, n
<1>7. \A k \in Keys : slots[k] = IF k \in ready THEN flushed(k) ELSE c.slots[k]
  OBVIOUS
<1>8. slots \in [Keys -> Slot \cup {NoSlot}]
  BY <1>2, <1>5
<1> HIDE DEF slots
<1>9. /\ d \in Daemons /\ d.epoch = c.epoch /\ d.slots = slots /\ d.gestures = c.gestures
      /\ d.out = c.out
  BY <1>2, <1>8, WithSlots
<1> HIDE DEF d
<1>10. PICK new : Called(d, q, full, n, "update", new)
  BY <1>2, <1>4, <1>9, ControlCalls
<1> HIDE DEF q
<1>11. /\ q \in Daemons /\ q.epoch = c.epoch /\ q.slots = slots
       /\ Len(q.gestures) = Len(c.gestures)
       /\ \A g \in 1..Len(c.gestures) : /\ q.gestures[g].epoch = c.gestures[g].epoch
                                        /\ q.gestures[g].turned = c.gestures[g].turned
                                        /\ q.gestures[g].fate = c.gestures[g].fate
       /\ new \in Seq(Calls) /\ q.out = c.out \o new
  BY <1>9, <1>10 DEF Called
<1>12. \A i \in 1..Len(new) : /\ new[i].key \in full /\ new[i].n = c.slots[new[i].key].n
                              /\ new[i].epoch = c.epoch
  BY <1>6, <1>9, <1>10 DEF Called
<1>13. /\ \A i, j \in 1..Len(new) : new[i].key = new[j].key => i = j
       /\ \A k \in full : \E i \in 1..Len(new) : new[i].key = k
  BY <1>10 DEF Called
<1>14. \A k \in Keys : q.slots[k] = NoSlot <=> c.slots[k] = NoSlot
  BY <1>3, <1>5, <1>7, <1>11
<1>15. 1..Len(c.gestures) \subseteq Ids /\ Ids \subseteq Keys
  BY <1>2, DaemonIs, IdsAreKeys
<1>16. SameGestures(c, q)
  BY <1>11 DEF SameGestures
<1>17. Sending(c, new)
  <2> SUFFICES ASSUME NEW i \in 1..Len(new)
               PROVE  /\ new[i].epoch = c.epoch
                      /\ new[i].key \in Ids => new[i].key \in Live(c) /\ c.slots[new[i].key] # NoSlot
    BY DEF Sending
  <2>1. c.slots[new[i].key] # NoSlot /\ new[i].epoch = c.epoch
    BY <1>3, <1>6, <1>12
  <2> QED
    BY <1>2, <2>1 DEF SlotsOK
<1>18. OnceEach(new)
  BY <1>13 DEF OnceEach
<1>19. FatesMove(c, q, new)
  BY <1>11 DEF FatesMove, FateOf
<1>20. HandsOver(c, q, new)
  <2>1. ASSUME NEW g \in 1..Len(c.gestures), g \in full
        PROVE  \E p \in 1..Len(new) : new[p].key = g /\ SlotN(c, g) = new[p].n + SlotN(q, g)
    <3>1. PICK p \in 1..Len(new) : new[p].key = g
      BY <1>13, <2>1
    <3>2. new[p].n = c.slots[g].n /\ c.slots[g].n \in Int /\ c.slots[g] # NoSlot
      BY <1>3, <1>6, <1>12, <2>1, <3>1 DEF Slot
    <3>3. q.slots[g] # NoSlot /\ q.slots[g].n = 0
      BY <1>5, <1>6, <1>7, <1>11, <1>15, <2>1
    <3>4. SlotN(c, g) = c.slots[g].n /\ SlotN(q, g) = 0
      BY <3>2, <3>3 DEF SlotN
    <3> QED
      BY <3>1, <3>2, <3>4
  <2>2. ASSUME NEW g \in 1..Len(c.gestures), g \notin full
        PROVE  (\A i \in 1..Len(new) : new[i].key # g) /\ SlotN(q, g) = SlotN(c, g)
    <3>1. \A i \in 1..Len(new) : new[i].key # g
      BY <1>12, <2>2
    <3>2. CASE g \in ready
      <4>1. q.slots[g] # NoSlot /\ c.slots[g] # NoSlot /\ q.slots[g].n = c.slots[g].n
        BY <1>3, <1>5, <1>7, <1>11, <1>15, <2>2, <3>2
      <4> QED
        BY <3>1, <4>1 DEF SlotN
    <3>3. CASE g \notin ready
      <4>1. q.slots[g] = c.slots[g]
        BY <1>7, <1>11, <1>15, <3>3
      <4> QED
        BY <3>1, <4>1 DEF SlotN
    <3> QED
      BY <3>2, <3>3
  <2> QED
    BY <2>1, <2>2 DEF HandsOver
<1>21. KeepsSlots(c, q) /\ NoNewSlots(c, q)
  <2>1. Live(q) \subseteq Keys
    BY <1>11, <1>15 DEF Live
  <2> QED
    BY <1>14, <2>1 DEF KeepsSlots, NoNewSlots
<1>22. Moves(c, q, new)
  BY <1>16, <1>17, <1>18, <1>19, <1>20, <1>21 DEF Moves
<1>23. Flows(pre, q, h)
  BY <1>11, <1>22, MovesFlow
<1> QED
  BY <1>1, <1>23

(* Gestures are forgotten with their slots, and any other slots.             *)
Forget(c, ks, ids) == SetFate(RemoveSlots(c, ks), ids, "forgotten")

(* What is left when slots are removed and gestures get a fate.              *)
LEMMA ForgetIs ==
  ASSUME NEW c \in Daemons, NEW ks, NEW ids, NEW fate \in Fates
  PROVE  LET q == SetFate(RemoveSlots(c, ks), ids, fate)
         IN /\ q \in Daemons /\ q.epoch = c.epoch /\ q.out = c.out
            /\ q.navAwaiting = c.navAwaiting
            /\ Len(q.gestures) = Len(c.gestures)
            /\ \A k \in Keys : q.slots[k] = IF k \in ks THEN NoSlot ELSE c.slots[k]
            /\ \A g \in 1..Len(c.gestures) :
                 /\ q.gestures[g].epoch = c.gestures[g].epoch
                 /\ q.gestures[g].turned = c.gestures[g].turned
                 /\ q.gestures[g].fate = IF g \in ids THEN fate ELSE c.gestures[g].fate
<1> DEFINE d == RemoveSlots(c, ks)
           q == SetFate(d, ids, fate)
<1>1. c \in ClientT(Bounds)
  BY DEF Daemons
<1>2. /\ d \in ClientT(Bounds)
      /\ d.epoch = c.epoch /\ d.gestures = c.gestures /\ d.navAwaiting = c.navAwaiting
      /\ d.out = c.out
      /\ \A k \in Keys : d.slots[k] = IF k \in ks THEN NoSlot ELSE c.slots[k]
  BY <1>1, RemoveSlotsIs
<1> HIDE DEF d
<1>3. /\ q \in ClientT(Bounds)
      /\ q.epoch = d.epoch /\ q.slots = d.slots /\ q.navAwaiting = d.navAwaiting
      /\ q.out = d.out
      /\ Len(q.gestures) = Len(d.gestures)
      /\ \A g \in 1..Len(d.gestures) :
           /\ g \notin ids => q.gestures[g] = d.gestures[g]
           /\ g \in ids => /\ q.gestures[g].fate = fate
                           /\ q.gestures[g].epoch = d.gestures[g].epoch
                           /\ q.gestures[g].turned = d.gestures[g].turned
  BY <1>2, SetFateIs
<1> HIDE DEF q
<1>4. \A g \in 1..Len(c.gestures) :
        /\ q.gestures[g].epoch = c.gestures[g].epoch
        /\ q.gestures[g].turned = c.gestures[g].turned
        /\ q.gestures[g].fate = IF g \in ids THEN fate ELSE c.gestures[g].fate
  BY <1>2, <1>3
<1>5. /\ q \in Daemons /\ q.epoch = c.epoch /\ q.out = c.out
      /\ q.navAwaiting = c.navAwaiting
      /\ Len(q.gestures) = Len(c.gestures)
      /\ \A k \in Keys : q.slots[k] = IF k \in ks THEN NoSlot ELSE c.slots[k]
  BY <1>2, <1>3 DEF Daemons
<1> QED
  BY <1>4, <1>5 DEF q, d

(* Live gestures may be forgotten if their slots go with them.               *)
LEMMA ForgetFlows ==
  ASSUME NEW pre, NEW h, Way(pre, h), NEW c, Flows(pre, c, h),
         NEW ks, NEW ids, ids \subseteq Live(c), ks \cap Live(c) \subseteq ids,
         ids \subseteq ks
  PROVE  Flows(pre, Forget(c, ks, ids), h)
<1> DEFINE q == Forget(c, ks, ids)
<1>1. c \in Daemons /\ SlotsOK(c) /\ "forgotten" \in Fates
  BY DEF Flows, Fates
<1>2. /\ q \in Daemons /\ q.epoch = c.epoch /\ q.out = c.out
      /\ Len(q.gestures) = Len(c.gestures)
      /\ \A k \in Keys : q.slots[k] = IF k \in ks THEN NoSlot ELSE c.slots[k]
      /\ \A g \in 1..Len(c.gestures) :
           /\ q.gestures[g].epoch = c.gestures[g].epoch
           /\ q.gestures[g].turned = c.gestures[g].turned
           /\ q.gestures[g].fate = IF g \in ids THEN "forgotten" ELSE c.gestures[g].fate
  BY <1>1, ForgetIs DEF Forget
<1> HIDE DEF q
<1>3. 1..Len(c.gestures) \subseteq Keys /\ 1..Len(c.gestures) \subseteq Ids /\ Len(<<>>) = 0
  BY <1>1, DaemonIs, IdsAreKeys
<1>4. SameGestures(c, q) /\ Sending(c, <<>>) /\ OnceEach(<<>>)
  BY <1>2, <1>3 DEF SameGestures, Sending, OnceEach
<1>5. FatesMove(c, q, <<>>)
  <2> SUFFICES ASSUME NEW g \in 1..Len(c.gestures)
               PROVE  \/ FateOf(q, g) = FateOf(c, g)
                      \/ FateOf(c, g) = "live" /\ FateOf(q, g) = "forgotten" /\ q.slots[g] = NoSlot
    BY DEF FatesMove
  <2>1. CASE g \in ids
    BY <1>2, <1>3, <2>1 DEF Live, FateOf
  <2>2. CASE g \notin ids
    BY <1>2, <2>2 DEF FateOf
  <2> QED
    BY <2>1, <2>2
<1>6. HandsOver(c, q, <<>>)
  <2> SUFFICES ASSUME NEW g \in 1..Len(c.gestures), FateOf(q, g) # "forgotten"
               PROVE  SlotN(q, g) = SlotN(c, g)
    BY <1>3 DEF HandsOver
  <2>1. g \notin ids
    BY <1>2 DEF FateOf
  <2>2. CASE g \in Live(c)
    <3>1. q.slots[g] = c.slots[g]
      BY <1>2, <1>3, <2>1, <2>2
    <3> QED
      BY <3>1 DEF SlotN
  <2>3. CASE g \notin Live(c)
    <3>1. c.slots[g] = NoSlot
      BY <1>1, <1>3, <2>3 DEF SlotsOK
    <3>2. q.slots[g] = NoSlot
      BY <1>2, <1>3, <3>1
    <3> QED
      BY <3>1, <3>2 DEF SlotN
  <2> QED
    BY <2>2, <2>3
<1>7. KeepsSlots(c, q)
  <2> SUFFICES ASSUME NEW g \in Live(q), c.slots[g] # NoSlot PROVE q.slots[g] # NoSlot
    BY DEF KeepsSlots
  <2>1. g \in 1..Len(c.gestures) /\ q.gestures[g].fate = "live"
    BY <1>2 DEF Live
  <2>2. g \notin ids /\ g \in Live(c)
    BY <1>2, <2>1 DEF Live
  <2> QED
    BY <1>2, <1>3, <2>1, <2>2
<1>8. NoNewSlots(c, q)
  BY <1>2 DEF NoNewSlots
<1>9. Moves(c, q, <<>>)
  BY <1>4, <1>5, <1>6, <1>7, <1>8 DEF Moves
<1>10. Flows(pre, q, h)
  BY <1>2, <1>9, NothingSent
<1> QED
  BY <1>10 DEF q

(* An end takes what was not sent yet with it.                               *)
LEMMA EndGesturesFlow ==
  ASSUME NEW pre, NEW h, Way(pre, h), NEW c, Flows(pre, c, h), NEW gs, gs \subseteq Live(c)
  PROVE  /\ Flows(pre, EndGestures(c, gs), h)
         /\ Live(EndGestures(c, gs)) = Live(c) \ gs
         /\ EndGestures(c, gs).epoch = c.epoch
         /\ Len(EndGestures(c, gs).gestures) = Len(c.gestures)
<1> DEFINE sending == {g \in gs : c.slots[g] # NoSlot}
           e == SetFate(RemoveSlots(c, sending), gs, "ended")
           n == [g \in sending |-> c.slots[g].n]
           q == Control(e, sending, n, "end")
<1>1. EndGestures(c, gs) = q
  BY DEF EndGestures
<1>2. /\ c \in Daemons /\ SlotsOK(c) /\ c.slots \in [Keys -> Slot \cup {NoSlot}]
      /\ "ended" \in Fates
  BY DaemonSlots DEF Flows, Fates
<1>3. 1..Len(c.gestures) \subseteq Keys /\ 1..Len(c.gestures) \subseteq Ids
  BY <1>2, DaemonIs, IdsAreKeys
<1>4. gs \subseteq Keys /\ gs \subseteq 1..Len(c.gestures)
  BY <1>3 DEF Live
<1>5. sending \in SUBSET Keys /\ sending \subseteq gs /\ sending \subseteq Live(c)
      /\ \A g \in gs : g \in sending <=> c.slots[g] # NoSlot
  BY <1>4
<1>6. n \in [sending -> Int] /\ \A g \in sending : n[g] = c.slots[g].n /\ c.slots[g].n \in Int
  <2>1. \A g \in sending : c.slots[g].n \in Int
    BY <1>2, <1>5 DEF Slot
  <2> QED
    BY <2>1
<1> HIDE DEF sending, n
<1>7. /\ e \in Daemons /\ e.epoch = c.epoch /\ e.out = c.out
      /\ Len(e.gestures) = Len(c.gestures)
      /\ \A k \in Keys : e.slots[k] = IF k \in sending THEN NoSlot ELSE c.slots[k]
      /\ \A g \in 1..Len(c.gestures) :
           /\ e.gestures[g].epoch = c.gestures[g].epoch
           /\ e.gestures[g].turned = c.gestures[g].turned
           /\ e.gestures[g].fate = IF g \in gs THEN "ended" ELSE c.gestures[g].fate
  BY <1>2, ForgetIs
<1> HIDE DEF e
<1>8. PICK new : Called(e, q, sending, n, "end", new)
  BY <1>5, <1>6, <1>7, ControlCalls
<1> HIDE DEF q
<1>9. /\ q \in Daemons /\ q.epoch = c.epoch /\ q.slots = e.slots
      /\ Len(q.gestures) = Len(c.gestures)
      /\ new \in Seq(Calls) /\ q.out = c.out \o new
  BY <1>7, <1>8 DEF Called
<1>10. \A g \in 1..Len(c.gestures) :
         /\ q.gestures[g].epoch = c.gestures[g].epoch
         /\ q.gestures[g].turned = c.gestures[g].turned
         /\ q.gestures[g].fate = IF g \in gs THEN "ended" ELSE c.gestures[g].fate
  BY <1>7, <1>8 DEF Called
<1>11. \A i \in 1..Len(new) : /\ new[i].key \in sending /\ new[i].n = c.slots[new[i].key].n
                              /\ new[i].phase = "end" /\ new[i].epoch = c.epoch
  BY <1>6, <1>7, <1>8 DEF Called
<1>12. /\ \A i, j \in 1..Len(new) : new[i].key = new[j].key => i = j
       /\ \A k \in sending : \E i \in 1..Len(new) : new[i].key = k
  BY <1>8 DEF Called
<1>13. \A g \in gs : q.slots[g] = NoSlot
  BY <1>4, <1>5, <1>7, <1>9
<1>14. SameGestures(c, q)
  BY <1>9, <1>10 DEF SameGestures
<1>15. Sending(c, new)
  BY <1>5, <1>11 DEF Sending
<1>16. OnceEach(new)
  BY <1>12 DEF OnceEach
<1>17. FatesMove(c, q, new)
  <2> SUFFICES ASSUME NEW g \in 1..Len(c.gestures)
               PROVE  \/ FateOf(q, g) = FateOf(c, g)
                      \/ /\ FateOf(c, g) = "live" /\ FateOf(q, g) = "ended" /\ q.slots[g] = NoSlot
                         /\ c.slots[g] = NoSlot \/ EndFollows(new, g, 1)
    BY DEF FatesMove
  <2>1. CASE g \notin gs
    BY <1>10, <2>1 DEF FateOf
  <2>2. CASE g \in gs
    <3>1. FateOf(c, g) = "live" /\ FateOf(q, g) = "ended" /\ q.slots[g] = NoSlot
      BY <1>10, <1>13, <2>2 DEF FateOf, Live
    <3>2. CASE g \in sending
      <4>1. PICK i \in 1..Len(new) : new[i].key = g
        BY <1>12, <3>2
      <4>2. EndFollows(new, g, 1)
        BY <1>11, <4>1 DEF EndFollows
      <4> QED
        BY <3>1, <4>2
    <3>3. CASE g \notin sending
      BY <1>5, <2>2, <3>1, <3>3
    <3> QED
      BY <3>2, <3>3
  <2> QED
    BY <2>1, <2>2
<1>18. HandsOver(c, q, new)
  <2>1. ASSUME NEW g \in 1..Len(c.gestures), g \in sending
        PROVE  \E p \in 1..Len(new) : new[p].key = g /\ SlotN(c, g) = new[p].n + SlotN(q, g)
    <3>1. PICK p \in 1..Len(new) : new[p].key = g
      BY <1>12, <2>1
    <3>2. new[p].n = c.slots[g].n /\ c.slots[g].n \in Int /\ c.slots[g] # NoSlot
      BY <1>5, <1>6, <1>11, <2>1, <3>1
    <3>3. SlotN(c, g) = c.slots[g].n /\ SlotN(q, g) = 0
      BY <1>5, <1>13, <2>1, <3>2 DEF SlotN
    <3> QED
      BY <3>1, <3>2, <3>3
  <2>2. ASSUME NEW g \in 1..Len(c.gestures), g \notin sending
        PROVE  (\A i \in 1..Len(new) : new[i].key # g) /\ SlotN(q, g) = SlotN(c, g)
    <3>1. q.slots[g] = c.slots[g]
      BY <1>3, <1>7, <1>9, <2>2
    <3> QED
      BY <1>11, <2>2, <3>1 DEF SlotN
  <2> QED
    BY <2>1, <2>2 DEF HandsOver
<1>19. KeepsSlots(c, q)
  <2> SUFFICES ASSUME NEW g \in Live(q), c.slots[g] # NoSlot PROVE q.slots[g] # NoSlot
    BY DEF KeepsSlots
  <2>1. g \in 1..Len(c.gestures) /\ q.gestures[g].fate = "live"
    BY <1>9 DEF Live
  <2>2. g \notin gs
    BY <1>10, <2>1
  <2> QED
    BY <1>3, <1>5, <1>7, <1>9, <2>1, <2>2
<1>20. NoNewSlots(c, q)
  BY <1>7, <1>9 DEF NoNewSlots
<1>21. Moves(c, q, new)
  BY <1>14, <1>15, <1>16, <1>17, <1>18, <1>19, <1>20 DEF Moves
<1>22. Flows(pre, q, h)
  BY <1>9, <1>21, MovesFlow
<1>23. Live(q) = Live(c) \ gs
  BY <1>9, <1>10 DEF Live
<1> QED
  BY <1>1, <1>9, <1>22, <1>23

(* A step that changes neither slots nor gestures nor calls.                 *)
LEMMA QuietFlows ==
  ASSUME NEW pre, NEW h, Way(pre, h), NEW c, Flows(pre, c, h), NEW q \in Daemons,
         q.epoch = c.epoch, q.slots = c.slots, q.gestures = c.gestures, q.out = c.out
  PROVE  Flows(pre, q, h)
<1>1. Alike(c, q)
  BY DEF Alike, SameGestures, FateOf
<1> QED
  BY <1>1, AlikeFlows

(* DeltaCoalescer::ack sends what waited.                                    *)
LEMMA AckSlotsFlow ==
  ASSUME NEW pre, NEW h, Way(pre, h), NEW c, Flows(pre, c, h), NEW ks \in SUBSET Keys
  PROVE  Flows(pre, AckSlots(c, ks), h)
<1> DEFINE slots == [k \in Keys |->
              IF k \in ks /\ c.slots[k] # NoSlot THEN [c.slots[k] EXCEPT !.inFlight = FALSE]
              ELSE c.slots[k]]
           d == [c EXCEPT !.slots = slots]
<1>1. AckSlots(c, ks) = TryFlush(d, ks)
  BY DEF AckSlots
<1>2. c \in Daemons /\ c.slots \in [Keys -> Slot \cup {NoSlot}]
  BY DaemonSlots DEF Flows
<1>3. \A k \in Keys : /\ slots[k] \in Slot \cup {NoSlot}
                      /\ slots[k] = NoSlot <=> c.slots[k] = NoSlot
                      /\ c.slots[k] # NoSlot => slots[k].n = c.slots[k].n
  <2> SUFFICES ASSUME NEW k \in Keys
               PROVE  /\ slots[k] \in Slot \cup {NoSlot}
                      /\ slots[k] = NoSlot <=> c.slots[k] = NoSlot
                      /\ c.slots[k] # NoSlot => slots[k].n = c.slots[k].n
    OBVIOUS
  <2>1. CASE k \in ks /\ c.slots[k] # NoSlot
    <3>1. c.slots[k] \in Slot
      BY <1>2, <2>1
    <3>2. /\ [c.slots[k] EXCEPT !.inFlight = FALSE] \in Slot
          /\ [c.slots[k] EXCEPT !.inFlight = FALSE].n = c.slots[k].n
      BY <3>1 DEF Slot
    <3>3. [c.slots[k] EXCEPT !.inFlight = FALSE] # NoSlot
      BY <3>2, ControlAssumption DEF Slot
    <3> QED
      BY <2>1, <3>2, <3>3
  <2>2. CASE ~(k \in ks /\ c.slots[k] # NoSlot)
    BY <1>2, <2>2
  <2> QED
    BY <2>1, <2>2
<1>4. slots \in [Keys -> Slot \cup {NoSlot}]
  BY <1>3
<1> HIDE DEF slots
<1>5. /\ d \in Daemons /\ d.epoch = c.epoch /\ d.slots = slots /\ d.gestures = c.gestures
      /\ d.out = c.out
  BY <1>2, <1>4, WithSlots
<1> HIDE DEF d
<1>6. Alike(c, d)
  BY <1>3, <1>5 DEF Alike, SameGestures, FateOf
<1>7. Flows(pre, d, h)
  BY <1>5, <1>6, AlikeFlows
<1> QED
  BY <1>1, <1>7, TryFlushFlows

(* Engine::releaseNavigation sends what waited for the epoch.                *)
LEMMA ReleaseNavigationFlows ==
  ASSUME NEW pre, NEW h, Way(pre, h), NEW c, Flows(pre, c, h)
  PROVE  Flows(pre, ReleaseNavigation(c), h)
<1> DEFINE d == [c EXCEPT !.navAwaiting = {}]
<1>1. c \in Daemons
  BY DEF Flows
<1>2. /\ d \in Daemons /\ d.epoch = c.epoch /\ d.slots = c.slots /\ d.gestures = c.gestures
      /\ d.out = c.out
  BY <1>1 DEF Daemons, ClientT
<1>3. c.navAwaiting \in SUBSET Keys
  BY <1>1, IdsAreKeys DEF Daemons, ClientT
<1> HIDE DEF d
<1>4. Flows(pre, d, h)
  BY <1>2, QuietFlows
<1>5. ReleaseNavigation(c) = AckSlots(d, c.navAwaiting)
  BY DEF ReleaseNavigation, d
<1> QED
  BY <1>3, <1>4, <1>5, AckSlotsFlow

(* Engine::dropPendingWork forgets what Kdenlive refused.                    *)
LEMMA DropPendingWorkFlows ==
  ASSUME NEW pre, NEW h, Way(pre, h), NEW c, Flows(pre, c, h)
  PROVE  Flows(pre, DropPendingWork(c), h)
<1> DEFINE d == Forget(c, Keys, Live(c))
           nav == [k \in Navs |-> None]
           q == [d EXCEPT !.navInFlight = nav, !.navAwaiting = {}]
<1>1. DropPendingWork(c) = q
  BY DEF DropPendingWork, Forget
<1>2. Live(c) \subseteq Keys
  BY DaemonIs, IdsAreKeys DEF Flows, Live
<1>3. Flows(pre, d, h)
  BY <1>2, ForgetFlows
<1> HIDE DEF d
<1>4. d \in Daemons
  BY <1>3 DEF Flows
<1>5. nav \in [Navs -> Bounds.epochs \cup {None}]
  OBVIOUS
<1> HIDE DEF nav
<1>6. /\ q \in Daemons /\ q.epoch = d.epoch /\ q.slots = d.slots /\ q.gestures = d.gestures
      /\ q.out = d.out
  BY <1>4, <1>5 DEF Daemons, ClientT
<1> HIDE DEF q
<1> QED
  BY <1>1, <1>3, <1>6, QuietFlows

(* Engine, controlAcked: sends what waited, or waits for an epoch.           *)
LEMMA AckedFlows ==
  ASSUME NEW pre, NEW h, Way(pre, h), NEW c, Flows(pre, c, h), NEW k \in Keys, NEW m
  PROVE  Flows(pre, Acked(c, k, m), h)
<1> DEFINE clear == IF k \in Navs THEN [c EXCEPT !.navInFlight[k] = None] ELSE c
           q == [clear EXCEPT !.navAwaiting = @ \cup {k}]
<1>1. c \in Daemons
  BY DEF Flows
<1>2. /\ clear \in Daemons /\ clear.epoch = c.epoch /\ clear.slots = c.slots
      /\ clear.gestures = c.gestures /\ clear.out = c.out
  <2>1. CASE k \in Navs
    <3> DEFINE nav == [c.navInFlight EXCEPT ![k] = None]
    <3>1. nav \in [Navs -> Bounds.epochs \cup {None}]
      BY <1>1, <2>1 DEF Daemons, ClientT
    <3>2. clear = [c EXCEPT !.navInFlight = nav]
      BY <2>1
    <3> HIDE DEF nav
    <3> QED
      BY <1>1, <3>1, <3>2 DEF Daemons, ClientT
  <2>2. CASE k \notin Navs
    BY <1>1, <2>2
  <2> QED
    BY <2>1, <2>2
<1> HIDE DEF clear
<1>3. Flows(pre, clear, h)
  BY <1>2, QuietFlows
<1>4. Flows(pre, AckSlots(clear, {k}), h)
  BY <1>3, AckSlotsFlow
<1>5. ASSUME k \in Navs PROVE Flows(pre, q, h)
  <2>1. /\ q \in Daemons /\ q.epoch = clear.epoch /\ q.slots = clear.slots
        /\ q.gestures = clear.gestures /\ q.out = clear.out
    BY <1>2, <1>5 DEF Daemons, ClientT
  <2> HIDE DEF q
  <2> QED
    BY <1>3, <2>1, QuietFlows
<1> QED
  BY <1>4, <1>5 DEF Acked, clear

(* KdenliveDBusClient::onControlAck, an ack or a refusal, late or not.       *)
LEMMA OnControlAckFlows ==
  ASSUME NEW pre, NEW h, Way(pre, h), NEW c, Flows(pre, c, h), NEW s \in c.sent, NEW m
  PROVE  Flows(pre, OnControlAck(c, m, s), h)
<1> DEFINE settled == Settled(c, s)
           heard == IF m.ok THEN settled ELSE DropPendingWork(settled)
           lat == [heard.latest EXCEPT ![s.key] = None]
           e == [heard EXCEPT !.latest = lat]
<1>1. OnControlAck(c, m, s) = IF c.latest[s.key] # m.seq THEN heard ELSE Acked(e, s.key, m)
  BY DEF OnControlAck
<1>2. c \in Daemons
  BY DEF Flows
<1>3. s.key \in Keys
  BY <1>2 DEF Daemons, ClientT, Sent
<1>4. /\ settled \in Daemons /\ settled.epoch = c.epoch /\ settled.slots = c.slots
      /\ settled.gestures = c.gestures /\ settled.out = c.out
  BY <1>2 DEF Daemons, ClientT, Settled
<1> HIDE DEF settled
<1>5. Flows(pre, settled, h)
  BY <1>4, QuietFlows
<1>6. Flows(pre, heard, h)
  BY <1>5, DropPendingWorkFlows
<1> HIDE DEF heard
<1>7. heard \in Daemons
  BY <1>6 DEF Flows
<1>8. lat \in [Keys -> Nat]
  BY <1>3, <1>7 DEF Daemons, ClientT, None
<1> HIDE DEF lat
<1>9. /\ e \in Daemons /\ e.epoch = heard.epoch /\ e.slots = heard.slots
      /\ e.gestures = heard.gestures /\ e.out = heard.out
  BY <1>7, <1>8 DEF Daemons, ClientT
<1> HIDE DEF e
<1>10. Flows(pre, e, h)
  BY <1>6, <1>9, QuietFlows
<1>11. Flows(pre, Acked(e, s.key, m), h)
  BY <1>3, <1>10, AckedFlows
<1> QED
  BY <1>1, <1>6, <1>11

(* Engine, contextChanged: gestures are forgotten after a seek or ended by a *)
(* mode rule.                                                                *)
LEMMA ContextChangedFlows ==
  ASSUME NEW pre, NEW h, Way(pre, h), NEW c, Flows(pre, c, h), NEW rule
  PROVE  Flows(pre, ContextChanged(c, rule), h)
<1> DEFINE moved == {g \in Live(c) : c.gestures[g].binding \in FrameBound /\ c.gestures[g].pos # c.pos}
           forgot == Forget(c, moved, moved)
<1>1. ContextChanged(c, rule) = IF rule THEN EndAllGestures(forgot) ELSE forgot
  BY DEF ContextChanged, Forget
<1>2. moved \subseteq Live(c) /\ moved \cap Live(c) \subseteq moved
  OBVIOUS
<1> HIDE DEF moved
<1>3. Flows(pre, forgot, h)
  BY <1>2, ForgetFlows
<1> HIDE DEF forgot
<1>4. Flows(pre, EndAllGestures(forgot), h)
  BY <1>3, EndGesturesFlow DEF EndAllGestures
<1> QED
  BY <1>1, <1>3, <1>4

(* Engine, epochChanged: all gestures are forgotten.                         *)
LEMMA EpochChangedFlows ==
  ASSUME NEW pre, NEW h, Way(pre, h), NEW c, Flows(pre, c, h)
  PROVE  Flows(pre, EpochChanged(c), h)
<1> DEFINE ks == Keys \ c.navAwaiting
           d == Forget(c, ks, Live(c))
           nav == [k \in Navs |-> None]
           q == [d EXCEPT !.navInFlight = nav]
<1>1. EpochChanged(c) = ReleaseNavigation(q)
  BY DEF EpochChanged, Forget
<1>2. c \in Daemons /\ SlotsOK(c)
  BY DEF Flows
<1>3. Live(c) \subseteq ks
  <2>1. Live(c) \subseteq Ids /\ c.navAwaiting \subseteq Navs
    BY <1>2, DaemonIs DEF Live, Daemons, ClientT
  <2> QED
    BY <2>1, IdsAreKeys
<1> HIDE DEF ks
<1>4. Flows(pre, d, h)
  BY <1>3, ForgetFlows
<1> HIDE DEF d
<1>5. d \in Daemons
  BY <1>4 DEF Flows
<1>6. nav \in [Navs -> Bounds.epochs \cup {None}]
  OBVIOUS
<1> HIDE DEF nav
<1>7. /\ q \in Daemons /\ q.epoch = d.epoch /\ q.slots = d.slots /\ q.gestures = d.gestures
      /\ q.out = d.out
  BY <1>5, <1>6 DEF Daemons, ClientT
<1> HIDE DEF q
<1>8. Flows(pre, q, h)
  BY <1>4, <1>7, QuietFlows
<1> QED
  BY <1>1, <1>8, ReleaseNavigationFlows

(* A context told tells an epoch no older than the daemon's, and no newer    *)
(* than Kdenlive's.                                                          *)
LEMMA ApplyContextFlows ==
  ASSUME NEW pre, NEW h, Way(pre, h), NEW c, Flows(pre, c, h), NEW m, NEW rule,
         m.epoch \in 1..MaxEpoch, m.pos \in 0..MaxPos, c.epoch <= m.epoch, m.epoch <= h.epoch
  PROVE  Flows(pre, ApplyContext(c, m, rule), h)
<1> DEFINE d == [c EXCEPT !.epoch = m.epoch, !.pos = m.pos]
           s == pre \o c.out
<1>1. c \in Daemons /\ SlotsOK(c) /\ Flow(s, c, h)
  BY DEF Flows
<1>2. /\ d \in Daemons /\ d.epoch = m.epoch /\ d.slots = c.slots /\ d.gestures = c.gestures
      /\ d.out = c.out
  <2>1. m.epoch \in Bounds.epochs /\ m.pos \in Bounds.spots
    BY DEF Bounds
  <2> QED
    BY <1>1, <2>1 DEF Daemons, ClientT
<1> HIDE DEF d
<1>3. SlotsOK(d)
  BY <1>1, <1>2 DEF SlotsOK, Live
<1>4. /\ c.epoch \in Nat /\ m.epoch \in Nat /\ h.epoch \in Nat
      /\ \A g \in 1..Len(c.gestures) : c.gestures[g].epoch \in Nat
  <2>1. MaxEpoch \in Nat
    BY ControlAssumption
  <2> QED
    BY <1>1, <2>1, DaemonIs DEF Way, HostT
<1>5. c.out \in Seq(Calls) /\ pre \in Seq(Calls)
  BY <1>1 DEF Daemons, Calls, ClientT, Way
<1>6. s \in Seq(Calls)
  BY <1>5, ConcatProperties
<1> HIDE DEF s
<1>7. \A i \in 1..Len(s) : s[i].epoch \in Nat
  BY <1>6, ElementOfSeq, CallIs
<1>8. KnownOK(s, d)
  <2> SUFFICES ASSUME NEW i \in 1..Len(s)
               PROVE  /\ s[i].epoch <= m.epoch
                      /\ s[i].key \in Ids => s[i].key \in 1..Len(c.gestures)
                                             /\ c.gestures[s[i].key].epoch <= s[i].epoch
    BY <1>2 DEF KnownOK
  <2>1. /\ s[i].epoch <= c.epoch
        /\ s[i].key \in Ids => s[i].key \in 1..Len(c.gestures)
                               /\ c.gestures[s[i].key].epoch <= s[i].epoch
    BY <1>1 DEF Flow, KnownOK
  <2>2. s[i].epoch <= m.epoch
    BY <1>4, <1>7, <2>1
  <2> QED
    BY <2>1, <2>2
<1>9. PastEpochs(d)
  <2> SUFFICES ASSUME NEW g \in 1..Len(c.gestures) PROVE c.gestures[g].epoch <= m.epoch
    BY <1>2 DEF PastEpochs
  <2>1. c.gestures[g].epoch <= c.epoch
    BY <1>1 DEF Flow, PastEpochs
  <2> QED
    BY <1>4, <2>1
<1>10. OpenOK(s, d, h)
  <2>1. h.open # None => c.epoch = h.epoch
    BY <1>1 DEF Flow, OpenOK
  <2>2. h.open # None => d.epoch = h.epoch
    BY <1>2, <1>4, <2>1
  <2> QED
    BY <1>1, <1>2, <2>2 DEF Flow, OpenOK, FateOf
<1>11. EndsOK(s, d) /\ UnsentOK(s, d) /\ LastLives(d) /\ RoomOK(d) /\ CutOK(d, h)
  BY <1>1, <1>2
  DEF Flow, EndsOK, UnsentOK, LastLives, RoomOK, CutOK, FateOf, Live, Slots
<1>12. WholeOK(s, d, h) /\ UnusedOK(d, h)
  BY <1>1, <1>2 DEF Flow, WholeOK, UnusedOK, FateOf, SlotN
<1>13. Flow(s, d, h)
  BY <1>1, <1>2, <1>8, <1>9, <1>10, <1>11, <1>12 DEF Flow
<1>14. Flows(pre, d, h)
  BY <1>2, <1>3, <1>13 DEF Flows, s
<1>15. Flows(pre, ContextChanged(d, rule), h)
  BY <1>14, ContextChangedFlows
<1>16. Flows(pre, EpochChanged(ContextChanged(d, rule)), h)
  BY <1>15, EpochChangedFlows
<1> QED
  BY <1>15, <1>16 DEF ApplyContext, d

(* A new gesture, when no other is live: nothing was turned, sent or applied *)
(* of it.                                                                    *)
LEMMA NewGestureFlows ==
  ASSUME NEW pre, NEW h, Way(pre, h), NEW c, Flows(pre, c, h), NEW b \in Bindings,
         Len(c.gestures) + 1 <= MaxGestures
  PROVE  Flows(pre, NewGesture(c, b), h)
<1> DEFINE e == EndAllGestures(c)
           new == [binding |-> b, epoch |-> c.epoch, pos |-> c.pos, batches |-> 0, turned |-> 0,
                   fate |-> "live"]
           gest == Append(e.gestures, new)
           q == [e EXCEPT !.gestures = gest]
           len == Len(c.gestures)
           s == pre \o e.out
<1>1. NewGesture(c, b) = q
  BY DEF NewGesture
<1>2. /\ Flows(pre, e, h) /\ Live(e) = {} /\ e.epoch = c.epoch /\ Len(e.gestures) = len
  <2>1. Live(c) \subseteq Live(c) /\ Live(c) \ Live(c) = {}
    OBVIOUS
  <2> QED
    BY <2>1, EndGesturesFlow DEF EndAllGestures
<1> HIDE DEF e
<1>3. e \in Daemons /\ SlotsOK(e) /\ Flow(s, e, h)
  BY <1>2 DEF Flows
<1>4. c.epoch \in Bounds.epochs /\ c.pos \in Bounds.spots
  BY DEF Flows, Daemons, ClientT
<1>5. new \in GestureT(Bounds)
  BY <1>4 DEF GestureT, Fates
<1>6. /\ len \in Nat /\ 1..len \subseteq Ids /\ len + 1 \in Ids /\ len + 1 \in Nat
  <2>1. len \in Nat /\ 1..len \subseteq Ids
    BY <1>2, <1>3, DaemonIs
  <2>2. MaxGestures \in Nat
    BY ControlAssumption
  <2> QED
    BY <2>1, <2>2 DEF Ids
<1>7. e.gestures \in Seq(GestureT(Bounds))
  BY <1>3 DEF Daemons, ClientT
<1>8. /\ gest \in Seq(GestureT(Bounds)) /\ Len(gest) = len + 1
      /\ \A i \in 1..len : gest[i] = e.gestures[i]
      /\ gest[len + 1] = new
  BY <1>2, <1>5, <1>7, AppendProperties
<1> HIDE DEF gest
<1>9. /\ q \in Daemons /\ q.epoch = e.epoch /\ q.slots = e.slots /\ q.gestures = gest
      /\ q.out = e.out
  BY <1>3, <1>8 DEF Daemons, ClientT
<1> HIDE DEF q
<1>10. /\ \A g \in 1..len : q.gestures[g] = e.gestures[g] /\ FateOf(q, g) = FateOf(e, g)
       /\ FateOf(q, len + 1) = "live" /\ q.gestures[len + 1].epoch = c.epoch
       /\ q.gestures[len + 1].turned = 0 /\ Len(q.gestures) = len + 1
  BY <1>8, <1>9 DEF FateOf
<1>11. Live(q) = {len + 1}
  <2>1. \A g \in 1..len : FateOf(e, g) # "live"
    BY <1>2 DEF Live, FateOf
  <2>2. \A g \in 1..len + 1 : g \in 1..len \/ g = len + 1
    BY <1>6
  <2>3. Live(q) = {g \in 1..len + 1 : FateOf(q, g) = "live"}
    BY <1>10 DEF Live, FateOf
  <2>4. len + 1 \in 1..len + 1
    BY <1>6
  <2> QED
    BY <1>10, <2>1, <2>2, <2>3, <2>4
<1>12. \A g \in Ids : q.slots[g] = NoSlot
  BY <1>2, <1>3, <1>9 DEF SlotsOK
<1>13. SlotsOK(q)
  BY <1>10, <1>12 DEF SlotsOK
<1>14. \A i \in 1..Len(s) :
         /\ s[i].epoch <= e.epoch
         /\ s[i].key \in Ids => s[i].key \in 1..len /\ e.gestures[s[i].key].epoch <= s[i].epoch
  BY <1>2, <1>3 DEF Flow, KnownOK
<1>15. 1..len \subseteq 1..len + 1 /\ len + 1 \notin 1..len
  BY <1>6
<1>16. s \in Seq(Calls) /\ Len(s) \in Nat
  <2>1. e.out \in Seq(Calls) /\ pre \in Seq(Calls)
    BY <1>3 DEF Daemons, Calls, ClientT, Way
  <2> QED
    BY <2>1, ConcatProperties
<1>17. e.epoch <= h.epoch /\ e.epoch \in Nat /\ h.epoch \in Nat /\ h.applied \in [Ids -> Int]
       /\ h.open \in Ids \cup {None}
  BY <1>3, DaemonIs DEF Flow, Way, HostT
<1> HIDE DEF s
<1>20. InOrder(s)
  BY <1>3 DEF Flow
<1>21. KnownOK(s, q)
  <2> SUFFICES ASSUME NEW i \in 1..Len(s)
               PROVE  /\ s[i].epoch <= q.epoch
                      /\ s[i].key \in Ids => s[i].key \in 1..len + 1
                                             /\ q.gestures[s[i].key].epoch <= s[i].epoch
    BY <1>10 DEF KnownOK
  <2>1. CASE s[i].key \in Ids
    BY <1>9, <1>10, <1>14, <1>15, <2>1
  <2>2. CASE s[i].key \notin Ids
    BY <1>9, <1>14, <2>2
  <2> QED
    BY <2>1, <2>2
<1>22. EndsOK(s, q)
  <2> SUFFICES ASSUME NEW i \in 1..Len(s), s[i].key \in Ids, FateOf(q, s[i].key) = "ended"
               PROVE  EndFollows(s, s[i].key, i)
    BY DEF EndsOK
  <2>1. FateOf(e, s[i].key) = "ended"
    BY <1>10, <1>14
  <2> QED
    BY <1>3, <2>1 DEF Flow, EndsOK
<1>23. UnsentOK(s, q)
  <2> SUFFICES ASSUME NEW i \in 1..Len(s) PROVE s[i].key # len + 1
    BY <1>11 DEF UnsentOK
  <2> QED
    BY <1>6, <1>14, <1>15
<1>24. LastLives(q)
  BY <1>10, <1>11 DEF LastLives
<1>25. PastEpochs(q) /\ q.epoch <= h.epoch
  <2> SUFFICES ASSUME NEW g \in 1..len + 1 PROVE q.gestures[g].epoch <= q.epoch
    BY <1>9, <1>10, <1>17 DEF PastEpochs
  <2>1. CASE g \in 1..len
    BY <1>2, <1>3, <1>9, <1>10, <2>1 DEF Flow, PastEpochs
  <2>2. CASE g = len + 1
    BY <1>2, <1>9, <1>10, <1>17, <2>2
  <2> QED
    BY <1>6, <2>1, <2>2
<1>26. RoomOK(q)
  BY <1>3, <1>9 DEF Flow, RoomOK, Slots
<1>27. OpenOK(s, q, h)
  <2> SUFFICES ASSUME h.open # None
               PROVE  /\ h.open \in 1..len + 1 /\ q.epoch = h.epoch
                      /\ \A i \in 1..Len(s) : /\ s[i].epoch = h.epoch
                                              /\ s[i].key \in Ids => h.open <= s[i].key
                      /\ FateOf(q, h.open) = "ended" => EndFollows(s, h.open, 1)
                      /\ FateOf(q, h.open) = "live" => q.slots[h.open] # NoSlot
    BY <1>10 DEF OpenOK
  <2>1. /\ h.open \in 1..len /\ e.epoch = h.epoch
        /\ \A i \in 1..Len(s) : /\ s[i].epoch = h.epoch
                                /\ s[i].key \in Ids => h.open <= s[i].key
        /\ FateOf(e, h.open) = "ended" => EndFollows(s, h.open, 1)
        /\ FateOf(e, h.open) = "live" => e.slots[h.open] # NoSlot
    BY <1>2, <1>3 DEF Flow, OpenOK
  <2> QED
    BY <1>9, <1>10, <1>15, <2>1
<1>28. CutOK(q, h)
  <2>1. \A x \in h.cut : x.by \in Ids =>
          x.gesture \in 1..len /\ FateOf(e, x.gesture) = "forgotten"
    BY <1>2, <1>3 DEF Flow, CutOK
  <2> QED
    BY <1>10, <1>15, <2>1 DEF CutOK
<1>29. \A g \in 1..len + 1 : SlotN(q, g) = SlotN(e, g) /\ SlotN(q, g) = 0
  <2>1. \A g \in 1..len + 1 : g \in Ids
    BY <1>6
  <2> QED
    BY <1>9, <1>12, <2>1 DEF SlotN
<1>30. h.applied[len + 1] = 0 /\ \A g \in Ids : len + 1 < g => h.applied[g] = 0
  <2>1. \A g \in Ids : len < g => h.applied[g] = 0
    BY <1>2, <1>3 DEF Flow, UnusedOK
  <2>2. \A g \in Ids : g \in Nat
    BY ControlAssumption DEF Ids
  <2> QED
    BY <1>6, <2>1, <2>2
<1>31. WholeOK(s, q, h)
  <2> SUFFICES ASSUME NEW g \in 1..len + 1, FateOf(q, g) # "forgotten",
                      q.gestures[g].epoch = h.epoch
               PROVE  Balance(s, g, h.applied[g], q.gestures[g].turned - SlotN(q, g))
    BY <1>10 DEF WholeOK
  <2>1. CASE g \in 1..len
    <3>1. FateOf(e, g) # "forgotten" /\ e.gestures[g].epoch = h.epoch
      BY <1>10, <2>1
    <3>2. Balance(s, g, h.applied[g], e.gestures[g].turned - SlotN(e, g))
      BY <1>2, <1>3, <2>1, <3>1 DEF Flow, WholeOK
    <3> QED
      BY <1>10, <1>29, <2>1, <3>2
  <2>2. CASE g = len + 1
    <3>1. \A i \in 1..Len(s) : s[i].key # g
      BY <1>6, <1>14, <1>15, <2>2
    <3>2. Balance(s, g, 0, 0)
      BY <1>16, <3>1, BalanceSame
    <3>3. q.gestures[g].turned - SlotN(q, g) = 0
      BY <1>10, <1>29, <2>2
    <3> QED
      BY <1>30, <2>2, <3>2, <3>3
  <2> QED
    BY <1>6, <2>1, <2>2
<1>32. UnusedOK(q, h)
  BY <1>10, <1>30 DEF UnusedOK
<1>33. Flow(s, q, h)
  BY <1>20, <1>21, <1>22, <1>23, <1>24, <1>25, <1>26, <1>27, <1>28, <1>31, <1>32 DEF Flow
<1>34. Flows(pre, q, h)
  BY <1>9, <1>13, <1>33 DEF Flows, s
<1> QED
  BY <1>1, <1>34

(* Detents added to a slot, and to the account of their gesture.             *)
LEMMA AddedFlow ==
  ASSUME NEW pre, NEW h, Way(pre, h), NEW c, Flows(pre, c, h), NEW k \in Keys, NEW n \in Int,
         Takes(c, k), k \in Ids => k \in Live(c),
         NEW d \in Daemons, d.epoch = c.epoch, d.out = c.out,
         Len(d.gestures) = Len(c.gestures),
         \A g \in 1..Len(c.gestures) :
           /\ d.gestures[g].epoch = c.gestures[g].epoch
           /\ d.gestures[g].fate = c.gestures[g].fate
           /\ d.gestures[g].turned = c.gestures[g].turned + (IF g = k THEN n ELSE 0),
         d.slots[k] # NoSlot, d.slots[k].n = (IF c.slots[k] = NoSlot THEN 0 ELSE c.slots[k].n) + n,
         \A x \in Keys \ {k} : d.slots[x] = c.slots[x]
  PROVE  Flows(pre, d, h)
<1> DEFINE s == pre \o c.out
           len == Len(c.gestures)
<1>1. c \in Daemons /\ SlotsOK(c) /\ Flow(s, c, h)
  BY DEF Flows
<1> HIDE DEF s
<1>2. 1..len \subseteq Ids /\ Ids \subseteq Keys
  BY <1>1, DaemonIs, IdsAreKeys
<1>3. (\A g \in 1..len : FateOf(d, g) = FateOf(c, g)) /\ Live(d) = Live(c)
  BY DEF FateOf, Live
<1>4. \A g \in Ids : c.slots[g] # NoSlot => d.slots[g] # NoSlot
  BY <1>2
<1>5. SlotsOK(d)
  <2>1. \A g \in Ids : d.slots[g] # NoSlot => g \in Live(c)
    BY <1>1, <1>2 DEF SlotsOK
  <2> QED
    BY <1>1, <1>3, <2>1 DEF SlotsOK
<1>6. InOrder(s) /\ LastLives(d) /\ c.epoch <= h.epoch
  BY <1>1, <1>3 DEF Flow, LastLives
<1>7. KnownOK(s, d)
  <2> SUFFICES ASSUME NEW i \in 1..Len(s)
               PROVE  /\ s[i].epoch <= c.epoch
                      /\ s[i].key \in Ids => s[i].key \in 1..len
                                             /\ d.gestures[s[i].key].epoch <= s[i].epoch
    BY DEF KnownOK
  <2>1. /\ s[i].epoch <= c.epoch
        /\ s[i].key \in Ids => s[i].key \in 1..len /\ c.gestures[s[i].key].epoch <= s[i].epoch
    BY <1>1 DEF Flow, KnownOK
  <2> QED
    BY <2>1
<1>8. EndsOK(s, d)
  <2> SUFFICES ASSUME NEW i \in 1..Len(s), s[i].key \in Ids, FateOf(d, s[i].key) = "ended"
               PROVE  EndFollows(s, s[i].key, i)
    BY DEF EndsOK
  <2>1. FateOf(c, s[i].key) = "ended"
    BY <1>3, <1>7 DEF KnownOK
  <2> QED
    BY <1>1, <2>1 DEF Flow, EndsOK
<1>9. UnsentOK(s, d)
  <2> SUFFICES ASSUME NEW g \in Live(c), d.slots[g] = NoSlot, NEW i \in 1..Len(s)
               PROVE  s[i].key # g
    BY <1>3 DEF UnsentOK
  <2>1. g \in Ids
    BY <1>2 DEF Live
  <2>2. c.slots[g] = NoSlot
    BY <1>4, <2>1
  <2> QED
    BY <1>1, <2>2 DEF Flow, UnsentOK
<1>10. PastEpochs(d)
  BY <1>1 DEF Flow, PastEpochs
<1>11. RoomOK(d)
  <2>1. IsFiniteSet(Slots(c)) /\ Cardinality(Slots(c)) \in Nat /\ MaxKeys \in Nat
    <3>1. IsFiniteSet(Slots(c))
      BY KeysAreFinite, FS_Subset DEF Slots
    <3> QED
      BY <3>1, FS_CardinalityType, ControlAssumption
  <2>2. CASE c.slots[k] # NoSlot
    <3>1. Slots(d) = Slots(c)
      BY <2>2 DEF Slots
    <3> QED
      BY <1>1, <3>1 DEF Flow, RoomOK
  <2>3. CASE c.slots[k] = NoSlot
    <3>1. Slots(d) = Slots(c) \cup {k} /\ k \notin Slots(c)
      BY <2>3 DEF Slots
    <3>2. Cardinality(Slots(d)) = Cardinality(Slots(c)) + 1
      BY <2>1, <3>1, FS_AddElement
    <3>3. Cardinality(Slots(c)) < MaxKeys
      BY <2>3 DEF Takes
    <3> QED
      BY <2>1, <3>2, <3>3 DEF RoomOK
  <2> QED
    BY <2>2, <2>3
<1>12. OpenOK(s, d, h)
  <2> SUFFICES ASSUME h.open # None
               PROVE  /\ h.open \in 1..len /\ d.epoch = h.epoch
                      /\ \A i \in 1..Len(s) : /\ s[i].epoch = h.epoch
                                              /\ s[i].key \in Ids => h.open <= s[i].key
                      /\ FateOf(d, h.open) = "ended" => EndFollows(s, h.open, 1)
                      /\ FateOf(d, h.open) = "live" => d.slots[h.open] # NoSlot
    BY DEF OpenOK
  <2>1. /\ h.open \in 1..len /\ c.epoch = h.epoch
        /\ \A i \in 1..Len(s) : /\ s[i].epoch = h.epoch
                                /\ s[i].key \in Ids => h.open <= s[i].key
        /\ FateOf(c, h.open) = "ended" => EndFollows(s, h.open, 1)
        /\ FateOf(c, h.open) = "live" => c.slots[h.open] # NoSlot
    BY <1>1 DEF Flow, OpenOK
  <2> QED
    BY <1>2, <1>3, <1>4, <2>1
<1>13. CutOK(d, h)
  BY <1>1, <1>3 DEF Flow, CutOK
<1>14. WholeOK(s, d, h)
  <2> SUFFICES ASSUME NEW g \in 1..len, FateOf(d, g) # "forgotten", d.gestures[g].epoch = h.epoch
               PROVE  Balance(s, g, h.applied[g], d.gestures[g].turned - SlotN(d, g))
    BY DEF WholeOK
  <2>1. Balance(s, g, h.applied[g], c.gestures[g].turned - SlotN(c, g))
    BY <1>1, <1>3 DEF Flow, WholeOK
  <2>2. c.gestures[g].turned \in Int /\ g \in Ids /\ SlotN(c, g) \in Int
    BY <1>1, <1>2, DaemonIs, SlotNIs
  <2>3. CASE g = k
    <3>1. SlotN(d, g) = SlotN(c, g) + n
      BY <2>3 DEF SlotN
    <3>2. d.gestures[g].turned = c.gestures[g].turned + n
      BY <2>3
    <3>3. d.gestures[g].turned - SlotN(d, g) = c.gestures[g].turned - SlotN(c, g)
      BY <2>2, <3>1, <3>2
    <3> QED
      BY <2>1, <3>3
  <2>4. CASE g # k
    <3>1. SlotN(d, g) = SlotN(c, g)
      BY <1>2, <2>4 DEF SlotN
    <3>2. d.gestures[g].turned = c.gestures[g].turned
      BY <2>2, <2>4
    <3> QED
      BY <2>1, <3>1, <3>2
  <2> QED
    BY <2>3, <2>4
<1>15. UnusedOK(d, h)
  BY <1>1 DEF Flow, UnusedOK
<1>16. Flow(s, d, h)
  BY <1>6, <1>7, <1>8, <1>9, <1>10, <1>11, <1>12, <1>13, <1>14, <1>15 DEF Flow
<1> QED
  BY <1>5, <1>16 DEF Flows, s

(* Calls put together in any grouping.                                       *)
LEMMA Grouped ==
  \A x, y, z \in Seq(Calls) : (x \o y) \o z = x \o (y \o z)
<1> TAKE x, y, z \in Seq(Calls)
<1> QED
  BY ConcatAssociative

(* A turn on the account of its gesture.                                     *)
Turned(c, g, n) == [c EXCEPT !.gestures[g].turned = @ + n]

(* The history of what a gesture was turned, and nothing else, changes.      *)
LEMMA TurnedIs ==
  ASSUME NEW c \in Daemons, NEW k \in 1..Len(c.gestures), NEW n \in Int
  PROVE  LET q == Turned(c, k, n)
         IN /\ q \in Daemons /\ q.epoch = c.epoch /\ q.slots = c.slots /\ q.out = c.out
            /\ Len(q.gestures) = Len(c.gestures)
            /\ \A g \in 1..Len(c.gestures) :
                 /\ q.gestures[g].epoch = c.gestures[g].epoch
                 /\ q.gestures[g].fate = c.gestures[g].fate
                 /\ q.gestures[g].turned = c.gestures[g].turned + (IF g = k THEN n ELSE 0)
<1> DEFINE one == [c.gestures[k] EXCEPT !.turned = c.gestures[k].turned + n]
           gest == [c.gestures EXCEPT ![k] = one]
           q == [c EXCEPT !.gestures = gest]
<1>1. Turned(c, k, n) = q
  BY DEF Turned
<1>2. c \in ClientT(Bounds) /\ c.gestures \in Seq(GestureT(Bounds))
  BY DEF Daemons, ClientT
<1>3. c.gestures[k] \in GestureT(Bounds)
  BY <1>2, ElementOfSeq
<1>4. /\ one \in GestureT(Bounds) /\ one.epoch = c.gestures[k].epoch
      /\ one.fate = c.gestures[k].fate /\ one.turned = c.gestures[k].turned + n
  BY <1>3 DEF GestureT
<1> HIDE DEF one
<1>5. /\ gest \in Seq(GestureT(Bounds)) /\ Len(gest) = Len(c.gestures)
      /\ \A g \in 1..Len(c.gestures) : gest[g] = IF g = k THEN one ELSE c.gestures[g]
  BY <1>2, <1>4, ExceptSeq
<1> HIDE DEF gest
<1>6. /\ q \in Daemons /\ q.epoch = c.epoch /\ q.slots = c.slots /\ q.out = c.out
      /\ q.gestures = gest
  BY <1>2, <1>5 DEF Daemons, ClientT
<1> HIDE DEF q
<1>7. \A g \in 1..Len(c.gestures) : c.gestures[g].turned \in Int
  <2> TAKE g \in 1..Len(c.gestures)
  <2>1. c.gestures[g] \in GestureT(Bounds)
    BY <1>2, ElementOfSeq
  <2> QED
    BY <2>1 DEF GestureT
<1>8. \A g \in 1..Len(c.gestures) :
        /\ q.gestures[g].epoch = c.gestures[g].epoch
        /\ q.gestures[g].fate = c.gestures[g].fate
        /\ q.gestures[g].turned = c.gestures[g].turned + (IF g = k THEN n ELSE 0)
  <2> TAKE g \in 1..Len(c.gestures)
  <2>1. CASE g = k
    BY <1>4, <1>5, <1>6, <2>1
  <2>2. CASE g # k
    <3>1. q.gestures[g] = c.gestures[g]
      BY <1>5, <1>6, <2>2
    <3> QED
      BY <1>7, <2>2, <3>1
  <2> QED
    BY <2>1, <2>2
<1> QED
  BY <1>1, <1>5, <1>6, <1>8

(* The coalescer takes a turn, of a gesture with its account.                *)
LEMMA AddFlows ==
  ASSUME NEW pre, NEW h, Way(pre, h), NEW c, Flows(pre, c, h), NEW k \in Keys, NEW n \in Int,
         k \in Ids => k \in Live(c)
  PROVE  Flows(pre, Add(IF k \in Ids /\ Takes(c, k) THEN Turned(c, k, n) ELSE c, k, n), h)
<1> DEFINE e == IF k \in Ids /\ Takes(c, k) THEN Turned(c, k, n) ELSE c
           s == IF c.slots[k] = NoSlot THEN EmptySlot ELSE c.slots[k]
           t == [s EXCEPT !.n = s.n + n, !.merged = TRUE]
           slots == [c.slots EXCEPT ![k] = t]
           d == [e EXCEPT !.slots = slots]
<1>1. c \in Daemons /\ SlotsOK(c) /\ c.slots \in [Keys -> Slot \cup {NoSlot}]
  BY DaemonSlots DEF Flows
<1>2. k \in Ids => k \in 1..Len(c.gestures)
  BY DEF Live
<1>3. \A g \in 1..Len(c.gestures) : c.gestures[g].turned \in Int
  BY <1>1, DaemonIs
<1>4. /\ e \in Daemons /\ e.epoch = c.epoch /\ e.slots = c.slots /\ e.out = c.out
      /\ Len(e.gestures) = Len(c.gestures)
      /\ Takes(c, k) => \A g \in 1..Len(c.gestures) :
           /\ e.gestures[g].epoch = c.gestures[g].epoch
           /\ e.gestures[g].fate = c.gestures[g].fate
           /\ e.gestures[g].turned = c.gestures[g].turned + (IF g = k THEN n ELSE 0)
  <2>1. CASE k \in Ids /\ Takes(c, k)
    BY <1>1, <1>2, <2>1, TurnedIs
  <2>2. CASE ~(k \in Ids /\ Takes(c, k))
    <3>1. e = c
      BY <2>2
    <3> HIDE DEF e
    <3>2. ASSUME Takes(c, k), NEW g \in 1..Len(c.gestures)
          PROVE  c.gestures[g].turned = c.gestures[g].turned + (IF g = k THEN n ELSE 0)
      <4>1. g # k
        <5>1. g \in Ids
          BY <1>1, DaemonIs
        <5> QED
          BY <2>2, <3>2, <5>1
      <4> QED
        BY <1>3, <4>1
    <3> QED
      BY <1>1, <3>1, <3>2
  <2> QED
    BY <2>1, <2>2
<1> HIDE DEF e
<1>5. CASE ~Takes(c, k)
  <2>1. e = c
    BY <1>5 DEF e
  <2>2. Add(e, k, n) = c
    BY <1>5, <2>1 DEF Add
  <2> QED
    BY <2>1, <2>2 DEF e
<1>6. CASE Takes(c, k)
  <2>1. Takes(e, k)
    BY <1>4, <1>6 DEF Takes, Slots
  <2>2. Add(e, k, n) = TryFlush(d, {k})
    BY <1>4, <2>1 DEF Add
  <2>3. s \in Slot /\ s.n = IF c.slots[k] = NoSlot THEN 0 ELSE c.slots[k].n
    <3>1. EmptySlot \in Slot /\ EmptySlot.n = 0
      BY DEF EmptySlot, Slot
    <3> QED
      BY <1>1, <3>1
  <2> HIDE DEF s
  <2>4. t \in Slot /\ t.n = s.n + n
    <3> DEFINE more == s.n + n
    <3>1. more \in Int
      BY <2>3 DEF Slot
    <3>2. t = [s EXCEPT !.n = more, !.merged = TRUE]
      OBVIOUS
    <3> HIDE DEF more
    <3>3. [s EXCEPT !.n = more, !.merged = TRUE] \in Slot
          /\ [s EXCEPT !.n = more, !.merged = TRUE].n = more
      BY <2>3, <3>1 DEF Slot
    <3> QED
      BY <3>2, <3>3 DEF more
  <2>5. t # NoSlot
    BY <2>4, ControlAssumption DEF Slot
  <2> HIDE DEF t
  <2>6. /\ slots \in [Keys -> Slot \cup {NoSlot}]
        /\ slots[k] = t /\ \A x \in Keys \ {k} : slots[x] = c.slots[x]
    BY <1>1, <2>4
  <2> HIDE DEF slots
  <2>7. /\ d \in Daemons /\ d.epoch = e.epoch /\ d.slots = slots /\ d.gestures = e.gestures
        /\ d.out = e.out
    BY <1>4, <2>6, WithSlots
  <2> HIDE DEF d
  <2>8. /\ d.slots[k] # NoSlot
        /\ d.slots[k].n = (IF c.slots[k] = NoSlot THEN 0 ELSE c.slots[k].n) + n
        /\ \A x \in Keys \ {k} : d.slots[x] = c.slots[x]
    BY <2>3, <2>4, <2>5, <2>6, <2>7
  <2>9. /\ d.epoch = c.epoch /\ d.out = c.out /\ Len(d.gestures) = Len(c.gestures)
        /\ \A g \in 1..Len(c.gestures) :
             /\ d.gestures[g].epoch = c.gestures[g].epoch
             /\ d.gestures[g].fate = c.gestures[g].fate
             /\ d.gestures[g].turned = c.gestures[g].turned + (IF g = k THEN n ELSE 0)
    BY <1>4, <1>6, <2>7
  <2>10. Flows(pre, d, h)
    <3>1. d \in Daemons
      BY <2>7
    <3> QED
      BY <1>6, <2>8, <2>9, <3>1, AddedFlow
  <2>11. Flows(pre, TryFlush(d, {k}), h)
    BY <2>10, TryFlushFlows
  <2> QED
    BY <2>2, <2>11 DEF e
<1> QED
  BY <1>5, <1>6

-----------------------------------------------------------------------------
(* Between handlers: what Kdenlive has pending, and then what is on its way. *)
OnWay == host.pending \o toHost
HostNow ==
  /\ HostT(host) /\ host.pending \in Seq(Calls) /\ toHost \in Seq(Calls)
FlowOK == HostNow /\ client.out = <<>> /\ Flows(OnWay, client, host)

(* What is pending and on its way are calls.                                 *)
LEMMA WayNow == ASSUME HostNow PROVE Way(OnWay, host)
  BY ConcatProperties DEF HostNow, Way, OnWay

(* The end of a handler: its calls are the last on their way.                *)
LEMMA DaemonFlows ==
  ASSUME HostNow, NEW c, Flows(OnWay, c, host), Daemon(c), UNCHANGED host
  PROVE  FlowOK'
<1> DEFINE d == [c EXCEPT !.out = <<>>]
<1>1. c \in Daemons /\ SlotsOK(c) /\ Flow(OnWay \o c.out, c, host)
  BY DEF Flows
<1>2. c.out \in Seq(Calls) /\ toHost \in Seq(Calls) /\ host.pending \in Seq(Calls)
  BY <1>1 DEF Daemons, Calls, ClientT, HostNow
<1>3. toHost' = toHost \o c.out /\ host' = host /\ client' = d
  BY DEF Daemon
<1>4. /\ d \in Daemons /\ d.epoch = c.epoch /\ d.slots = c.slots /\ d.gestures = c.gestures
      /\ d.out = <<>>
  <2>1. c \in ClientT(Bounds) /\ <<>> \in Seq(CallT(Bounds))
    BY <1>1 DEF Daemons
  <2>2. d \in ClientT(Bounds) /\ d.epoch = c.epoch /\ d.slots = c.slots /\ d.gestures = c.gestures
        /\ d.out = <<>>
    BY <2>1 DEF ClientT
  <2> QED
    BY <2>2 DEF Daemons
<1> HIDE DEF d
<1>5. toHost' \in Seq(Calls)
  BY <1>2, <1>3, ConcatProperties
<1>6. OnWay' = OnWay \o c.out /\ OnWay' \in Seq(Calls)
  <2>1. (host.pending \o toHost) \o c.out = host.pending \o (toHost \o c.out)
    BY <1>2, Grouped, Zenon
  <2>2. host.pending \o (toHost \o c.out) \in Seq(Calls)
    BY <1>2, ConcatProperties
  <2> QED
    BY <1>3, <2>1, <2>2 DEF OnWay
<1>7. OnWay' \o d.out = OnWay \o c.out
  BY <1>4, <1>6, ConcatEmptySeq
<1>8. SlotsOK(d)
  BY <1>1, <1>4 DEF SlotsOK, Live
<1>9. Flow(OnWay \o c.out, d, host)
  <2> DEFINE s == OnWay \o c.out
  <2> HIDE DEF s
  <2>1. Flow(s, c, host)
    BY <1>1 DEF s
  <2>2. InOrder(s) /\ KnownOK(s, d) /\ EndsOK(s, d) /\ UnsentOK(s, d)
    BY <1>4, <2>1 DEF Flow, KnownOK, EndsOK, UnsentOK, FateOf, Live
  <2>3. LastLives(d) /\ PastEpochs(d) /\ RoomOK(d) /\ d.epoch <= host.epoch
    BY <1>4, <2>1 DEF Flow, LastLives, PastEpochs, RoomOK, Live, Slots
  <2>4. OpenOK(s, d, host) /\ CutOK(d, host)
    BY <1>4, <2>1 DEF Flow, OpenOK, CutOK, FateOf
  <2>5. WholeOK(s, d, host) /\ UnusedOK(d, host)
    BY <1>4, <2>1 DEF Flow, WholeOK, UnusedOK, FateOf, SlotN
  <2> QED
    BY <2>2, <2>3, <2>4, <2>5 DEF Flow, s
<1>10. Flows(OnWay', d, host)
  BY <1>4, <1>7, <1>8, <1>9 DEF Flows
<1> QED
  BY <1>3, <1>4, <1>5, <1>10 DEF FlowOK, HostNow

(* The user turns an editing knob.                                           *)
LEMMA TurnFlows ==
  ASSUME FlowOK, NEW b \in Bindings, NEW n \in Deltas, Turn(b, n)
  PROVE  FlowOK'
<1> DEFINE worn == {g \in Current(client, b) : Worn(client, g)}
           kept == EndGestures(client, worn)
           c == IF Current(kept, b) = {} THEN NewGesture(kept, b) ELSE kept
<1>1. HostNow /\ Way(OnWay, host) /\ Flows(OnWay, client, host) /\ n \in Int
      /\ host' = host
  BY WayNow, ControlAssumption DEF FlowOK, Turn
<1>2. Len(c.gestures) <= MaxGestures
  BY DEF Turn
<1>3. PICK g \in Current(c, b) :
        Daemon(Add(IF Takes(c, g) THEN [c EXCEPT !.gestures[g].turned = @ + n] ELSE c, g, n))
  BY DEF Turn
<1>4. worn \subseteq Live(client)
  BY DEF Current
<1> HIDE DEF worn
<1>5. Flows(OnWay, kept, host)
  BY <1>1, <1>4, EndGesturesFlow
<1> HIDE DEF kept
<1>6. Flows(OnWay, c, host)
  <2>1. CASE Current(kept, b) = {}
    <3> DEFINE d == EndAllGestures(kept)
               one == [binding |-> b, epoch |-> kept.epoch, pos |-> kept.pos, batches |-> 0,
                       turned |-> 0, fate |-> "live"]
    <3>1. c = NewGesture(kept, b)
      BY <2>1
    <3>2. Len(d.gestures) = Len(kept.gestures) /\ d \in Daemons
      <4>1. Flows(OnWay, d, host) /\ Len(d.gestures) = Len(kept.gestures)
        BY <1>1, <1>5, EndGesturesFlow DEF EndAllGestures
      <4> QED
        BY <4>1 DEF Flows
    <3>3. c.gestures = Append(d.gestures, one)
      BY <3>1, <3>2 DEF NewGesture, Daemons, ClientT
    <3> HIDE DEF one
    <3>4. Len(c.gestures) = Len(d.gestures) + 1
      <4>1. d.gestures \in Seq(GestureT(Bounds))
        BY <3>2 DEF Daemons, ClientT
      <4> HIDE DEF d
      <4> QED
        BY <3>3, <4>1
    <3>5. Len(kept.gestures) + 1 <= MaxGestures
      BY <1>2, <3>2, <3>4
    <3> QED
      BY <1>1, <1>5, <3>1, <3>5, NewGestureFlows
  <2>2. CASE Current(kept, b) # {}
    BY <1>5, <2>2
  <2> QED
    BY <2>1, <2>2
<1> HIDE DEF c
<1>7. g \in Live(c) /\ g \in Ids /\ g \in Keys
  <2>1. c \in Daemons /\ SlotsOK(c)
    BY <1>6 DEF Flows
  <2>2. g \in Live(c) /\ g \in 1..Len(c.gestures)
    BY <1>3 DEF Current, Live
  <2> QED
    BY <2>1, <2>2, DaemonIs, IdsAreKeys
<1> DEFINE d == Add(IF g \in Ids /\ Takes(c, g) THEN Turned(c, g, n) ELSE c, g, n)
<1>8. Daemon(d)
  BY <1>3, <1>7 DEF Turned
<1>9. Flows(OnWay, d, host)
  BY <1>1, <1>6, <1>7, AddFlows
<1> HIDE DEF d
<1> QED
  BY <1>1, <1>8, <1>9, DaemonFlows

(* The user turns a navigation or jog knob.                                  *)
LEMMA TurnControlFlows ==
  ASSUME FlowOK, NEW k \in Controls, NEW n \in Deltas, TurnControl(k, n)
  PROVE  FlowOK'
<1> DEFINE c == EndAllGestures(client)
<1>1. HostNow /\ Way(OnWay, host) /\ Flows(OnWay, client, host) /\ n \in Int
      /\ host' = host
  BY WayNow, ControlAssumption DEF FlowOK, TurnControl
<1>2. Daemon(Add(c, k, n)) /\ k \in Keys /\ k \notin Ids
  BY IdsAreKeys DEF TurnControl, Keys
<1>3. Flows(OnWay, c, host)
  BY <1>1, EndGesturesFlow DEF EndAllGestures
<1> HIDE DEF c
<1> DEFINE d == Add(IF k \in Ids /\ Takes(c, k) THEN Turned(c, k, n) ELSE c, k, n)
<1>4. Daemon(d)
  BY <1>2
<1>5. Flows(OnWay, d, host)
  BY <1>1, <1>2, <1>3, AddFlows
<1> HIDE DEF d
<1> QED
  BY <1>1, <1>4, <1>5, DaemonFlows

(* Timers of the daemon.                                                     *)
LEMMA EndIdleFlows ==
  ASSUME FlowOK, NEW g \in Ids, EndIdle(g)
  PROVE  FlowOK'
<1>1. HostNow /\ Way(OnWay, host) /\ Flows(OnWay, client, host) /\ host' = host
  BY WayNow DEF FlowOK, EndIdle
<1>2. Daemon(EndGestures(client, {g})) /\ {g} \subseteq Live(client)
  BY DEF EndIdle
<1>3. Flows(OnWay, EndGestures(client, {g}), host)
  BY <1>1, <1>2, EndGesturesFlow
<1> QED
  BY <1>1, <1>2, <1>3, DaemonFlows

(* Time passes for a slot.                                                   *)
LEMMA ElapseFlows ==
  ASSUME FlowOK, NEW k \in Keys, Elapse(k)
  PROVE  FlowOK'
<1> DEFINE one == [client.slots[k] EXCEPT !.clock = client.slots[k].clock + 1]
           slots == [client.slots EXCEPT ![k] = one]
           still(s) == s.young /\ (s.key # k \/ client.slots[k].clock = 0)
           sent == {[s EXCEPT !.young = still(s)] : s \in client.sent}
           d == [client EXCEPT !.sent = sent]
           r == [d EXCEPT !.slots = slots]
<1>1. HostNow /\ Way(OnWay, host) /\ Flows(OnWay, client, host) /\ client.out = <<>>
      /\ client \in Daemons
  BY WayNow DEF FlowOK, Flows
<1>2. client' = r /\ host' = host /\ toHost' = toHost /\ client.slots[k] # NoSlot
      /\ client.slots[k].clock < 2
  BY <1>1 DEF Elapse, Slots, Daemons, ClientT
<1>3. client.slots \in [Keys -> Slot \cup {NoSlot}] /\ client.slots[k] \in Slot
  BY <1>1, <1>2, DaemonSlots
<1>4. sent \in SUBSET Sent
  <2> SUFFICES ASSUME NEW s \in client.sent PROVE [s EXCEPT !.young = still(s)] \in Sent
    OBVIOUS
  <2> DEFINE y == still(s)
  <2>1. s \in Sent
    BY <1>1 DEF Daemons, ClientT
  <2>2. y \in BOOLEAN
    BY <2>1 DEF Sent
  <2> HIDE DEF y
  <2>3. [s EXCEPT !.young = y] \in Sent
    BY <2>1, <2>2 DEF Sent
  <2> QED
    BY <2>3 DEF y
<1> HIDE DEF sent
<1>5. one \in Slot /\ one # NoSlot /\ one.n = client.slots[k].n
  <2> DEFINE t == client.slots[k].clock + 1
  <2>1. t \in 0..2
    BY <1>2, <1>3 DEF Slot
  <2>2. one = [client.slots[k] EXCEPT !.clock = t]
    OBVIOUS
  <2> HIDE DEF t
  <2>3. [client.slots[k] EXCEPT !.clock = t] \in Slot
        /\ [client.slots[k] EXCEPT !.clock = t].n = client.slots[k].n
    BY <1>3, <2>1 DEF Slot
  <2>4. [client.slots[k] EXCEPT !.clock = t] # NoSlot
    BY <2>3, ControlAssumption DEF Slot
  <2> QED
    BY <2>2, <2>3, <2>4
<1> HIDE DEF one
<1>6. /\ slots \in [Keys -> Slot \cup {NoSlot}]
      /\ slots[k] = one /\ \A x \in Keys \ {k} : slots[x] = client.slots[x]
  BY <1>3, <1>5
<1> HIDE DEF slots
<1>7. /\ d \in Daemons /\ d.epoch = client.epoch /\ d.slots = client.slots
      /\ d.out = client.out /\ d.gestures = client.gestures
  BY <1>1, <1>4 DEF Daemons, ClientT
<1> HIDE DEF d
<1>8. /\ r \in Daemons /\ r.epoch = d.epoch /\ r.slots = slots /\ r.gestures = d.gestures
      /\ r.out = d.out
  BY <1>6, <1>7, WithSlots
<1> HIDE DEF r
<1>9. Alike(client, r)
  <2>1. \A x \in Keys : /\ r.slots[x] = NoSlot <=> client.slots[x] = NoSlot
                        /\ client.slots[x] # NoSlot => r.slots[x].n = client.slots[x].n
    BY <1>2, <1>5, <1>6, <1>8
  <2>2. SameGestures(client, r) /\ \A g \in 1..Len(client.gestures) : FateOf(r, g) = FateOf(client, g)
    BY <1>7, <1>8 DEF SameGestures, FateOf
  <2> QED
    BY <2>1, <2>2 DEF Alike
<1>10. Flows(OnWay, r, host)
  BY <1>1, <1>7, <1>8, <1>9, AlikeFlows
<1>11. OnWay' = OnWay
  BY <1>2 DEF OnWay
<1> QED
  BY <1>1, <1>2, <1>7, <1>8, <1>10, <1>11 DEF FlowOK, HostNow

(* The flush timer of a slot.                                                *)
LEMMA FlushTimerFlows ==
  ASSUME FlowOK, NEW k \in Keys, FlushTimer(k)
  PROVE  FlowOK'
<1>1. HostNow /\ Way(OnWay, host) /\ Flows(OnWay, client, host) /\ host' = host
  BY WayNow DEF FlowOK, FlushTimer
<1>2. Daemon(TryFlush(client, {k}))
  BY DEF FlushTimer
<1>3. Flows(OnWay, TryFlush(client, {k}), host)
  BY <1>1, TryFlushFlows
<1> QED
  BY <1>1, <1>2, <1>3, DaemonFlows

(* The fallback of a navigation.                                             *)
LEMMA NavFallbackFlows ==
  ASSUME FlowOK, NavFallback
  PROVE  FlowOK'
<1>1. HostNow /\ Way(OnWay, host) /\ Flows(OnWay, client, host) /\ host' = host
  BY WayNow DEF FlowOK, NavFallback
<1>2. Daemon(ReleaseNavigation(client))
  BY DEF NavFallback
<1>3. Flows(OnWay, ReleaseNavigation(client), host)
  BY <1>1, ReleaseNavigationFlows
<1> QED
  BY <1>1, <1>2, <1>3, DaemonFlows

(* An ack, of a message the daemon knows or of none.                         *)
LEMMA ReadAckFlows ==
  ASSUME FlowOK, ReadAck
  PROVE  FlowOK'
<1>1. HostNow /\ Way(OnWay, host) /\ Flows(OnWay, client, host) /\ host' = host
  BY WayNow DEF FlowOK, ReadAck
<1>2. ASSUME NEW s \in client.sent, Daemon(OnControlAck(client, Head(toClient), s))
      PROVE  FlowOK'
  <2> DEFINE r == OnControlAck(client, Head(toClient), s)
  <2>1. Daemon(r)
    BY <1>2
  <2>2. Flows(OnWay, r, host)
    BY <1>1, OnControlAckFlows
  <2> HIDE DEF r
  <2> QED
    BY <1>1, <2>1, <2>2, DaemonFlows
<1>3. CASE UNCHANGED <<client, toHost>>
  <2>1. OnWay' = OnWay
    BY <1>1, <1>3 DEF OnWay
  <2> QED
    BY <1>1, <1>3, <2>1 DEF FlowOK, HostNow
<1> QED
  BY <1>2, <1>3 DEF ReadAck

(* A context that is not older than what the daemon knows, nor newer than    *)
(* Kdenlive.                                                                 *)
LEMMA ReadContextFlows ==
  ASSUME FlowOK, NEW rule, ReadContext(rule),
         Head(toClient).epoch \in 1..MaxEpoch, Head(toClient).pos \in 0..MaxPos,
         client.epoch <= Head(toClient).epoch, Head(toClient).epoch <= host.epoch
  PROVE  FlowOK'
<1> DEFINE r == ApplyContext(client, Head(toClient), rule)
<1>1. HostNow /\ Way(OnWay, host) /\ Flows(OnWay, client, host) /\ host' = host
  BY WayNow DEF FlowOK, ReadContext
<1>2. Daemon(r)
  BY DEF ReadContext
<1>3. Flows(OnWay, r, host)
  BY <1>1, ApplyContextFlows
<1> HIDE DEF r
<1> QED
  BY <1>1, <1>2, <1>3, DaemonFlows

(* Kdenlive forgets its open gesture, or nothing.                            *)
LEMMA IdleFlow ==
  ASSUME NEW s, NEW c, NEW h, Flow(s, c, h), NEW r,
         r.epoch = h.epoch, r.open \in {None, h.open}, r.applied = h.applied, r.cut = h.cut
  PROVE  Flow(s, c, r)
<1>1. OpenOK(s, c, r)
  BY DEF Flow, OpenOK
<1>2. CutOK(c, r) /\ WholeOK(s, c, r) /\ UnusedOK(c, r)
  BY DEF Flow, CutOK, WholeOK, UnusedOK
<1> QED
  BY <1>1, <1>2 DEF Flow

(* A new epoch: what the daemon has is of earlier ones.                      *)
LEMMA BumpFlow ==
  ASSUME NEW s, NEW c \in Daemons, SlotsOK(c), NEW h, h.epoch \in Nat, Flow(s, c, h), NEW r,
         r.epoch = h.epoch + 1, r.open = None, r.applied = h.applied, r.cut = h.cut
  PROVE  Flow(s, c, r) /\ c.epoch < r.epoch
<1>1. c.epoch \in Nat /\ \A g \in 1..Len(c.gestures) : c.gestures[g].epoch \in Nat
  BY DaemonIs
<1>2. c.epoch <= h.epoch /\ \A g \in 1..Len(c.gestures) : c.gestures[g].epoch <= c.epoch
  BY DEF Flow, PastEpochs
<1>3. c.epoch < r.epoch /\ c.epoch <= r.epoch
  BY <1>1, <1>2
<1>4. OpenOK(s, c, r) /\ CutOK(c, r) /\ UnusedOK(c, r)
  BY DEF Flow, OpenOK, CutOK, UnusedOK
<1>5. \A g \in 1..Len(c.gestures) : c.gestures[g].epoch # r.epoch
  BY <1>1, <1>2
<1>6. WholeOK(s, c, r)
  BY <1>5 DEF WholeOK
<1> QED
  BY <1>3, <1>4, <1>6 DEF Flow

(* The first calls are gone.                                                 *)
SuffixOK(t, c) == InOrder(t) /\ KnownOK(t, c) /\ EndsOK(t, c) /\ UnsentOK(t, c)

(* What holds of all calls on their way holds of the last of them.           *)
LEMMA SuffixFlow ==
  ASSUME NEW s, NEW a, NEW t, Joined(s, a, t), NEW c, NEW h, Flow(s, c, h)
  PROVE  SuffixOK(t, c)
<1>1. /\ Len(a) \in Nat /\ Len(t) \in Nat /\ Len(s) = Len(a) + Len(t)
      /\ \A i \in 1..Len(t) : t[i] = s[Len(a) + i]
  BY DEF Joined
<1>2. \A i \in 1..Len(t) : Len(a) + i \in 1..Len(s)
  BY <1>1
<1>3. InOrder(t)
  <2> SUFFICES ASSUME NEW i \in 1..Len(t), NEW j \in 1..Len(t), i < j
               PROVE  /\ t[i].epoch <= t[j].epoch
                      /\ t[i].key \in Ids /\ t[j].key \in Ids => t[i].key <= t[j].key
    BY DEF InOrder
  <2>1. Len(a) + i < Len(a) + j
    BY <1>1
  <2>2. t[i] = s[Len(a) + i] /\ t[j] = s[Len(a) + j]
    BY <1>1
  <2>3. Len(a) + i \in 1..Len(s) /\ Len(a) + j \in 1..Len(s)
    BY <1>2
  <2>4. \A x, y \in 1..Len(s) : x < y =>
          /\ s[x].epoch <= s[y].epoch
          /\ s[x].key \in Ids /\ s[y].key \in Ids => s[x].key <= s[y].key
    BY DEF Flow, InOrder
  <2> QED
    BY <2>1, <2>2, <2>3, <2>4
<1>4. KnownOK(t, c)
  BY <1>1, <1>2 DEF Flow, KnownOK
<1>5. EndsOK(t, c)
  <2> SUFFICES ASSUME NEW i \in 1..Len(t), t[i].key \in Ids, FateOf(c, t[i].key) = "ended"
               PROVE  EndFollows(t, t[i].key, i)
    BY DEF EndsOK
  <2>1. t[i] = s[Len(a) + i] /\ Len(a) + i \in 1..Len(s)
    BY <1>1, <1>2
  <2>2. EndFollows(s, t[i].key, Len(a) + i)
    BY <2>1 DEF Flow, EndsOK
  <2>3. PICK m \in Len(a) + i..Len(s) : s[m].key = t[i].key /\ s[m].phase = "end"
    BY <2>2 DEF EndFollows
  <2>4. m - Len(a) \in i..Len(t) /\ m - Len(a) \in 1..Len(t) /\ Len(a) + (m - Len(a)) = m
    BY <1>1, <2>3
  <2>5. t[m - Len(a)] = s[m]
    BY <1>1, <2>4
  <2> QED
    BY <2>3, <2>4, <2>5 DEF EndFollows
<1>6. UnsentOK(t, c)
  <2> SUFFICES ASSUME NEW g \in Live(c), c.slots[g] = NoSlot, NEW i \in 1..Len(t)
               PROVE  t[i].key # g
    BY DEF UnsentOK
  <2>1. \A x \in 1..Len(s) : s[x].key # g
    BY DEF Flow, UnsentOK
  <2> QED
    BY <1>1, <1>2, <2>1
<1> QED
  BY <1>3, <1>4, <1>5, <1>6 DEF SuffixOK

(* After a new epoch Kdenlive may drop what it has pending.                  *)
LEMMA DropFlow ==
  ASSUME NEW s, NEW a, NEW t, Joined(s, a, t), NEW c \in Daemons, SlotsOK(c), NEW h,
         h.epoch \in Nat, Flow(s, c, h), c.epoch < h.epoch
  PROVE  Flow(t, c, h)
<1>1. SuffixOK(t, c)
  BY SuffixFlow
<1>2. c.epoch \in Nat /\ \A g \in 1..Len(c.gestures) : c.gestures[g].epoch \in Nat
  BY DaemonIs
<1>3. OpenOK(t, c, h)
  BY <1>2 DEF Flow, OpenOK
<1>4. \A g \in 1..Len(c.gestures) : c.gestures[g].epoch # h.epoch
  BY <1>2 DEF Flow, PastEpochs
<1>5. WholeOK(t, c, h)
  BY <1>4 DEF WholeOK
<1> QED
  BY <1>1, <1>3, <1>5 DEF Flow, SuffixOK

(* The oldest call, and the others.                                          *)
LEMMA FirstIs ==
  ASSUME NEW s \in Seq(Calls), s # <<>>
  PROVE  /\ Len(s) \in Nat /\ Len(s) >= 1 /\ s[1] \in Calls /\ Head(s) = s[1]
         /\ Tail(s) \in Seq(Calls) /\ Joined(s, <<s[1]>>, Tail(s)) /\ Len(<<s[1]>>) = 1
         /\ Len(Tail(s)) = Len(s) - 1
         /\ \A i \in 1..Len(Tail(s)) : Tail(s)[i] = s[i + 1] /\ i + 1 \in 1..Len(s)
<1> DEFINE t == Tail(s)
<1>1. /\ Len(s) \in Nat /\ Len(s) >= 1 /\ Head(s) = s[1] /\ t \in Seq(Calls)
      /\ Len(t) = Len(s) - 1 /\ \A i \in 1..Len(t) : t[i] = s[i + 1]
  BY HeadTailProperties, EmptySeq
<1> HIDE DEF t
<1>2. s[1] \in Calls /\ 1 \in 1..Len(s)
  BY <1>1, ElementOfSeq
<1> DEFINE a == <<s[1]>>
<1>3. Len(a) = 1 /\ a[1] = s[1]
  OBVIOUS
<1> HIDE DEF a
<1>4. \A i \in 1..Len(t) : 1 + i \in 1..Len(s) /\ 1 + i = i + 1
  BY <1>1
<1>5. \A i \in 1..Len(a) : s[i] = a[i]
  BY <1>3
<1>6. Joined(s, a, t)
  BY <1>1, <1>3, <1>4, <1>5 DEF Joined
<1> QED
  BY <1>1, <1>2, <1>3, <1>4, <1>6 DEF a, t

(* A call of no live or ended gesture of this epoch is taken.                *)
LEMMA TakenWhole ==
  ASSUME NEW s \in Seq(Calls), s # <<>>, NEW c, NEW h, h.applied \in [Ids -> Int],
         1..Len(c.gestures) \subseteq Ids, Flow(s, c, h),
         s[1].key \in Ids => s[1].epoch # h.epoch,
         s[1].key \in Ids => s[1].epoch \in Nat /\ h.epoch \in Nat /\ c.epoch \in Nat,
         \A g \in 1..Len(c.gestures) : c.gestures[g].epoch \in Nat
  PROVE  WholeOK(Tail(s), c, h)
<1> SUFFICES ASSUME NEW g \in 1..Len(c.gestures), FateOf(c, g) # "forgotten",
                    c.gestures[g].epoch = h.epoch
             PROVE  Balance(Tail(s), g, h.applied[g], c.gestures[g].turned - SlotN(c, g))
  BY DEF WholeOK
<1>1. 1 \in 1..Len(s) /\ Head(s) = s[1] /\ g \in Ids /\ h.applied[g] \in Int
  BY FirstIs
<1>2. s[1].key # g
  <2> SUFFICES ASSUME s[1].key = g PROVE FALSE
    OBVIOUS
  <2>1. s[1].epoch <= c.epoch /\ c.gestures[g].epoch <= s[1].epoch /\ c.epoch <= h.epoch
    BY <1>1 DEF Flow, KnownOK
  <2> QED
    BY <1>1, <2>1
<1>3. Balance(s, g, h.applied[g], c.gestures[g].turned - SlotN(c, g))
  BY DEF Flow, WholeOK
<1>4. Balance(Tail(s), g, h.applied[g] + Due(Head(s), g), c.gestures[g].turned - SlotN(c, g))
  BY <1>3, BalanceOfTail DEF Calls
<1>5. Due(Head(s), g) = 0
  BY <1>1, <1>2 DEF Due
<1>6. h.applied[g] + 0 = h.applied[g]
  BY <1>1
<1> QED
  BY <1>4, <1>5, <1>6

(* A stale call is refused.                                                  *)
LEMMA StaleFlow ==
  ASSUME NEW s \in Seq(Calls), s # <<>>, NEW c \in Daemons, SlotsOK(c), NEW h, HostT(h),
         Flow(s, c, h), s[1].epoch # h.epoch
  PROVE  Flow(Tail(s), c, h)
<1>1. Joined(s, <<s[1]>>, Tail(s)) /\ s[1] \in Calls /\ 1 \in 1..Len(s)
  BY FirstIs
<1>2. SuffixOK(Tail(s), c)
  BY <1>1, SuffixFlow
<1>3. h.open = None
  BY <1>1 DEF Flow, OpenOK
<1>4. OpenOK(Tail(s), c, h)
  BY <1>3 DEF OpenOK
<1>5. /\ c.epoch \in Nat /\ \A g \in 1..Len(c.gestures) : c.gestures[g].epoch \in Nat
      /\ 1..Len(c.gestures) \subseteq Ids /\ s[1].epoch \in Nat
      /\ h.epoch \in Nat /\ h.applied \in [Ids -> Int]
  BY <1>1, DaemonIs, CallIs DEF HostT
<1>6. WholeOK(Tail(s), c, h)
  BY <1>5, TakenWhole
<1> QED
  BY <1>2, <1>4, <1>6 DEF Flow, SuffixOK

(* A control is applied; the open gesture is cut.                            *)
LEMMA ControlFlow ==
  ASSUME NEW s \in Seq(Calls), s # <<>>, NEW c \in Daemons, SlotsOK(c), NEW h, HostT(h),
         Flow(s, c, h), s[1].key \notin Ids, NEW r,
         r.epoch = h.epoch, r.open = None, r.applied = h.applied,
         \A x \in r.cut : x \in h.cut \/ x.by \notin Ids
  PROVE  Flow(Tail(s), c, r)
<1>1. Joined(s, <<s[1]>>, Tail(s)) /\ s[1] \in Calls /\ 1 \in 1..Len(s)
  BY FirstIs
<1>2. SuffixOK(Tail(s), c)
  BY <1>1, SuffixFlow
<1>3. OpenOK(Tail(s), c, r)
  BY DEF OpenOK
<1>4. /\ 1..Len(c.gestures) \subseteq Ids /\ h.applied \in [Ids -> Int]
      /\ \A g \in 1..Len(c.gestures) : c.gestures[g].epoch \in Nat
  BY DaemonIs DEF HostT
<1>5. WholeOK(Tail(s), c, h)
  BY <1>4, TakenWhole
<1>6. WholeOK(Tail(s), c, r)
  BY <1>5 DEF WholeOK
<1>7. CutOK(c, r)
  BY DEF Flow, CutOK
<1>8. UnusedOK(c, r)
  BY DEF Flow, UnusedOK
<1> QED
  BY <1>2, <1>3, <1>6, <1>7, <1>8 DEF Flow, SuffixOK

(* An edit is applied.                                                       *)
LEMMA EditFlow ==
  ASSUME NEW s \in Seq(Calls), s # <<>>, NEW c \in Daemons, SlotsOK(c), NEW h, HostT(h),
         Flow(s, c, h), NEW k, k = s[1].key, k \in Ids, s[1].epoch = h.epoch, NEW r,
         r.epoch = h.epoch, r.open = None \/ (r.open = k /\ s[1].phase # "end"),
         r.applied = [h.applied EXCEPT ![k] = @ + s[1].n],
         \A x \in r.cut : x \in h.cut \/ (x.gesture = h.open /\ h.open \notin {None, k})
  PROVE  Flow(Tail(s), c, r)
<1> DEFINE t == Tail(s)
           len == Len(c.gestures)
<1>1. /\ Joined(s, <<s[1]>>, t) /\ s[1] \in Calls /\ 1 \in 1..Len(s) /\ Head(s) = s[1]
      /\ Len(s) \in Nat /\ Len(t) = Len(s) - 1
      /\ \A i \in 1..Len(t) : t[i] = s[i + 1] /\ i + 1 \in 1..Len(s)
      /\ t \in Seq(Calls)
  BY FirstIs
<1>2. SuffixOK(t, c)
  BY <1>1, SuffixFlow
<1> HIDE DEF t
<1>3. /\ c.epoch \in Nat /\ len \in Nat /\ 1..len \subseteq Ids
      /\ \A g \in 1..len : c.gestures[g].epoch \in Nat /\ c.gestures[g].fate \in Fates
      /\ h.epoch \in Nat /\ h.applied \in [Ids -> Int] /\ h.open \in Ids \cup {None}
      /\ s[1].n \in Int /\ Ids \subseteq Nat
  <2>1. s[1].n \in Int /\ Ids \subseteq Nat
    BY <1>1, CallIs, ControlAssumption DEF Ids
  <2> QED
    BY <2>1, DaemonIs DEF HostT
<1>4. k \in 1..len /\ c.epoch = h.epoch
  <2>1. s[1].epoch <= c.epoch /\ k \in 1..len /\ c.epoch <= h.epoch
    BY <1>1 DEF Flow, KnownOK
  <2> QED
    BY <1>3, <2>1
<1>5. \A i \in 1..Len(s) : /\ s[i].epoch = h.epoch
                           /\ s[i].key \in Ids => k <= s[i].key
  <2> TAKE i \in 1..Len(s)
  <2>1. s[i].epoch \in Nat
    BY ElementOfSeq, CallIs
  <2>2. CASE i = 1
    BY <1>3, <2>2
  <2>3. CASE i # 1
    <3>1. 1 < i
      BY <2>3
    <3>2. s[1].epoch <= s[i].epoch /\ (s[i].key \in Ids => k <= s[i].key)
      BY <1>1, <3>1 DEF Flow, InOrder
    <3>3. s[i].epoch <= c.epoch
      BY DEF Flow, KnownOK
    <3> QED
      BY <1>3, <1>4, <2>1, <3>2, <3>3
  <2> QED
    BY <2>2, <2>3
<1>6. CutOK(c, r)
  <2> SUFFICES ASSUME NEW x \in r.cut, x.by \in Ids
               PROVE  x.gesture \in 1..len /\ FateOf(c, x.gesture) = "forgotten"
    BY DEF CutOK
  <2>1. CASE x \in h.cut
    BY <2>1 DEF Flow, CutOK
  <2>2. CASE x.gesture = h.open /\ h.open \notin {None, k}
    <3>1. /\ h.open \in 1..len /\ h.open <= k
          /\ FateOf(c, h.open) = "ended" => EndFollows(s, h.open, 1)
      BY <1>1, <2>2 DEF Flow, OpenOK
    <3>2. h.open < k /\ h.open \in Ids
      BY <1>3, <1>4, <2>2, <3>1
    <3>3. FateOf(c, h.open) # "live"
      <4> SUFFICES ASSUME FateOf(c, h.open) = "live" PROVE FALSE
        OBVIOUS
      <4>1. h.open = len
        BY <3>1 DEF Flow, LastLives, Live, FateOf
      <4> QED
        BY <1>3, <1>4, <3>2, <4>1
    <3>4. FateOf(c, h.open) # "ended"
      <4> SUFFICES ASSUME FateOf(c, h.open) = "ended" PROVE FALSE
        OBVIOUS
      <4>1. PICK m \in 1..Len(s) : s[m].key = h.open
        BY <3>1 DEF EndFollows
      <4>2. k <= h.open
        BY <1>5, <3>2, <4>1
      <4> QED
        BY <1>3, <1>4, <3>1, <3>2, <4>2
    <3> QED
      BY <1>3, <2>2, <3>1, <3>3, <3>4 DEF Fates, FateOf
  <2> QED
    BY <2>1, <2>2
<1>7. OpenOK(t, c, r)
  <2> SUFFICES ASSUME r.open # None
               PROVE  /\ r.open \in 1..len /\ c.epoch = r.epoch
                      /\ \A i \in 1..Len(t) : /\ t[i].epoch = r.epoch
                                              /\ t[i].key \in Ids => r.open <= t[i].key
                      /\ FateOf(c, r.open) = "ended" => EndFollows(t, r.open, 1)
                      /\ FateOf(c, r.open) = "live" => c.slots[r.open] # NoSlot
    BY DEF OpenOK
  <2>1. r.open = k /\ s[1].phase # "end"
    OBVIOUS
  <2>2. \A i \in 1..Len(t) : t[i].epoch = h.epoch /\ (t[i].key \in Ids => k <= t[i].key)
    <3> TAKE i \in 1..Len(t)
    <3>1. t[i] = s[i + 1] /\ i + 1 \in 1..Len(s)
      BY <1>1
    <3> QED
      BY <1>5, <3>1
  <2>3. ASSUME FateOf(c, k) = "ended" PROVE EndFollows(t, k, 1)
    <3>1. EndFollows(s, k, 1)
      BY <1>1, <2>3 DEF Flow, EndsOK
    <3>2. PICK m \in 1..Len(s) : s[m].key = k /\ s[m].phase = "end"
      BY <3>1 DEF EndFollows
    <3>3. m # 1
      BY <2>1, <3>2
    <3>4. m - 1 \in 1..Len(t) /\ (m - 1) + 1 = m
      BY <1>1, <3>2, <3>3
    <3>5. t[m - 1] = s[m]
      BY <1>1, <3>4
    <3> QED
      BY <3>2, <3>4, <3>5 DEF EndFollows
  <2>4. ASSUME FateOf(c, k) = "live" PROVE c.slots[k] # NoSlot
    <3>1. k \in Live(c)
      BY <1>4, <2>4 DEF Live, FateOf
    <3> QED
      BY <1>1, <3>1 DEF Flow, UnsentOK
  <2> QED
    BY <1>4, <2>1, <2>2, <2>3, <2>4
<1>8. \A g \in Ids : r.applied[g] = h.applied[g] + Due(s[1], g)
  <2> TAKE g \in Ids
  <2>1. CASE g = k
    <3>1. r.applied[g] = h.applied[g] + s[1].n
      BY <1>3, <2>1
    <3> QED
      BY <2>1, <3>1 DEF Due
  <2>2. CASE g # k
    <3>1. r.applied[g] = h.applied[g] /\ h.applied[g] \in Int
      BY <1>3, <2>2
    <3> QED
      BY <2>2, <3>1 DEF Due
  <2> QED
    BY <2>1, <2>2
<1>9. WholeOK(t, c, r)
  <2> SUFFICES ASSUME NEW g \in 1..len, FateOf(c, g) # "forgotten", c.gestures[g].epoch = h.epoch
               PROVE  Balance(t, g, r.applied[g], c.gestures[g].turned - SlotN(c, g))
    BY DEF WholeOK
  <2>1. Balance(s, g, h.applied[g], c.gestures[g].turned - SlotN(c, g))
    BY DEF Flow, WholeOK
  <2>2. Balance(t, g, h.applied[g] + Due(Head(s), g), c.gestures[g].turned - SlotN(c, g))
    BY <2>1, BalanceOfTail DEF Calls, t
  <2> QED
    BY <1>1, <1>3, <1>8, <2>2
<1>10. UnusedOK(c, r)
  <2> SUFFICES ASSUME NEW g \in Ids, len < g PROVE r.applied[g] = 0
    BY DEF UnusedOK
  <2>1. h.applied[g] = 0 /\ g # k
    BY <1>3, <1>4 DEF Flow, UnusedOK
  <2> QED
    BY <1>8, <2>1 DEF Due
<1> QED
  BY <1>2, <1>6, <1>7, <1>9, <1>10 DEF Flow, SuffixOK, t

-----------------------------------------------------------------------------
(* Kdenlive merges calls, answers and applies them.                          *)
(* Where a call of s is after the one at j was merged into one before it.    *)
Moved(i, j) == IF i < j THEN i ELSE i - 1

(* An update is merged into a pending call of its key: the order, the ends   *)
(* and the sums stay.                                                        *)
LEMMA MergedFlow ==
  ASSUME NEW s \in Seq(Calls), NEW t, NEW j \in 1..Len(s), NEW p \in 1..j - 1,
         Merged(t, s, p, j), s[p].key = s[j].key, s[j].phase = "update",
         NEW c \in Daemons, SlotsOK(c), NEW h, Flow(s, c, h)
  PROVE  Flow(t, c, h)
<1>1. /\ Len(s) \in Nat /\ Len(t) = Len(s) - 1 /\ Len(t) \in Nat /\ j \in Nat /\ j >= 1
      /\ j <= Len(s)
  BY DEF Merged
<1>2. ASSUME NEW i \in 1..Len(t)
      PROVE  /\ Without(i, j) \in 1..Len(s) /\ Without(i, j) >= i /\ Without(i, j) \in Nat
             /\ t[i].key = s[Without(i, j)].key
             /\ t[i].epoch = s[Without(i, j)].epoch
             /\ t[i].phase = s[Without(i, j)].phase
  <2>1. Without(i, j) \in 1..Len(s) /\ Without(i, j) >= i /\ Without(i, j) \in Nat
    BY <1>1 DEF Without
  <2> QED
    BY <2>1 DEF Merged
<1>3. ASSUME NEW x \in 1..Len(s), x # j
      PROVE  Moved(x, j) \in 1..Len(t) /\ Without(Moved(x, j), j) = x
  <2>1. CASE x < j
    <3>1. Moved(x, j) = x /\ x \in 1..Len(t)
      BY <1>1, <2>1 DEF Moved
    <3> QED
      BY <2>1, <3>1 DEF Without
  <2>2. CASE ~(x < j)
    <3>1. Moved(x, j) = x - 1 /\ x - 1 \in 1..Len(t) /\ ~(x - 1 < j)
      BY <1>1, <1>3, <2>2 DEF Moved
    <3> QED
      BY <1>1, <3>1 DEF Without
  <2> QED
    BY <2>1, <2>2
<1>4. \A a, b \in 1..Len(t) : a < b => Without(a, j) < Without(b, j)
  BY <1>1 DEF Without
<1>5. ASSUME NEW g, NEW i \in 1..Len(t), EndFollows(s, g, Without(i, j))
      PROVE  EndFollows(t, g, i)
  <2>1. PICK m \in Without(i, j)..Len(s) : s[m].key = g /\ s[m].phase = "end"
    BY <1>5 DEF EndFollows
  <2>2. m \in 1..Len(s) /\ m # j /\ m >= Without(i, j)
    BY <1>2, <2>1
  <2> DEFINE y == Moved(m, j)
  <2>3. y \in 1..Len(t) /\ Without(y, j) = m
    BY <1>3, <2>2
  <2> HIDE DEF y
  <2>4. y >= i
    <3>1. y < i => m < Without(i, j)
      BY <1>4, <2>3
    <3>2. m \in Nat /\ Without(i, j) \in Nat /\ y \in Nat /\ i \in Nat
      BY <1>1, <1>2, <2>2, <2>3
    <3> QED
      BY <2>2, <3>1, <3>2
  <2>5. t[y].key = g /\ t[y].phase = "end"
    BY <1>2, <2>1, <2>3
  <2>6. y \in i..Len(t)
    BY <1>1, <2>3, <2>4
  <2> QED
    BY <2>5, <2>6 DEF EndFollows
<1>6. InOrder(t)
  <2> SUFFICES ASSUME NEW a \in 1..Len(t), NEW b \in 1..Len(t), a < b
               PROVE  /\ t[a].epoch <= t[b].epoch
                      /\ t[a].key \in Ids /\ t[b].key \in Ids => t[a].key <= t[b].key
    BY DEF InOrder
  <2>1. Without(a, j) < Without(b, j) /\ Without(a, j) \in 1..Len(s) /\ Without(b, j) \in 1..Len(s)
    BY <1>2, <1>4
  <2>2. \A x, y \in 1..Len(s) : x < y =>
          /\ s[x].epoch <= s[y].epoch
          /\ s[x].key \in Ids /\ s[y].key \in Ids => s[x].key <= s[y].key
    BY DEF Flow, InOrder
  <2> QED
    BY <1>2, <2>1, <2>2
<1>7. KnownOK(t, c)
  BY <1>2 DEF Flow, KnownOK
<1>8. EndsOK(t, c)
  <2> SUFFICES ASSUME NEW i \in 1..Len(t), t[i].key \in Ids, FateOf(c, t[i].key) = "ended"
               PROVE  EndFollows(t, t[i].key, i)
    BY DEF EndsOK
  <2>1. EndFollows(s, t[i].key, Without(i, j))
    BY <1>2 DEF Flow, EndsOK
  <2> QED
    BY <1>5, <2>1
<1>9. UnsentOK(t, c)
  BY <1>2 DEF Flow, UnsentOK
<1>10. OpenOK(t, c, h)
  <2> SUFFICES ASSUME h.open # None
               PROVE  /\ h.open \in 1..Len(c.gestures) /\ c.epoch = h.epoch
                      /\ \A i \in 1..Len(t) : /\ t[i].epoch = h.epoch
                                              /\ t[i].key \in Ids => h.open <= t[i].key
                      /\ FateOf(c, h.open) = "ended" => EndFollows(t, h.open, 1)
                      /\ FateOf(c, h.open) = "live" => c.slots[h.open] # NoSlot
    BY DEF OpenOK
  <2>1. /\ h.open \in 1..Len(c.gestures) /\ c.epoch = h.epoch
        /\ \A i \in 1..Len(s) : /\ s[i].epoch = h.epoch
                                /\ s[i].key \in Ids => h.open <= s[i].key
        /\ FateOf(c, h.open) = "ended" => EndFollows(s, h.open, 1)
        /\ FateOf(c, h.open) = "live" => c.slots[h.open] # NoSlot
    BY DEF Flow, OpenOK
  <2>2. ASSUME EndFollows(s, h.open, 1) PROVE EndFollows(t, h.open, 1)
    <3>1. j # 1 /\ 1 \in 1..Len(t) /\ 1 < j
      BY <1>1
    <3>2. Without(1, j) = 1
      BY <3>1 DEF Without
    <3> QED
      BY <1>5, <2>2, <3>1, <3>2
  <2>3. \A i \in 1..Len(t) : /\ t[i].epoch = h.epoch
                             /\ t[i].key \in Ids => h.open <= t[i].key
    <3> TAKE i \in 1..Len(t)
    <3> QED
      BY <1>2, <2>1
  <2> QED
    BY <2>1, <2>2, <2>3
<1>11. WholeOK(t, c, h)
  <2> SUFFICES ASSUME NEW g \in 1..Len(c.gestures), FateOf(c, g) # "forgotten",
                      c.gestures[g].epoch = h.epoch
               PROVE  Balance(t, g, h.applied[g], c.gestures[g].turned - SlotN(c, g))
    BY DEF WholeOK
  <2>1. Balance(s, g, h.applied[g], c.gestures[g].turned - SlotN(c, g))
    BY DEF Flow, WholeOK
  <2> QED
    BY <2>1, BalanceOfMerged DEF Calls
<1> QED
  BY <1>6, <1>7, <1>8, <1>9, <1>10, <1>11 DEF Flow

Messages == Ack \cup Context
Hosts ==
  [epoch : 1..MaxEpoch, pos : 0..MaxPos, pending : Seq(Calls), open : Ids \cup {None},
   due : BOOLEAN, applied : [Ids -> Int], cut : SUBSET [gesture : Ids, by : Keys],
   out : Seq(Messages)]

(* Contexts come in the order of their epochs, none from before lo or after hi. *)
Chain(m, lo, hi) ==
  /\ \A i \in 1..Len(m) : m[i].type = "CONTEXT" => lo <= m[i].epoch /\ m[i].epoch <= hi
  /\ \A i, j \in 1..Len(m) :
       i < j /\ m[i].type = "CONTEXT" /\ m[j].type = "CONTEXT" => m[i].epoch <= m[j].epoch

(* Kdenlive in a step that began in epoch e.                                 *)
Speaks(e, h) == e \in Nat /\ e <= h.epoch /\ Chain(h.out, e, h.epoch)

(* A message is an ack, or a context with an epoch and a position.           *)
LEMMA MessageIs ==
  ASSUME NEW m \in Messages
  PROVE  /\ m.type \in {"ACK", "CONTEXT"}
         /\ m.type = "CONTEXT" => m.epoch \in 1..MaxEpoch /\ m.epoch \in Nat /\ m.pos \in 0..MaxPos
         /\ m.type = "ACK" => m \in Ack
         /\ m.type = "CONTEXT" => m \in Context
<1>1. MaxEpoch \in Nat
  BY ControlAssumption
<1>2. CASE m \in Ack
  BY <1>2 DEF Ack
<1>3. CASE m \in Context
  BY <1>1, <1>3 DEF Context
<1> QED
  BY <1>2, <1>3 DEF Messages

(* Messages put behind others that are not newer.                            *)
LEMMA ChainsJoin ==
  ASSUME NEW a \in Seq(Messages), NEW b \in Seq(Messages), NEW lo \in Nat, NEW mid \in Nat,
         NEW hi \in Nat, lo <= mid, mid <= hi, Chain(a, lo, mid), Chain(b, mid, hi)
  PROVE  Chain(a \o b, lo, hi) /\ a \o b \in Seq(Messages)
<1> DEFINE t == a \o b
<1>1. Joined(t, a, b) /\ t \in Seq(Messages)
  BY JoinedIs
<1> HIDE DEF t
<1>2. Len(a) \in Nat /\ Len(b) \in Nat
  BY <1>1 DEF Joined
<1>a. \A n \in 1..Len(t) : \/ n \in 1..Len(a) /\ t[n] = a[n]
                           \/ \E y \in 1..Len(b) : n = Len(a) + y /\ t[n] = b[y]
  BY <1>1, IndexOf
<1>3. ASSUME NEW i \in 1..Len(t), t[i].type = "CONTEXT"
      PROVE  /\ lo <= t[i].epoch /\ t[i].epoch <= hi
             /\ i \in 1..Len(a) => t[i].epoch <= mid
             /\ i \notin 1..Len(a) => mid <= t[i].epoch
  <2>0. t[i].epoch \in Nat
    BY <1>1, <1>3, ElementOfSeq, MessageIs
  <2>1. CASE i \in 1..Len(a) /\ t[i] = a[i]
    <3>1. lo <= t[i].epoch /\ t[i].epoch <= mid
      BY <1>3, <2>1 DEF Chain
    <3> QED
      BY <2>0, <2>1, <3>1
  <2>2. ASSUME NEW y \in 1..Len(b), i = Len(a) + y, t[i] = b[y]
        PROVE  /\ lo <= t[i].epoch /\ t[i].epoch <= hi
               /\ i \notin 1..Len(a) /\ mid <= t[i].epoch
    <3>1. mid <= t[i].epoch /\ t[i].epoch <= hi
      BY <1>3, <2>2 DEF Chain
    <3>2. i \notin 1..Len(a)
      BY <1>2, <2>2
    <3> QED
      BY <2>0, <3>1, <3>2
  <2>3. \/ i \in 1..Len(a) /\ t[i] = a[i]
        \/ \E y \in 1..Len(b) : i = Len(a) + y /\ t[i] = b[y]
    BY <1>a
  <2>4. CASE \E y \in 1..Len(b) : i = Len(a) + y /\ t[i] = b[y]
    BY <2>2, <2>4
  <2> QED
    BY <2>1, <2>3, <2>4
<1>4. ASSUME NEW i \in 1..Len(t), NEW j \in 1..Len(t), i < j, t[i].type = "CONTEXT",
             t[j].type = "CONTEXT"
      PROVE  t[i].epoch <= t[j].epoch
  <2>0. t[i].epoch \in Nat /\ t[j].epoch \in Nat
    BY <1>1, <1>4, ElementOfSeq, MessageIs
  <2>1. CASE j \in 1..Len(a)
    <3>1. i \in 1..Len(a) /\ t[i] = a[i] /\ t[j] = a[j]
      BY <1>1, <1>4, <2>1 DEF Joined
    <3> QED
      BY <1>4, <2>1, <3>1 DEF Chain
  <2>2. CASE i \in 1..Len(a) /\ j \notin 1..Len(a)
    <3>1. t[i].epoch <= mid /\ mid <= t[j].epoch
      BY <1>3, <1>4, <2>2
    <3> QED
      BY <2>0, <3>1
  <2>3. CASE i \notin 1..Len(a) /\ j \notin 1..Len(a)
    <3>1. PICK x \in 1..Len(b) : i = Len(a) + x /\ t[i] = b[x]
      BY <1>a, <2>3
    <3>2. PICK y \in 1..Len(b) : j = Len(a) + y /\ t[j] = b[y]
      BY <1>a, <2>3
    <3>3. x < y
      BY <1>2, <1>4, <3>1, <3>2
    <3> QED
      BY <1>4, <3>1, <3>2, <3>3 DEF Chain
  <2>4. i \in 1..Len(a) \/ i \notin 1..Len(a)
    OBVIOUS
  <2> QED
    BY <2>1, <2>2, <2>3, <2>4
<1>5. Chain(t, lo, hi)
  BY <1>3, <1>4 DEF Chain
<1> QED
  BY <1>1, <1>5 DEF t

(* More messages in a step.                                                  *)
LEMMA SpeaksMore ==
  ASSUME NEW h \in Hosts, NEW r \in Hosts, NEW new \in Seq(Messages), r.out = h.out \o new,
         h.epoch <= r.epoch, Chain(new, h.epoch, r.epoch), NEW e, Speaks(e, h)
  PROVE  Speaks(e, r)
<1>1. h.out \in Seq(Messages) /\ h.epoch \in Nat /\ r.epoch \in Nat
  <2>1. h.out \in Seq(Messages) /\ h.epoch \in 1..MaxEpoch
    BY DEF Hosts
  <2>2. r.epoch \in 1..MaxEpoch
    BY DEF Hosts
  <2> QED
    BY <2>1, <2>2
<1>2. e \in Nat /\ e <= h.epoch /\ Chain(h.out, e, h.epoch)
  BY DEF Speaks
<1>3. Chain(r.out, e, r.epoch)
  BY <1>1, <1>2, ChainsJoin
<1> QED
  BY <1>1, <1>2, <1>3 DEF Speaks

(* One more signal.                                                          *)
LEMMA OneMessage ==
  ASSUME NEW h \in Hosts, NEW m \in Messages, NEW lo, NEW hi,
         m.type = "CONTEXT" => lo <= m.epoch /\ m.epoch <= hi
  PROVE  /\ Append(h.out, m) = h.out \o <<m>> /\ <<m>> \in Seq(Messages)
         /\ Append(h.out, m) \in Seq(Messages) /\ Chain(<<m>>, lo, hi)
<1>1. h.out \in Seq(Messages)
  BY DEF Hosts
<1>2. Append(h.out, m) = h.out \o <<m>> /\ Append(h.out, m) \in Seq(Messages)
  BY <1>1, AppendIsConcat, AppendProperties
<1> DEFINE new == <<m>>
<1>3. new \in Seq(Messages) /\ Len(new) = 1 /\ new[1] = m
  OBVIOUS
<1> HIDE DEF new
<1>4. \A i, j \in 1..Len(new) : i = 1 /\ ~(i < j)
  BY <1>3
<1>5. Chain(new, lo, hi)
  BY <1>3, <1>4 DEF Chain
<1> QED
  BY <1>2, <1>3, <1>5 DEF new

(* What a step of Kdenlive leaves alone.                                     *)
Beside(h, r) == r.epoch = h.epoch /\ r.open = h.open /\ r.applied = h.applied /\ r.cut = h.cut

(* It answers a call.                                                        *)
LEMMA ReplyIs ==
  ASSUME NEW h \in Hosts, NEW seq \in Nat, NEW ok \in BOOLEAN, NEW changed \in BOOLEAN
  PROVE  LET r == Reply(h, seq, ok, changed)
         IN /\ r \in Hosts /\ Beside(h, r) /\ r.pos = h.pos /\ r.pending = h.pending
            /\ \A e : Speaks(e, h) => Speaks(e, r)
<1> DEFINE m == [type |-> "ACK", seq |-> seq, ok |-> ok, changed |-> changed]
           out == Append(h.out, m)
           r == [h EXCEPT !.out = out]
<1>1. Reply(h, seq, ok, changed) = r
  BY DEF Reply
<1>2. m \in Messages /\ m.type = "ACK"
  BY DEF Messages, Ack
<1> HIDE DEF m
<1>3. /\ out = h.out \o <<m>> /\ <<m>> \in Seq(Messages) /\ out \in Seq(Messages)
      /\ Chain(<<m>>, h.epoch, h.epoch)
  BY <1>2, OneMessage
<1> HIDE DEF out
<1>4. r \in Hosts /\ r.out = out /\ Beside(h, r) /\ r.pos = h.pos /\ r.pending = h.pending
  BY <1>3 DEF Hosts, Beside
<1> HIDE DEF r
<1>5. h.epoch <= r.epoch /\ Chain(<<m>>, h.epoch, r.epoch) /\ r.out = h.out \o <<m>>
  BY <1>3, <1>4 DEF Beside, Hosts
<1>6. \A e : Speaks(e, h) => Speaks(e, r)
  BY <1>3, <1>4, <1>5, SpeaksMore
<1> QED
  BY <1>1, <1>4, <1>6

(* It emits a context, or will.                                              *)
LEMMA EmitIs ==
  ASSUME NEW h \in Hosts
  PROVE  LET r == EmitContext(h)
         IN /\ r \in Hosts /\ Beside(h, r) /\ r.pos = h.pos /\ r.pending = h.pending
            /\ \A e : Speaks(e, h) => Speaks(e, r)
<1> DEFINE m == [type |-> "CONTEXT", epoch |-> h.epoch, pos |-> h.pos]
           out == Append(h.out, m)
           r == [h EXCEPT !.due = FALSE, !.out = out]
<1>1. EmitContext(h) = r
  BY DEF EmitContext
<1>2. m \in Messages /\ m.epoch = h.epoch /\ h.epoch <= h.epoch
  BY DEF Messages, Context, Hosts
<1> HIDE DEF m
<1>3. /\ out = h.out \o <<m>> /\ <<m>> \in Seq(Messages) /\ out \in Seq(Messages)
      /\ Chain(<<m>>, h.epoch, h.epoch)
  BY <1>2, OneMessage
<1> HIDE DEF out
<1>4. r \in Hosts /\ r.out = out /\ Beside(h, r) /\ r.pos = h.pos /\ r.pending = h.pending
  BY <1>3 DEF Hosts, Beside
<1> HIDE DEF r
<1>5. h.epoch <= r.epoch /\ Chain(<<m>>, h.epoch, r.epoch) /\ r.out = h.out \o <<m>>
  BY <1>2, <1>3, <1>4 DEF Beside
<1>6. \A e : Speaks(e, h) => Speaks(e, r)
  BY <1>3, <1>4, <1>5, SpeaksMore
<1> QED
  BY <1>1, <1>4, <1>6

(* A context, at once or later.                                              *)
LEMMA SoonIs ==
  ASSUME NEW h \in Hosts, NEW now \in BOOLEAN
  PROVE  LET r == ContextSoon(h, now)
         IN /\ r \in Hosts /\ Beside(h, r) /\ r.pos = h.pos /\ r.pending = h.pending
            /\ \A e : Speaks(e, h) => Speaks(e, r)
<1>1. CASE now
  BY <1>1, EmitIs DEF ContextSoon
<1>2. CASE ~now
  <2> DEFINE r == [h EXCEPT !.due = TRUE]
  <2>1. ContextSoon(h, now) = r
    BY <1>2 DEF ContextSoon
  <2>2. r \in Hosts /\ Beside(h, r) /\ r.pos = h.pos /\ r.pending = h.pending /\ r.out = h.out
    BY DEF Hosts, Beside
  <2> HIDE DEF r
  <2>3. \A e : Speaks(e, h) => Speaks(e, r)
    BY <2>2 DEF Speaks, Beside
  <2> QED
    BY <2>1, <2>2, <2>3
<1> QED
  BY <1>1, <1>2

(* It starts a new epoch, and refuses what it has pending.                   *)
LEMMA BumpIs ==
  ASSUME NEW h \in Hosts, h.epoch < MaxEpoch, NEW now \in BOOLEAN
  PROVE  LET r == BumpEpoch(h, now)
         IN /\ r \in Hosts /\ r.epoch = h.epoch + 1 /\ r.open = None /\ r.pending = <<>>
            /\ r.applied = h.applied /\ r.cut = h.cut
            /\ \A e : Speaks(e, h) => Speaks(e, r)
<1> DEFINE len == Len(h.pending)
           new == [i \in 1..len |->
                    [type |-> "ACK", seq |-> h.pending[i].seq, ok |-> FALSE, changed |-> FALSE]]
           out == h.out \o new
           more == h.epoch + 1
           d == [h EXCEPT !.epoch = more, !.open = None, !.pending = <<>>, !.out = out]
<1>1. BumpEpoch(h, now) = ContextSoon(d, now)
  BY DEF BumpEpoch
<1>2. h.pending \in Seq(Calls) /\ len \in Nat /\ h.out \in Seq(Messages)
  BY DEF Hosts
<1>3. more \in 1..MaxEpoch /\ h.epoch <= more
  BY ControlAssumption DEF Hosts
<1>4. \A i \in 1..len : new[i] \in Messages /\ new[i].type = "ACK"
  <2> TAKE i \in 1..len
  <2>1. h.pending[i].seq \in Nat
    BY <1>2, ElementOfSeq, CallIs
  <2>2. [type |-> "ACK", seq |-> h.pending[i].seq, ok |-> FALSE, changed |-> FALSE] \in Messages
    BY <2>1 DEF Messages, Ack
  <2> QED
    BY <2>2
<1>5. new \in [1..len -> Messages]
  <2>1. \A i \in 1..len : new[i] \in Messages
    BY <1>4
  <2> QED
    BY <2>1, Zenon
<1> HIDE DEF new
<1>6. new \in Seq(Messages) /\ Len(new) = len
  <2>1. new \in Seq(Messages)
    BY <1>2, <1>5, SeqDef
  <2> QED
    BY <1>2, <1>5, <2>1, LenProperties
<1>7. Chain(new, h.epoch, more)
  BY <1>4, <1>6 DEF Chain
<1>8. out \in Seq(Messages) /\ <<>> \in Seq(Calls) /\ None \in Ids \cup {None}
  BY <1>2, <1>6, ConcatProperties
<1> HIDE DEF len, out
<1>9. /\ d \in Hosts /\ d.epoch = more /\ d.open = None /\ d.pending = <<>>
      /\ d.applied = h.applied /\ d.cut = h.cut /\ d.out = out
  <2> HIDE DEF more
  <2> QED
    BY <1>3, <1>8 DEF Hosts
<1> HIDE DEF d
<1>10. \A e : Speaks(e, h) => Speaks(e, d)
  BY <1>3, <1>6, <1>7, <1>9, SpeaksMore DEF out
<1> DEFINE r == ContextSoon(d, now)
<1>11. /\ r \in Hosts /\ Beside(d, r) /\ r.pos = d.pos /\ r.pending = d.pending
       /\ \A e : Speaks(e, d) => Speaks(e, r)
  BY <1>9, SoonIs
<1> HIDE DEF r
<1> QED
  BY <1>1, <1>9, <1>10, <1>11 DEF Beside, r

(* The playhead moves.                                                       *)
LEMMA SeekIs ==
  ASSUME NEW h \in Hosts, h.pos < MaxPos, NEW now \in BOOLEAN
  PROVE  LET r == Seek(h, now)
         IN /\ r \in Hosts /\ r.epoch = h.epoch /\ r.open \in {None, h.open}
            /\ r.pending = h.pending /\ r.applied = h.applied /\ r.cut = h.cut
            /\ \A e : Speaks(e, h) => Speaks(e, r)
<1> DEFINE more == h.pos + 1
           open == IF Captured(h.open) THEN None ELSE h.open
           d == [h EXCEPT !.pos = more, !.open = open]
<1>1. Seek(h, now) = ContextSoon(d, now)
  BY DEF Seek
<1>2. more \in 0..MaxPos /\ open \in Ids \cup {None} /\ open \in {None, h.open}
  BY ControlAssumption DEF Hosts
<1> HIDE DEF more, open
<1>3. /\ d \in Hosts /\ d.epoch = h.epoch /\ d.open = open /\ d.pending = h.pending
      /\ d.applied = h.applied /\ d.cut = h.cut /\ d.out = h.out
  BY <1>2 DEF Hosts
<1> HIDE DEF d
<1>4. \A e : Speaks(e, h) => Speaks(e, d)
  BY <1>3 DEF Speaks
<1> DEFINE r == ContextSoon(d, now)
<1>5. /\ r \in Hosts /\ Beside(d, r) /\ r.pending = d.pending
      /\ \A e : Speaks(e, d) => Speaks(e, r)
  BY <1>3, SoonIs
<1> HIDE DEF r
<1> QED
  BY <1>1, <1>2, <1>3, <1>4, <1>5 DEF Beside, r

(* Another control ends the open gesture.                                    *)
LEMMA CutIs ==
  ASSUME NEW h \in Hosts, NEW k \in Keys
  PROVE  LET r == Cut(h, k)
         IN /\ r \in Hosts /\ r.epoch = h.epoch /\ r.pos = h.pos
            /\ r.open = IF h.open = k THEN k ELSE None
            /\ r.pending = h.pending /\ r.applied = h.applied
            /\ \A x \in r.cut : \/ x \in h.cut
                                \/ x.gesture = h.open /\ x.by = k /\ h.open \notin {None, k}
            /\ \A e : Speaks(e, h) => Speaks(e, r)
<1>1. CASE h.open \in {None, k}
  BY <1>1 DEF Cut
<1>2. CASE h.open \notin {None, k}
  <2> DEFINE new == [gesture |-> h.open, by |-> k]
             cut == h.cut \cup {new}
             r == [h EXCEPT !.open = None, !.cut = cut]
  <2>1. Cut(h, k) = r
    BY <1>2 DEF Cut
  <2>2. new \in [gesture : Ids, by : Keys] /\ new.gesture = h.open /\ new.by = k
    BY <1>2 DEF Hosts
  <2> HIDE DEF new
  <2>3. cut \in SUBSET [gesture : Ids, by : Keys]
    BY <2>2 DEF Hosts
  <2>4. \A x \in cut : x \in h.cut \/ (x.gesture = h.open /\ x.by = k)
    BY <2>2
  <2> HIDE DEF cut
  <2>5. /\ r \in Hosts /\ r.epoch = h.epoch /\ r.pos = h.pos /\ r.open = None
        /\ r.pending = h.pending /\ r.applied = h.applied /\ r.cut = cut /\ r.out = h.out
    BY <2>3 DEF Hosts
  <2> HIDE DEF r
  <2>6. \A e : Speaks(e, h) => Speaks(e, r)
    BY <2>5 DEF Speaks
  <2> QED
    BY <1>2, <2>1, <2>4, <2>5, <2>6
<1> QED
  BY <1>1, <1>2

(* The parts of Kdenlive the argument needs, with their types.               *)
LEMMA HostsAre ==
  ASSUME NEW h \in Hosts
  PROVE  /\ HostT(h) /\ h.epoch \in Nat /\ h.pending \in Seq(Calls) /\ h.out \in Seq(Messages)
         /\ h.epoch \in 1..MaxEpoch /\ h.pos \in 0..MaxPos /\ h.open \in Ids \cup {None}
         /\ h.applied \in [Ids -> Int]
  BY ControlAssumption DEF Hosts, HostT

(* An edit of the oldest call.                                               *)
LEMMA ApplyEditFlow ==
  ASSUME NEW s \in Seq(Calls), s # <<>>, NEW c \in Daemons, SlotsOK(c), NEW h \in Hosts,
         Flow(s, c, h), s[1].key \in Ids, s[1].epoch = h.epoch
  PROVE  LET r == ApplyEdit(h, s[1])
         IN /\ r \in Hosts /\ Flow(Tail(s), c, r) /\ r.pending = h.pending
            /\ r.epoch = h.epoch /\ \A e : Speaks(e, h) => Speaks(e, r)
<1> DEFINE p == s[1]
           k == p.key
           cut == Cut(h, k)
           applied == [cut.applied EXCEPT ![k] = cut.applied[k] + p.n]
           open == IF p.phase = "end" \/ (p.n = 0 /\ cut.open = None) THEN None ELSE k
           d == [cut EXCEPT !.applied = applied, !.open = open]
           r == Reply(d, p.seq, TRUE, p.n # 0)
<1>1. ApplyEdit(h, p) = r
  BY DEF ApplyEdit
<1>2. p \in Calls /\ p.n \in Int /\ p.seq \in Nat /\ k \in Keys /\ k \in Ids /\ HostT(h)
  BY FirstIs, CallIs, HostsAre
<1>3. /\ cut \in Hosts /\ cut.epoch = h.epoch /\ cut.pos = h.pos
      /\ cut.pending = h.pending /\ cut.applied = h.applied
      /\ \A x \in cut.cut : \/ x \in h.cut
                            \/ x.gesture = h.open /\ x.by = k /\ h.open \notin {None, k}
      /\ \A e : Speaks(e, h) => Speaks(e, cut)
  BY <1>2, CutIs
<1> HIDE DEF cut
<1>4. open \in Ids \cup {None} /\ (open = None \/ (open = k /\ p.phase # "end"))
  BY <1>2
<1> HIDE DEF open
<1>5. applied = [h.applied EXCEPT ![k] = @ + p.n] /\ applied \in [Ids -> Int]
  <2>1. h.applied \in [Ids -> Int]
    BY <1>2 DEF HostT
  <2> DEFINE new == h.applied[k] + p.n
  <2>2. new \in Int /\ applied = [h.applied EXCEPT ![k] = new]
    BY <1>2, <1>3, <2>1
  <2> HIDE DEF applied, new
  <2>3. [h.applied EXCEPT ![k] = new] \in [Ids -> Int]
    BY <2>1, <2>2
  <2> QED
    BY <2>2, <2>3 DEF new
<1> HIDE DEF applied
<1>6. /\ d \in Hosts /\ d.epoch = h.epoch /\ d.open = open /\ d.applied = applied
      /\ d.cut = cut.cut /\ d.pending = h.pending /\ d.out = cut.out
  BY <1>3, <1>4, <1>5 DEF Hosts
<1> HIDE DEF d
<1>7. \A e : Speaks(e, h) => Speaks(e, d)
  BY <1>3, <1>6 DEF Speaks
<1>8. /\ r \in Hosts /\ Beside(d, r) /\ r.pending = d.pending
      /\ \A e : Speaks(e, d) => Speaks(e, r)
  <2>1. (p.n # 0) \in BOOLEAN /\ TRUE \in BOOLEAN
    OBVIOUS
  <2> QED
    BY <1>2, <1>6, <2>1, ReplyIs
<1> HIDE DEF r
<1>9. r.epoch = h.epoch /\ r.open = open /\ r.applied = applied /\ r.cut = cut.cut
  BY <1>6, <1>8 DEF Beside
<1>10. Flow(Tail(s), c, r)
  <2>1. r.applied = [h.applied EXCEPT ![k] = @ + p.n]
    BY <1>5, <1>9
  <2>2. r.open = None \/ (r.open = k /\ p.phase # "end")
    BY <1>4, <1>9
  <2>3. \A x \in r.cut : x \in h.cut \/ (x.gesture = h.open /\ h.open \notin {None, k})
    BY <1>3, <1>9
  <2> QED
    BY <1>2, <1>9, <2>1, <2>2, <2>3, EditFlow
<1> QED
  BY <1>1, <1>6, <1>7, <1>8, <1>9, <1>10

(* A control of the oldest call.                                             *)
LEMMA ApplyControlFlow ==
  ASSUME NEW s \in Seq(Calls), s # <<>>, NEW c \in Daemons, SlotsOK(c), NEW h \in Hosts,
         Flow(s, c, h), s[1].key \notin Ids, h.pending = <<>>,
         NEW changes, NEW now \in BOOLEAN
  PROVE  LET r == ApplyControl(h, s[1], changes, now)
         IN /\ r \in Hosts /\ Flow(Tail(s), c, r) /\ r.pending = <<>>
            /\ \A e : Speaks(e, h) => Speaks(e, r)
<1> DEFINE p == s[1]
           k == p.key
           cut == Cut(h, k)
           new == p.n # 0 /\ p.key \in changes
           t == Tail(s)
<1>1. p \in Calls /\ p.seq \in Nat /\ k \in Keys /\ k \notin Ids /\ HostT(h)
  BY FirstIs, CallIs, HostsAre
<1>2. /\ cut \in Hosts /\ cut.epoch = h.epoch /\ cut.pos = h.pos
      /\ cut.open = None
      /\ cut.pending = h.pending /\ cut.applied = h.applied
      /\ \A x \in cut.cut : x \in h.cut \/ x.by \notin Ids
      /\ \A e : Speaks(e, h) => Speaks(e, cut)
  <2>1. h.open # k \/ k = None
    BY <1>1 DEF HostT
  <2>2. /\ cut \in Hosts /\ cut.epoch = h.epoch /\ cut.pos = h.pos
        /\ cut.open = IF h.open = k THEN k ELSE None
        /\ cut.pending = h.pending /\ cut.applied = h.applied
        /\ \A x \in cut.cut : \/ x \in h.cut
                              \/ x.gesture = h.open /\ x.by = k /\ h.open \notin {None, k}
        /\ \A e : Speaks(e, h) => Speaks(e, cut)
    BY <1>1, CutIs
  <2> HIDE DEF cut
  <2>3. cut.open = None
    BY <2>1, <2>2
  <2>4. \A x \in cut.cut : x \in h.cut \/ x.by \notin Ids
    BY <1>1, <2>2
  <2> QED
    BY <2>2, <2>3, <2>4
<1> HIDE DEF cut
<1>3. Flow(t, c, cut)
  BY <1>1, <1>2, ControlFlow
<1> HIDE DEF t
<1>4. ASSUME NEW d \in Hosts, Flow(t, c, d), d.pending = <<>>, NEW changed \in BOOLEAN,
             \A e : Speaks(e, cut) => Speaks(e, d)
      PROVE  LET r == Reply(d, p.seq, TRUE, changed)
             IN /\ r \in Hosts /\ Flow(t, c, r) /\ r.pending = <<>>
                /\ \A e : Speaks(e, h) => Speaks(e, r)
  <2> DEFINE r == Reply(d, p.seq, TRUE, changed)
  <2>1. /\ r \in Hosts /\ Beside(d, r) /\ r.pending = d.pending
        /\ \A e : Speaks(e, d) => Speaks(e, r)
    BY <1>1, <1>4, ReplyIs
  <2> HIDE DEF r
  <2>2. Flow(t, c, r)
    BY <1>4, <2>1, IdleFlow DEF Beside
  <2> QED
    BY <1>2, <1>4, <2>1, <2>2 DEF r
<1>5. CASE new /\ p.key \in Navs /\ h.epoch < MaxEpoch
  <2> DEFINE d == BumpEpoch(cut, now)
  <2>1. /\ d \in Hosts /\ d.epoch = cut.epoch + 1 /\ d.open = None /\ d.pending = <<>>
        /\ d.applied = cut.applied /\ d.cut = cut.cut
        /\ \A e : Speaks(e, cut) => Speaks(e, d)
    BY <1>2, <1>5, BumpIs
  <2>2. ApplyControl(h, p, changes, now) = Reply(d, p.seq, TRUE, TRUE)
    BY <1>5 DEF ApplyControl, cut
  <2> HIDE DEF d
  <2>3. Flow(t, c, d)
    BY <1>2, <1>3, <2>1, BumpFlow, HostsAre
  <2> HIDE DEF new
  <2> QED
    BY <1>4, <2>1, <2>2, <2>3 DEF t
<1>6. CASE ~(new /\ p.key \in Navs /\ h.epoch < MaxEpoch)
           /\ new /\ p.key \in Jogs /\ h.pos < MaxPos
  <2> DEFINE d == Seek(cut, now)
  <2>1. /\ d \in Hosts /\ d.epoch = cut.epoch /\ d.open \in {None, cut.open}
        /\ d.pending = cut.pending /\ d.applied = cut.applied /\ d.cut = cut.cut
        /\ \A e : Speaks(e, cut) => Speaks(e, d)
    BY <1>2, <1>6, SeekIs
  <2>2. ApplyControl(h, p, changes, now) = Reply(d, p.seq, TRUE, TRUE)
    BY <1>6 DEF ApplyControl, cut
  <2> HIDE DEF d
  <2>3. Flow(t, c, d)
    BY <1>3, <2>1, IdleFlow
  <2> HIDE DEF new
  <2>4. d.pending = <<>>
    BY <1>2, <2>1
  <2> QED
    BY <1>4, <2>1, <2>2, <2>3, <2>4 DEF t
<1>7. CASE ~(new /\ p.key \in Navs /\ h.epoch < MaxEpoch)
           /\ ~(new /\ p.key \in Jogs /\ h.pos < MaxPos)
  <2>1. ApplyControl(h, p, changes, now) = Reply(cut, p.seq, TRUE, FALSE)
    BY <1>7 DEF ApplyControl, cut
  <2> HIDE DEF new
  <2>2. cut.pending = <<>>
    BY <1>2
  <2> QED
    BY <1>2, <1>3, <1>4, <2>1, <2>2 DEF t
<1> QED
  BY <1>5, <1>6, <1>7

(* Whatever Kdenlive makes of the oldest call.                               *)
LEMMA ApplyFlow ==
  ASSUME NEW s \in Seq(Calls), s # <<>>, NEW c \in Daemons, SlotsOK(c), NEW h \in Hosts,
         Flow(s, c, h), h.pending = <<>>, NEW changes, NEW now \in BOOLEAN
  PROVE  LET r == Apply(h, s[1], changes, now)
         IN /\ r \in Hosts /\ Flow(Tail(s), c, r) /\ r.pending = <<>>
            /\ \A e : Speaks(e, h) => Speaks(e, r)
<1>1. s[1].seq \in Nat /\ HostT(h)
  BY FirstIs, CallIs, HostsAre
<1>2. CASE s[1].epoch # h.epoch
  <2> DEFINE r == Reply(h, s[1].seq, FALSE, FALSE)
  <2>1. Apply(h, s[1], changes, now) = r
    BY <1>2 DEF Apply
  <2>2. /\ r \in Hosts /\ Beside(h, r) /\ r.pending = h.pending
        /\ \A e : Speaks(e, h) => Speaks(e, r)
    BY <1>1, ReplyIs
  <2> HIDE DEF r
  <2>3. Flow(Tail(s), c, h)
    BY <1>1, <1>2, StaleFlow
  <2>4. Flow(Tail(s), c, r)
    BY <2>2, <2>3, IdleFlow DEF Beside
  <2> QED
    BY <2>1, <2>2, <2>4
<1>3. CASE s[1].epoch = h.epoch /\ s[1].key \in Ids
  <2>1. Apply(h, s[1], changes, now) = ApplyEdit(h, s[1])
    BY <1>3 DEF Apply
  <2> DEFINE r == ApplyEdit(h, s[1])
  <2>2. /\ r \in Hosts /\ Flow(Tail(s), c, r) /\ r.pending = h.pending
        /\ \A e : Speaks(e, h) => Speaks(e, r)
    BY <1>3, ApplyEditFlow
  <2> HIDE DEF r
  <2> QED
    BY <2>1, <2>2 DEF r
<1>4. CASE s[1].epoch = h.epoch /\ s[1].key \notin Ids
  <2>1. Apply(h, s[1], changes, now) = ApplyControl(h, s[1], changes, now)
    BY <1>4 DEF Apply
  <2> DEFINE r == ApplyControl(h, s[1], changes, now)
  <2>2. /\ r \in Hosts /\ Flow(Tail(s), c, r) /\ r.pending = <<>>
        /\ \A e : Speaks(e, h) => Speaks(e, r)
    BY <1>4, ApplyControlFlow
  <2> HIDE DEF r
  <2> QED
    BY <2>1, <2>2 DEF r
<1> QED
  BY <1>2, <1>3, <1>4

(* The calls after the first i.                                              *)
Rest(s, i) == [j \in 1..Len(s) - i |-> s[i + j]]

(* The calls from one place on.                                              *)
LEMMA RestIs ==
  ASSUME NEW s \in Seq(Calls), NEW i \in 0..Len(s)
  PROVE  /\ Rest(s, i) \in Seq(Calls) /\ Len(Rest(s, i)) = Len(s) - i
         /\ \A j \in 1..Len(s) - i : Rest(s, i)[j] = s[i + j]
<1>1. Len(s) \in Nat /\ Len(s) - i \in Nat /\ i \in Nat
  OBVIOUS
<1> DEFINE r == Rest(s, i)
<1>2. \A j \in 1..Len(s) - i : s[i + j] \in Calls
  <2> TAKE j \in 1..Len(s) - i
  <2>1. i + j \in 1..Len(s)
    BY <1>1
  <2> QED
    BY <2>1, ElementOfSeq
<1>3. r \in [1..Len(s) - i -> Calls]
  BY <1>2 DEF Rest
<1>4. \A j \in 1..Len(s) - i : r[j] = s[i + j]
  BY DEF Rest
<1> HIDE DEF r
<1>5. r \in Seq(Calls)
  BY <1>1, <1>3, SeqDef
<1>6. Len(r) = Len(s) - i
  BY <1>1, <1>3, <1>5, LenProperties
<1> QED
  BY <1>4, <1>5, <1>6 DEF r

(* The oldest of the rest, and the others.                                   *)
LEMMA RestGoesOn ==
  ASSUME NEW s \in Seq(Calls), NEW i \in 0..Len(s), i < Len(s)
  PROVE  /\ Rest(s, i) # <<>> /\ Rest(s, i)[1] = s[i + 1]
         /\ Tail(Rest(s, i)) = Rest(s, i + 1)
<1> DEFINE r == Rest(s, i)
           q == Rest(s, i + 1)
<1>1. Len(s) \in Nat /\ i \in Nat /\ i + 1 \in 0..Len(s) /\ 1 \in 1..Len(s) - i
  OBVIOUS
<1>2. r \in Seq(Calls) /\ Len(r) = Len(s) - i /\ \A j \in 1..Len(s) - i : r[j] = s[i + j]
  BY RestIs
<1>3. /\ q \in Seq(Calls) /\ Len(q) = Len(s) - (i + 1)
      /\ \A j \in 1..Len(s) - (i + 1) : q[j] = s[(i + 1) + j]
  BY <1>1, RestIs
<1> HIDE DEF r, q
<1>4. r # <<>> /\ r[1] = s[i + 1]
  BY <1>1, <1>2, EmptySeq
<1>5. Tail(r) \in Seq(Calls) /\ Len(Tail(r)) = Len(r) - 1 /\ \A j \in 1..Len(Tail(r)) : Tail(r)[j] = r[j + 1]
  BY <1>2, <1>4, FirstIs
<1>6. Len(Tail(r)) = Len(q)
  BY <1>1, <1>2, <1>3, <1>5
<1>7. \A j \in 1..Len(Tail(r)) : Tail(r)[j] = q[j]
  <2> TAKE j \in 1..Len(Tail(r))
  <2>1. j + 1 \in 1..Len(s) - i /\ i + (j + 1) = (i + 1) + j /\ j \in 1..Len(s) - (i + 1)
    BY <1>1, <1>2, <1>5
  <2>2. Tail(r)[j] = s[i + (j + 1)] /\ q[j] = s[(i + 1) + j]
    BY <1>2, <1>3, <1>5, <2>1
  <2> QED
    BY <2>1, <2>2
<1>8. Tail(r) = q
  BY <1>3, <1>5, <1>6, <1>7, SeqEqual
<1> QED
  BY <1>4, <1>8 DEF r, q

(* Two ways to put the same calls together.                                  *)
LEMMA JoinedSame ==
  ASSUME NEW x \in Seq(Calls), NEW y \in Seq(Calls), NEW a, NEW b, Joined(x, a, b), Joined(y, a, b)
  PROVE  x = y
<1>1. Len(x) = Len(y)
  BY DEF Joined
<1>2. \A i \in 1..Len(x) : x[i] = y[i]
  <2> TAKE i \in 1..Len(x)
  <2>1. CASE i \in 1..Len(a)
    BY <2>1 DEF Joined
  <2>2. CASE i \notin 1..Len(a)
    <3>1. i - Len(a) \in 1..Len(b) /\ Len(a) + (i - Len(a)) = i
      BY <2>2 DEF Joined
    <3> QED
      BY <3>1 DEF Joined
  <2> QED
    BY <2>1, <2>2
<1> QED
  BY <1>1, <1>2, SeqEqual

(* Behind the first part is the second.                                      *)
LEMMA RestOfJoined ==
  ASSUME NEW a \in Seq(Calls), NEW b \in Seq(Calls)
  PROVE  /\ a \o b \in Seq(Calls) /\ Rest(a \o b, 0) = a \o b
         /\ Len(a) \in 0..Len(a \o b) /\ Rest(a \o b, Len(a)) = b
         /\ \A i \in 1..Len(a) : (a \o b)[i] = a[i]
<1> DEFINE s == a \o b
           n == Len(a)
<1>1. Joined(s, a, b) /\ s \in Seq(Calls)
  BY JoinedIs
<1> HIDE DEF s
<1>2. /\ n \in Nat /\ Len(b) \in Nat /\ Len(s) = n + Len(b)
      /\ \A i \in 1..n : s[i] = a[i]
      /\ \A i \in 1..Len(b) : s[n + i] = b[i]
  BY <1>1 DEF Joined
<1> HIDE DEF n
<1>3. n \in 0..Len(s) /\ 0 \in 0..Len(s) /\ Len(s) - n = Len(b) /\ Len(s) - 0 = Len(s)
  BY <1>2
<1>4. Rest(s, 0) = s
  <2>1. /\ Rest(s, 0) \in Seq(Calls) /\ Len(Rest(s, 0)) = Len(s)
        /\ \A j \in 1..Len(s) : Rest(s, 0)[j] = s[0 + j]
    BY <1>1, <1>3, RestIs
  <2>2. \A j \in 1..Len(s) : 0 + j = j
    BY <1>2
  <2> QED
    BY <1>1, <2>1, <2>2, SeqEqual
<1>5. Rest(s, n) = b
  <2>1. /\ Rest(s, n) \in Seq(Calls) /\ Len(Rest(s, n)) = Len(b)
        /\ \A j \in 1..Len(b) : Rest(s, n)[j] = s[n + j]
    BY <1>1, <1>3, RestIs
  <2> QED
    BY <1>2, <2>1, SeqEqual
<1> QED
  BY <1>1, <1>2, <1>3, <1>4, <1>5 DEF s, n

(* Kdenlive after so many of the calls it had pending.                       *)
Drained(h) == [h EXCEPT !.pending = <<>>]
After(h, p, n, changes, now) ==
  LET q[i \in 0..n] == IF i = 0 THEN Drained(h) ELSE Apply(q[i - 1], p[i], changes, now) IN q

(* It applies all it has pending, and is left with what is on its way.       *)
LEMMA ApplyPendingFlow ==
  ASSUME NEW h \in Hosts, NEW b \in Seq(Calls), NEW c \in Daemons, SlotsOK(c),
         Flow(h.pending \o b, c, h), NEW changes, NEW now \in BOOLEAN
  PROVE  LET r == ApplyPending(h, changes, now)
         IN /\ r \in Hosts /\ Flow(b, c, r) /\ r.pending = <<>>
            /\ \A e : Speaks(e, h) => Speaks(e, r)
<1> DEFINE p == h.pending
           n == Len(p)
           s == p \o b
           q == After(h, p, n, changes, now)
           first == Drained(h)
<1>1. ApplyPending(h, changes, now) = q[n]
  BY DEF ApplyPending, After, Drained
<1>2. p \in Seq(Calls) /\ n \in Nat
  BY DEF Hosts
<1>3. q[0] = first /\ \A i \in 1..n : q[i] = Apply(q[i - 1], p[i], changes, now)
  <2> HIDE DEF n, s, q, first
  <2> DEFINE S == {k \in Nat : \E f : f = [i \in 0..k |-> IF i = 0 THEN first
                                                     ELSE Apply(f[i - 1], p[i], changes, now)]}
  <2>1. 0 \in S
    <3> DEFINE f0 == [i \in 0..0 |-> first]
    <3>1. f0 = [i \in 0..0 |-> IF i = 0 THEN first ELSE Apply(f0[i - 1], p[i], changes, now)]
      OBVIOUS
    <3> QED
      BY <3>1
  <2>2. ASSUME NEW k \in Nat, k \in S
        PROVE  k + 1 \in S
    <3>1. PICK f : f = [i \in 0..k |-> IF i = 0 THEN first
                                       ELSE Apply(f[i - 1], p[i], changes, now)]
      BY <2>2
    <3> DEFINE last == Apply(f[k], p[k + 1], changes, now)
               r == [i \in 0..k + 1 |-> IF i = k + 1 THEN last ELSE f[i]]
    <3>2. ASSUME NEW i \in 0..k + 1
          PROVE  r[i] = IF i = 0 THEN first ELSE Apply(r[i - 1], p[i], changes, now)
      <4>1. CASE i = k + 1
        <5>1. r[i] = last /\ r[i - 1] = f[k] /\ i # 0
          BY <4>1
        <5> QED
          BY <4>1, <5>1
      <4>2. CASE i = 0
        BY <4>2, <3>1
      <4>3. CASE i \in 1..k
        <5>1. f[i] = Apply(f[i - 1], p[i], changes, now)
          BY <3>1, <4>3
        <5>2. r[i] = f[i] /\ r[i - 1] = f[i - 1]
          BY <4>3
        <5> QED
          BY <5>1, <5>2, <4>3
      <4> QED
        BY <4>1, <4>2, <4>3
    <3>3. r = [i \in 0..k + 1 |-> IF i = 0 THEN first ELSE Apply(r[i - 1], p[i], changes, now)]
      <4> DEFINE t == [i \in 0..k + 1 |-> IF i = 0 THEN first
                                          ELSE Apply(r[i - 1], p[i], changes, now)]
      <4>1. \A i \in 0..k + 1 : r[i] = t[i]
        BY <3>2
      <4> QED
        BY <4>1
    <3> HIDE DEF r
    <3> QED
      BY <3>3
  <2>3. Nat \subseteq S
    <3> HIDE DEF S
    <3> QED
      BY <2>1, <2>2, SetInduction
  <2>4. \E x : x = [i \in 0..n |-> IF i = 0 THEN first ELSE Apply(x[i - 1], p[i], changes, now)]
    BY <1>2, <2>3
  <2>5. q = [i \in 0..n |-> IF i = 0 THEN first ELSE Apply(q[i - 1], p[i], changes, now)]
    BY <2>4, Zenon DEF After, q, first
  <2> QED
    BY <1>2, <2>5
<1>4. /\ s \in Seq(Calls) /\ Rest(s, 0) = s /\ n \in 0..Len(s) /\ Rest(s, n) = b
      /\ \A i \in 1..n : s[i] = p[i]
  BY <1>2, RestOfJoined
<1>5. /\ first \in Hosts /\ first.pending = <<>> /\ first.epoch = h.epoch
      /\ first.open = h.open /\ first.applied = h.applied /\ first.cut = h.cut
      /\ first.out = h.out
  <2>1. <<>> \in Seq(Calls)
    OBVIOUS
  <2> QED
    BY <2>1 DEF Hosts, Drained
<1>6. Flow(s, c, h)
  OBVIOUS
<1> HIDE DEF q, first, s, n
<1>7. q[0] = first /\ \A i \in 1..n : q[i] = Apply(q[i - 1], p[i], changes, now)
  BY <1>3
<1> DEFINE Fine(i) == /\ q[i] \in Hosts /\ Flow(Rest(s, i), c, q[i]) /\ q[i].pending = <<>>
                      /\ \A e : Speaks(e, h) => Speaks(e, q[i])
           S == {k \in Nat : k \in 0..n => Fine(k)}
<1>8. 0 \in S
  <2>1. Flow(s, c, first)
    BY <1>5, <1>6, IdleFlow
  <2>2. \A e : Speaks(e, h) => Speaks(e, first)
    BY <1>5 DEF Speaks
  <2>3. Fine(0)
    BY <1>4, <1>5, <1>7, <2>1, <2>2
  <2> QED
    BY <2>3
<1>9. ASSUME NEW k \in Nat, k \in S PROVE k + 1 \in S
  <2> SUFFICES ASSUME k + 1 \in 0..n PROVE Fine(k + 1)
    OBVIOUS
  <2>1. k \in 0..n /\ k + 1 \in 1..n /\ (k + 1) - 1 = k /\ k \in 0..Len(s) /\ k < Len(s)
    BY <1>2, <1>4
  <2>2. Fine(k)
    BY <1>9, <2>1
  <2>3. /\ Rest(s, k) # <<>> /\ Rest(s, k)[1] = s[k + 1] /\ Tail(Rest(s, k)) = Rest(s, k + 1)
        /\ Rest(s, k) \in Seq(Calls)
    BY <1>4, <2>1, RestGoesOn, RestIs
  <2>4. q[k + 1] = Apply(q[k], Rest(s, k)[1], changes, now)
    BY <1>4, <1>7, <2>1, <2>3
  <2> DEFINE d == q[k]
             t == Rest(s, k)
             r == Apply(d, t[1], changes, now)
  <2>5. /\ d \in Hosts /\ Flow(t, c, d) /\ d.pending = <<>> /\ t \in Seq(Calls) /\ t # <<>>
        /\ \A e : Speaks(e, h) => Speaks(e, d)
    BY <2>2, <2>3
  <2>6. q[k + 1] = r /\ Tail(t) = Rest(s, k + 1)
    BY <2>3, <2>4
  <2> HIDE DEF d, t
  <2>7. /\ r \in Hosts /\ Flow(Tail(t), c, r) /\ r.pending = <<>>
        /\ \A e : Speaks(e, d) => Speaks(e, r)
    BY <2>5, ApplyFlow
  <2> HIDE DEF r
  <2> QED
    BY <2>5, <2>6, <2>7
<1>10. Nat \subseteq S
  <2> HIDE DEF S
  <2> QED
    BY <1>8, <1>9, SetInduction
<1>11. Fine(n)
  <2>1. n \in 0..n
    BY <1>2
  <2> QED
    BY <1>2, <1>10, <2>1
<1> QED
  BY <1>1, <1>4, <1>11 DEF n

(* No two calls are pending under the same key and epoch.                    *)
NoTwins(p) == \A i, j \in 1..Len(p) : Same(p[i], p[j]) => i = j

(* A call taken off the way and put last among what is pending.              *)
LEMMA AppendedIs ==
  ASSUME NEW p \in Seq(Calls), NEW t \in Seq(Calls), t # <<>>
  PROVE  /\ Append(p, t[1]) \in Seq(Calls)
         /\ Append(p, t[1]) \o Tail(t) = p \o t
<1> DEFINE a == <<t[1]>>
           r == Tail(t)
<1>1. t[1] \in Calls /\ r \in Seq(Calls) /\ Joined(t, a, r)
  BY FirstIs
<1>2. a \in Seq(Calls)
  BY <1>1
<1>3. Append(p, t[1]) = p \o a /\ Append(p, t[1]) \in Seq(Calls)
  BY <1>1, AppendIsConcat, AppendProperties
<1> HIDE DEF a, r
<1>4. (p \o a) \o r = p \o (a \o r)
  BY <1>1, <1>2, Grouped, Zenon
<1>5. Joined(a \o r, a, r) /\ a \o r \in Seq(Calls)
  BY <1>1, <1>2, JoinedIs
<1>6. a \o r = t
  BY <1>1, <1>5, JoinedSame
<1> QED
  BY <1>3, <1>4, <1>6 DEF r

(* A call under a key and epoch of which none is pending, or any call when   *)
(* nothing is.                                                               *)
LEMMA MergeLast ==
  ASSUME NEW h \in Hosts, NEW t \in Seq(Calls), t # <<>>,
         \A i \in 1..Len(h.pending) : ~Same(h.pending[i], t[1]), NoTwins(h.pending)
  PROVE  LET r == Merge(h, t[1])
         IN /\ r \in Hosts /\ Beside(h, r) /\ r.out = h.out
            /\ r.pending \o Tail(t) = h.pending \o t /\ NoTwins(r.pending)
<1> DEFINE p == h.pending
           m == t[1]
           q == Append(p, m)
           r == [h EXCEPT !.pending = q]
<1>1. Merge(h, m) = r
  BY DEF Merge
<1>2. p \in Seq(Calls) /\ m \in Calls
  BY FirstIs DEF Hosts
<1>3. /\ q \in Seq(Calls) /\ q \o Tail(t) = p \o t
  BY <1>2, AppendedIs
<1>4. NoTwins(q)
  <2> DEFINE n == Len(p)
  <2>1. n \in Nat /\ Len(q) = n + 1 /\ q[n + 1] = m /\ \A i \in 1..n : q[i] = p[i]
    BY <1>2, AppendProperties
  <2>2. \A i \in 1..n : ~Same(q[i], m)
    BY <2>1
  <2>3. \A i, j \in 1..n : Same(q[i], q[j]) => i = j
    BY <2>1 DEF NoTwins
  <2> HIDE DEF q, n
  <2> SUFFICES ASSUME NEW i \in 1..Len(q), NEW j \in 1..Len(q), Same(q[i], q[j]) PROVE i = j
    BY DEF NoTwins
  <2>4. CASE i \in 1..n /\ j \in 1..n
    BY <2>3, <2>4
  <2>5. CASE i \in 1..n /\ j = n + 1
    BY <2>1, <2>2, <2>5
  <2>6. CASE i = n + 1 /\ j \in 1..n
    <3>1. ~Same(q[j], q[i])
      BY <2>1, <2>2, <2>6
    <3> QED
      BY <3>1 DEF Same
  <2>7. CASE i = n + 1 /\ j = n + 1
    BY <2>7
  <2> QED
    BY <2>1, <2>4, <2>5, <2>6, <2>7
<1> HIDE DEF q
<1>5. r \in Hosts /\ Beside(h, r) /\ r.out = h.out /\ r.pending = q
  BY <1>3 DEF Hosts, Beside
<1> QED
  BY <1>1, <1>3, <1>4, <1>5

(* A further update of a pending one.                                        *)
LEMMA MergeInto ==
  ASSUME NEW h \in Hosts, NEW t \in Seq(Calls), t # <<>>, NoTwins(h.pending),
         NEW p \in 1..Len(h.pending), Same(h.pending[p], t[1]), t[1].phase = "update"
  PROVE  LET r == Merge(h, t[1])
             j == Len(h.pending) + 1
         IN /\ r \in Hosts /\ Beside(h, r) /\ r.out = h.out /\ NoTwins(r.pending)
            /\ j \in 1..Len(h.pending \o t) /\ p \in 1..j - 1
            /\ (h.pending \o t)[j] = t[1] /\ (h.pending \o t)[p] = h.pending[p]
            /\ Merged(r.pending \o Tail(t), h.pending \o t, p, j)
<1> DEFINE o == h.pending
           m == t[1]
           n == Len(o)
           into(x) == [x EXCEPT !.n = x.n + m.n, !.seq = m.seq,
                                !.phase = IF m.phase = "end" THEN "end" ELSE x.phase]
           q == [i \in 1..n |-> IF Same(o[i], m) THEN into(o[i]) ELSE o[i]]
           r == [h EXCEPT !.pending = q]
           s == o \o t
           u == q \o Tail(t)
<1>1. Merge(h, m) = r
  <2>1. ~ \A i \in 1..Len(h.pending) : ~Same(h.pending[i], m)
    OBVIOUS
  <2> QED
    BY <2>1 DEF Merge
<1>2. /\ o \in Seq(Calls) /\ n \in Nat /\ m \in Calls /\ Tail(t) \in Seq(Calls)
      /\ Len(t) \in Nat /\ Len(t) >= 1 /\ Len(Tail(t)) = Len(t) - 1
      /\ \A i \in 1..Len(Tail(t)) : Tail(t)[i] = t[i + 1] /\ i + 1 \in 1..Len(t)
      /\ \A i \in 1..n : o[i] \in Calls
  BY FirstIs, ElementOfSeq DEF Hosts
<1>3. \A i \in 1..n : Same(o[i], m) <=> i = p
  <2> TAKE i \in 1..n
  <2>1. Same(o[i], m) => Same(o[i], o[p])
    BY DEF Same
  <2> QED
    BY <2>1 DEF NoTwins
<1>4. \A x \in Calls : /\ into(x) \in Calls /\ into(x).key = x.key /\ into(x).epoch = x.epoch
                       /\ into(x).phase = x.phase /\ into(x).n = x.n + m.n
  <2> TAKE x \in Calls
  <2> DEFINE sum == x.n + m.n
             phase == IF m.phase = "end" THEN "end" ELSE x.phase
  <2>1. sum \in Int /\ m.seq \in Nat /\ phase = x.phase /\ phase \in {"update", "end"}
    BY <1>2, CallIs
  <2> DEFINE y == [x EXCEPT !.n = sum, !.seq = m.seq, !.phase = phase]
  <2>2. into(x) = y
    OBVIOUS
  <2> HIDE DEF sum, phase
  <2>3. y \in Calls /\ y.key = x.key /\ y.epoch = x.epoch /\ y.phase = phase /\ y.n = sum
    BY <2>1 DEF Calls, CallT
  <2> HIDE DEF y
  <2> QED
    BY <2>1, <2>2, <2>3 DEF sum
<1> HIDE DEF into
<1>5. \A i \in 1..n :
        /\ q[i] \in Calls /\ q[i].key = o[i].key /\ q[i].epoch = o[i].epoch
        /\ q[i].phase = o[i].phase /\ q[i].n = IF i = p THEN o[p].n + m.n ELSE o[i].n
  <2> TAKE i \in 1..n
  <2>1. q[i] = IF i = p THEN into(o[i]) ELSE o[i]
    BY <1>3
  <2>2. o[i] \in Calls
    BY <1>2
  <2> HIDE DEF q
  <2>3. CASE i = p
    BY <1>4, <2>1, <2>2, <2>3
  <2>4. CASE i # p
    BY <2>1, <2>2, <2>4
  <2> QED
    BY <2>3, <2>4
<1>6. q \in [1..n -> Calls]
  <2>1. \A i \in 1..n : q[i] \in Calls
    BY <1>5
  <2> QED
    BY <2>1, Zenon
<1> HIDE DEF q
<1>7. q \in Seq(Calls) /\ Len(q) = n
  <2>1. q \in Seq(Calls)
    BY <1>2, <1>6, SeqDef
  <2> QED
    BY <1>2, <1>6, <2>1, LenProperties
<1>8. r \in Hosts /\ Beside(h, r) /\ r.out = h.out /\ r.pending = q
  BY <1>7 DEF Hosts, Beside
<1> HIDE DEF r
<1>9. NoTwins(q)
  <2> SUFFICES ASSUME NEW i \in 1..n, NEW j \in 1..n, Same(q[i], q[j]) PROVE i = j
    BY <1>7 DEF NoTwins
  <2>1. Same(o[i], o[j])
    BY <1>5 DEF Same
  <2> QED
    BY <2>1 DEF NoTwins
<1>10. Joined(s, o, t) /\ Joined(u, q, Tail(t))
  BY <1>2, <1>7, JoinedIs
<1> HIDE DEF s, u
<1>11. /\ Len(s) = n + Len(t) /\ Len(u) = n + (Len(t) - 1)
       /\ \A i \in 1..n : s[i] = o[i] /\ u[i] = q[i]
       /\ \A i \in 1..Len(t) : s[n + i] = t[i]
       /\ \A i \in 1..Len(t) - 1 : u[n + i] = t[i + 1]
  BY <1>2, <1>7, <1>10 DEF Joined
<1> DEFINE j == n + 1
<1>12. j \in 1..Len(s) /\ p \in 1..j - 1 /\ s[j] = m /\ s[p] = o[p]
  BY <1>2, <1>11
<1>13. Merged(u, s, p, j)
  <2>1. Len(u) = Len(s) - 1
    BY <1>2, <1>11
  <2> SUFFICES ASSUME NEW i \in 1..Len(u)
               PROVE  LET x == Without(i, j)
                      IN /\ u[i].key = s[x].key /\ u[i].epoch = s[x].epoch
                         /\ u[i].phase = s[x].phase
                         /\ u[i].n = IF i = p THEN s[p].n + s[j].n ELSE s[x].n
    BY <2>1 DEF Merged
  <2>2. CASE i \in 1..n
    <3>1. Without(i, j) = i
      BY <1>2, <2>2 DEF Without
    <3>2. u[i] = q[i] /\ s[i] = o[i]
      BY <1>11, <2>2
    <3>3. /\ q[i].key = o[i].key /\ q[i].epoch = o[i].epoch
          /\ q[i].phase = o[i].phase /\ q[i].n = IF i = p THEN o[p].n + m.n ELSE o[i].n
      BY <1>5, <2>2
    <3> HIDE DEF j
    <3> QED
      BY <1>12, <3>1, <3>2, <3>3
  <2>3. CASE i \notin 1..n
    <3> DEFINE y == i - n
    <3>1. y \in 1..Len(t) - 1 /\ i = n + y /\ y + 1 \in 1..Len(t) /\ i + 1 = n + (y + 1)
      <4>1. n \in Nat /\ Len(t) \in Nat /\ Len(u) = n + (Len(t) - 1)
        BY <1>2, <1>11
      <4> HIDE DEF n
      <4>2. i \in Nat /\ 1 <= i /\ i <= n + (Len(t) - 1)
        BY <4>1
      <4>3. n + 1 <= i
        BY <2>3, <4>1, <4>2
      <4>4. y \in Nat /\ 1 <= y /\ y <= Len(t) - 1
        BY <4>1, <4>2, <4>3
      <4>5. i = n + y /\ i + 1 = n + (y + 1)
        BY <4>1, <4>2
      <4> HIDE DEF y
      <4> QED
        BY <4>1, <4>4, <4>5
    <3>2. Without(i, j) = i + 1 /\ i # p
      BY <1>2, <2>3 DEF Without
    <3> DEFINE z == y + 1
    <3>4. z \in 1..Len(t) /\ i + 1 = n + z
      BY <3>1
    <3>5. u[n + y] = t[y + 1]
      BY <1>11, <3>1
    <3> HIDE DEF y
    <3>6. u[i] = t[z]
      BY <3>1, <3>5
    <3> HIDE DEF z
    <3>7. s[n + z] = t[z]
      BY <1>11, <3>4
    <3>8. s[i + 1] = t[z]
      BY <3>4, <3>7
    <3> HIDE DEF j
    <3> QED
      BY <3>2, <3>6, <3>8
  <2> QED
    BY <2>2, <2>3
<1> QED
  BY <1>1, <1>8, <1>9, <1>12, <1>13 DEF s, u

(* t is s without its call at j.                                             *)
Removed(t, s, j) ==
  /\ Len(t) = Len(s) - 1
  /\ \A i \in 1..Len(t) : t[i] = s[Without(i, j)]

(* A call of another key can be taken out of a balance.                      *)
LEMMA BalanceOfRemoved ==
  ASSUME NEW s \in Seq(Calls), NEW t, NEW j \in 1..Len(s), Removed(t, s, j),
         NEW g, Due(s[j], g) = 0, NEW from, NEW to, Balance(s, g, from, to)
  PROVE  Balance(t, g, from, to)
<1>1. PICK b \in [0..Len(s) -> Int] :
        /\ b[0] = from /\ b[Len(s)] = to
        /\ \A i \in 1..Len(s) : b[i] = b[i - 1] + Due(s[i], g)
  BY DEF Balance
<1>2. Len(s) \in Nat /\ Len(t) = Len(s) - 1 /\ Len(t) \in Nat
      /\ j \in Nat /\ j >= 1 /\ j <= Len(s)
  BY DEF Removed
<1> DEFINE d == [i \in 0..Len(t) |-> IF i < j THEN b[i] ELSE b[i + 1]]
<1>3. \A i \in 0..Len(s) : b[i] \in Int
  OBVIOUS
<1>4. b[j] = b[j - 1]
  <2>1. b[j] = b[j - 1] + Due(s[j], g) /\ j - 1 \in 0..Len(s)
    BY <1>1, <1>2
  <2>2. b[j - 1] \in Int
    BY <1>3, <2>1
  <2> QED
    BY <2>1, <2>2
<1>5. \A i \in 0..Len(t) : /\ i \in 0..Len(s) /\ i + 1 \in 0..Len(s)
                           /\ d[i] = IF i < j THEN b[i] ELSE b[i + 1]
  BY <1>2
<1>6. d \in [0..Len(t) -> Int]
  BY <1>3, <1>5
<1> HIDE DEF d
<1>7. d[0] = from
  <2>1. 0 \in 0..Len(t) /\ 0 < j
    BY <1>2
  <2> QED
    BY <1>1, <1>5, <2>1
<1>8. d[Len(t)] = to
  <2>1. Len(t) \in 0..Len(t) /\ Len(t) + 1 = Len(s)
    BY <1>2
  <2>2. CASE Len(t) < j
    <3>1. Len(t) = j - 1 /\ Len(s) = j
      BY <1>2, <2>2
    <3>2. d[Len(t)] = b[Len(t)]
      BY <1>5, <2>1, <2>2
    <3> QED
      BY <1>1, <1>4, <3>1, <3>2
  <2>3. CASE ~(Len(t) < j)
    BY <1>1, <1>5, <2>1, <2>3
  <2> QED
    BY <2>2, <2>3
<1>9. ASSUME NEW i \in 1..Len(t) PROVE d[i] = d[i - 1] + Due(t[i], g)
  <2>1. i \in Nat /\ i >= 1 /\ i \in 0..Len(t) /\ i - 1 \in 0..Len(t) /\ i \in 1..Len(s)
        /\ i + 1 \in 1..Len(s) /\ (i - 1) + 1 = i /\ (i + 1) - 1 = i
    BY <1>2
  <2>2. b[i] = b[i - 1] + Due(s[i], g)
    BY <1>1, <2>1
  <2>3. b[i + 1] = b[i] + Due(s[i + 1], g)
    BY <1>1, <2>1
  <2>4. CASE i < j
    <3>1. t[i] = s[i] /\ i - 1 < j
      BY <1>2, <2>1, <2>4 DEF Removed, Without
    <3>2. d[i] = b[i] /\ d[i - 1] = b[i - 1]
      BY <1>5, <2>1, <2>4, <3>1
    <3> QED
      BY <2>2, <3>1, <3>2
  <2>5. CASE ~(i < j)
    <3>1. t[i] = s[i + 1]
      BY <2>5 DEF Removed, Without
    <3>2. d[i] = b[i + 1]
      BY <1>5, <2>1, <2>5
    <3>3. d[i - 1] = b[i]
      <4>1. CASE i - 1 < j
        <5>1. i = j
          BY <1>2, <2>1, <2>5, <4>1
        <5>2. d[i - 1] = b[i - 1]
          BY <1>5, <2>1, <4>1
        <5> QED
          BY <1>4, <5>1, <5>2
      <4>2. CASE ~(i - 1 < j)
        BY <1>5, <2>1, <4>2
      <4> QED
        BY <4>1, <4>2
    <3> QED
      BY <2>3, <3>1, <3>2, <3>3
  <2> QED
    BY <2>4, <2>5
<1> QED
  BY <1>6, <1>7, <1>8, <1>9 DEF Balance

(* A call that Kdenlive refuses before it looks at what is pending, all of   *)
(* which are ends.                                                           *)
LEMMA RefusedFlow ==
  ASSUME NEW s \in Seq(Calls), NEW t, NEW j \in 1..Len(s), Removed(t, s, j),
         \A i \in 1..j - 1 : s[i].phase = "end",
         NEW c \in Daemons, SlotsOK(c), NEW h, HostT(h), Flow(s, c, h), s[j].epoch # h.epoch
  PROVE  Flow(t, c, h)
<1>1. /\ Len(s) \in Nat /\ Len(t) = Len(s) - 1 /\ Len(t) \in Nat /\ j \in Nat /\ j >= 1
      /\ j <= Len(s)
  BY DEF Removed
<1>2. \A i \in 1..Len(t) : /\ Without(i, j) \in 1..Len(s) /\ Without(i, j) >= i
                           /\ Without(i, j) \in Nat /\ t[i] = s[Without(i, j)]
  BY <1>1 DEF Removed, Without
<1>3. \A a, b \in 1..Len(t) : a < b => Without(a, j) < Without(b, j)
  BY <1>1 DEF Without
<1>4. InOrder(t)
  <2> SUFFICES ASSUME NEW a \in 1..Len(t), NEW b \in 1..Len(t), a < b
               PROVE  /\ t[a].epoch <= t[b].epoch
                      /\ t[a].key \in Ids /\ t[b].key \in Ids => t[a].key <= t[b].key
    BY DEF InOrder
  <2>1. Without(a, j) < Without(b, j) /\ Without(a, j) \in 1..Len(s) /\ Without(b, j) \in 1..Len(s)
    BY <1>2, <1>3
  <2>2. \A x, y \in 1..Len(s) : x < y =>
          /\ s[x].epoch <= s[y].epoch
          /\ s[x].key \in Ids /\ s[y].key \in Ids => s[x].key <= s[y].key
    BY DEF Flow, InOrder
  <2> QED
    BY <1>2, <2>1, <2>2
<1>5. KnownOK(t, c)
  BY <1>2 DEF Flow, KnownOK
<1>6. EndsOK(t, c)
  <2> SUFFICES ASSUME NEW i \in 1..Len(t), t[i].key \in Ids, FateOf(c, t[i].key) = "ended"
               PROVE  EndFollows(t, t[i].key, i)
    BY DEF EndsOK
  <2>1. CASE i < j
    <3>1. Without(i, j) = i /\ i \in 1..j - 1
      BY <1>1, <2>1 DEF Without
    <3>2. t[i].phase = "end" /\ i \in i..Len(t)
      BY <1>1, <1>2, <3>1
    <3> QED
      BY <3>2 DEF EndFollows
  <2>2. CASE ~(i < j)
    <3>1. t[i] = s[i + 1] /\ i + 1 \in 1..Len(s)
      BY <1>1, <1>2, <2>2 DEF Without
    <3>2. EndFollows(s, t[i].key, i + 1)
      BY <3>1 DEF Flow, EndsOK
    <3>3. PICK m \in i + 1..Len(s) : s[m].key = t[i].key /\ s[m].phase = "end"
      BY <3>2 DEF EndFollows
    <3>4. m - 1 \in i..Len(t) /\ m - 1 \in 1..Len(t) /\ ~(m - 1 < j) /\ (m - 1) + 1 = m
      BY <1>1, <2>2, <3>3
    <3>5. Without(m - 1, j) = m
      BY <3>4 DEF Without
    <3>6. t[m - 1] = s[m]
      BY <1>2, <3>4, <3>5
    <3> QED
      BY <3>3, <3>4, <3>6 DEF EndFollows
  <2> QED
    BY <2>1, <2>2
<1>7. UnsentOK(t, c)
  BY <1>2 DEF Flow, UnsentOK
<1>8. h.open = None
  BY DEF Flow, OpenOK
<1>9. OpenOK(t, c, h)
  BY <1>8 DEF OpenOK
<1>10. WholeOK(t, c, h)
  <2> SUFFICES ASSUME NEW g \in 1..Len(c.gestures), FateOf(c, g) # "forgotten",
                      c.gestures[g].epoch = h.epoch
               PROVE  Balance(t, g, h.applied[g], c.gestures[g].turned - SlotN(c, g))
    BY DEF WholeOK
  <2>1. Balance(s, g, h.applied[g], c.gestures[g].turned - SlotN(c, g))
    BY DEF Flow, WholeOK
  <2>2. s[j].key # g
    <3> SUFFICES ASSUME s[j].key = g PROVE FALSE
      OBVIOUS
    <3>1. g \in Ids
      BY DaemonIs
    <3>2. s[j].epoch <= c.epoch /\ c.gestures[g].epoch <= s[j].epoch
      BY <3>1 DEF Flow, KnownOK
    <3>3. c.epoch <= h.epoch
      BY DEF Flow
    <3>4. c.epoch \in Nat /\ h.epoch \in Nat /\ s[j].epoch \in Nat
      BY DaemonIs, CallIs, ElementOfSeq DEF HostT
    <3> QED
      BY <3>2, <3>3, <3>4
  <2>3. Due(s[j], g) = 0
    BY <2>2 DEF Due
  <2> QED
    BY <2>1, <2>3, BalanceOfRemoved
<1> QED
  BY <1>4, <1>5, <1>6, <1>7, <1>9, <1>10 DEF Flow

(* What is pending under another epoch is the end that waited for a change   *)
(* of the epoch.                                                             *)
LateEnds(h) ==
  \A i \in 1..Len(h.pending) : h.pending[i].epoch # h.epoch => h.pending[i].phase = "end"
HostOK == host \in Hosts /\ host.out = <<>> /\ NoTwins(host.pending) /\ LateEnds(host)
(* Contexts on their way come in the order of their epochs, each between     *)
(* what the daemon knows and what Kdenlive has.                              *)
ToldOK == toClient \in Seq(Messages) /\ Chain(toClient, client.epoch, host.epoch)

(* What a step of Kdenlive has to show.                                      *)
LEMMA HostMoves ==
  ASSUME FlowOK, HostOK, ToldOK, NEW h \in Hosts, Host(h), client' = client,
         toHost' \in Seq(Calls), NoTwins(h.pending), LateEnds(h), Speaks(host.epoch, h),
         Flow(h.pending \o toHost', client, h)
  PROVE  HostOK' /\ FlowOK' /\ ToldOK'
<1> DEFINE r == [h EXCEPT !.out = <<>>]
<1>1. host' = r /\ toClient' = toClient \o h.out
  BY DEF Host
<1>2. r \in Hosts /\ r.out = <<>> /\ r.pending = h.pending /\ Beside(h, r)
  <2>1. <<>> \in Seq(Messages)
    BY EmptySeq
  <2> QED
    BY <2>1 DEF Hosts, Beside
<1> HIDE DEF r
<1>3. HostOK'
  BY <1>1, <1>2 DEF HostOK, LateEnds, Beside
<1>4. Flow(r.pending \o toHost', client, r)
  <2>1. r.epoch = h.epoch /\ r.open \in {None, h.open} /\ r.applied = h.applied /\ r.cut = h.cut
    BY <1>2 DEF Beside
  <2> DEFINE s == h.pending \o toHost'
  <2> HIDE DEF s
  <2>2. Flow(s, client, h)
    BY DEF s
  <2>3. Flow(s, client, r)
    BY <2>1, <2>2, IdleFlow
  <2> QED
    BY <1>2, <2>3 DEF s
<1>5. FlowOK'
  <2>1. HostT(r) /\ r.pending \in Seq(Calls)
    BY <1>2, HostsAre
  <2>2. HostNow'
    BY <1>1, <2>1 DEF HostNow
  <2>3. client \in Daemons /\ SlotsOK(client) /\ client.out = <<>>
    BY DEF FlowOK, Flows
  <2> DEFINE s == r.pending \o toHost'
  <2>4. s \in Seq(Calls)
    BY <2>1, JoinedIs
  <2>5. Flow(s, client, r)
    BY <1>4
  <2>6. OnWay' = s
    BY <1>1 DEF OnWay
  <2> HIDE DEF s
  <2>7. s \o <<>> = s
    BY <2>4, ConcatEmptySeq
  <2>8. Flows(s, client, r)
    BY <2>3, <2>5, <2>7 DEF Flows
  <2>9. Flows(OnWay, client, host)'
    BY <1>1, <2>6, <2>8 DEF Flows, SlotsOK, Live
  <2> QED
    BY <2>2, <2>3, <2>9 DEF FlowOK
<1>6. ToldOK'
  <2>1. /\ toClient \in Seq(Messages) /\ Chain(toClient, client.epoch, host.epoch)
        /\ h.out \in Seq(Messages) /\ Chain(h.out, host.epoch, h.epoch)
        /\ host.epoch \in Nat /\ h.epoch \in Nat /\ host.epoch <= h.epoch
    BY HostsAre DEF ToldOK, Speaks
  <2>2. client.epoch \in Nat /\ client.epoch <= host.epoch
    BY DaemonIs DEF FlowOK, Flows, Flow
  <2>3. Chain(toClient \o h.out, client.epoch, h.epoch) /\ toClient \o h.out \in Seq(Messages)
    BY <2>1, <2>2, ChainsJoin
  <2>4. host'.epoch = h.epoch
    BY <1>1, <1>2 DEF Beside
  <2> QED
    BY <1>1, <2>3, <2>4 DEF ToldOK
<1> QED
  BY <1>3, <1>5, <1>6

(* What of the state a step of Kdenlive starts from.                         *)
LEMMA HostStarts ==
  ASSUME FlowOK, HostOK
  PROVE  /\ client \in Daemons /\ SlotsOK(client) /\ toHost \in Seq(Calls)
         /\ host.pending \in Seq(Calls) /\ OnWay = host.pending \o toHost
         /\ Flow(OnWay, client, host) /\ OnWay \in Seq(Calls)
         /\ Speaks(host.epoch, host)
<1>1. client \in Daemons /\ SlotsOK(client) /\ toHost \in Seq(Calls) /\ host.pending \in Seq(Calls)
      /\ client.out = <<>> /\ Flow(OnWay \o client.out, client, host)
  BY DEF FlowOK, Flows, HostNow
<1>2. OnWay = host.pending \o toHost /\ OnWay \in Seq(Calls)
  BY <1>1, JoinedIs DEF OnWay
<1>3. OnWay \o client.out = OnWay
  BY <1>1, <1>2, ConcatEmptySeq
<1>4. Speaks(host.epoch, host)
  BY HostsAre, EmptySeq DEF HostOK, Speaks, Chain
<1> QED
  BY <1>1, <1>2, <1>3, <1>4

(* Nothing pending is no twin and not late.                                  *)
LEMMA NothingPending ==
  ASSUME NEW h, h.pending = <<>>
  PROVE  NoTwins(h.pending) /\ LateEnds(h) /\ \A b \in Seq(Calls) : h.pending \o b = b
  BY EmptySeq, ConcatEmptySeq DEF NoTwins, LateEnds

(* A call under another epoch is refused at once.                            *)
LEMMA RefusingMoves ==
  ASSUME FlowOK, HostOK, ToldOK, toHost # <<>>, toHost' = Tail(toHost), client' = client,
         toHost[1].epoch # host.epoch, Host(Reply(host, toHost[1].seq, FALSE, FALSE))
  PROVE  HostOK' /\ FlowOK' /\ ToldOK'
<1> DEFINE m == toHost[1]
           o == host.pending
           n == Len(o)
           j == n + 1
           s == o \o toHost
           t == o \o Tail(toHost)
           h == Reply(host, m.seq, FALSE, FALSE)
<1>1. /\ client \in Daemons /\ SlotsOK(client) /\ toHost \in Seq(Calls) /\ o \in Seq(Calls)
      /\ Flow(s, client, host) /\ s \in Seq(Calls) /\ Speaks(host.epoch, host)
      /\ host \in Hosts /\ HostT(host) /\ host.epoch \in Nat
  BY HostStarts, HostsAre DEF HostOK
<1>2. /\ Len(toHost) \in Nat /\ Len(toHost) >= 1 /\ m \in Calls /\ Tail(toHost) \in Seq(Calls)
      /\ Len(Tail(toHost)) = Len(toHost) - 1
      /\ \A i \in 1..Len(Tail(toHost)) : Tail(toHost)[i] = toHost[i + 1] /\ i + 1 \in 1..Len(toHost)
  BY <1>1, FirstIs
<1>3. m.seq \in Nat /\ m.epoch \in Nat
  BY <1>2, CallIs
<1>4. /\ h \in Hosts /\ Beside(host, h) /\ h.pending = o /\ Speaks(host.epoch, h)
  BY <1>1, <1>3, ReplyIs
<1>5. Host(h)
  OBVIOUS
<1> HIDE DEF h
<1>6. Joined(s, o, toHost) /\ Joined(t, o, Tail(toHost)) /\ t \in Seq(Calls)
  BY <1>1, <1>2, JoinedIs
<1> HIDE DEF s, t
<1>7. n \in Nat /\ j \in 1..Len(s) /\ s[j] = m
  BY <1>1, <1>2, <1>6 DEF Joined
<1>8. Removed(t, s, j)
  <2>1. Len(t) = Len(s) - 1 /\ Len(t) = n + (Len(toHost) - 1)
    BY <1>2, <1>6 DEF Joined
  <2> SUFFICES ASSUME NEW i \in 1..Len(t) PROVE t[i] = s[Without(i, j)]
    BY <2>1 DEF Removed
  <2>2. CASE i \in 1..n
    <3>1. Without(i, j) = i
      BY <1>7, <2>2 DEF Without
    <3> QED
      BY <1>6, <2>2, <3>1 DEF Joined
  <2>3. CASE i \notin 1..n
    <3> DEFINE y == i - n
    <3>1. y \in 1..Len(toHost) - 1 /\ i = n + y /\ y + 1 \in 1..Len(toHost)
          /\ i + 1 = n + (y + 1)
      BY <1>2, <1>7, <2>1, <2>3
    <3>2. Without(i, j) = i + 1
      BY <1>7, <2>3 DEF Without
    <3> DEFINE z == y + 1
    <3>3. z \in 1..Len(toHost) /\ i + 1 = n + z
      BY <3>1
    <3>4. t[n + y] = Tail(toHost)[y] /\ Tail(toHost)[y] = toHost[y + 1]
      BY <1>2, <1>6, <3>1 DEF Joined
    <3> HIDE DEF y
    <3>5. t[i] = toHost[z]
      BY <3>1, <3>4
    <3> HIDE DEF z
    <3>6. s[n + z] = toHost[z]
      BY <1>6, <3>3 DEF Joined
    <3>7. s[i + 1] = toHost[z]
      BY <3>3, <3>6
    <3> QED
      BY <3>2, <3>5, <3>7
  <2> QED
    BY <2>2, <2>3
<1>9. \A i \in 1..j - 1 : s[i].phase = "end"
  <2> TAKE i \in 1..j - 1
  <2>1. i \in 1..n /\ i < j /\ i \in 1..Len(s)
    BY <1>7
  <2>2. s[i] = o[i] /\ o[i] \in Calls
    BY <1>1, <1>6, <2>1, ElementOfSeq DEF Joined
  <2>3. s[i].epoch <= s[j].epoch
    BY <1>1, <1>7, <2>1 DEF Flow, InOrder
  <2>4. m.epoch <= client.epoch /\ client.epoch <= host.epoch
    BY <1>1, <1>7 DEF Flow, KnownOK
  <2>5. o[i].epoch \in Nat /\ client.epoch \in Nat
    BY <1>1, <2>2, CallIs, DaemonIs
  <2>6. o[i].epoch # host.epoch
    BY <1>1, <1>3, <1>7, <2>2, <2>3, <2>4, <2>5
  <2> QED
    BY <2>1, <2>2, <2>6 DEF HostOK, LateEnds
<1>10. Flow(t, client, host)
  BY <1>1, <1>7, <1>8, <1>9, RefusedFlow
<1>11. Flow(t, client, h)
  BY <1>4, <1>10, IdleFlow DEF Beside
<1>12. NoTwins(h.pending) /\ LateEnds(h)
  BY <1>4 DEF HostOK, LateEnds, Beside
<1>13. h.pending \o toHost' = t /\ toHost' \in Seq(Calls)
  BY <1>2, <1>4 DEF t
<1>14. Flow(h.pending \o toHost', client, h)
  BY <1>11, <1>13
<1> HIDE DEF o
<1> QED
  BY <1>4, <1>5, <1>12, <1>13, <1>14, HostMoves

(* An end waits until all that is pending is applied.                        *)
LEMMA EndingMoves ==
  ASSUME FlowOK, HostOK, ToldOK, toHost # <<>>, toHost' = Tail(toHost), client' = client,
         toHost[1].phase = "end", NEW changes, NEW now \in BOOLEAN,
         Host(Merge(ApplyPending(host, changes, now), toHost[1]))
  PROVE  HostOK' /\ FlowOK' /\ ToldOK'
<1> DEFINE m == toHost[1]
           q == ApplyPending(host, changes, now)
           h == Merge(q, m)
<1>1. /\ client \in Daemons /\ SlotsOK(client) /\ toHost \in Seq(Calls)
      /\ Flow(host.pending \o toHost, client, host) /\ Speaks(host.epoch, host)
      /\ host \in Hosts
  BY HostStarts DEF HostOK
<1>2. /\ q \in Hosts /\ Flow(toHost, client, q) /\ q.pending = <<>> /\ Speaks(host.epoch, q)
  BY <1>1, ApplyPendingFlow
<1>3. Host(h)
  OBVIOUS
<1> HIDE DEF q
<1>4. /\ NoTwins(q.pending) /\ q.pending \o toHost = toHost
      /\ \A i \in 1..Len(q.pending) : ~Same(q.pending[i], m)
  <2>1. Len(q.pending) = 0
    BY <1>2, EmptySeq
  <2> QED
    BY <1>1, <1>2, <2>1, NothingPending
<1>5. /\ h \in Hosts /\ Beside(q, h) /\ h.out = q.out
      /\ h.pending \o Tail(toHost) = toHost /\ NoTwins(h.pending)
  BY <1>1, <1>2, <1>4, MergeLast
<1> HIDE DEF h
<1>6. /\ Len(toHost) \in Nat /\ Tail(toHost) \in Seq(Calls)
      /\ Len(Tail(toHost)) = Len(toHost) - 1
  BY <1>1, FirstIs
<1>7. Len(h.pending) = 1 /\ h.pending[1] = m
  <2>1. h.pending \in Seq(Calls)
    BY <1>5, HostsAre
  <2> DEFINE a == h.pending
             b == Tail(toHost)
  <2>2. Joined(a \o b, a, b)
    BY <1>6, <2>1, JoinedIs
  <2>3. Joined(toHost, a, b) /\ Len(b) = Len(toHost) - 1
    BY <1>5, <1>6, <2>2
  <2> HIDE DEF a, b
  <2>4. Len(a) = 1
    <3>1. Len(a) \in Nat /\ Len(b) \in Nat /\ Len(toHost) = Len(a) + Len(b)
      BY <2>3 DEF Joined
    <3>2. Len(b) = Len(toHost) - 1 /\ Len(toHost) \in Nat
      BY <1>6, <2>3
    <3>3. \A x, y, z \in Nat : z = x + y /\ y = z - 1 => x = 1
      OBVIOUS
    <3> QED
      BY <3>1, <3>2, <3>3
  <2> QED
    BY <2>3, <2>4 DEF Joined, a
<1>8. LateEnds(h)
  BY <1>7 DEF LateEnds
<1>9. Flow(toHost, client, h)
  BY <1>2, <1>5, IdleFlow DEF Beside
<1>10. Speaks(host.epoch, h)
  BY <1>2, <1>5 DEF Speaks, Beside
<1>11. Flow(h.pending \o toHost', client, h) /\ toHost' \in Seq(Calls)
  BY <1>5, <1>6, <1>9
<1> QED
  BY <1>3, <1>5, <1>8, <1>10, <1>11, HostMoves

(* An update is put last.                                                    *)
LEMMA TakingMoves ==
  ASSUME FlowOK, HostOK, ToldOK, toHost # <<>>, toHost' = Tail(toHost), client' = client,
         toHost[1].epoch = host.epoch,
         \A i \in 1..Len(host.pending) : ~Same(host.pending[i], toHost[1]),
         Host(Merge(host, toHost[1]))
  PROVE  HostOK' /\ FlowOK' /\ ToldOK'
<1> DEFINE m == toHost[1]
           h == Merge(host, m)
<1>1. /\ client \in Daemons /\ SlotsOK(client) /\ toHost \in Seq(Calls)
      /\ host.pending \in Seq(Calls) /\ OnWay = host.pending \o toHost /\ OnWay \in Seq(Calls)
      /\ Flow(OnWay, client, host) /\ Speaks(host.epoch, host)
      /\ host \in Hosts /\ NoTwins(host.pending)
  BY HostStarts DEF HostOK
<1>2. Host(h)
  OBVIOUS
<1>3. /\ h \in Hosts /\ Beside(host, h) /\ h.out = host.out
      /\ h.pending \o Tail(toHost) = host.pending \o toHost /\ NoTwins(h.pending)
  BY <1>1, MergeLast
<1> HIDE DEF h
<1>4. /\ Len(toHost) \in Nat /\ Len(toHost) >= 1 /\ Tail(toHost) \in Seq(Calls)
      /\ Len(Tail(toHost)) = Len(toHost) - 1
  BY <1>1, FirstIs
<1>5. LateEnds(h)
  <2>1. h.pending \in Seq(Calls)
    BY <1>3, HostsAre
  <2> DEFINE a == h.pending
             b == Tail(toHost)
             o == host.pending
  <2>2. Joined(a \o b, a, b) /\ Joined(o \o toHost, o, toHost)
    BY <1>1, <1>4, <2>1, JoinedIs
  <2>3. Joined(OnWay, a, b) /\ Joined(OnWay, o, toHost) /\ Len(b) = Len(toHost) - 1
    BY <1>1, <1>3, <1>4, <2>2
  <2> HIDE DEF a, b, o
  <2>4. /\ Len(a) \in Nat /\ Len(o) \in Nat /\ Len(OnWay) = Len(a) + (Len(toHost) - 1)
        /\ Len(OnWay) = Len(o) + Len(toHost)
        /\ \A i \in 1..Len(a) : OnWay[i] = a[i]
        /\ \A i \in 1..Len(o) : OnWay[i] = o[i]
        /\ OnWay[Len(o) + 1] = m
    <3>1. 1 \in 1..Len(toHost)
      BY <1>4
    <3> QED
      BY <2>3, <3>1 DEF Joined
  <2>5. Len(a) = Len(o) + 1
    BY <1>4, <2>4
  <2>6. \A i \in 1..Len(a) : a[i].epoch # host.epoch => a[i].phase = "end"
    <3> TAKE i \in 1..Len(a)
    <3>1. CASE i \in 1..Len(o)
      <4>1. a[i] = o[i]
        BY <2>4, <3>1
      <4>2. o[i].epoch # host.epoch => o[i].phase = "end"
        BY <3>1 DEF HostOK, LateEnds, o
      <4> QED
        BY <4>1, <4>2
    <3>2. CASE i \notin 1..Len(o)
      <4>1. i = Len(o) + 1
        BY <2>4, <2>5, <3>2
      <4>2. a[i] = m
        BY <2>4, <4>1
      <4> QED
        BY <4>2
    <3> QED
      BY <3>1, <3>2
  <2> QED
    BY <1>3, <2>6 DEF LateEnds, Beside, a
<1>6. Flow(OnWay, client, h)
  BY <1>1, <1>3, IdleFlow DEF Beside
<1>7. Speaks(host.epoch, h)
  BY <1>1, <1>3 DEF Speaks, Beside
<1>8. Flow(h.pending \o toHost', client, h) /\ toHost' \in Seq(Calls)
  BY <1>1, <1>3, <1>4, <1>6
<1> QED
  BY <1>2, <1>3, <1>5, <1>7, <1>8, HostMoves

(* An update is merged into one of its key and epoch.                        *)
LEMMA MergingMoves ==
  ASSUME FlowOK, HostOK, ToldOK, toHost # <<>>, toHost' = Tail(toHost), client' = client,
         NEW p \in 1..Len(host.pending), Same(host.pending[p], toHost[1]),
         toHost[1].phase = "update", Host(Merge(host, toHost[1]))
  PROVE  HostOK' /\ FlowOK' /\ ToldOK'
<1> DEFINE m == toHost[1]
           h == Merge(host, m)
           j == Len(host.pending) + 1
           t == Tail(toHost)
<1>1. /\ client \in Daemons /\ SlotsOK(client) /\ toHost \in Seq(Calls)
      /\ host.pending \in Seq(Calls) /\ OnWay = host.pending \o toHost /\ OnWay \in Seq(Calls)
      /\ Flow(OnWay, client, host) /\ Speaks(host.epoch, host)
      /\ host \in Hosts /\ NoTwins(host.pending)
  BY HostStarts DEF HostOK
<1>2. Host(h)
  OBVIOUS
<1>3. /\ h \in Hosts /\ Beside(host, h) /\ h.out = host.out /\ NoTwins(h.pending)
      /\ j \in 1..Len(OnWay) /\ p \in 1..j - 1
      /\ OnWay[j] = m /\ OnWay[p] = host.pending[p]
      /\ Merged(h.pending \o t, OnWay, p, j)
  BY <1>1, MergeInto
<1> HIDE DEF h
<1>4. /\ Len(toHost) \in Nat /\ Len(toHost) >= 1 /\ t \in Seq(Calls)
      /\ Len(t) = Len(toHost) - 1
  BY <1>1, FirstIs
<1> DEFINE u == h.pending \o t
<1>5. LateEnds(h)
  <2>1. h.pending \in Seq(Calls)
    BY <1>3, HostsAre
  <2> DEFINE a == h.pending
             o == host.pending
  <2>2. Joined(u, a, t) /\ Joined(OnWay, o, toHost)
    BY <1>1, <1>4, <2>1, JoinedIs
  <2>3. /\ Len(a) \in Nat /\ Len(o) \in Nat /\ Len(u) = Len(a) + (Len(toHost) - 1)
        /\ Len(OnWay) = Len(o) + Len(toHost)
        /\ \A i \in 1..Len(a) : u[i] = a[i]
        /\ \A i \in 1..Len(o) : OnWay[i] = o[i]
    BY <1>4, <2>2 DEF Joined
  <2>4. Len(u) = Len(OnWay) - 1
    BY <1>3 DEF Merged
  <2>5. Len(a) = Len(o)
    BY <1>4, <2>3, <2>4
  <2> SUFFICES ASSUME NEW i \in 1..Len(a), a[i].epoch # host.epoch PROVE a[i].phase = "end"
    BY <1>3 DEF LateEnds, Beside
  <2>6. i \in 1..Len(u) /\ i \in 1..Len(o) /\ Without(i, j) = i
    BY <1>4, <2>3, <2>5 DEF Without
  <2>7. a[i].epoch = OnWay[i].epoch /\ a[i].phase = OnWay[i].phase
    <3>1. u[i].epoch = OnWay[i].epoch /\ u[i].phase = OnWay[i].phase
      BY <1>3, <2>6 DEF Merged
    <3> QED
      BY <2>3, <3>1
  <2>8. OnWay[i] = o[i]
    BY <2>3, <2>6
  <2>9. o[i].epoch # host.epoch => o[i].phase = "end"
    BY <2>6 DEF HostOK, LateEnds
  <2> QED
    BY <2>7, <2>8, <2>9
<1>6. Flow(u, client, host)
  <2>1. OnWay[p].key = OnWay[j].key /\ OnWay[j].phase = "update"
    BY <1>3 DEF Same
  <2> HIDE DEF u
  <2>2. Merged(u, OnWay, p, j)
    BY <1>3 DEF u
  <2> HIDE DEF j
  <2> QED
    BY <1>1, <1>3, <2>1, <2>2, MergedFlow
<1> HIDE DEF u
<1>7. Flow(u, client, h)
  BY <1>3, <1>6, IdleFlow DEF Beside
<1>8. Speaks(host.epoch, h)
  BY <1>1, <1>3 DEF Speaks, Beside
<1>9. Flow(h.pending \o toHost', client, h) /\ toHost' \in Seq(Calls)
  BY <1>4, <1>7 DEF u
<1> QED
  BY <1>2, <1>3, <1>5, <1>8, <1>9, HostMoves

(* The inductive invariant.                                                  *)
TurnsOK == turns \in 0..MaxTurns
FullInv == StreamOK(Bounds) /\ FlowOK /\ HostOK /\ ToldOK /\ TurnsOK

(* What a step of the daemon that leaves its epoch alone has to show.        *)
LEMMA DaemonMoves ==
  ASSUME FullInv, StreamOK(Bounds)', FlowOK', UNCHANGED host, TurnsOK',
         client'.epoch = client.epoch, UNCHANGED toClient
  PROVE  FullInv'
  BY DEF FullInv, HostOK, ToldOK, NoTwins, LateEnds

(* What a step of Kdenlive has to show.                                      *)
LEMMA HostDone ==
  ASSUME FullInv, HostOK' /\ FlowOK' /\ ToldOK', UNCHANGED <<client, turns>>, CallTaken
  PROVE  FullInv'
<1>1. StreamOK(Bounds)'
  BY HostKeeps DEF FullInv
<1> QED
  BY <1>1 DEF FullInv, TurnsOK

(* A message is read; it is the oldest.                                      *)
LEMMA OldestTold ==
  ASSUME ToldOK, toClient # <<>>, client.epoch \in Nat, host.epoch \in Nat
  PROVE  LET m == Head(toClient)
         IN /\ m \in Messages /\ Tail(toClient) \in Seq(Messages)
            /\ Chain(Tail(toClient), client.epoch, host.epoch)
            /\ m.type = "CONTEXT" =>
                 /\ client.epoch <= m.epoch /\ m.epoch <= host.epoch
                 /\ m.epoch \in 1..MaxEpoch /\ m.pos \in 0..MaxPos
                 /\ Chain(Tail(toClient), m.epoch, host.epoch)
<1> DEFINE m == Head(toClient)
           t == Tail(toClient)
<1>1. toClient \in Seq(Messages) /\ Chain(toClient, client.epoch, host.epoch)
  BY DEF ToldOK
<1>2. /\ Len(toClient) \in Nat /\ Len(toClient) >= 1 /\ m = toClient[1] /\ m \in Messages
      /\ t \in Seq(Messages) /\ Len(t) = Len(toClient) - 1
      /\ \A i \in 1..Len(t) : t[i] = toClient[i + 1]
  BY <1>1, HeadTailProperties, EmptySeq
<1> HIDE DEF m, t
<1>3. \A i \in 1..Len(t) : i + 1 \in 1..Len(toClient) /\ 1 < i + 1
  BY <1>2
<1>4. 1 \in 1..Len(toClient)
  BY <1>2
<1>5. Chain(t, client.epoch, host.epoch)
  <2>1. ASSUME NEW i \in 1..Len(t), t[i].type = "CONTEXT"
        PROVE  client.epoch <= t[i].epoch /\ t[i].epoch <= host.epoch
    BY <1>1, <1>2, <1>3, <2>1 DEF Chain
  <2>2. ASSUME NEW i \in 1..Len(t), NEW j \in 1..Len(t), i < j,
               t[i].type = "CONTEXT", t[j].type = "CONTEXT"
        PROVE  t[i].epoch <= t[j].epoch
    <3>1. /\ i + 1 \in 1..Len(toClient) /\ j + 1 \in 1..Len(toClient) /\ i + 1 < j + 1
          /\ t[i] = toClient[i + 1] /\ t[j] = toClient[j + 1]
      BY <1>2, <1>3, <2>2
    <3> DEFINE a == i + 1
               b == j + 1
    <3> HIDE DEF a, b
    <3>2. a \in 1..Len(toClient) /\ b \in 1..Len(toClient) /\ a < b
          /\ t[i] = toClient[a] /\ t[j] = toClient[b]
      BY <3>1 DEF a, b
    <3>3. toClient[a].epoch <= toClient[b].epoch
      BY <1>1, <2>2, <3>2 DEF Chain
    <3> QED
      BY <3>2, <3>3
  <2> QED
    BY <2>1, <2>2 DEF Chain
<1>6. ASSUME m.type = "CONTEXT"
      PROVE  /\ client.epoch <= m.epoch /\ m.epoch <= host.epoch
             /\ m.epoch \in 1..MaxEpoch /\ m.pos \in 0..MaxPos
             /\ Chain(t, m.epoch, host.epoch)
  <2>1. client.epoch <= m.epoch /\ m.epoch <= host.epoch
    BY <1>1, <1>2, <1>4, <1>6 DEF Chain
  <2>2. m.epoch \in 1..MaxEpoch /\ m.pos \in 0..MaxPos
    BY <1>2, <1>6, MessageIs
  <2>3. \A i \in 1..Len(t) : t[i].type = "CONTEXT" => m.epoch <= t[i].epoch
    <3> TAKE i \in 1..Len(t)
    <3> DEFINE a == i + 1
    <3>1. a \in 1..Len(toClient) /\ 1 < a /\ t[i] = toClient[a]
      BY <1>2, <1>3
    <3> HIDE DEF a
    <3>2. toClient[a].type = "CONTEXT" => toClient[1].epoch <= toClient[a].epoch
      BY <1>1, <1>2, <1>4, <1>6, <3>1 DEF Chain
    <3> QED
      BY <1>2, <3>1, <3>2
  <2>4. Chain(t, m.epoch, host.epoch)
    BY <1>5, <2>3 DEF Chain
  <2> QED
    BY <2>1, <2>2, <2>4
<1> QED
  BY <1>2, <1>5, <1>6 DEF m, t

(* What an ack makes of it.                                                  *)
LEMMA ReadAckDone ==
  ASSUME FullInv, ReadAck
  PROVE  FullInv'
<1>1. StreamOK(Bounds)' /\ client'.epoch = client.epoch
  <2>1. StreamOK(Bounds)
    BY DEF FullInv
  <2> QED
    BY <2>1, ReadAckKeeps
<1>2. FlowOK'
  BY ReadAckFlows DEF FullInv
<1>3. client.epoch \in Nat /\ host.epoch \in Nat
  BY DaemonIs, HostsAre DEF FullInv, FlowOK, Flows, HostOK
<1>4. toClient # <<>> /\ toClient' = Tail(toClient) /\ UNCHANGED <<host, turns>>
  BY DEF ReadAck
<1>5. ToldOK'
  BY <1>1, <1>3, <1>4, OldestTold DEF FullInv, ToldOK
<1> QED
  BY <1>1, <1>2, <1>4, <1>5 DEF FullInv, HostOK, NoTwins, LateEnds, TurnsOK

(* What a context makes of it.                                               *)
LEMMA ReadContextDone ==
  ASSUME FullInv, NEW rule \in {FALSE, Rules}, ReadContext(rule)
  PROVE  FullInv'
<1> DEFINE m == Head(toClient)
<1>1. /\ toClient # <<>> /\ m.type = "CONTEXT" /\ toClient' = Tail(toClient)
      /\ UNCHANGED <<host, turns>>
  BY DEF ReadContext
<1>2. client.epoch \in Nat /\ host.epoch \in Nat
  BY DaemonIs, HostsAre DEF FullInv, FlowOK, Flows, HostOK
<1>3. /\ client.epoch <= m.epoch /\ m.epoch <= host.epoch
      /\ m.epoch \in 1..MaxEpoch /\ m.pos \in 0..MaxPos
      /\ Tail(toClient) \in Seq(Messages) /\ Chain(Tail(toClient), m.epoch, host.epoch)
  BY <1>1, <1>2, OldestTold DEF FullInv
<1>4. m.epoch \in Bounds.epochs /\ m.pos \in Bounds.spots
  BY <1>3 DEF Bounds
<1>5. StreamOK(Bounds)' /\ client'.epoch = m.epoch
  <2>1. StreamOK(Bounds)
    BY DEF FullInv
  <2> QED
    BY <1>4, <2>1, ReadContextKeeps
<1>6. FlowOK'
  BY <1>3, ReadContextFlows DEF FullInv
<1>7. ToldOK'
  BY <1>1, <1>3, <1>5 DEF ToldOK
<1> QED
  BY <1>1, <1>5, <1>6, <1>7 DEF FullInv, HostOK, NoTwins, LateEnds, TurnsOK

(* What a call makes of it that Kdenlive takes.                              *)
LEMMA HostControlDone ==
  ASSUME FullInv, NEW changes, NEW now \in BOOLEAN, HostControl(changes, now)
  PROVE  FullInv'
<1> DEFINE m == toHost[1]
           h == IF m.phase = "end" THEN ApplyPending(host, changes, now) ELSE host
<1>1. toHost # <<>> /\ toHost' = Tail(toHost) /\ UNCHANGED <<client, turns>>
  BY DEF HostControl
<1>2. FlowOK /\ HostOK /\ ToldOK
  BY DEF FullInv
<1>3. toHost \in Seq(Calls)
  BY <1>2, HostStarts
<1>4. Head(toHost) = m /\ m \in Calls
  BY <1>1, <1>3, FirstIs
<1>5. IF m.epoch # host.epoch THEN Host(Reply(host, m.seq, FALSE, FALSE)) ELSE Host(Merge(h, m))
  BY <1>4 DEF HostControl
<1>6. HostOK' /\ FlowOK' /\ ToldOK'
  <2>1. CASE m.epoch # host.epoch
    BY <1>1, <1>2, <1>5, <2>1, RefusingMoves
  <2>2. CASE m.epoch = host.epoch /\ m.phase = "end"
    <3>1. Host(Merge(ApplyPending(host, changes, now), m))
      BY <1>5, <2>2
    <3> QED
      BY <1>1, <1>2, <2>2, <3>1, EndingMoves
  <2>3. CASE m.epoch = host.epoch /\ m.phase # "end"
    <3>1. m.phase = "update"
      BY <1>4, <2>3, CallIs
    <3>2. Host(Merge(host, m))
      BY <1>5, <2>3
    <3>3. CASE \A i \in 1..Len(host.pending) : ~Same(host.pending[i], m)
      BY <1>1, <1>2, <2>3, <3>2, <3>3, TakingMoves
    <3>4. CASE ~ \A i \in 1..Len(host.pending) : ~Same(host.pending[i], m)
      BY <1>1, <1>2, <3>1, <3>2, <3>4, MergingMoves
    <3> QED
      BY <3>3, <3>4
  <2> QED
    BY <2>1, <2>2, <2>3
<1> QED
  BY <1>1, <1>6, HostDone DEF CallTaken

(* Nothing pending.                                                          *)
LEMMA DrainedMoves ==
  ASSUME FlowOK, HostOK, ToldOK, NEW h \in Hosts, Host(h), UNCHANGED <<client, toHost>>,
         h.pending = <<>>, Speaks(host.epoch, h), Flow(toHost, client, h)
  PROVE  HostOK' /\ FlowOK' /\ ToldOK'
<1>1. toHost \in Seq(Calls)
  BY HostStarts
<1>2. NoTwins(h.pending) /\ LateEnds(h) /\ h.pending \o toHost = toHost
  BY <1>1, NothingPending
<1> QED
  BY <1>1, <1>2, HostMoves

(* What is pending is applied.                                               *)
LEMMA HostApplyDone ==
  ASSUME FullInv, NEW changes, NEW now \in BOOLEAN, HostApply(changes, now)
  PROVE  FullInv'
<1> DEFINE h == ApplyPending(host, changes, now)
<1>1. UNCHANGED <<client, toHost, turns>> /\ Host(h)
  BY DEF HostApply
<1>2. FlowOK /\ HostOK /\ ToldOK
  BY DEF FullInv
<1>3. /\ client \in Daemons /\ SlotsOK(client) /\ toHost \in Seq(Calls)
      /\ Flow(host.pending \o toHost, client, host) /\ Speaks(host.epoch, host)
      /\ host \in Hosts
  BY <1>2, HostStarts DEF HostOK
<1>4. h \in Hosts /\ Flow(toHost, client, h) /\ h.pending = <<>> /\ Speaks(host.epoch, h)
  BY <1>3, ApplyPendingFlow
<1> HIDE DEF h
<1>5. HostOK' /\ FlowOK' /\ ToldOK'
  BY <1>1, <1>2, <1>4, DrainedMoves
<1> QED
  BY <1>1, <1>5, HostDone DEF CallTaken

(* Another target.                                                           *)
LEMMA HostFocusDone ==
  ASSUME FullInv, NEW now \in BOOLEAN, HostFocus(now)
  PROVE  FullInv'
<1> DEFINE h == BumpEpoch(host, now)
           o == host.pending
<1>1. UNCHANGED <<client, toHost, turns>> /\ Host(h) /\ host.epoch < MaxEpoch
  BY DEF HostFocus
<1>2. FlowOK /\ HostOK /\ ToldOK
  BY DEF FullInv
<1>3. /\ client \in Daemons /\ SlotsOK(client) /\ toHost \in Seq(Calls) /\ o \in Seq(Calls)
      /\ Flow(o \o toHost, client, host) /\ Speaks(host.epoch, host)
      /\ host \in Hosts /\ host.epoch \in Nat
  BY <1>2, HostStarts, HostsAre DEF HostOK
<1>4. /\ h \in Hosts /\ h.epoch = host.epoch + 1 /\ h.open = None /\ h.pending = <<>>
      /\ h.applied = host.applied /\ h.cut = host.cut /\ Speaks(host.epoch, h)
  BY <1>1, <1>3, BumpIs
<1> HIDE DEF h
<1> DEFINE s == o \o toHost
<1>5. Joined(s, o, toHost)
  BY <1>3, JoinedIs
<1> HIDE DEF s
<1>6. Flow(s, client, h) /\ client.epoch < h.epoch
  <2>1. Flow(s, client, host)
    BY <1>3 DEF s
  <2> QED
    BY <1>3, <1>4, <2>1, BumpFlow
<1>7. Flow(toHost, client, h)
  <2>1. h.epoch \in Nat
    BY <1>3, <1>4
  <2> QED
    BY <1>3, <1>5, <1>6, <2>1, DropFlow
<1>8. HostOK' /\ FlowOK' /\ ToldOK'
  BY <1>1, <1>2, <1>4, <1>7, DrainedMoves
<1> QED
  BY <1>1, <1>8, HostDone DEF CallTaken

(* Another position, or a context that was due.                              *)
LEMMA SamePendingDone ==
  ASSUME FullInv, NEW h \in Hosts, Host(h), UNCHANGED <<client, toHost, turns>>,
         h.epoch = host.epoch, h.open \in {None, host.open}, h.pending = host.pending,
         h.applied = host.applied, h.cut = host.cut, Speaks(host.epoch, h)
  PROVE  FullInv'
<1>1. FlowOK /\ HostOK /\ ToldOK
  BY DEF FullInv
<1>2. toHost \in Seq(Calls) /\ Flow(OnWay, client, host) /\ OnWay = host.pending \o toHost
  BY <1>1, HostStarts
<1>3. Flow(OnWay, client, h)
  BY <1>2, IdleFlow
<1>4. Flow(h.pending \o toHost', client, h) /\ toHost' \in Seq(Calls)
  BY <1>2, <1>3
<1>5. NoTwins(h.pending) /\ LateEnds(h)
  BY <1>1 DEF HostOK, LateEnds
<1>6. HostOK' /\ FlowOK' /\ ToldOK'
  BY <1>1, <1>4, <1>5, HostMoves
<1> QED
  BY <1>6, HostDone DEF CallTaken

(* Kdenlive moves its playhead.                                              *)
LEMMA HostSeekDone ==
  ASSUME FullInv, NEW now \in BOOLEAN, HostSeek(now)
  PROVE  FullInv'
<1> DEFINE h == Seek(host, now)
<1>1. UNCHANGED <<client, toHost, turns>> /\ Host(h) /\ host.pos < MaxPos
  BY DEF HostSeek
<1>2. host \in Hosts /\ Speaks(host.epoch, host)
  BY HostStarts DEF FullInv, HostOK
<1>3. /\ h \in Hosts /\ h.epoch = host.epoch /\ h.open \in {None, host.open}
      /\ h.pending = host.pending /\ h.applied = host.applied /\ h.cut = host.cut
      /\ Speaks(host.epoch, h)
  BY <1>1, <1>2, SeekIs
<1> HIDE DEF h
<1> QED
  BY <1>1, <1>3, SamePendingDone

(* Kdenlive emits the context that was due.                                  *)
LEMMA HostEmitDone ==
  ASSUME FullInv, HostEmit
  PROVE  FullInv'
<1> DEFINE h == EmitContext(host)
<1>1. UNCHANGED <<client, toHost, turns>> /\ Host(h)
  BY DEF HostEmit
<1>2. host \in Hosts /\ Speaks(host.epoch, host)
  BY HostStarts DEF FullInv, HostOK
<1>3. h \in Hosts /\ Beside(host, h) /\ h.pending = host.pending /\ Speaks(host.epoch, h)
  BY <1>2, EmitIs
<1> HIDE DEF h
<1> QED
  BY <1>1, <1>3, SamePendingDone DEF Beside

(* The gesture that was open ends by itself.                                 *)
LEMMA HostIdleDone ==
  ASSUME FullInv, HostIdle
  PROVE  FullInv'
<1> DEFINE h == [host EXCEPT !.open = None]
<1>1. UNCHANGED <<client, toHost, turns>> /\ host' = h /\ toClient' = toClient
  BY DEF HostIdle
<1>2. host \in Hosts /\ Speaks(host.epoch, host) /\ host.out = <<>> /\ toClient \in Seq(Messages)
  BY HostStarts DEF FullInv, HostOK, ToldOK
<1>3. /\ h \in Hosts /\ h.epoch = host.epoch /\ h.open = None
      /\ h.pending = host.pending /\ h.applied = host.applied /\ h.cut = host.cut
      /\ h.out = <<>>
  BY <1>2 DEF Hosts
<1>4. h = [h EXCEPT !.out = <<>>]
  BY <1>2 DEF Hosts
<1> HIDE DEF h
<1>5. Speaks(host.epoch, h)
  BY <1>2, <1>3 DEF Speaks
<1>6. Host(h)
  <2>1. toClient \o h.out = toClient
    BY <1>2, <1>3, ConcatEmptySeq
  <2> QED
    BY <1>1, <1>4, <2>1 DEF Host
<1> QED
  BY <1>1, <1>3, <1>5, <1>6, SamePendingDone

(* At the start nothing is on its way.                                       *)
LEMMA FullStart == Init => FullInv
<1> SUFFICES ASSUME Init PROVE FullInv
  OBVIOUS
<1>1. 1 \in 1..MaxEpoch /\ 0 \in 0..MaxPos /\ 0 \in 0..MaxTurns /\ MaxGestures \in Nat
      /\ MaxKeys \in Nat
  BY ControlAssumption
<1>2. StreamOK(Bounds)
  <2>1. StreamOK(First)
    BY StreamStart
  <2>2. First.epochs \subseteq Bounds.epochs /\ First.spots \subseteq Bounds.spots
    BY <1>1 DEF First, Bounds
  <2> QED
    BY <2>1, <2>2, MoreTold
<1>3. /\ client.gestures = <<>> /\ client.out = <<>> /\ client.epoch = 1
      /\ Len(client.gestures) = 0 /\ toHost = <<>> /\ toClient = <<>>
      /\ \A k \in Keys : client.slots[k] = NoSlot
  BY EmptySeq DEF Init
<1>4. /\ host.epoch = 1 /\ host.pos = 0 /\ host.pending = <<>> /\ host.open = None
      /\ host.due = FALSE /\ host.applied = [g \in Ids |-> 0] /\ host.cut = {} /\ host.out = <<>>
  BY DEF Init
<1>5. host \in Hosts
  <2>1. [g \in Ids |-> 0] \in [Ids -> Int]
    OBVIOUS
  <2>2. <<>> \in Seq(Calls) /\ <<>> \in Seq(Messages)
    BY EmptySeq
  <2>3. host = [epoch |-> 1, pos |-> 0, pending |-> <<>>, open |-> None, due |-> FALSE,
                applied |-> [g \in Ids |-> 0], cut |-> {}, out |-> <<>>]
    BY DEF Init
  <2>4. None \in Ids \cup {None}
    OBVIOUS
  <2> DEFINE applied == [g \in Ids |-> 0]
  <2>5. applied \in [Ids -> Int]
    BY <2>1
  <2> HIDE DEF applied
  <2> QED
    BY <1>1, <2>2, <2>3, <2>4, <2>5 DEF Hosts, applied
<1>6. HostOK
  BY <1>4, <1>5, NothingPending DEF HostOK
<1>7. ToldOK
  BY <1>3, EmptySeq DEF ToldOK, Chain
<1>8. FlowOK
  <2>1. /\ client \in Daemons /\ SlotsOK(client) /\ toHost \in Seq(Calls)
        /\ HostT(host) /\ host.pending \in Seq(Calls)
    BY <1>2, <1>5, HostsAre DEF StreamOK, Core, Daemons, Calls
  <2>2. OnWay \o client.out = <<>>
    <3>1. host.pending \o toHost = <<>>
      BY <1>3, <1>4, <2>1, ConcatEmptySeq
    <3>2. <<>> \o <<>> = <<>>
      BY <2>1, <1>3, ConcatEmptySeq
    <3> QED
      BY <1>3, <3>1, <3>2 DEF OnWay
  <2> DEFINE s == <<>>
  <2>3. Len(s) = 0
    BY EmptySeq
  <2> HIDE DEF s
  <2>4. InOrder(s) /\ KnownOK(s, client) /\ EndsOK(s, client) /\ UnsentOK(s, client)
    BY <2>3 DEF InOrder, KnownOK, EndsOK, UnsentOK
  <2>5. Live(client) = {}
    BY <1>3 DEF Live
  <2>6. LastLives(client) /\ PastEpochs(client) /\ client.epoch <= host.epoch
    BY <1>3, <1>4, <2>5 DEF LastLives, PastEpochs
  <2>7. RoomOK(client)
    <3>1. Slots(client) = {}
      BY <1>3 DEF Slots
    <3>2. Cardinality(Slots(client)) = 0
      BY <3>1, FS_EmptySet
    <3> QED
      BY <1>1, <3>2 DEF RoomOK
  <2>8. OpenOK(s, client, host) /\ CutOK(client, host)
    BY <1>4 DEF OpenOK, CutOK
  <2>9. WholeOK(s, client, host) /\ UnusedOK(client, host)
    BY <1>3, <1>4 DEF WholeOK, UnusedOK
  <2>10. Flow(s, client, host)
    BY <2>4, <2>6, <2>7, <2>8, <2>9 DEF Flow
  <2> QED
    BY <1>3, <2>1, <2>2, <2>10 DEF FlowOK, HostNow, Flows, s
<1> QED
  BY <1>1, <1>2, <1>6, <1>7, <1>8 DEF FullInv, TurnsOK, Init

(* The invariant is inductive.                                               *)
LEMMA FullStep == FullInv /\ [Next]_vars => FullInv'
<1> SUFFICES ASSUME FullInv, [Next]_vars PROVE FullInv'
  OBVIOUS
<1>1. StreamOK(Bounds) /\ FlowOK /\ TurnsOK
  BY DEF FullInv
<1>2. ASSUME NEW b \in Bindings, NEW n \in Deltas, Turn(b, n) PROVE FullInv'
  <2>1. StreamOK(Bounds)' /\ client'.epoch = client.epoch /\ FlowOK'
    BY <1>1, <1>2, TurnKeeps, TurnFlows
  <2>2. UNCHANGED <<host, toClient>> /\ TurnsOK'
    BY <1>1, <1>2, ControlAssumption DEF Turn, TurnsOK
  <2> QED
    BY <2>1, <2>2, DaemonMoves
<1>3. ASSUME NEW k \in Controls, NEW n \in Deltas, TurnControl(k, n) PROVE FullInv'
  <2>1. StreamOK(Bounds)' /\ client'.epoch = client.epoch /\ FlowOK'
    BY <1>1, <1>3, TurnControlKeeps, TurnControlFlows
  <2>2. UNCHANGED <<host, toClient>> /\ TurnsOK'
    BY <1>1, <1>3, ControlAssumption DEF TurnControl, TurnsOK
  <2> QED
    BY <2>1, <2>2, DaemonMoves
<1>4. ASSUME NEW g \in Ids, EndIdle(g) PROVE FullInv'
  <2>1. StreamOK(Bounds)' /\ client'.epoch = client.epoch /\ FlowOK'
    BY <1>1, <1>4, EndIdleKeeps, EndIdleFlows
  <2>2. UNCHANGED <<host, toClient>> /\ TurnsOK'
    BY <1>1, <1>4 DEF EndIdle, TurnsOK
  <2> QED
    BY <2>1, <2>2, DaemonMoves
<1>5. ASSUME NEW k \in Keys, Elapse(k) PROVE FullInv'
  <2>1. StreamOK(Bounds)' /\ client'.epoch = client.epoch /\ FlowOK'
    BY <1>1, <1>5, ElapseKeeps, ElapseFlows
  <2>2. UNCHANGED <<host, toClient>> /\ TurnsOK'
    BY <1>1, <1>5 DEF Elapse, TurnsOK
  <2> QED
    BY <2>1, <2>2, DaemonMoves
<1>6. ASSUME NEW k \in Keys, FlushTimer(k) PROVE FullInv'
  <2>1. StreamOK(Bounds)' /\ client'.epoch = client.epoch /\ FlowOK'
    BY <1>1, <1>6, FlushTimerKeeps, FlushTimerFlows
  <2>2. UNCHANGED <<host, toClient>> /\ TurnsOK'
    BY <1>1, <1>6 DEF FlushTimer, TurnsOK
  <2> QED
    BY <2>1, <2>2, DaemonMoves
<1>7. CASE NavFallback
  <2>1. StreamOK(Bounds)' /\ client'.epoch = client.epoch /\ FlowOK'
    BY <1>1, <1>7, NavFallbackKeeps, NavFallbackFlows
  <2>2. UNCHANGED <<host, toClient>> /\ TurnsOK'
    BY <1>1, <1>7 DEF NavFallback, TurnsOK
  <2> QED
    BY <2>1, <2>2, DaemonMoves
<1>8. CASE ReadAck
  BY <1>8, ReadAckDone
<1>9. ASSUME NEW rule \in {FALSE, Rules}, ReadContext(rule) PROVE FullInv'
  BY <1>9, ReadContextDone
<1>10. ASSUME NEW changes \in SUBSET Controls, NEW now \in BOOLEAN, HostControl(changes, now)
       PROVE  FullInv'
  BY <1>10, HostControlDone
<1>11. ASSUME NEW changes \in SUBSET Controls, NEW now \in BOOLEAN, HostApply(changes, now)
       PROVE  FullInv'
  BY <1>11, HostApplyDone
<1>12. ASSUME NEW now \in BOOLEAN, HostFocus(now) PROVE FullInv'
  BY <1>12, HostFocusDone
<1>13. ASSUME NEW now \in BOOLEAN, HostSeek(now) PROVE FullInv'
  BY <1>13, HostSeekDone
<1>14. CASE HostIdle
  BY <1>14, HostIdleDone
<1>15. CASE HostEmit
  BY <1>15, HostEmitDone
<1>16. CASE UNCHANGED vars
  <2>1. UNCHANGED <<client, host, toHost, toClient, turns>>
    BY <1>16 DEF vars
  <2>2. FlowOK'
    BY <1>1, <2>1 DEF FlowOK, HostNow, Flows, OnWay, SlotsOK, Live
  <2>3. HostOK' /\ ToldOK'
    BY <2>1 DEF FullInv, HostOK, ToldOK, NoTwins, LateEnds
  <2> QED
    BY <2>1, <2>2, <2>3, HostDone DEF CallTaken
<1> QED
  BY <1>2, <1>3, <1>4, <1>5, <1>6, <1>7, <1>8, <1>9, <1>10, <1>11, <1>12, <1>13, <1>14, <1>15,
     <1>16 DEF Next

(* In every reachable state, whatever the user and Kdenlive do: calls come   *)
(* in the order of their gestures and epochs, those of an ended gesture      *)
(* close with its end, the gesture Kdenlive has open is of its epoch, and    *)
(* what was applied of a gesture, is on its way and waits in its slot is     *)
(* what it was turned.                                                       *)
THEOREM CallsFlow == Spec => []FullInv
<1>1. Init => FullInv
  BY FullStart
<1>2. FullInv /\ [Next]_vars => FullInv'
  BY FullStep
<1> QED
  BY <1>1, <1>2, PTL DEF Spec

(* The state has its type: no more gestures than there are ids, and no more  *)
(* slots than Kdenlive accepts keys (DeltaCoalescer::add).                   *)
THEOREM ControlTypeCorrect == Spec => []TypeOK
<1>1. FullInv => TypeOK
  <2> SUFFICES ASSUME FullInv PROVE TypeOK
    OBVIOUS
  <2>1. /\ client \in ClientT(Bounds) /\ client.out = <<>> /\ SlotsOK(client) /\ RoomOK(client)
        /\ toHost \in Seq(CallT(Bounds)) /\ host \in Hosts /\ host.out = <<>>
        /\ toClient \in Seq(Messages) /\ turns \in 0..MaxTurns
    BY DEF FullInv, StreamOK, Core, FlowOK, Flows, Flow, HostOK, ToldOK, TurnsOK
  <2>2. Gesture = GestureT(Bounds) /\ Call = CallT(Bounds) /\ Call = Calls
    BY DEF Gesture, GestureT, Call, CallT, Calls, Bounds, Fates
  <2>3. client \in ClientState
    <3>1. Bounds.epochs = 1..MaxEpoch /\ Bounds.spots = 0..MaxPos
      BY DEF Bounds
    <3>2. 1..MaxEpoch \cup {None} = 0..MaxEpoch
      BY ControlAssumption DEF None
    <3> HIDE DEF Bounds
    <3> QED
      BY <2>1, <2>2, <3>1, <3>2 DEF ClientT, ClientState
  <2>4. host \in HostState
    BY <2>1, <2>2 DEF Hosts, HostState
  <2> QED
    BY <2>1, <2>2, <2>3, <2>4 DEF TypeOK, SlotsOK, RoomOK, Messages
<1> QED
  BY <1>1, CallsFlow, PTL

(* What Kdenlive is sent can be sorted out by it: one update of a key in     *)
(* flight, one gesture at a time, and no more steps than it retains.         *)
THEOREM HostFollows == Spec => []HostCanFollow
<1>1. FullInv => OneGestureAtATime
  BY DEF FullInv, FlowOK, Flows, Flow, CutOK, FateOf, OneGestureAtATime
<1> QED
  BY <1>1, CallsFlow, KdenliveCanFollow, PTL DEF HostCanFollow

(* Kdenlive applies all the detents of a gesture that was ended, and none    *)
(* twice, unless its target changed meanwhile.                               *)
THEOREM EndedGesturesAreWhole == Spec => []EndedGestureIsWhole
<1>1. FullInv => EndedGestureIsWhole
  <2> SUFFICES ASSUME FullInv, NEW g \in 1..Len(client.gestures),
                      client.gestures[g].fate = "ended",
                      client.gestures[g].epoch = host.epoch, ~OnTheWay(g)
               PROVE  host.applied[g] = client.gestures[g].turned
    BY DEF EndedGestureIsWhole
  <2>1. FlowOK /\ HostOK
    BY DEF FullInv
  <2>2. /\ client \in Daemons /\ SlotsOK(client) /\ toHost \in Seq(Calls)
        /\ host.pending \in Seq(Calls) /\ OnWay = host.pending \o toHost
        /\ Flow(OnWay, client, host) /\ OnWay \in Seq(Calls)
    BY <2>1, HostStarts
  <2>3. Balance(OnWay, g, host.applied[g], client.gestures[g].turned - SlotN(client, g))
    BY <2>2 DEF Flow, WholeOK, FateOf
  <2>4. Joined(OnWay, host.pending, toHost)
    BY <2>2, JoinedIs
  <2>5. \A i \in 1..Len(OnWay) : OnWay[i].key # g
    <3> TAKE i \in 1..Len(OnWay)
    <3>1. \/ i \in 1..Len(host.pending) /\ OnWay[i] = host.pending[i]
          \/ \E j \in 1..Len(toHost) : i = Len(host.pending) + j /\ OnWay[i] = toHost[j]
      BY <2>4, IndexOf
    <3> QED
      BY <3>1 DEF OnTheWay
  <2>6. g \in Ids /\ client.gestures[g].turned \in Int
    BY <2>2, DaemonIs
  <2>7. SlotN(client, g) = 0
    BY <2>2, <2>6 DEF SlotsOK, Live, SlotN
  <2>8. Len(OnWay) \in Nat
    BY <2>2
  <2>9. host.applied[g] = client.gestures[g].turned - SlotN(client, g)
    BY <2>3, <2>5, <2>8, BalanceOfNone
  <2> QED
    BY <2>6, <2>7, <2>9
<1> QED
  BY <1>1, CallsFlow, PTL
=============================================================================
