--------------------------- MODULE PadCore_proofs ---------------------------
(* Proofs about the pad's core: what a key or a detent puts down on the host *)
(* comes up again, for every keymap, and raw mode looks like RawPad from     *)
(* outside, for every set of slots, every timeout and width of the counters. *)
EXTENDS PadCore, SequenceTheorems, WellFoundedInduction, TLAPS

(* The keyboard side as PadCore!Side has it.                                 *)
Hosts == [down : SUBSET (Usages \ Mods), mods : SUBSET Mods]
Momentaries == [layer : Layers \cup {NoLayer}, slot : Slots \cup {NoKey}]
TapStates == [slot : Dirs \cup {NoKey}, action : Actions, age : 0..TapGap]
Sides == [held : [Slots -> Actions], layer : Layers, momentary : Momentaries, host : Hosts,
          tap : TapStates, rawHeld : SUBSET Slots, sent : Nat]

(* What a slot may go down with, and the keys that are held or being typed.  *)
Carried(s) == {Defaults[l][s] : l \in Layers} \cup EditActions \cup {NoAction}
TypedKeys(h, t) == {a \in {h[s] : s \in Slots} \cup {t.action} : IsKey(a)}

HeldOK(h) == (\A s \in Slots : h[s] \in Carried(s)) /\ \A d \in Dirs : h[d] = NoAction
TapOK(t) == t = NoTap \/ (t.slot \in Dirs /\ t.action \in Carried(t.slot))
MomentaryOK(m, h) ==
  m.layer # NoLayer => /\ m.slot \in Slots /\ IsLayer(h[m.slot])
                       /\ h[m.slot].op = "MOMENTARY" /\ h[m.slot].target = m.layer

(* What is down on the host is one of those keys, or one of their modifiers; *)
(* and each of them is down, as far as no other may lift it.                 *)
HostOK(o, as) ==
  /\ \A u \in o.down : \E a \in as : a.usage = u
  /\ \A m \in o.mods : \E a \in as : m \in a.mods \/ m = a.usage
  /\ \A a \in as : Own(a.usage) => a.usage \in o.down
  /\ \A a \in as : \A m \in a.mods : m \notin Usages => m \in o.mods

SideOK(k) ==
  /\ HeldOK(k.held) /\ TapOK(k.tap) /\ MomentaryOK(k.momentary, k.held)
  /\ HostOK(k.host, TypedKeys(k.held, k.tap))

-----------------------------------------------------------------------------
(* A key's usage is one of the usages, its modifiers are modifiers.          *)
LEMMA KeyTypes ==
  ASSUME NEW a \in Actions, IsKey(a)
  PROVE  a.usage \in Usages /\ a.mods \subseteq Mods /\ ModsOf(a) = a.mods
  BY ActionAssumption DEF Usages, ModsOf

(* No detent being typed is one of the states of that.                       *)
LEMMA NoTapIs == NoTap \in TapStates /\ NoTap.action = NoAction /\ 0 \in 0..TapGap
  BY CoreAssumption DEF NoTap, TapStates, Actions

(* What a slot can be carrying is an action. *)
LEMMA CarriedAreActions ==
  ASSUME NEW s \in Slots
  PROVE  Carried(s) \subseteq Actions
  BY DEF Carried, Actions

(* No two slots can carry the same key of their own.                         *)
LEMMA OwnSlots ==
  ASSUME NEW s \in Slots, NEW t \in Slots, s # t, NEW a \in Carried(s), NEW b \in Carried(t),
         IsKey(a), IsKey(b), Own(a.usage)
  PROVE  b.usage # a.usage
<1> SUFFICES ASSUME b.usage = a.usage PROVE FALSE
  OBVIOUS
<1>1. a \notin EditActions /\ b \notin EditActions /\ a # NoAction /\ b # NoAction
  BY DEF Own, IsKey
<1>2. s \in Carriers(a.usage)
  BY <1>1 DEF Carried, Carriers
<1>3. t \in Carriers(a.usage)
  BY <1>1 DEF Carried, Carriers
<1> QED
  BY <1>2, <1>3 DEF Own

(* What changes when one slot goes down or comes up.                         *)
LEMMA DownKeys ==
  ASSUME NEW h \in [Slots -> Actions], NEW t, NEW s \in Slots, h[s] = NoAction, NEW a
  PROVE  TypedKeys([h EXCEPT ![s] = a], t) = TypedKeys(h, t) \cup {b \in {a} : IsKey(b)}
<1>1. ~IsKey(h[s])
  BY DEF IsKey
<1>2. \A b : b \in TypedKeys([h EXCEPT ![s] = a], t) <=> b \in TypedKeys(h, t) \/ (b = a /\ IsKey(b))
  BY <1>1 DEF TypedKeys
<1>3. TypedKeys([h EXCEPT ![s] = a], t) \subseteq TypedKeys(h, t) \cup {b \in {a} : IsKey(b)}
  BY <1>2
<1>4. TypedKeys(h, t) \cup {b \in {a} : IsKey(b)} \subseteq TypedKeys([h EXCEPT ![s] = a], t)
  BY <1>2
<1> QED
  BY <1>3, <1>4

(* The keys a side types are those of the other slots and of this one. *)
LEMMA UpKeys ==
  ASSUME NEW h \in [Slots -> Actions], NEW t, NEW s \in Slots
  PROVE  TypedKeys(h, t) = TypedKeys([h EXCEPT ![s] = NoAction], t) \cup {b \in {h[s]} : IsKey(b)}
<1>1. \A b : b \in TypedKeys(h, t) <=>
               b \in TypedKeys([h EXCEPT ![s] = NoAction], t) \/ (b = h[s] /\ IsKey(b))
  BY DEF TypedKeys, IsKey
<1>2. TypedKeys(h, t) \subseteq TypedKeys([h EXCEPT ![s] = NoAction], t) \cup {b \in {h[s]} : IsKey(b)}
  BY <1>1
<1>3. TypedKeys([h EXCEPT ![s] = NoAction], t) \cup {b \in {h[s]} : IsKey(b)} \subseteq TypedKeys(h, t)
  BY <1>1
<1> QED
  BY <1>2, <1>3

(* Typed keys are actions, and the modifiers needed are theirs. *)
LEMMA KeysAreActions ==
  ASSUME NEW k \in Sides
  PROVE  /\ \A a \in TypedKeys(k.held, k.tap) : a \in Actions /\ IsKey(a)
         /\ Needed(k) = UNION {a.mods : a \in TypedKeys(k.held, k.tap)}
<1>1. k.held \in [Slots -> Actions] /\ k.tap.action \in Actions
  BY DEF Sides, TapStates
<1>2. \A a \in TypedKeys(k.held, k.tap) : a \in Actions /\ IsKey(a)
  BY <1>1 DEF TypedKeys
<1>3. \A m : m \in Needed(k) <=> (\E s \in Slots : m \in ModsOf(k.held[s])) \/ m \in ModsOf(k.tap.action)
  <2> DEFINE ms == UNION {ModsOf(k.held[s]) : s \in Slots}
  <2>1. \A m : m \in ms <=> \E s \in Slots : m \in ModsOf(k.held[s])
    OBVIOUS
  <2>2. Needed(k) = ms \cup ModsOf(k.tap.action)
    BY DEF Needed
  <2> HIDE DEF ms
  <2> QED
    BY <2>1, <2>2
<1>4. \A m : m \in UNION {a.mods : a \in TypedKeys(k.held, k.tap)}
               <=> (\E s \in Slots : IsKey(k.held[s]) /\ m \in k.held[s].mods)
                   \/ (IsKey(k.tap.action) /\ m \in k.tap.action.mods)
  BY DEF TypedKeys
<1>5. \A m : m \in Needed(k) <=> m \in UNION {a.mods : a \in TypedKeys(k.held, k.tap)}
  BY <1>3, <1>4 DEF ModsOf
<1> QED
  BY <1>2, <1>5

(* KBD_pressUsage: a key more.                                               *)
LEMMA PressKeeps ==
  ASSUME NEW k \in Sides, NEW a \in Actions, NEW as, HostOK(k.host, as)
  PROVE  LET q == HwPress(k, a)
         IN /\ q \in Sides
            /\ q.held = k.held /\ q.tap = k.tap /\ q.momentary = k.momentary /\ q.layer = k.layer
            /\ q.rawHeld = k.rawHeld /\ q.sent = k.sent
            /\ HostOK(q.host, as \cup {b \in {a} : IsKey(b)})
<1>1. CASE ~IsKey(a)
  <2>1. as \cup {b \in {a} : IsKey(b)} = as
    BY <1>1
  <2> QED
    BY <1>1, <2>1 DEF HwPress
<1>2. CASE IsKey(a)
  <2> DEFINE o == [down |-> k.host.down \cup ({a.usage} \ Mods),
                   mods |-> k.host.mods \cup a.mods \cup ({a.usage} \cap Mods)]
  <2>1. HwPress(k, a) = [k EXCEPT !.host = o]
    BY <1>2 DEF HwPress
  <2>2. k.host \in Hosts /\ a.usage \in Usages /\ a.mods \subseteq Mods
    BY <1>2, KeyTypes DEF Sides
  <2>3. /\ o \in Hosts /\ o.down = k.host.down \cup ({a.usage} \ Mods)
        /\ o.mods = k.host.mods \cup a.mods \cup ({a.usage} \cap Mods)
    BY <2>2 DEF Hosts
  <2>4. as \cup {b \in {a} : IsKey(b)} = as \cup {a}
    BY <1>2
  <2>5. HostOK(o, as \cup {a})
    BY <2>3 DEF HostOK, Own
  <2> HIDE DEF o
  <2> QED
    BY <2>1, <2>3, <2>4, <2>5 DEF Sides
<1> QED
  BY <1>1, <1>2

(* PAD_hwRelease: a key less, which is not held or typed any more.           *)
LEMMA ReleaseKeeps ==
  ASSUME NEW k \in Sides, NEW a \in Actions,
         HostOK(k.host, TypedKeys(k.held, k.tap) \cup {b \in {a} : IsKey(b)}),
         \A b \in TypedKeys(k.held, k.tap) : IsKey(a) /\ Own(a.usage) => b.usage # a.usage
  PROVE  LET q == HwRelease(k, a)
         IN /\ q \in Sides
            /\ q.held = k.held /\ q.tap = k.tap /\ q.momentary = k.momentary /\ q.layer = k.layer
            /\ q.rawHeld = k.rawHeld /\ q.sent = k.sent
            /\ HostOK(q.host, TypedKeys(k.held, k.tap))
<1> DEFINE as == TypedKeys(k.held, k.tap)
<1>1. CASE ~IsKey(a)
  <2>1. as \cup {b \in {a} : IsKey(b)} = as
    BY <1>1
  <2> QED
    BY <1>1, <2>1 DEF HwRelease
<1>2. CASE IsKey(a)
  <2> DEFINE o == [down |-> k.host.down \ {a.usage},
                   mods |-> (k.host.mods \ {a.usage}) \ (a.mods \ Needed(k))]
  <2>1. HwRelease(k, a) = [k EXCEPT !.host = o]
    BY <1>2 DEF HwRelease
  <2>2. k.host \in Hosts /\ a.usage \in Usages /\ a.mods \subseteq Mods
    BY <1>2, KeyTypes DEF Sides
  <2>3. /\ o \in Hosts /\ o.down = k.host.down \ {a.usage}
        /\ o.mods = (k.host.mods \ {a.usage}) \ (a.mods \ Needed(k))
    BY <2>2 DEF Hosts
  <2>4. as \cup {b \in {a} : IsKey(b)} = as \cup {a}
    BY <1>2
  <2>5. HostOK(k.host, as \cup {a})
    BY <2>4
  <2>6. \A b \in as : b \in Actions /\ IsKey(b) /\ b.usage \in Usages
    BY KeysAreActions, KeyTypes
  <2>7. Needed(k) = UNION {b.mods : b \in as}
    BY KeysAreActions
  <2> HIDE DEF as, o
  <2>8. \A u \in o.down : \E b \in as : b.usage = u
    BY <2>3, <2>5 DEF HostOK
  <2>9. \A m \in o.mods : \E b \in as : m \in b.mods \/ m = b.usage
    <3> SUFFICES ASSUME NEW m \in o.mods PROVE \E b \in as : m \in b.mods \/ m = b.usage
      OBVIOUS
    <3>1. PICK b \in as \cup {a} : m \in b.mods \/ m = b.usage
      BY <2>3, <2>5 DEF HostOK
    <3>2. CASE b \in as
      BY <3>1, <3>2
    <3>3. CASE b = a
      BY <2>3, <2>7, <3>1, <3>3
    <3> QED
      BY <3>2, <3>3
  <2>10. \A b \in as : Own(b.usage) => b.usage \in o.down
    BY <1>2, <2>3, <2>5 DEF HostOK, as
  <2>11. \A b \in as : \A m \in b.mods : m \notin Usages => m \in o.mods
    <3> SUFFICES ASSUME NEW b \in as, NEW m \in b.mods, m \notin Usages PROVE m \in o.mods
      OBVIOUS
    <3>1. m \in k.host.mods
      BY <2>5 DEF HostOK
    <3>2. m \in Needed(k)
      BY <2>7
    <3> QED
      BY <2>2, <2>3, <3>1, <3>2
  <2>12. HostOK(o, as)
    BY <2>8, <2>9, <2>10, <2>11 DEF HostOK
  <2> QED
    BY <2>1, <2>3, <2>12 DEF Sides, as
<1> QED
  BY <1>1, <1>2

-----------------------------------------------------------------------------
(* One slot's entry in held.                                                 *)
LEMMA HeldSet ==
  ASSUME NEW k \in Sides, NEW s \in Slots, NEW a \in Actions
  PROVE  LET q == [k EXCEPT !.held[s] = a]
         IN /\ q \in Sides
            /\ q.held = [k.held EXCEPT ![s] = a]
            /\ q.tap = k.tap /\ q.momentary = k.momentary /\ q.layer = k.layer
            /\ q.host = k.host /\ q.rawHeld = k.rawHeld /\ q.sent = k.sent
<1> DEFINE h == [k.held EXCEPT ![s] = a]
<1>1. h \in [Slots -> Actions]
  BY DEF Sides
<1>2. [k EXCEPT !.held[s] = a] = [k EXCEPT !.held = h]
  BY DEF Sides
<1> HIDE DEF h
<1>3. [k EXCEPT !.held = h] \in Sides /\ [k EXCEPT !.held = h].held = h
  BY <1>1 DEF Sides
<1> QED
  BY <1>2, <1>3 DEF h, Sides

(* While a slot is up, no other types a key that slot alone has.             *)
LEMMA OtherKeys ==
  ASSUME NEW k \in Sides, HeldOK(k.held), TapOK(k.tap), NEW s \in Slots \ Dirs,
         k.held[s] = NoAction, NEW a \in Carried(s), IsKey(a), Own(a.usage)
  PROVE  \A b \in TypedKeys(k.held, k.tap) : b.usage # a.usage
<1> SUFFICES ASSUME NEW b \in TypedKeys(k.held, k.tap) PROVE b.usage # a.usage
  OBVIOUS
<1>1. IsKey(b) /\ b # NoAction
  BY DEF TypedKeys, IsKey
<1>2. CASE \E t \in Slots : b = k.held[t]
  <2>1. PICK t \in Slots : b = k.held[t]
    BY <1>2
  <2>2. t # s /\ b \in Carried(t)
    BY <1>1, <2>1 DEF HeldOK
  <2> QED
    BY <1>1, <2>2, OwnSlots
<1>3. CASE b = k.tap.action
  <2>1. k.tap.slot \in Dirs /\ b \in Carried(k.tap.slot)
    BY <1>1, <1>3 DEF TapOK, NoTap
  <2>2. k.tap.slot \in Slots /\ k.tap.slot # s
    BY <2>1 DEF Slots
  <2> QED
    BY <1>1, <2>1, <2>2, OwnSlots
<1> QED
  BY <1>2, <1>3 DEF TypedKeys

(* PAD_event, an UP: the slot releases what its DOWN pressed.                *)
LEMMA UpKeeps ==
  ASSUME NEW k \in Sides, SideOK(k), NEW s \in Slots \ Dirs, k.held[s] # NoAction
  PROVE  LET q == ActionUp(k, s)
         IN q \in Sides /\ SideOK(q) /\ q.rawHeld = k.rawHeld /\ q.sent = k.sent
<1> DEFINE a == k.held[s]
           up == [k EXCEPT !.held[s] = NoAction]
<1>1. a \in Actions /\ a \in Carried(s) /\ NoAction \in Actions /\ k.held \in [Slots -> Actions]
  BY DEF Sides, SideOK, HeldOK, Actions
<1>2. /\ up \in Sides /\ up.held = [k.held EXCEPT ![s] = NoAction]
      /\ up.tap = k.tap /\ up.momentary = k.momentary /\ up.layer = k.layer
      /\ up.host = k.host /\ up.rawHeld = k.rawHeld /\ up.sent = k.sent
  BY <1>1, HeldSet
<1>3. TypedKeys(k.held, k.tap) = TypedKeys(up.held, up.tap) \cup {b \in {a} : IsKey(b)}
  BY <1>1, <1>2, UpKeys
<1>4. HeldOK(up.held) /\ TapOK(up.tap) /\ up.held[s] = NoAction
  BY <1>1, <1>2 DEF SideOK, HeldOK, Carried
<1>5. ActionUp(k, s) = IF IsLayer(a) THEN LayerUp(up, a, s) ELSE HwRelease(up, a)
  BY DEF ActionUp
<1>6. up.momentary.layer # NoLayer /\ up.momentary.slot # s => MomentaryOK(up.momentary, up.held)
  BY <1>1, <1>2 DEF SideOK, MomentaryOK
<1>7. up.momentary.layer # NoLayer /\ up.momentary.slot = s => IsLayer(a) /\ a.op = "MOMENTARY"
  BY <1>2 DEF SideOK, MomentaryOK
<1> HIDE DEF up
<1>8. CASE ~IsLayer(a)
  <2>1. \A b \in TypedKeys(up.held, up.tap) : IsKey(a) /\ Own(a.usage) => b.usage # a.usage
    BY <1>1, <1>2, <1>4, OtherKeys
  <2>2. HostOK(up.host, TypedKeys(up.held, up.tap) \cup {b \in {a} : IsKey(b)})
    BY <1>2, <1>3 DEF SideOK
  <2> DEFINE q == HwRelease(up, a)
  <2>3. /\ q \in Sides
        /\ q.held = up.held /\ q.tap = up.tap /\ q.momentary = up.momentary /\ q.layer = up.layer
        /\ q.rawHeld = up.rawHeld /\ q.sent = up.sent
        /\ HostOK(q.host, TypedKeys(up.held, up.tap))
    BY <1>1, <1>2, <2>1, <2>2, ReleaseKeeps
  <2>4. MomentaryOK(up.momentary, up.held)
    BY <1>6, <1>7, <1>8 DEF MomentaryOK
  <2> HIDE DEF q
  <2>5. SideOK(q)
    BY <1>4, <2>3, <2>4 DEF SideOK
  <2> QED
    BY <1>2, <1>5, <1>8, <2>3, <2>5 DEF q
<1>9. CASE IsLayer(a)
  <2>1. TypedKeys(up.held, up.tap) = TypedKeys(k.held, k.tap)
    <3>1. ~IsKey(a)
      BY <1>9 DEF IsKey, IsLayer
    <3> QED
      BY <1>3, <3>1
  <2>2. HostOK(up.host, TypedKeys(up.held, up.tap))
    BY <1>2, <2>1 DEF SideOK
  <2>3. CASE a.op = "MOMENTARY" /\ up.momentary.slot = s
    <3> DEFINE q == [up EXCEPT !.momentary = [layer |-> NoLayer, slot |-> NoKey]]
    <3>1. /\ q \in Sides /\ q.momentary = [layer |-> NoLayer, slot |-> NoKey]
          /\ q.held = up.held /\ q.tap = up.tap /\ q.host = up.host
          /\ q.rawHeld = up.rawHeld /\ q.sent = up.sent
      BY <1>2 DEF Sides, Momentaries
    <3> HIDE DEF q
    <3>2. SideOK(q)
      BY <1>4, <2>2, <3>1 DEF SideOK, MomentaryOK
    <3> QED
      BY <1>2, <1>5, <1>9, <2>3, <3>1, <3>2 DEF LayerUp, q
  <2>4. CASE ~(a.op = "MOMENTARY" /\ up.momentary.slot = s)
    <3>1. MomentaryOK(up.momentary, up.held)
      BY <1>6, <1>7, <2>4 DEF MomentaryOK
    <3>2. SideOK(up)
      BY <1>4, <2>2, <3>1 DEF SideOK
    <3> QED
      BY <1>2, <1>5, <1>9, <2>4, <3>2 DEF LayerUp
  <2> QED
    BY <2>3, <2>4
<1> QED
  BY <1>8, <1>9

(* A layer action changes the layers only.                                   *)
LEMMA LayerDownIs ==
  ASSUME NEW k \in Sides, NEW s \in Slots, NEW a \in Actions, IsLayer(a)
  PROVE  LET q == LayerDown(k, a, s)
         IN /\ q \in Sides /\ q.held = k.held /\ q.tap = k.tap /\ q.host = k.host
            /\ q.rawHeld = k.rawHeld /\ q.sent = k.sent
            /\ \/ a.op # "MOMENTARY" /\ q.momentary = k.momentary
               \/ a.op = "MOMENTARY" /\ q.momentary = [layer |-> a.target, slot |-> s]
<1>1. a.op \in {"TOGGLE", "SET", "MOMENTARY"} /\ a.target \in Layers /\ {0, 1} \subseteq Layers
  BY ActionAssumption, CoreAssumption
<1>2. CASE a.op = "TOGGLE"
  BY <1>1, <1>2 DEF LayerDown, Sides
<1>3. CASE a.op = "SET"
  BY <1>1, <1>3 DEF LayerDown, Sides
<1>4. CASE a.op = "MOMENTARY"
  BY <1>1, <1>4 DEF LayerDown, Sides, Momentaries
<1> QED
  BY <1>1, <1>2, <1>3, <1>4

(* PAD_event, a DOWN: the slot keeps the action it goes down with.           *)
LEMMA DownKeeps ==
  ASSUME NEW k \in Sides, SideOK(k), NEW s \in Slots \ Dirs, k.held[s] = NoAction,
         NEW a \in Carried(s)
  PROVE  LET down == [k EXCEPT !.held[s] = a]
             q == IF IsLayer(a) THEN LayerDown(down, a, s) ELSE HwPress(down, a)
         IN q \in Sides /\ SideOK(q) /\ q.rawHeld = k.rawHeld /\ q.sent = k.sent
<1> DEFINE down == [k EXCEPT !.held[s] = a]
<1>1. a \in Actions /\ k.held \in [Slots -> Actions]
  BY CarriedAreActions DEF Sides
<1>2. /\ down \in Sides /\ down.held = [k.held EXCEPT ![s] = a]
      /\ down.tap = k.tap /\ down.momentary = k.momentary /\ down.layer = k.layer
      /\ down.host = k.host /\ down.rawHeld = k.rawHeld /\ down.sent = k.sent
  BY <1>1, HeldSet
<1>3. TypedKeys(down.held, down.tap) = TypedKeys(k.held, k.tap) \cup {b \in {a} : IsKey(b)}
  BY <1>1, <1>2, DownKeys
<1>4. HeldOK(down.held) /\ TapOK(down.tap) /\ down.held[s] = a
  BY <1>1, <1>2 DEF SideOK, HeldOK
<1>5. MomentaryOK(down.momentary, down.held)
  BY <1>1, <1>2 DEF SideOK, MomentaryOK, IsLayer
<1> HIDE DEF down
<1>6. CASE ~IsLayer(a)
  <2> DEFINE q == HwPress(down, a)
  <2>1. /\ q \in Sides
        /\ q.held = down.held /\ q.tap = down.tap /\ q.momentary = down.momentary
        /\ q.rawHeld = down.rawHeld /\ q.sent = down.sent
        /\ HostOK(q.host, TypedKeys(k.held, k.tap) \cup {b \in {a} : IsKey(b)})
    BY <1>1, <1>2, PressKeeps DEF SideOK
  <2> HIDE DEF q
  <2>2. SideOK(q)
    BY <1>3, <1>4, <1>5, <2>1 DEF SideOK
  <2> QED
    BY <1>2, <1>6, <2>1, <2>2 DEF q, down
<1>7. CASE IsLayer(a)
  <2> DEFINE q == LayerDown(down, a, s)
  <2>1. /\ q \in Sides /\ q.held = down.held /\ q.tap = down.tap /\ q.host = down.host
        /\ q.rawHeld = down.rawHeld /\ q.sent = down.sent
        /\ \/ a.op # "MOMENTARY" /\ q.momentary = down.momentary
           \/ a.op = "MOMENTARY" /\ q.momentary = [layer |-> a.target, slot |-> s]
    BY <1>1, <1>2, <1>7, LayerDownIs
  <2> HIDE DEF q
  <2>2. HostOK(q.host, TypedKeys(q.held, q.tap))
    <3>1. ~IsKey(a)
      BY <1>7 DEF IsKey, IsLayer
    <3>2. TypedKeys(down.held, down.tap) = TypedKeys(k.held, k.tap)
      BY <1>3, <3>1
    <3> QED
      BY <1>2, <2>1, <3>2 DEF SideOK
  <2>3. MomentaryOK(q.momentary, q.held)
    BY <1>4, <1>5, <1>7, <2>1 DEF MomentaryOK
  <2>4. SideOK(q)
    BY <1>4, <2>1, <2>2, <2>3 DEF SideOK
  <2> QED
    BY <1>2, <1>7, <2>1, <2>4 DEF q, down
<1> QED
  BY <1>6, <1>7

(* The keymap, as SET_ACTION may have edited it.                             *)
KeymapOK ==
  /\ keymap \in [Layers -> [Slots -> Actions]]
  /\ \A l \in Layers : \A s \in Slots : keymap[l][s] \in Carried(s)

(* One event on the keymap.                                                  *)
LEMMA KeymapEventKeeps ==
  ASSUME KeymapOK, NEW k \in Sides, SideOK(k), NEW s \in Slots \ Dirs, NEW kind
  PROVE  LET q == KeymapEvent(k, [kind |-> kind, slot |-> s])
         IN q \in Sides /\ SideOK(q) /\ q.rawHeld = k.rawHeld /\ q.sent = k.sent
<1> DEFINE a == keymap[LayerOf(k)][s]
           down == [k EXCEPT !.held[s] = a]
           e == [kind |-> kind, slot |-> s]
<1>1. LayerOf(k) \in Layers
  BY DEF LayerOf, Sides, Momentaries
<1>2. a \in Carried(s)
  BY <1>1 DEF KeymapOK
<1>3. e.kind = kind /\ e.slot = s
  OBVIOUS
<1>4. KeymapEvent(k, e) =
        IF kind = "UP"
        THEN IF k.held[s] = NoAction THEN k ELSE ActionUp(k, s)
        ELSE IF k.held[s] # NoAction \/ a = NoAction THEN k
             ELSE IF IsLayer(a) THEN LayerDown(down, a, s) ELSE HwPress(down, a)
  BY <1>3 DEF KeymapEvent
<1> HIDE DEF e
<1>5. CASE kind = "UP" /\ k.held[s] # NoAction
  <2>1. KeymapEvent(k, e) = ActionUp(k, s)
    BY <1>4, <1>5
  <2> QED
    BY <1>5, <2>1, UpKeeps DEF e
<1>6. CASE kind # "UP" /\ k.held[s] = NoAction /\ a # NoAction
  <2>1. KeymapEvent(k, e) = IF IsLayer(a) THEN LayerDown(down, a, s) ELSE HwPress(down, a)
    BY <1>4, <1>6
  <2> QED
    BY <1>2, <1>6, <2>1, DownKeeps DEF e
<1>7. CASE IF kind = "UP" THEN k.held[s] = NoAction ELSE k.held[s] # NoAction \/ a = NoAction
  <2>1. KeymapEvent(k, e) = k
    BY <1>4, <1>7
  <2> QED
    BY <2>1 DEF e
<1> QED
  BY <1>5, <1>6, <1>7

(* One key's event in a pass of PAD_poll, in keymap mode and in raw mode.    *)
LEMMA EventKeeps ==
  ASSUME ~PadActive, KeymapOK, NEW k \in Sides, SideOK(k), NEW on, NEW kind, NEW s,
         on => s \in Slots \ Dirs
  PROVE  LET q == Event(on, k, kind, s)
         IN q \in Sides /\ SideOK(q) /\ q.rawHeld = k.rawHeld /\ q.sent = k.sent
<1>1. CASE on
  <2>1. Event(on, k, kind, s) = KeymapEvent(k, [kind |-> kind, slot |-> s])
    BY <1>1 DEF Event, PadEvent
  <2>2. s \in Slots \ Dirs
    BY <1>1
  <2> QED
    BY <2>1, <2>2, KeymapEventKeeps
<1>2. CASE ~on
  BY <1>2 DEF Event
<1> QED
  BY <1>1, <1>2

RawAfter(q, k, on, kind, s) ==
  /\ q \in Sides
  /\ q.held = k.held /\ q.tap = k.tap /\ q.momentary = k.momentary /\ q.host = k.host
  /\ q.rawHeld = IF ~on THEN k.rawHeld
                 ELSE IF kind = "DOWN" THEN k.rawHeld \cup {s} ELSE k.rawHeld \ {s}
  /\ q.sent = k.sent + (IF on /\ (kind = "DOWN" \/ s \in k.rawHeld) THEN 1 ELSE 0)

(* One key event with nothing held: in raw mode it is a report, in keymap *)
(* mode it leaves the raw session alone.                                  *)
LEMMA RawEventIs ==
  ASSUME PadActive, NEW k \in Sides, \A s \in Slots : k.held[s] = NoAction,
         NEW on, NEW kind \in {"DOWN", "UP"}, NEW s, on => s \in Slots
  PROVE  RawAfter(Event(on, k, kind, s), k, on, kind, s)
<1> USE DEF RawAfter
<1>2. CASE ~on
  <2>1. Event(on, k, kind, s) = k
    BY <1>2 DEF Event
  <2> QED
    BY <1>2, <2>1 DEF Sides
<1>3. CASE on /\ kind = "DOWN"
  <2> DEFINE r == k.rawHeld \cup {s}
             n == k.sent + 1
             q == [k EXCEPT !.rawHeld = r, !.sent = n]
  <2>1. r \in SUBSET Slots /\ n \in Nat
    BY <1>3 DEF Sides
  <2>2. Event(on, k, kind, s) = q
    BY <1>3, <2>1 DEF Event, PadEvent, RawEvent, Sides
  <2> HIDE DEF r, n
  <2>3. /\ q \in Sides
        /\ q.held = k.held /\ q.tap = k.tap /\ q.momentary = k.momentary /\ q.host = k.host
        /\ q.rawHeld = r /\ q.sent = n
    BY <2>1 DEF Sides
  <2> HIDE DEF q
  <2> QED
    BY <1>3, <2>2, <2>3 DEF r, n
<1>4. CASE on /\ kind = "UP" /\ s \in k.rawHeld
  <2> DEFINE r == k.rawHeld \ {s}
             n == k.sent + 1
             q == [k EXCEPT !.rawHeld = r, !.sent = n]
  <2>1. r \in SUBSET Slots /\ n \in Nat
    BY <1>4 DEF Sides
  <2>2. Event(on, k, kind, s) = q
    BY <1>4, <2>1 DEF Event, PadEvent, RawEvent, Sides
  <2> HIDE DEF r, n
  <2>3. /\ q \in Sides
        /\ q.held = k.held /\ q.tap = k.tap /\ q.momentary = k.momentary /\ q.host = k.host
        /\ q.rawHeld = r /\ q.sent = n
    BY <2>1 DEF Sides
  <2> HIDE DEF q
  <2> QED
    BY <1>4, <2>2, <2>3 DEF r, n
<1>5. CASE on /\ kind = "UP" /\ s \notin k.rawHeld
  <2>1. Event(on, k, kind, s) = k
    BY <1>5 DEF Event, PadEvent, RawEvent
  <2>2. k.sent = k.sent + 0 /\ k.rawHeld = k.rawHeld \ {s}
    BY <1>5 DEF Sides
  <2> QED
    BY <1>5, <2>1, <2>2
<1> QED
  BY <1>2, <1>3, <1>4, <1>5

(* Without a key held or typed, nothing is down.                             *)
Quiet(k) ==
  /\ k.tap = NoTap /\ \A s \in Slots : k.held[s] = NoAction
  /\ k.momentary.layer = NoLayer
  /\ k.host = [down |-> {}, mods |-> {}]

(* A side that types nothing is as it should be. *)
LEMMA QuietIsOK ==
  ASSUME NEW k \in Sides, Quiet(k)
  PROVE  SideOK(k)
<1>1. TypedKeys(k.held, k.tap) = {}
  BY DEF Quiet, TypedKeys, IsKey, NoTap
<1>2. HeldOK(k.held) /\ TapOK(k.tap) /\ MomentaryOK(k.momentary, k.held)
  BY DEF Quiet, HeldOK, TapOK, MomentaryOK, Carried, Slots
<1>3. HostOK(k.host, {})
  BY DEF Quiet, HostOK
<1> QED
  BY <1>1, <1>2, <1>3 DEF SideOK

(* With no slot held and no tap, nothing is down at the host and no momentary *)
(* layer is on.                                                               *)
LEMMA NothingTyped ==
  ASSUME NEW k \in Sides, SideOK(k), k.tap = NoTap, \A s \in Slots : k.held[s] = NoAction
  PROVE  k.host = [down |-> {}, mods |-> {}] /\ k.momentary.layer = NoLayer
<1>1. TypedKeys(k.held, k.tap) = {}
  BY DEF TypedKeys, IsKey, NoTap
<1>2. HostOK(k.host, {})
  BY <1>1 DEF SideOK
<1>3. k.host \in Hosts
  BY DEF Sides
<1>4. k.host.down = {} /\ k.host.mods = {}
  BY <1>2 DEF HostOK
<1> QED
  BY <1>3, <1>4 DEF Hosts, SideOK, MomentaryOK, IsLayer

(* PAD_releaseAll: everything is up again.                                   *)
LEMMA ReleaseAllIs ==
  ASSUME NEW k \in Sides, SideOK(k)
  PROVE  LET q == ReleaseAll(k)
         IN q \in Sides /\ Quiet(q) /\ q.rawHeld = k.rawHeld /\ q.sent = k.sent
<1> DEFINE up == TypedKeys(k.held, k.tap)
           o == Released(k, {k.held[s] : s \in Slots} \cup {k.tap.action})
           m == IF k.momentary.slot \in Slots /\ IsLayer(k.held[k.momentary.slot])
                     /\ k.held[k.momentary.slot].op = "MOMENTARY"
                THEN [layer |-> NoLayer, slot |-> NoKey] ELSE k.momentary
           h == [s \in Slots |-> NoAction]
<1>1. o = [down |-> k.host.down \ {a.usage : a \in up},
           mods |-> k.host.mods \ ((UNION {a.mods : a \in up}) \cup {a.usage : a \in up})]
  BY DEF Released, TypedKeys
<1> HIDE DEF up, o
<1>2. HostOK(k.host, up)
  BY DEF SideOK, up
<1>3. k.host.down \ {a.usage : a \in up} = {}
  BY <1>2 DEF HostOK
<1>4. k.host.mods \ ((UNION {a.mods : a \in up}) \cup {a.usage : a \in up}) = {}
  BY <1>2 DEF HostOK
<1>5. o = [down |-> {}, mods |-> {}] /\ o \in Hosts
  BY <1>1, <1>3, <1>4 DEF Hosts
<1>6. m \in Momentaries /\ m.layer = NoLayer
  BY DEF SideOK, MomentaryOK, Momentaries, Sides
<1>7. NoTap \in TapStates /\ h \in [Slots -> Actions]
  BY NoTapIs DEF Actions
<1>8. ReleaseAll(k) = [k EXCEPT !.tap = NoTap, !.held = h, !.momentary = m, !.host = o]
  BY DEF ReleaseAll, o, Sides
<1> HIDE DEF m, h
<1> DEFINE q == [k EXCEPT !.tap = NoTap, !.held = h, !.momentary = m, !.host = o]
<1>9. /\ q \in Sides /\ q.tap = NoTap /\ q.held = h /\ q.momentary = m /\ q.host = o
      /\ q.rawHeld = k.rawHeld /\ q.sent = k.sent
  BY <1>5, <1>6, <1>7 DEF Sides
<1> HIDE DEF q
<1> QED
  BY <1>5, <1>6, <1>8, <1>9 DEF Quiet, q, h

(* dropTaps: the detent being typed comes up.                                *)
LEMMA DropTapKeeps ==
  ASSUME NEW k \in Sides, SideOK(k)
  PROVE  LET q == DropTap(k)
         IN q \in Sides /\ SideOK(q) /\ q.rawHeld = k.rawHeld /\ q.sent = k.sent
<1> DEFINE a == k.tap.action
           up == [k EXCEPT !.tap = NoTap]
<1>1. a \in Actions /\ NoTap \in TapStates /\ ~IsKey(NoTap.action)
  BY NoTapIs DEF Sides, TapStates, NoTap, Actions, IsKey
<1>2. /\ up \in Sides /\ up.tap = NoTap /\ up.held = k.held
      /\ up.momentary = k.momentary /\ up.host = k.host
      /\ up.rawHeld = k.rawHeld /\ up.sent = k.sent
  BY <1>1 DEF Sides
<1>3. DropTap(k) = HwRelease(up, a)
  BY DEF DropTap
<1> HIDE DEF up
<1>4. TypedKeys(k.held, k.tap) = TypedKeys(up.held, up.tap) \cup {b \in {a} : IsKey(b)}
  <2>1. \A b : b \in TypedKeys(k.held, k.tap)
                 <=> b \in TypedKeys(up.held, up.tap) \/ (b = a /\ IsKey(b))
    BY <1>1, <1>2 DEF TypedKeys
  <2>2. TypedKeys(k.held, k.tap) \subseteq TypedKeys(up.held, up.tap) \cup {b \in {a} : IsKey(b)}
    BY <2>1
  <2>3. TypedKeys(up.held, up.tap) \cup {b \in {a} : IsKey(b)} \subseteq TypedKeys(k.held, k.tap)
    BY <2>1
  <2> QED
    BY <2>2, <2>3
<1>5. HostOK(up.host, TypedKeys(up.held, up.tap) \cup {b \in {a} : IsKey(b)})
  BY <1>2, <1>4 DEF SideOK
<1>6. \A b \in TypedKeys(up.held, up.tap) : IsKey(a) /\ Own(a.usage) => b.usage # a.usage
  <2> SUFFICES ASSUME NEW b \in TypedKeys(up.held, up.tap), IsKey(a), Own(a.usage)
               PROVE  b.usage # a.usage
    OBVIOUS
  <2>1. PICK s \in Slots : b = k.held[s] /\ IsKey(b) /\ b # NoAction
    BY <1>1, <1>2 DEF TypedKeys, IsKey
  <2>2. s \notin Dirs /\ b \in Carried(s)
    BY <2>1 DEF SideOK, HeldOK
  <2>3. k.tap.slot \in Dirs /\ a \in Carried(k.tap.slot)
    BY DEF SideOK, TapOK, NoTap, IsKey
  <2>4. k.tap.slot \in Slots /\ k.tap.slot # s
    BY <2>2, <2>3 DEF Slots
  <2> QED
    BY <2>1, <2>2, <2>3, <2>4, OwnSlots
<1> DEFINE q == HwRelease(up, a)
<1>7. /\ q \in Sides
      /\ q.held = up.held /\ q.tap = up.tap /\ q.momentary = up.momentary
      /\ q.rawHeld = up.rawHeld /\ q.sent = up.sent
      /\ HostOK(q.host, TypedKeys(up.held, up.tap))
  BY <1>1, <1>2, <1>5, <1>6, ReleaseKeeps
<1> HIDE DEF q
<1>8. SideOK(q)
  BY <1>2, <1>7 DEF SideOK, TapOK
<1> QED
  BY <1>2, <1>3, <1>7, <1>8 DEF q

(* runTaps: a detent is typed.                                               *)
Typed(k, a, s) ==
  IF IsLayer(a) THEN LayerUp(LayerDown(k, a, s), a, s)
  ELSE IF ~IsKey(a) THEN HwPress(k, a)
  ELSE [HwPress(k, a) EXCEPT !.tap = [slot |-> s, action |-> a, age |-> 0]]

(* A detent's action keeps the side as it should be. *)
LEMMA TypedKeeps ==
  ASSUME NEW k \in Sides, SideOK(k), k.tap.slot = NoKey, NEW s \in Dirs, NEW a \in Carried(s)
  PROVE  LET q == Typed(k, a, s)
         IN q \in Sides /\ SideOK(q) /\ q.rawHeld = k.rawHeld /\ q.sent = k.sent
<1>1. s \in Slots /\ a \in Actions
  BY CarriedAreActions DEF Slots
<1>2. CASE IsLayer(a)
  <2> DEFINE p == LayerDown(k, a, s)
  <2>1. /\ p \in Sides /\ p.held = k.held /\ p.tap = k.tap /\ p.host = k.host
        /\ p.rawHeld = k.rawHeld /\ p.sent = k.sent
        /\ \/ a.op # "MOMENTARY" /\ p.momentary = k.momentary
           \/ a.op = "MOMENTARY" /\ p.momentary = [layer |-> a.target, slot |-> s]
    BY <1>1, <1>2, LayerDownIs
  <2>2. Typed(k, a, s) = LayerUp(p, a, s)
    BY <1>2 DEF Typed
  <2> HIDE DEF p
  <2>3. CASE a.op = "MOMENTARY"
    <3> DEFINE q == [p EXCEPT !.momentary = [layer |-> NoLayer, slot |-> NoKey]]
    <3>1. LayerUp(p, a, s) = q
      BY <2>1, <2>3 DEF LayerUp
    <3>2. /\ q \in Sides /\ q.momentary = [layer |-> NoLayer, slot |-> NoKey]
          /\ q.held = p.held /\ q.tap = p.tap /\ q.host = p.host
          /\ q.rawHeld = p.rawHeld /\ q.sent = p.sent
      BY <2>1 DEF Sides, Momentaries
    <3> HIDE DEF q
    <3>3. SideOK(q)
      BY <2>1, <3>2 DEF SideOK, MomentaryOK
    <3> QED
      BY <2>1, <2>2, <3>1, <3>2, <3>3
  <2>4. CASE a.op # "MOMENTARY"
    <3>1. LayerUp(p, a, s) = p
      BY <2>4 DEF LayerUp
    <3>2. SideOK(p)
      BY <2>1, <2>4 DEF SideOK
    <3> QED
      BY <2>1, <2>2, <3>1, <3>2
  <2> QED
    BY <2>3, <2>4
<1>3. CASE ~IsLayer(a) /\ ~IsKey(a)
  BY <1>3 DEF Typed, HwPress
<1>4. CASE IsKey(a)
  <2> DEFINE p == HwPress(k, a)
             t == [slot |-> s, action |-> a, age |-> 0]
             q == [p EXCEPT !.tap = t]
  <2>1. /\ p \in Sides
        /\ p.held = k.held /\ p.tap = k.tap /\ p.momentary = k.momentary
        /\ p.rawHeld = k.rawHeld /\ p.sent = k.sent
        /\ HostOK(p.host, TypedKeys(k.held, k.tap) \cup {b \in {a} : IsKey(b)})
    BY <1>1, PressKeeps DEF SideOK
  <2>2. Typed(k, a, s) = q
    BY <1>4 DEF Typed, IsKey, IsLayer
  <2>3. t \in TapStates /\ TapOK(t) /\ t.action = a
    BY <1>1, NoTapIs DEF TapStates, TapOK
  <2> HIDE DEF p, t
  <2>4. /\ q \in Sides /\ q.tap = t /\ q.held = p.held /\ q.momentary = p.momentary
        /\ q.host = p.host /\ q.rawHeld = p.rawHeld /\ q.sent = p.sent
    BY <2>1, <2>3 DEF Sides
  <2> HIDE DEF q
  <2>5. TypedKeys(k.held, t) = TypedKeys(k.held, k.tap) \cup {b \in {a} : IsKey(b)}
    <3>1. k.tap.action = NoAction
      BY CoreAssumption DEF SideOK, TapOK, NoTap
    <3>2. \A b : b \in TypedKeys(k.held, t)
                   <=> b \in TypedKeys(k.held, k.tap) \/ (b = a /\ IsKey(b))
      BY <2>3, <3>1 DEF TypedKeys, IsKey
    <3>3. TypedKeys(k.held, t) \subseteq TypedKeys(k.held, k.tap) \cup {b \in {a} : IsKey(b)}
      BY <3>2
    <3>4. TypedKeys(k.held, k.tap) \cup {b \in {a} : IsKey(b)} \subseteq TypedKeys(k.held, t)
      BY <3>2
    <3> QED
      BY <3>3, <3>4
  <2>6. SideOK(q)
    BY <2>1, <2>3, <2>4, <2>5 DEF SideOK
  <2> QED
    BY <2>1, <2>2, <2>4, <2>6
<1> QED
  BY <1>2, <1>3, <1>4

-----------------------------------------------------------------------------
(* The inductive invariant: the keyboard side is in order, a raw session     *)
(* keeps it quiet, and the host was told only of keys that are down.         *)
RawOK ==
  /\ gpio \in BOOLEAN /\ tm \in TmKeys \cup {NoKey}
  /\ left \in 0..Timeout /\ seq \in 0..SeqWrap - 1
  /\ rawHeld \subseteq Raw!PadDown
  /\ left = 0 => rawHeld = {}

Silent == PadActive => Quiet(Side) /\ runs = <<>>

CoreInv ==
  /\ Side \in Sides /\ SideOK(Side)
  /\ KeymapOK
  /\ runs \in Seq([slot : Dirs, n : Int])
  /\ RawOK
  /\ Silent

RawStep == Raw!PadNext \/ UNCHANGED rawVars

(* The fields of the side are the variables. *)
LEMMA SideFields ==
  /\ Side.held = held /\ Side.layer = layer /\ Side.momentary = momentary /\ Side.host = host
  /\ Side.tap = tap /\ Side.rawHeld = rawHeld /\ Side.sent = 0
  BY DEF Side

(* Only what a step sends moves the sequence number.                         *)
LEMMA Wrapped ==
  ASSUME NEW n \in 0..SeqWrap - 1, NEW x \in Nat
  PROVE  (n + x) % SeqWrap \in 0..SeqWrap - 1 /\ (n + 0) % SeqWrap = n
<1>1. SeqWrap \in Nat \ {0}
  BY CoreAssumption
<1> QED
  BY <1>1

(* Writing a record back makes it the side, less the count of reports. *)
LEMMA SetSideIs ==
  ASSUME NEW k \in Sides, SetSide(k), seq \in 0..SeqWrap - 1
  PROVE  /\ Side' \in Sides /\ Side' = [k EXCEPT !.sent = 0]
         /\ SideOK(k) => SideOK(Side')
         /\ Quiet(k) => Quiet(Side')
         /\ rawHeld' = k.rawHeld
         /\ seq' \in 0..SeqWrap - 1
         /\ k.sent = 0 => seq' = seq
<1>1. Side' = [k EXCEPT !.sent = 0]
  BY DEF Side, SetSide, Sides
<1>2. /\ Side' \in Sides /\ Side'.held = k.held /\ Side'.tap = k.tap /\ Side'.host = k.host
      /\ Side'.momentary = k.momentary
  BY <1>1 DEF Sides
<1>3. k.sent \in Nat
  BY DEF Sides
<1>4. seq' \in 0..SeqWrap - 1 /\ (k.sent = 0 => seq' = seq)
  BY <1>3, Wrapped DEF SetSide
<1>5. SideOK(k) => SideOK(Side')
  BY <1>2 DEF SideOK
<1>6. Quiet(k) => Quiet(Side')
  BY <1>2 DEF Quiet
<1> QED
  BY <1>1, <1>2, <1>4, <1>5, <1>6 DEF SetSide

(* PAD_poll on the keymap: three events at most, and nothing is reported.    *)
LEMMA KeymapScanKeeps ==
  ASSUME CoreInv, ~PadActive, NEW lv \in GpioLevels, NEW t \in TmKeys \cup {NoKey},
         KeyScan(lv, t)
  PROVE  CoreInv' /\ RawStep
<1> DEFINE up == t # tm /\ tm # NoKey
           down == t # tm /\ t # NoKey
           first == Event(lv # gpio, Side, Raw!GpioKind(lv), GpioKey)
           second == Event(up, first, "UP", tm)
           third == Event(down, second, "DOWN", t)
<1>1. /\ GpioKey \in Slots \ Dirs
      /\ up => tm \in Slots \ Dirs
      /\ down => t \in Slots \ Dirs
  BY CoreAssumption DEF Slots, CoreInv, RawOK
<1>2. first \in Sides /\ SideOK(first) /\ first.rawHeld = rawHeld /\ first.sent = 0
  BY <1>1, EventKeeps, SideFields DEF CoreInv
<1> HIDE DEF first, up, down
<1>3. second \in Sides /\ SideOK(second) /\ second.rawHeld = rawHeld /\ second.sent = 0
  BY <1>1, <1>2, EventKeeps DEF CoreInv
<1> HIDE DEF second
<1>4. third \in Sides /\ SideOK(third) /\ third.rawHeld = rawHeld /\ third.sent = 0
  BY <1>1, <1>3, EventKeeps DEF CoreInv
<1>5. SetSide(third)
  BY DEF KeyScan, first, second, up, down
<1> HIDE DEF third
<1>6. Side' \in Sides /\ SideOK(Side') /\ rawHeld' = rawHeld /\ seq' = seq
  BY <1>4, <1>5, SetSideIs DEF CoreInv, RawOK
<1>7. left = 0 /\ left' = left /\ rawHeld = {} /\ ~PadActive'
  BY DEF CoreInv, RawOK, PadActive, KeyScan
<1>8. RawOK'
  BY <1>6, <1>7, CoreAssumption DEF CoreInv, RawOK, KeyScan
<1>9. CoreInv'
  BY <1>6, <1>7, <1>8 DEF CoreInv, KeymapOK, Silent, KeyScan
<1>10. ASSUME lv = gpio, t = tm PROVE RawStep
  BY <1>6, <1>10 DEF RawStep, rawVars, KeyScan
<1>11. ASSUME ~(lv = gpio /\ t = tm) PROVE RawStep
  <2>1. Raw!RawKeyEvents(lv, t) = <<>>
    BY <1>7 DEF Raw!RawKeyEvents, Raw!PadActive
  <2>2. seq' = (seq + Len(Raw!RawKeyEvents(lv, t))) % SeqWrap
    BY <1>6, <2>1, Wrapped DEF CoreInv, RawOK
  <2>3. Raw!ScanKeys(lv, t)
    BY <1>6, <1>7, <1>11, <2>2 DEF Raw!ScanKeys, Raw!PadActive, KeyScan
  <2> QED
    BY <2>3 DEF RawStep, Raw!PadNext
<1> QED
  BY <1>9, <1>10, <1>11

(* What a scan sends in raw mode.                                            *)
LEMMA SentByScan ==
  ASSUME NEW lv, NEW t, PadActive
  PROVE  Len(Raw!RawKeyEvents(lv, t)) =
           (IF lv # gpio /\ (lv \/ GpioKey \in rawHeld) THEN 1 ELSE 0)
           + (IF t # tm /\ tm \in rawHeld THEN 1 ELSE 0)
           + (IF t # tm /\ t # NoKey THEN 1 ELSE 0)
<1> DEFINE on1 == lv # gpio /\ (lv \/ GpioKey \in rawHeld)
           on2 == t # tm /\ tm \in rawHeld
           on3 == t # tm /\ t # NoKey
           E == {[kind |-> Raw!GpioKind(lv), slot |-> GpioKey], [kind |-> "UP", slot |-> tm],
                 [kind |-> "DOWN", slot |-> t]}
           a == Raw!Edge(on1, Raw!GpioKind(lv), GpioKey)
           b == Raw!Edge(on2, "UP", tm)
           c == Raw!Edge(on3, "DOWN", t)
<1>1. Raw!RawKeyEvents(lv, t) = a \o b \o c
  BY DEF Raw!RawKeyEvents, Raw!PadActive, PadActive
<1> HIDE DEF on1, on2, on3
<1>2. a \in Seq(E) /\ Len(a) = IF on1 THEN 1 ELSE 0
  <2>1. CASE on1
    BY <2>1 DEF Raw!Edge
  <2>2. CASE ~on1
    BY <2>2 DEF Raw!Edge
  <2> QED
    BY <2>1, <2>2
<1>3. b \in Seq(E) /\ Len(b) = IF on2 THEN 1 ELSE 0
  <2>1. CASE on2
    BY <2>1 DEF Raw!Edge
  <2>2. CASE ~on2
    BY <2>2 DEF Raw!Edge
  <2> QED
    BY <2>1, <2>2
<1>4. c \in Seq(E) /\ Len(c) = IF on3 THEN 1 ELSE 0
  <2>1. CASE on3
    BY <2>1 DEF Raw!Edge
  <2>2. CASE ~on3
    BY <2>2 DEF Raw!Edge
  <2> QED
    BY <2>1, <2>2
<1> HIDE DEF a, b, c, E
<1>5. Len(a \o b \o c) = Len(a) + Len(b) + Len(c)
  <2>1. a \in Seq(E) /\ b \in Seq(E) /\ c \in Seq(E)
    BY <1>2, <1>3, <1>4
  <2>2. a \o b \in Seq(E) /\ Len(a \o b) = Len(a) + Len(b)
    BY <2>1, ConcatProperties
  <2> QED
    BY <2>1, <2>2, ConcatProperties
<1> QED
  BY <1>1, <1>2, <1>3, <1>4, <1>5 DEF on1, on2, on3

(* PAD_poll in raw mode: what is reported is what changed.                   *)
LEMMA RawScanKeeps ==
  ASSUME CoreInv, PadActive, NEW lv \in GpioLevels, NEW t \in TmKeys \cup {NoKey},
         KeyScan(lv, t)
  PROVE  CoreInv' /\ RawStep
<1> DEFINE flipped == lv # gpio
           up == t # tm /\ tm # NoKey
           down == t # tm /\ t # NoKey
           first == Event(flipped, Side, Raw!GpioKind(lv), GpioKey)
           second == Event(up, first, "UP", tm)
           third == Event(down, second, "DOWN", t)
<1>1. /\ GpioKey \in Slots /\ (up => tm \in Slots) /\ (down => t \in Slots)
      /\ GpioKey # NoKey /\ GpioKey \notin TmKeys /\ NoKey \notin TmKeys
      /\ lv \in BOOLEAN /\ gpio \in BOOLEAN /\ up \in BOOLEAN /\ down \in BOOLEAN
      /\ flipped \in BOOLEAN
  BY CoreAssumption DEF Slots, CoreInv, RawOK
<1>2. /\ Raw!GpioKind(lv) \in {"DOWN", "UP"}
      /\ Raw!GpioKind(lv) = "DOWN" <=> lv
  BY DEF Raw!GpioKind
<1>3. Side \in Sides /\ Quiet(Side) /\ runs = <<>>
  BY DEF CoreInv, Silent
<1>4. SetSide(third)
  BY DEF KeyScan
<1>5. /\ up <=> t # tm /\ tm # NoKey
      /\ down <=> t # tm /\ t # NoKey
      /\ flipped <=> lv # gpio
  OBVIOUS
<1> HIDE DEF first, second, third, up, down, flipped
<1>6. /\ first \in Sides /\ Quiet(first)
      /\ first.rawHeld = IF ~flipped THEN rawHeld
                         ELSE IF lv THEN rawHeld \cup {GpioKey} ELSE rawHeld \ {GpioKey}
      /\ first.sent = IF flipped /\ (lv \/ GpioKey \in rawHeld) THEN 1 ELSE 0
  <2>1. flipped \in BOOLEAN /\ Raw!GpioKind(lv) \in {"DOWN", "UP"} /\ (flipped => GpioKey \in Slots)
    BY <1>1, <1>2
  <2>2. Side \in Sides /\ \A x \in Slots : Side.held[x] = NoAction
    BY <1>3 DEF Quiet
  <2>3. RawAfter(first, Side, flipped, Raw!GpioKind(lv), GpioKey)
    BY <2>1, <2>2, RawEventIs DEF first
  <2>4. Quiet(first)
    BY <1>3, <2>3 DEF Quiet, RawAfter
  <2> QED
    BY <1>1, <1>2, <1>3, <2>3, <2>4, SideFields DEF RawAfter
<1>7. /\ second \in Sides /\ Quiet(second)
      /\ second.rawHeld = IF ~up THEN first.rawHeld ELSE first.rawHeld \ {tm}
      /\ second.sent = first.sent + IF up /\ tm \in first.rawHeld THEN 1 ELSE 0
  <2>1. up \in BOOLEAN /\ "UP" \in {"DOWN", "UP"} /\ (up => tm \in Slots)
    BY <1>1, <1>2
  <2>2. first \in Sides /\ \A x \in Slots : first.held[x] = NoAction
    BY <1>6 DEF Quiet
  <2>3. RawAfter(second, first, up, "UP", tm)
    BY <2>1, <2>2, RawEventIs DEF second
  <2>4. Quiet(second)
    BY <1>6, <2>3 DEF Quiet, RawAfter
  <2> QED
    BY <1>1, <1>2, <1>6, <2>3, <2>4, SideFields DEF RawAfter
<1>8. /\ third \in Sides /\ Quiet(third)
      /\ third.rawHeld = IF ~down THEN second.rawHeld ELSE second.rawHeld \cup {t}
      /\ third.sent = second.sent + IF down THEN 1 ELSE 0
  <2>1. down \in BOOLEAN /\ "DOWN" \in {"DOWN", "UP"} /\ (down => t \in Slots)
    BY <1>1, <1>2
  <2>2. second \in Sides /\ \A x \in Slots : second.held[x] = NoAction
    BY <1>7 DEF Quiet
  <2>3. RawAfter(third, second, down, "DOWN", t)
    BY <2>1, <2>2, RawEventIs DEF third
  <2>4. Quiet(third)
    BY <1>7, <2>3 DEF Quiet, RawAfter
  <2> QED
    BY <1>1, <1>2, <1>7, <2>3, <2>4, SideFields DEF RawAfter
<1>9. /\ Side' \in Sides /\ Quiet(Side') /\ rawHeld' = third.rawHeld
      /\ seq' \in 0..SeqWrap - 1 /\ (third.sent = 0 => seq' = seq)
  BY <1>4, <1>8, SetSideIs DEF CoreInv, RawOK
<1>10. gpio' = lv /\ tm' = t /\ left' = left /\ seq' = (seq + third.sent) % SeqWrap
  BY <1>4 DEF KeyScan, SetSide
<1>11. rawHeld' = (rawHeld \cap Raw!PadDown') \cup (Raw!PadDown' \ Raw!PadDown)
  BY <1>1, <1>5, <1>6, <1>7, <1>8, <1>9, <1>10 DEF CoreInv, RawOK, Raw!PadDown
<1>12. RawOK'
  BY <1>1, <1>9, <1>10, <1>11 DEF CoreInv, RawOK, PadActive
<1>13. SideOK(Side')
  BY <1>9, QuietIsOK
<1>14. CoreInv'
  BY <1>3, <1>9, <1>12, <1>13 DEF CoreInv, KeymapOK, Silent, KeyScan
<1>15. third.sent = Len(Raw!RawKeyEvents(lv, t))
  BY <1>1, <1>5, <1>6, <1>7, <1>8, SentByScan DEF CoreInv, RawOK, Raw!PadDown
<1>16. ASSUME lv = gpio, t = tm PROVE RawStep
  <2>1. third.sent = 0 /\ third.rawHeld = rawHeld
    BY <1>5, <1>6, <1>7, <1>8, <1>16
  <2> QED
    BY <1>9, <1>16, <2>1 DEF RawStep, rawVars, KeyScan
<1>17. ASSUME ~(lv = gpio /\ t = tm) PROVE RawStep
  <2>1. Raw!ScanKeys(lv, t)
    BY <1>10, <1>11, <1>15, <1>17 DEF Raw!ScanKeys, Raw!PadActive, PadActive, KeyScan
  <2> QED
    BY <2>1 DEF RawStep, Raw!PadNext
<1> QED
  BY <1>14, <1>16, <1>17

(* Steps that touch neither a key, nor the detent being typed, nor the host. *)
LEMMA KeysUntouched ==
  ASSUME CoreInv, UNCHANGED <<held, momentary, host, tap>>, layer' \in Layers, rawHeld' \subseteq Slots
  PROVE  Side' \in Sides /\ SideOK(Side') /\ (Quiet(Side) => Quiet(Side'))
<1>1. /\ Side \in Sides /\ SideOK(Side)
      /\ held' = held /\ momentary' = momentary /\ host' = host /\ tap' = tap
  BY DEF CoreInv
<1>2. /\ held \in [Slots -> Actions] /\ momentary \in Momentaries /\ host \in Hosts
      /\ tap \in TapStates
  BY <1>1, SideFields DEF Sides
<1>3. Side' \in Sides
  BY <1>1, <1>2 DEF Side, Sides
<1>4. /\ Side'.held = Side.held /\ Side'.tap = Side.tap /\ Side'.host = Side.host
      /\ Side'.momentary = Side.momentary
  BY <1>1 DEF Side
<1>5. SideOK(Side')
  BY <1>1, <1>4 DEF SideOK
<1>6. Quiet(Side) => Quiet(Side')
  BY <1>4 DEF Quiet
<1> QED
  BY <1>3, <1>5, <1>6

(* No slot is told of that is not one of the slots.                          *)
LEMMA ToldAreSlots ==
  ASSUME CoreInv
  PROVE  rawHeld \subseteq Slots /\ layer \in Layers /\ {0, 1} \subseteq Layers
  BY CoreAssumption, SideFields DEF CoreInv, Sides

(* RAW_MODE, on and off.                                                     *)
LEMMA RawOnKeeps ==
  ASSUME CoreInv, RawOn
  PROVE  CoreInv' /\ RawStep
<1>1. /\ left' = Timeout /\ Timeout \in Nat \ {0} /\ PadActive'
      /\ UNCHANGED <<gpio, tm, total, keymap>>
  BY CoreAssumption DEF RawOn, PadActive
<1>2. CASE PadActive
  <2>1. UNCHANGED <<epoch, rawHeld, seq, keyVars, tapVars>>
    BY <1>2 DEF RawOn
  <2>2. Side' \in Sides /\ SideOK(Side') /\ Quiet(Side') /\ runs' = <<>>
    BY <1>2, <2>1, KeysUntouched, ToldAreSlots DEF keyVars, tapVars, CoreInv, Silent
  <2>3. RawOK'
    BY <1>1, <1>2, <2>1 DEF CoreInv, RawOK, PadActive, Raw!PadDown
  <2>4. CoreInv'
    BY <1>1, <2>1, <2>2, <2>3 DEF CoreInv, KeymapOK, Silent, tapVars
  <2>5. Raw!SetRawOn
    BY <1>1, <1>2, <2>1 DEF Raw!SetRawOn, Raw!PadActive, PadActive
  <2> QED
    BY <2>4, <2>5 DEF RawStep, Raw!PadNext
<1>3. CASE ~PadActive
  <2> DEFINE p == ReleaseAll(Side)
             none == {}
             q == [p EXCEPT !.rawHeld = none]
  <2>1. /\ SetSide(q) /\ runs' = <<>> /\ epoch' = (epoch + 1) % EpochWrap
    BY <1>3 DEF RawOn
  <2>2. p \in Sides /\ Quiet(p) /\ p.sent = 0
    BY ReleaseAllIs, SideFields DEF CoreInv
  <2> HIDE DEF p
  <2>3. none \in SUBSET Slots
    OBVIOUS
  <2>4. /\ q \in Sides /\ q.held = p.held /\ q.tap = p.tap /\ q.momentary = p.momentary
        /\ q.host = p.host /\ q.rawHeld = {} /\ q.sent = 0
    BY <2>2 DEF Sides
  <2> HIDE DEF q
  <2>5. Quiet(q)
    BY <2>2, <2>4 DEF Quiet
  <2>6. Side' \in Sides /\ Quiet(Side') /\ rawHeld' = {} /\ seq' = seq
    BY <2>1, <2>4, <2>5, SetSideIs DEF CoreInv, RawOK
  <2>7. SideOK(Side')
    BY <2>6, QuietIsOK
  <2>8. RawOK'
    BY <1>1, <2>6 DEF CoreInv, RawOK
  <2>9. runs' \in Seq([slot : Dirs, n : Int])
    BY <2>1
  <2>10. CoreInv'
    BY <1>1, <2>1, <2>6, <2>7, <2>8, <2>9 DEF CoreInv, KeymapOK, Silent
  <2>11. Raw!SetRawOn
    BY <1>1, <1>3, <2>1, <2>6 DEF Raw!SetRawOn, Raw!PadActive, PadActive
  <2> QED
    BY <2>10, <2>11 DEF RawStep, Raw!PadNext
<1> QED
  BY <1>2, <1>3

(* PAD_setRaw(0) keeps the invariant and is a step of the contract. *)
LEMMA RawOffKeeps ==
  ASSUME CoreInv, RawOff
  PROVE  CoreInv' /\ RawStep
<1>1. /\ left' = 0 /\ ~PadActive' /\ rawHeld' = {}
      /\ UNCHANGED <<gpio, tm, epoch, seq, total, keymap, keyVars, tapVars>>
  BY CoreAssumption DEF RawOff, PadActive, CoreInv, RawOK
<1>2. Side' \in Sides /\ SideOK(Side')
  BY <1>1, KeysUntouched, ToldAreSlots DEF keyVars, tapVars
<1>3. RawOK'
  BY <1>1, CoreAssumption DEF CoreInv, RawOK
<1>4. CoreInv'
  BY <1>1, <1>2, <1>3 DEF CoreInv, KeymapOK, Silent, tapVars
<1>5. Raw!SetRawOff
  BY <1>1 DEF Raw!SetRawOff, Raw!PadActive, CoreInv, RawOK
<1> QED
  BY <1>4, <1>5 DEF RawStep, Raw!PadNext

(* Commands on the keymap and the layers, and what leaves the keys alone.    *)
LEMMA CommandKeeps ==
  ASSUME CoreInv, UNCHANGED <<rawVars, held, host, tap>>, layer' \in Layers,
         momentary' = momentary \/ momentary' = [layer |-> NoLayer, slot |-> NoKey],
         KeymapOK', runs' \in Seq([slot : Dirs, n : Int]), PadActive => runs' = runs
  PROVE  CoreInv' /\ RawStep
<1>1. UNCHANGED <<gpio, tm, left, seq, rawHeld>>
  BY DEF rawVars
<1>2. RawOK' /\ (PadActive' <=> PadActive)
  BY <1>1 DEF CoreInv, RawOK, Raw!PadDown, PadActive
<1>3. Side' \in Sides /\ SideOK(Side') /\ (Quiet(Side) => Quiet(Side'))
  <2>1. CASE momentary' = momentary
    BY <1>1, <2>1, KeysUntouched, ToldAreSlots
  <2>2. CASE momentary' = [layer |-> NoLayer, slot |-> NoKey]
    <3>1. /\ Side \in Sides /\ SideOK(Side)
          /\ held' = held /\ host' = host /\ tap' = tap /\ rawHeld' = rawHeld
      BY <1>1 DEF CoreInv
    <3>2. /\ held \in [Slots -> Actions] /\ host \in Hosts /\ tap \in TapStates
          /\ rawHeld \in SUBSET Slots
      BY <3>1, SideFields DEF Sides
    <3>3. momentary' \in Momentaries /\ momentary'.layer = NoLayer
      BY <2>2 DEF Momentaries
    <3>4. Side' \in Sides
      BY <3>1, <3>2, <3>3 DEF Side, Sides
    <3>5. /\ Side'.held = Side.held /\ Side'.tap = Side.tap /\ Side'.host = Side.host
          /\ Side'.momentary = momentary'
      BY <3>1 DEF Side
    <3>6. SideOK(Side') /\ (Quiet(Side) => Quiet(Side'))
      BY <3>1, <3>3, <3>5 DEF SideOK, MomentaryOK, Quiet
    <3> QED
      BY <3>4, <3>6
  <2> QED
    BY <2>1, <2>2
<1>4. CoreInv'
  BY <1>2, <1>3 DEF CoreInv, Silent
<1> QED
  BY <1>4 DEF RawStep

(* SET_ACTION, and the defaults of RESET.                                    *)
LEMMA EditsAreCarried ==
  ASSUME KeymapOK
  PROVE  /\ \A l \in Layers, s \in Slots, a \in EditActions \cup {NoAction} :
              keymap' = [keymap EXCEPT ![l][s] = a] => KeymapOK'
         /\ keymap' = Defaults => KeymapOK'
<1>1. ASSUME NEW l \in Layers, NEW s \in Slots, NEW a \in EditActions \cup {NoAction},
             keymap' = [keymap EXCEPT ![l][s] = a]
      PROVE  KeymapOK'
  <2> DEFINE row == [keymap[l] EXCEPT ![s] = a]
  <2>1. a \in Actions /\ a \in Carried(s)
    BY DEF Actions, Carried
  <2>2. keymap[l] \in [Slots -> Actions]
    BY DEF KeymapOK
  <2>3. row \in [Slots -> Actions] /\ row[s] = a /\ \A x \in Slots : x # s => row[x] = keymap[l][x]
    BY <2>1, <2>2
  <2>4. keymap' = [keymap EXCEPT ![l] = row]
    BY <1>1 DEF KeymapOK
  <2> HIDE DEF row
  <2>5. \A m \in Layers, x \in Slots : keymap'[m][x] \in Carried(x)
    BY <2>1, <2>3, <2>4 DEF KeymapOK
  <2>6. keymap' \in [Layers -> [Slots -> Actions]]
    BY <2>3, <2>4 DEF KeymapOK
  <2> QED
    BY <2>5, <2>6 DEF KeymapOK
<1>2. ASSUME keymap' = Defaults PROVE KeymapOK'
  BY <1>2, ActionAssumption DEF KeymapOK, Carried
<1> QED
  BY <1>1, <1>2

(* PAD_init.                                                                 *)
LEMMA RestartKeeps ==
  ASSUME CoreInv, Restart
  PROVE  CoreInv' /\ RawStep
<1>1. /\ gpio' = FALSE /\ tm' \in TmKeys \cup {NoKey} /\ left' = 0 /\ rawHeld' = {} /\ seq' = 0
      /\ Raw!ResetPad
  BY DEF Restart, Raw!ResetPad
<1>2. /\ held' = [s \in Slots |-> NoAction] /\ layer' \in Layers
      /\ momentary' = [layer |-> NoLayer, slot |-> NoKey]
      /\ runs' = <<>> /\ tap' = NoTap /\ host' = [down |-> {}, mods |-> {}] /\ keymap' = keymap
  BY DEF Restart
<1>3. Side' \in Sides
  BY <1>1, <1>2, NoTapIs DEF Side, Sides, Momentaries, Hosts, Actions
<1>4. Quiet(Side')
  BY <1>2 DEF Side, Quiet
<1>5. SideOK(Side')
  BY <1>3, <1>4, QuietIsOK
<1>6. RawOK'
  <2>1. 0 \in 0..Timeout /\ 0 \in 0..SeqWrap - 1
    BY CoreAssumption
  <2>2. gpio' \in BOOLEAN
    BY <1>1
  <2> QED
    BY <1>1, <2>1, <2>2 DEF RawOK
<1>7. CoreInv'
  BY <1>1, <1>2, <1>3, <1>5, <1>6 DEF CoreInv, KeymapOK, Silent, PadActive
<1> QED
  BY <1>1, <1>7 DEF RawStep, Raw!PadNext

(* PAD_tick: the detent being typed gets older, a raw session may end.       *)
LEMMA ClockKeeps ==
  ASSUME CoreInv, NEW ms \in Nat, Clock(ms)
  PROVE  CoreInv' /\ RawStep
<1>1. UNCHANGED <<keymap, keyVars, runs>>
  BY DEF Clock
<1>2. Side \in Sides /\ SideOK(Side)
  BY DEF CoreInv
<1>3. /\ tap \in TapStates /\ TapOK(tap) /\ held \in [Slots -> Actions]
      /\ momentary \in Momentaries /\ host \in Hosts /\ layer \in Layers
      /\ rawHeld \in SUBSET Slots
  BY <1>2, SideFields DEF Sides, SideOK
<1>4. tap' \in TapStates /\ TapOK(tap') /\ tap'.action = tap.action /\ (tap = NoTap => tap' = NoTap)
  <2>1. CASE tap.slot = NoKey
    BY <1>3, <2>1 DEF Clock
  <2>2. CASE tap.slot # NoKey
    <3> DEFINE old == IF tap.age + ms > TapGap THEN TapGap ELSE tap.age + ms
    <3>1. old \in 0..TapGap
      BY <1>3, CoreAssumption DEF TapStates
    <3>2. tap' = [tap EXCEPT !.age = old]
      BY <1>3, <2>2 DEF Clock, TapStates
    <3> HIDE DEF old
    <3>3. tap' \in TapStates /\ tap'.slot = tap.slot /\ tap'.action = tap.action
      BY <1>3, <3>1, <3>2 DEF TapStates
    <3>4. tap # NoTap
      BY <2>2 DEF NoTap
    <3> QED
      BY <1>3, <3>3, <3>4 DEF TapOK
  <2> QED
    BY <2>1, <2>2
<1>5. rawHeld' \in SUBSET Slots
  BY <1>3 DEF Clock, Raw!TickRaw, rawVars
<1>6. /\ held' = held /\ layer' = layer /\ momentary' = momentary /\ host' = host
  BY <1>1 DEF keyVars
<1>7. Side' \in Sides
  BY <1>3, <1>4, <1>5, <1>6 DEF Side, Sides
<1>8. /\ Side'.held = Side.held /\ Side'.tap = tap' /\ Side'.host = Side.host
      /\ Side'.momentary = Side.momentary
  BY <1>6 DEF Side
<1>9. TypedKeys(Side'.held, Side'.tap) = TypedKeys(Side.held, Side.tap)
  BY <1>4, <1>8, SideFields DEF TypedKeys
<1>10. SideOK(Side')
  BY <1>2, <1>4, <1>8, <1>9 DEF SideOK
<1>11. Quiet(Side) => Quiet(Side')
  BY <1>4, <1>8, SideFields DEF Quiet
<1>12. UNCHANGED rawVars \/ (PadActive /\ Raw!TickRaw)
  BY DEF Clock
<1>13. RawOK' /\ (PadActive' => PadActive)
  <2>1. CASE UNCHANGED rawVars
    BY <2>1 DEF CoreInv, RawOK, rawVars, PadActive, Raw!PadDown
  <2>2. CASE PadActive /\ Raw!TickRaw
    <3>1. /\ left \in 1..Timeout /\ left' = left - 1
          /\ rawHeld' = IF left = 1 THEN {} ELSE rawHeld
          /\ UNCHANGED <<gpio, tm, seq>>
      BY <2>2, CoreAssumption DEF CoreInv, RawOK, PadActive, Raw!TickRaw, Raw!PadActive
    <3>2. left' \in 0..Timeout
      BY <3>1, CoreAssumption
    <3>3. rawHeld' \subseteq Raw!PadDown' /\ (left' = 0 => rawHeld' = {})
      BY <3>1, CoreAssumption DEF CoreInv, RawOK, Raw!PadDown
    <3> QED
      BY <2>2, <3>1, <3>2, <3>3 DEF CoreInv, RawOK
  <2> QED
    BY <1>12, <2>1, <2>2
<1>14. CoreInv'
  BY <1>1, <1>7, <1>10, <1>11, <1>13 DEF CoreInv, KeymapOK, Silent
<1> QED
  BY <1>12, <1>14 DEF RawStep, Raw!PadNext

(* PAD_turn: onto the queue, or a report.                                    *)
LEMMA QueueIsSeq ==
  ASSUME runs \in Seq([slot : Dirs, n : Int]), NEW d \in Dirs, NEW n \in Nat
  PROVE  Joined(d, n) \o NewRun(d, n) \in Seq([slot : Dirs, n : Int])
<1> DEFINE R == [slot : Dirs, n : Int]
<1> HIDE DEF R
<1>0. runs \in Seq(R)
  BY DEF R
<1>4. ASSUME runs # <<>> PROVE Len(runs) \in 1..Len(runs) /\ Last(runs) \in R
  <2>1. Len(runs) \in 1..Len(runs)
    BY <1>0, <1>4, EmptySeq
  <2> QED
    BY <1>0, <2>1, ElementOfSeq DEF Last
<1>1. Room(d) \in Int
  <2>1. CASE runs = <<>>
    BY <2>1 DEF Room
  <2>2. CASE runs # <<>>
    <3>1. Last(runs) \in R
      BY <1>4, <2>2
    <3>2. Last(runs).n \in Int
      BY <3>1 DEF R
    <3> QED
      BY <3>2, CoreAssumption DEF Room
  <2> QED
    BY <2>1, <2>2
<1>2. NewRun(d, n) \in Seq(R)
  <2>1. n - Room(d) \in Int
    BY <1>1
  <2> DEFINE run == [slot |-> d, n |-> n - Room(d)]
  <2>2. run \in R
    BY <2>1 DEF R
  <2> HIDE DEF run
  <2>3. <<run>> \in Seq(R) /\ <<>> \in Seq(R)
    BY <2>2
  <2> QED
    BY <2>3 DEF NewRun, run
<1>3. Joined(d, n) \in Seq(R)
  <2>1. CASE Room(d) = 0
    BY <1>0, <2>1 DEF Joined
  <2>2. CASE Room(d) # 0
    <3> DEFINE run == [slot |-> d, n |-> Last(runs).n + Least(n, Room(d))]
    <3>1. runs # <<>>
      BY <2>2 DEF Room
    <3>2. Len(runs) \in 1..Len(runs) /\ Last(runs) \in R
      BY <1>4, <3>1
    <3>3. Last(runs).n + Least(n, Room(d)) \in Int
      BY <1>1, <3>2 DEF Least, R
    <3>4. run \in R
      BY <3>3 DEF R
    <3>5. Joined(d, n) = [runs EXCEPT ![Len(runs)] = run]
      BY <2>2 DEF Joined
    <3> HIDE DEF run
    <3> QED
      BY <1>0, <3>2, <3>4, <3>5, ExceptSeq
  <2> QED
    BY <2>1, <2>2
<1> QED
  BY <1>2, <1>3, ConcatProperties DEF R

(* A take of detents keeps the invariant and is a step of the contract. *)
LEMMA TurnKeeps ==
  ASSUME CoreInv, NEW d \in Dirs, NEW n \in 1..MaxTake, Turn(d, n)
  PROVE  CoreInv' /\ RawStep
<1>1. /\ n \in Nat /\ keymap' = keymap /\ UNCHANGED keyVars
  BY CoreAssumption DEF Turn
<1>2. CASE ~PadActive
  <2>1. runs' = Joined(d, n) \o NewRun(d, n) /\ UNCHANGED <<rawVars, tap>>
    BY <1>2 DEF Turn
  <2>2. runs' \in Seq([slot : Dirs, n : Int])
    BY <1>1, <2>1, QueueIsSeq DEF CoreInv
  <2>3. KeymapOK'
    BY <1>1 DEF CoreInv, KeymapOK
  <2>4. layer' \in Layers
    BY <1>1, ToldAreSlots DEF keyVars
  <2> QED
    BY <1>1, <1>2, <2>1, <2>2, <2>3, <2>4, CommandKeeps DEF keyVars
<1>3. CASE PadActive
  <2>1. Raw!TurnRaw(d, n) /\ UNCHANGED tapVars
    BY <1>3 DEF Turn
  <2>2. /\ UNCHANGED <<gpio, tm, left, rawHeld, runs, tap, held, layer, momentary, host>>
        /\ seq' = (seq + 1) % SeqWrap
    BY <1>1, <2>1 DEF Raw!TurnRaw, tapVars, keyVars
  <2>3. Side' \in Sides /\ SideOK(Side') /\ (Quiet(Side) => Quiet(Side'))
    BY <2>2, KeysUntouched, ToldAreSlots
  <2>4. seq' \in 0..SeqWrap - 1
    BY <2>2, Wrapped DEF CoreInv, RawOK
  <2>5. RawOK'
    BY <2>2, <2>4 DEF CoreInv, RawOK, Raw!PadDown
  <2>6. CoreInv'
    BY <1>1, <2>2, <2>3, <2>5 DEF CoreInv, KeymapOK, Silent, PadActive
  <2> QED
    BY <2>1, <2>6 DEF RawStep, Raw!PadNext
<1> QED
  BY <1>2, <1>3

(* runTaps.                                                                  *)
LEMMA TapsKeep ==
  ASSUME CoreInv, Taps
  PROVE  CoreInv' /\ RawStep
<1>1. UNCHANGED <<gpio, tm, left, epoch, total, keymap>>
  BY DEF Taps
<1>2. ASSUME UNCHANGED <<keyVars, rawHeld, seq, tap, runs>>
      PROVE  CoreInv' /\ RawStep
  <2>1. UNCHANGED <<rawVars, held, host, tap>> /\ momentary' = momentary /\ layer' = layer
        /\ runs' = runs
    BY <1>1, <1>2 DEF rawVars, keyVars
  <2>2. KeymapOK' /\ runs' \in Seq([slot : Dirs, n : Int]) /\ layer' \in Layers
    BY <1>1, <2>1, ToldAreSlots DEF CoreInv, KeymapOK
  <2> QED
    BY <2>1, <2>2, CommandKeeps
<1>3. ASSUME NEW q \in Sides, SideOK(q), q.rawHeld = rawHeld, q.sent = 0, SetSide(q), ~PadActive,
             runs' \in Seq([slot : Dirs, n : Int])
      PROVE  CoreInv' /\ RawStep
  <2>1. Side' \in Sides /\ SideOK(Side') /\ rawHeld' = rawHeld /\ seq' = seq
    BY <1>3, SetSideIs DEF CoreInv, RawOK
  <2>2. RawOK' /\ ~PadActive'
    BY <1>1, <1>3, <2>1 DEF CoreInv, RawOK, PadActive, Raw!PadDown
  <2>3. CoreInv'
    BY <1>1, <1>3, <2>1, <2>2 DEF CoreInv, KeymapOK, Silent
  <2> QED
    BY <1>1, <2>1, <2>3 DEF RawStep, rawVars
<1>4. CASE PadActive \/ (tap.slot = NoKey /\ runs = <<>>)
  <2>1. UNCHANGED <<keyVars, rawHeld, seq, tapVars>>
    BY <1>4 DEF Taps
  <2> QED
    BY <1>2, <2>1 DEF tapVars
<1>5. CASE ~PadActive /\ TapRelease
  <2>1. runs' = runs /\ runs' \in Seq([slot : Dirs, n : Int])
    BY <1>5 DEF TapRelease, CoreInv
  <2>2. CASE tap.age < TapGap
    BY <1>2, <1>5, <2>1, <2>2 DEF TapRelease
  <2>3. CASE ~(tap.age < TapGap)
    <3>1. SetSide(DropTap(Side))
      BY <1>5, <2>3 DEF TapRelease
    <3>2. /\ DropTap(Side) \in Sides /\ SideOK(DropTap(Side))
          /\ DropTap(Side).rawHeld = rawHeld /\ DropTap(Side).sent = 0
      BY DropTapKeeps, SideFields DEF CoreInv
    <3> QED
      BY <1>3, <1>5, <2>1, <3>1, <3>2
  <2> QED
    BY <2>2, <2>3
<1>6. CASE ~PadActive /\ TapPress
  <2> DEFINE s == Head(runs).slot
             a == keymap[ActiveLayer][s]
  <2>1. runs # <<>> /\ tap.slot = NoKey
    BY <1>6 DEF TapPress
  <2>2. Head(runs) \in [slot : Dirs, n : Int]
    BY <2>1, HeadTailProperties DEF CoreInv
  <2>3. s \in Dirs /\ s \in Slots
    BY <2>2 DEF Slots
  <2>4. ActiveLayer \in Layers
    BY SideFields DEF ActiveLayer, CoreInv, Sides, Momentaries
  <2>5. a \in Carried(s)
    BY <2>3, <2>4 DEF CoreInv, KeymapOK
  <2>6. runs' \in Seq([slot : Dirs, n : Int])
    <3> DEFINE R == [slot : Dirs, n : Int]
               run == [slot |-> s, n |-> Head(runs).n - 1]
    <3>1. runs' = Tail(runs) \/ runs' = [runs EXCEPT ![1] = run]
      BY <1>6 DEF TapPress
    <3>2. Tail(runs) \in Seq(R)
      BY <2>1, HeadTailProperties DEF CoreInv
    <3>3. run \in R
      BY <2>2, <2>3
    <3>4. runs \in Seq(R)
      BY DEF CoreInv
    <3> HIDE DEF run, R
    <3>5. 1 \in 1..Len(runs)
      BY <2>1, <3>4, EmptySeq
    <3>6. [runs EXCEPT ![1] = run] \in Seq(R)
      BY <3>3, <3>4, <3>5, ExceptSeq
    <3> QED
      BY <3>1, <3>2, <3>6 DEF R
  <2>7. SetSide(Typed(Side, a, s))
    BY <1>6 DEF TapPress, Typed
  <2> HIDE DEF s, a
  <2>8. /\ Typed(Side, a, s) \in Sides /\ SideOK(Typed(Side, a, s))
        /\ Typed(Side, a, s).rawHeld = rawHeld /\ Typed(Side, a, s).sent = 0
    BY <2>1, <2>3, <2>5, TypedKeeps, SideFields DEF CoreInv
  <2> QED
    BY <1>3, <1>6, <2>6, <2>7, <2>8
<1> QED
  BY <1>4, <1>5, <1>6 DEF Taps

(* Each step of the core keeps the invariant, and is a step of RawPad's or   *)
(* one that RawPad does not see.                                             *)
LEMMA CoreStep ==
  ASSUME CoreInv, Next
  PROVE  CoreInv' /\ RawStep
<1>1. CASE NoCommand \/ EndTurns
  <2>1. /\ UNCHANGED <<rawVars, keymap, held, layer, momentary, host, tap, runs>>
    BY <1>1 DEF NoCommand, EndTurns, keyVars, tapVars
  <2>2. KeymapOK' /\ layer' \in Layers /\ runs' \in Seq([slot : Dirs, n : Int])
    BY <2>1, ToldAreSlots DEF CoreInv, KeymapOK
  <2> QED
    BY <2>1, <2>2, CommandKeeps
<1>2. CASE RawOn
  BY <1>2, RawOnKeeps
<1>3. CASE RawOff
  BY <1>3, RawOffKeeps
<1>4. ASSUME NEW l \in Layers, NEW s \in Slots, NEW a \in EditActions \cup {NoAction},
             SetAction(l, s, a)
      PROVE  CoreInv' /\ RawStep
  <2>1. /\ UNCHANGED <<rawVars, held, layer, momentary, host, tap, runs>>
        /\ keymap' = [keymap EXCEPT ![l][s] = a]
    BY <1>4 DEF SetAction, keyVars, tapVars
  <2>2. KeymapOK'
    BY <2>1, EditsAreCarried DEF CoreInv
  <2>3. layer' \in Layers /\ runs' \in Seq([slot : Dirs, n : Int])
    BY <2>1, ToldAreSlots DEF CoreInv
  <2> QED
    BY <2>1, <2>2, <2>3, CommandKeeps
<1>5. ASSUME NEW l \in Layers, SetLayer(l)
      PROVE  CoreInv' /\ RawStep
  <2>1. /\ UNCHANGED <<rawVars, keymap, held, host, tap, runs>> /\ layer' = l
        /\ momentary' = [layer |-> NoLayer, slot |-> NoKey]
    BY <1>5 DEF SetLayer, GoToLayer, tapVars
  <2>2. KeymapOK' /\ layer' \in Layers /\ runs' \in Seq([slot : Dirs, n : Int])
    BY <2>1 DEF CoreInv, KeymapOK
  <2> QED
    BY <2>1, <2>2, CommandKeeps
<1>6. CASE Reset
  <2>1. /\ UNCHANGED <<rawVars, held, host, tap, runs>> /\ layer' = 0
        /\ momentary' = [layer |-> NoLayer, slot |-> NoKey] /\ keymap' = Defaults
    BY <1>6 DEF Reset, GoToLayer, tapVars
  <2>2. KeymapOK'
    BY <2>1, EditsAreCarried DEF CoreInv
  <2>3. layer' \in Layers /\ runs' \in Seq([slot : Dirs, n : Int])
    BY <2>1, ToldAreSlots DEF CoreInv
  <2> QED
    BY <2>1, <2>2, <2>3, CommandKeeps
<1>7. CASE Restart
  BY <1>7, RestartKeeps
<1>8. ASSUME NEW ms \in {1, TapGap}, Clock(ms)
      PROVE  CoreInv' /\ RawStep
  <2>1. ms \in Nat
    BY CoreAssumption
  <2> QED
    BY <1>8, <2>1, ClockKeeps
<1>9. ASSUME NEW lv \in GpioLevels, NEW t \in TmKeys \cup {NoKey}, KeyScan(lv, t)
      PROVE  CoreInv' /\ RawStep
  <2>1. CASE PadActive
    BY <1>9, <2>1, RawScanKeeps
  <2>2. CASE ~PadActive
    BY <1>9, <2>2, KeymapScanKeeps
  <2> QED
    BY <2>1, <2>2
<1>10. ASSUME NEW d \in Dirs, NEW n \in 1..MaxTake, Turn(d, n)
       PROVE  CoreInv' /\ RawStep
  BY <1>10, TurnKeeps
<1>11. CASE Taps
  BY <1>11, TapsKeep
<1> QED
  BY <1>1, <1>2, <1>3, <1>4, <1>5, <1>6, <1>7, <1>8, <1>9, <1>10, <1>11 DEF Next

(* The invariant holds at power-on, which is a start of the contract. *)
LEMMA CoreStart ==
  ASSUME Init
  PROVE  CoreInv /\ Raw!PadInit
<1>1. /\ gpio = FALSE /\ tm \in TmKeys \cup {NoKey} /\ left = 0 /\ rawHeld = {} /\ seq = 0
      /\ Raw!PadInit
  BY DEF Init, Raw!PadInit
<1>2. /\ held = [s \in Slots |-> NoAction] /\ layer = 0
      /\ momentary = [layer |-> NoLayer, slot |-> NoKey]
      /\ runs = <<>> /\ tap = NoTap /\ host = [down |-> {}, mods |-> {}] /\ keymap = Defaults
  BY DEF Init, KeymapInit
<1>3. 0 \in Layers
  BY CoreAssumption
<1>4. Side \in Sides
  BY <1>1, <1>2, <1>3, NoTapIs DEF Side, Sides, Momentaries, Hosts, Actions
<1>5. Quiet(Side)
  BY <1>2 DEF Side, Quiet
<1>6. SideOK(Side)
  BY <1>4, <1>5, QuietIsOK
<1>7. RawOK
  <2>1. 0 \in 0..Timeout /\ 0 \in 0..SeqWrap - 1
    BY CoreAssumption
  <2>2. gpio \in BOOLEAN
    BY <1>1
  <2> QED
    BY <1>1, <2>1, <2>2 DEF RawOK
<1>8. KeymapOK
  BY <1>2, ActionAssumption DEF KeymapOK, Carried
<1>9. CoreInv
  BY <1>1, <1>2, <1>4, <1>6, <1>7, <1>8 DEF CoreInv, Silent, PadActive
<1> QED
  BY <1>1, <1>9

(* A step that changes nothing keeps the invariant. *)
LEMMA CoreStutters ==
  ASSUME CoreInv, UNCHANGED vars
  PROVE  CoreInv' /\ RawStep
<1>1. UNCHANGED <<rawVars, keymap, held, layer, momentary, host, tap, runs>>
  BY DEF vars, keyVars, tapVars
<1>2. KeymapOK' /\ layer' \in Layers /\ runs' \in Seq([slot : Dirs, n : Int])
  BY <1>1, ToldAreSlots DEF CoreInv, KeymapOK
<1> QED
  BY <1>1, <1>2, CommandKeeps

-----------------------------------------------------------------------------
(* What the invariant says of the keys.                                      *)
LEMMA CoreInvGives ==
  ASSUME CoreInv
  PROVE  NothingStuck /\ RawIsSilent /\ MomentaryIsHeld /\ HeldIsDown /\ NeededModsStay
<1>1. /\ Side \in Sides /\ HeldOK(held) /\ TapOK(tap) /\ MomentaryOK(momentary, held)
      /\ HostOK(host, TypedKeys(held, tap))
  BY SideFields DEF CoreInv, SideOK
<1>2. /\ held \in [Slots -> Actions] /\ tap.action \in Actions
  BY <1>1, SideFields DEF Sides, TapStates
<1>3. NothingStuck
  BY <1>1, NothingTyped, SideFields DEF NothingStuck, Idle, CoreInv
<1>4. RawIsSilent
  BY SideFields DEF RawIsSilent, CoreInv, Silent, Quiet, Idle
<1>5. MomentaryIsHeld
  BY <1>1 DEF MomentaryIsHeld, MomentaryOK
<1>6. \A a \in Typing : IsKey(a) => a \in TypedKeys(held, tap) /\ a \in Actions
  BY <1>2 DEF Typing, TypedKeys
<1>7. HeldIsDown
  BY <1>1, <1>6 DEF HeldIsDown, HostOK
<1>8. NeededModsStay
  <2> SUFFICES ASSUME NEW a \in Typing, NEW m \in ModsOf(a), m \notin Usages
               PROVE  m \in host.mods
    BY DEF NeededModsStay
  <2>1. IsKey(a) /\ m \in a.mods
    BY DEF ModsOf
  <2> QED
    BY <1>1, <1>6, <2>1 DEF HostOK
<1> QED
  BY <1>3, <1>4, <1>5, <1>7, <1>8

(* The core alone: what goes down comes up, for every keymap, set of slots,  *)
(* layers, length of the queue and of the timeouts (PAD_event, runTaps,      *)
(* PAD_releaseAll, PAD_setRaw).                                              *)
THEOREM CoreKeysAreSound ==
  Spec => [](NothingStuck /\ RawIsSilent /\ MomentaryIsHeld /\ HeldIsDown /\ NeededModsStay)
<1>1. Init => CoreInv
  BY CoreStart
<1>2. CoreInv /\ [Next]_vars => CoreInv'
  BY CoreStep, CoreStutters
<1>3. CoreInv => NothingStuck /\ RawIsSilent /\ MomentaryIsHeld /\ HeldIsDown /\ NeededModsStay
  BY CoreInvGives
<1> QED
  BY <1>1, <1>2, <1>3, PTL DEF Spec

(* Seen from outside, the core with its keymap, layers and queue is RawPad:  *)
(* the pad RawSession puts at the daemon's cable (PAD_event's raw branch).   *)
THEOREM CoreImplementsRawPad == Spec => RawContract
<1>1. Init => CoreInv /\ Raw!PadInit
  BY CoreStart
<1>2. CoreInv /\ [Next]_vars => CoreInv'
  BY CoreStep, CoreStutters
<1>3. CoreInv /\ [Next]_vars => [Raw!PadNext]_(Raw!padVars)
  BY CoreStep, CoreStutters DEF RawStep, rawVars, Raw!padVars
<1> QED
  BY <1>1, <1>2, <1>3, PTL DEF Spec, RawContract, Raw!PadSpec

-----------------------------------------------------------------------------
(* The queue (PAD_turn, runTaps): its runs are the detents that are owed, in *)
(* their order, and it never holds more than its runs and what each takes.   *)
Runs == [slot : Dirs, n : 1..RunMax]
Turned(d, m) == [i \in 1..m |-> d]
QueueOK ==
  /\ runs \in Seq(Runs) /\ Len(runs) <= QueueRuns
  /\ owed \in Seq(Dirs)
  /\ InOrder(runs, owed)

(* An empty queue owes nothing. *)
LEMMA NoneInOrder ==
  ASSUME NEW rs, NEW ds, Len(rs) = 0, Len(ds) = 0
  PROVE  InOrder(rs, ds)
<1> DEFINE at == [i \in 0..0 |-> 0]
<1>1. at \in [0..0 -> 0..0] /\ at[0] = 0
  OBVIOUS
<1> HIDE DEF at
<1>2. ~(\E i \in 1..0 : TRUE)
  OBVIOUS
<1>3. /\ at \in [0..Len(rs) -> 0..Len(ds)] /\ at[0] = 0 /\ at[Len(rs)] = Len(ds)
      /\ \A i \in 1..Len(rs) :
           /\ at[i] = at[i - 1] + rs[i].n
           /\ \A j \in at[i - 1] + 1..at[i] : ds[j] = rs[i].slot
  BY <1>1, <1>2
<1> QED
  BY <1>3 DEF InOrder

(* Some detents of one direction, as a sequence. *)
LEMMA TurnedIs ==
  ASSUME NEW d \in Dirs, NEW m \in Nat
  PROVE  /\ Turned(d, m) \in Seq(Dirs) /\ Len(Turned(d, m)) = m
         /\ \A i \in 1..m : Turned(d, m)[i] = d
<1>1. /\ Turned(d, m) \in [1..m -> Dirs]
  BY DEF Turned
<1>2. Turned(d, m) \in Seq(Dirs)
  BY <1>1, IsASeq DEF Turned
<1>3. Len(Turned(d, m)) = m
  BY <1>1, <1>2, LenProperties
<1> QED
  BY <1>2, <1>3 DEF Turned

(* Detents that come after others: e is ds and then m times d. *)
Follow(e, ds, d, m) ==
  /\ e \in Seq(Dirs) /\ Len(e) = Len(ds) + m
  /\ \A j \in 1..Len(ds) : e[j] = ds[j]
  /\ \A j \in Len(ds) + 1..Len(ds) + m : e[j] = d

(* A sequence followed by a run of turned detents is such a follower. *)
LEMMA WithTurned ==
  ASSUME NEW ds \in Seq(Dirs), NEW d \in Dirs, NEW m \in Nat
  PROVE  Follow(ds \o Turned(d, m), ds, d, m)
<1> DEFINE e == Turned(d, m)
<1>1. e \in Seq(Dirs) /\ Len(e) = m /\ \A i \in 1..m : e[i] = d
  BY TurnedIs
<1> HIDE DEF e
<1>2. /\ ds \o e \in Seq(Dirs) /\ Len(ds \o e) = Len(ds) + m
      /\ \A j \in 1..Len(ds) + m :
           (ds \o e)[j] = IF j <= Len(ds) THEN ds[j] ELSE e[j - Len(ds)]
  BY <1>1, ConcatProperties
<1>3. Len(ds) \in Nat
  BY LenProperties
<1>4. ASSUME NEW j \in 1..Len(ds) PROVE (ds \o e)[j] = ds[j]
  BY <1>2, <1>3
<1>5. ASSUME NEW j \in Len(ds) + 1..Len(ds) + m PROVE (ds \o e)[j] = d
  <2>1. j \in 1..Len(ds) + m /\ ~(j <= Len(ds)) /\ j - Len(ds) \in 1..m
    BY <1>3
  <2> QED
    BY <1>1, <1>2, <2>1
<1> QED
  BY <1>2, <1>4, <1>5 DEF e, Follow

(* Two parts of one direction are one. *)
LEMMA TurnedTwice ==
  ASSUME NEW ds \in Seq(Dirs), NEW d \in Dirs, NEW m \in Nat, NEW k \in Nat
  PROVE  (ds \o Turned(d, m)) \o Turned(d, k) = ds \o Turned(d, m + k)
<1> DEFINE a == ds \o Turned(d, m)
           b == a \o Turned(d, k)
           c == ds \o Turned(d, m + k)
<1>0. Len(ds) \in Nat
  BY LenProperties
<1>1. /\ a \in Seq(Dirs) /\ Len(a) = Len(ds) + m
      /\ \A j \in 1..Len(ds) : a[j] = ds[j]
      /\ \A j \in Len(ds) + 1..Len(ds) + m : a[j] = d
  BY WithTurned DEF Follow
<1> HIDE DEF a
<1>2. /\ b \in Seq(Dirs) /\ Len(b) = Len(a) + k
      /\ \A j \in 1..Len(a) : b[j] = a[j]
      /\ \A j \in Len(a) + 1..Len(a) + k : b[j] = d
  BY <1>1, WithTurned DEF Follow
<1>3. m + k \in Nat
  OBVIOUS
<1>4. /\ c \in Seq(Dirs) /\ Len(c) = Len(ds) + (m + k)
      /\ \A j \in 1..Len(ds) : c[j] = ds[j]
      /\ \A j \in Len(ds) + 1..Len(ds) + (m + k) : c[j] = d
  BY <1>3, WithTurned DEF Follow
<1> HIDE DEF b, c
<1>5. Len(b) = Len(c)
  BY <1>0, <1>1, <1>2, <1>4
<1>6. ASSUME NEW j \in 1..Len(b) PROVE b[j] = c[j]
  <2>1. j \in 1..Len(ds) \/ j \in Len(ds) + 1..Len(ds) + m \/ j \in Len(a) + 1..Len(a) + k
    BY <1>0, <1>1, <1>2
  <2>2. CASE j \in 1..Len(ds)
    <3>1. j \in 1..Len(a)
      BY <1>0, <1>1, <2>2
    <3> QED
      BY <1>1, <1>2, <1>4, <2>2, <3>1
  <2>3. CASE j \in Len(ds) + 1..Len(ds) + m
    <3>1. j \in 1..Len(a) /\ j \in Len(ds) + 1..Len(ds) + (m + k)
      BY <1>0, <1>1, <2>3
    <3> QED
      BY <1>1, <1>2, <1>4, <2>3, <3>1
  <2>4. CASE j \in Len(a) + 1..Len(a) + k
    <3>1. j \in Len(ds) + 1..Len(ds) + (m + k)
      BY <1>0, <1>1, <2>4
    <3> QED
      BY <1>2, <1>4, <2>4, <3>1
  <2> QED
    BY <2>1, <2>2, <2>3, <2>4
<1>7. b = c
  BY <1>2, <1>4, <1>5, <1>6, SeqEqual
<1> QED
  BY <1>7 DEF a, b, c

(* What a division of the detents into runs says of one of them. *)
LEMMA DivisionIs ==
  ASSUME NEW l \in Nat, NEW n \in Nat, NEW at \in [0..l -> 0..n], NEW i \in 1..l
  PROVE  /\ at[i] \in Nat /\ at[i] <= n /\ at[i - 1] \in Nat /\ at[i - 1] <= n
         /\ i - 1 \in 0..l /\ i \in 0..l
<1>1. i - 1 \in 0..l /\ i \in 0..l
  OBVIOUS
<1>2. at[i] \in 0..n /\ at[i - 1] \in 0..n
  BY <1>1
<1> QED
  BY <1>1, <1>2

(* at divides the n detents ds into the l runs rs. *)
Divides(at, l, n, rs, ds) ==
  /\ at \in [0..l -> 0..n] /\ at[0] = 0 /\ at[l] = n
  /\ \A i \in 1..l :
       /\ at[i] = at[i - 1] + rs[i].n
       /\ \A j \in at[i - 1] + 1..at[i] : ds[j] = rs[i].slot

(* To be in order is to be divided so. *)
LEMMA Divided ==
  ASSUME NEW l, NEW n, NEW rs, NEW ds, Len(rs) = l, Len(ds) = n
  PROVE  InOrder(rs, ds) <=> \E at : Divides(at, l, n, rs, ds)
  BY DEF InOrder, Divides

(* Detents of one direction behind the others are a run behind the others. *)
LEMMA RunAdded ==
  ASSUME NEW rs \in Seq(Runs), NEW ds \in Seq(Dirs), NEW d \in Dirs, NEW m \in Nat,
         InOrder(rs, ds), NEW r \in Runs, r.slot = d, r.n = m
  PROVE  InOrder(rs \o <<r>>, ds \o Turned(d, m))
<1> DEFINE l == Len(rs)
           n == Len(ds)
           e == ds \o Turned(d, m)
           q == rs \o <<r>>
<1>1. l \in Nat /\ n \in Nat
  BY LenProperties
<1>2. PICK at \in [0..l -> 0..n] :
        /\ at[0] = 0 /\ at[l] = n
        /\ \A i \in 1..l :
             /\ at[i] = at[i - 1] + rs[i].n
             /\ \A j \in at[i - 1] + 1..at[i] : ds[j] = rs[i].slot
  BY DEF InOrder
<1>3. /\ Len(e) = n + m
      /\ \A j \in 1..n : e[j] = ds[j]
      /\ \A j \in n + 1..n + m : e[j] = d
  <2> HIDE DEF e
  <2>1. Follow(e, ds, d, m)
    BY WithTurned DEF e
  <2> QED
    BY <2>1 DEF Follow
<1>4. /\ Len(q) = l + 1
      /\ \A i \in 1..l : q[i] = rs[i]
      /\ q[l + 1] = r
  <2>1. <<r>> \in Seq(Runs) /\ Len(<<r>>) = 1 /\ <<r>>[1] = r
    OBVIOUS
  <2>2. /\ Len(q) = l + 1
        /\ \A i \in 1..l + 1 : q[i] = IF i <= l THEN rs[i] ELSE <<r>>[i - l]
    BY <2>1, ConcatProperties
  <2>3. ASSUME NEW i \in 1..l PROVE q[i] = rs[i]
    BY <1>1, <2>2
  <2>4. l + 1 \in 1..l + 1 /\ ~(l + 1 <= l) /\ (l + 1) - l = 1
    BY <1>1
  <2> QED
    BY <2>1, <2>2, <2>3, <2>4
<1> HIDE DEF l, n, e, q
<1> DEFINE to == [i \in 0..l + 1 |-> IF i <= l THEN at[i] ELSE n + m]
<1>5. /\ to \in [0..l + 1 -> 0..n + m] /\ to[l + 1] = n + m
      /\ \A i \in 0..l : to[i] = at[i]
  BY <1>1
<1> HIDE DEF to
<1>6. to[0] = 0 /\ to[l] = n
  BY <1>1, <1>2, <1>5
<1>7. ASSUME NEW i \in 1..l + 1
      PROVE  /\ to[i] = to[i - 1] + q[i].n
             /\ \A j \in to[i - 1] + 1..to[i] : e[j] = q[i].slot
  <2>1. CASE i \in 1..l
    <3>1. /\ at[i] \in Nat /\ at[i] <= n /\ at[i - 1] \in Nat
          /\ to[i] = at[i] /\ to[i - 1] = at[i - 1] /\ q[i] = rs[i]
      BY <1>1, <1>4, <1>5, <2>1, DivisionIs
    <3>2. \A j \in at[i - 1] + 1..at[i] : j \in 1..n
      BY <1>1, <3>1
    <3> QED
      BY <1>2, <1>3, <2>1, <3>1, <3>2
  <2>2. CASE i = l + 1
    <3>1. i - 1 = l
      BY <1>1, <2>2
    <3> QED
      BY <1>3, <1>4, <1>5, <1>6, <2>2, <3>1
  <2> QED
    BY <1>1, <2>1, <2>2
<1>8. Divides(to, l + 1, n + m, q, e)
  BY <1>5, <1>6, <1>7 DEF Divides
<1>9. InOrder(q, e)
  BY <1>3, <1>4, <1>8, Divided
<1> QED
  BY <1>9 DEF q, e

(* So they are when they join the last run. *)
LEMMA RunJoined ==
  ASSUME NEW rs \in Seq(Runs), NEW ds \in Seq(Dirs), NEW d \in Dirs, NEW m \in Nat,
         InOrder(rs, ds), rs # <<>>, rs[Len(rs)].slot = d,
         NEW r \in Runs, r.slot = d, r.n = rs[Len(rs)].n + m
  PROVE  InOrder([rs EXCEPT ![Len(rs)] = r], ds \o Turned(d, m))
<1> DEFINE l == Len(rs)
           n == Len(ds)
           e == ds \o Turned(d, m)
           q == [rs EXCEPT ![l] = r]
<1>1. l \in Nat \ {0} /\ n \in Nat
  BY LenProperties, EmptySeq
<1>2. PICK at \in [0..l -> 0..n] :
        /\ at[0] = 0 /\ at[l] = n
        /\ \A i \in 1..l :
             /\ at[i] = at[i - 1] + rs[i].n
             /\ \A j \in at[i - 1] + 1..at[i] : ds[j] = rs[i].slot
  BY DEF InOrder
<1>3. /\ Len(e) = n + m
      /\ \A j \in 1..n : e[j] = ds[j]
      /\ \A j \in n + 1..n + m : e[j] = d
  <2> HIDE DEF e
  <2>1. Follow(e, ds, d, m)
    BY WithTurned DEF e
  <2> QED
    BY <2>1 DEF Follow
<1>4. /\ Len(q) = l /\ q[l] = r
      /\ \A i \in 1..l : i # l => q[i] = rs[i]
  BY <1>1, ExceptSeq
<1>5. rs[l] \in Runs /\ rs[l].slot = d /\ r.n = rs[l].n + m /\ rs[l].n \in Nat
  <2>1. l \in 1..Len(rs)
    BY <1>1
  <2>2. rs[l] \in Runs
    BY <2>1, ElementOfSeq
  <2> QED
    BY <2>2, CoreAssumption DEF Runs
<1> HIDE DEF l, n, e, q
<1> DEFINE to == [i \in 0..l |-> IF i < l THEN at[i] ELSE n + m]
<1>6. /\ to \in [0..l -> 0..n + m] /\ to[l] = n + m
      /\ \A i \in 0..l - 1 : to[i] = at[i]
  BY <1>1
<1> HIDE DEF to
<1>7. to[0] = 0
  BY <1>1, <1>2, <1>6
<1>8. ASSUME NEW i \in 1..l
      PROVE  /\ to[i] = to[i - 1] + q[i].n
             /\ \A j \in to[i - 1] + 1..to[i] : e[j] = q[i].slot
  <2>0. /\ at[i] \in Nat /\ at[i] <= n /\ at[i - 1] \in Nat /\ i - 1 \in 0..l - 1
        /\ at[i] = at[i - 1] + rs[i].n
        /\ \A j \in at[i - 1] + 1..at[i] : ds[j] = rs[i].slot
    BY <1>1, <1>2, DivisionIs
  <2>1. CASE i < l
    <3>1. to[i] = at[i] /\ to[i - 1] = at[i - 1] /\ q[i] = rs[i]
      BY <1>1, <1>4, <1>6, <2>0, <2>1
    <3>2. \A j \in at[i - 1] + 1..at[i] : j \in 1..n
      BY <1>1, <2>0
    <3> QED
      BY <1>3, <2>0, <3>1, <3>2
  <2>2. CASE i = l
    <3>1. to[i] = n + m /\ to[i - 1] = at[i - 1] /\ q[i] = r /\ at[i] = n
      BY <1>2, <1>4, <1>6, <2>0, <2>2
    <3>2. n + m = at[i - 1] + r.n
      <4>1. n = at[i - 1] + rs[l].n
        BY <2>0, <2>2, <3>1
      <4> QED
        BY <1>1, <1>5, <2>0, <4>1
    <3>3. ASSUME NEW j \in at[i - 1] + 1..n + m PROVE e[j] = d
      <4>1. j \in at[i - 1] + 1..n \/ j \in n + 1..n + m
        BY <1>1, <2>0
      <4>2. CASE j \in at[i - 1] + 1..n
        <5>1. j \in 1..n
          BY <1>1, <2>0, <4>2
        <5> QED
          BY <1>3, <1>5, <2>0, <2>2, <3>1, <4>2, <5>1
      <4> QED
        BY <1>3, <4>1, <4>2
    <3> QED
      BY <3>1, <3>2, <3>3
  <2> QED
    BY <1>1, <2>1, <2>2
<1>9. Divides(to, l, n + m, q, e)
  BY <1>6, <1>7, <1>8 DEF Divides
<1>10. InOrder(q, e)
  BY <1>3, <1>4, <1>9, Divided
<1> QED
  BY <1>10 DEF q, e, l

(* Induction over the naturals, for a set instead of a formula.              *)
LEMMA SetInduction ==
  ASSUME NEW S, 0 \in S, \A n \in Nat : n \in S => n + 1 \in S
  PROVE  Nat \subseteq S
<1> DEFINE Bad == Nat \ S
<1>1. SUFFICES ASSUME Bad # {} PROVE FALSE
  OBVIOUS
<1>2. PICK x \in Bad : \A y \in Bad : ~ (<<y, x>> \in OpToRel(<, Nat))
  <2> HIDE DEF Bad
  <2>1. Bad \subseteq Nat
    BY DEF Bad
  <2> QED
    BY <1>1, <2>1, WFMin, NatLessThanWellFounded, Zenon
<1>3. x \in Nat /\ x # 0
  OBVIOUS
<1>4. x - 1 \in Nat /\ x - 1 < x
  BY <1>3
<1>5. x - 1 \notin Bad
  BY <1>2, <1>3, <1>4 DEF OpToRel
<1> QED
  BY <1>3, <1>4, <1>5

(* Every run has a detent, so the first one is before the end of each.       *)
LEMMA FirstIsBefore ==
  ASSUME NEW l \in Nat, NEW at, at[0] = 0,
         \A i \in 1..l : at[i] \in Nat /\ at[i] >= at[i - 1] + 1
  PROVE  \A i \in 1..l : at[i] >= 1
<1> DEFINE S == {k \in Nat : k \in 1..l => at[k] >= 1}
<1>1. 0 \in S
  OBVIOUS
<1>2. ASSUME NEW k \in Nat, k \in S PROVE k + 1 \in S
  <2>1. SUFFICES ASSUME k + 1 \in 1..l PROVE at[k + 1] >= 1
    OBVIOUS
  <2>2. (k + 1) - 1 = k /\ at[k] \in Nat
    BY <2>1
  <2>3. at[k + 1] \in Nat /\ at[k + 1] >= at[k] + 1
    BY <2>1, <2>2
  <2> QED
    BY <2>2, <2>3
<1> HIDE DEF S
<1>3. Nat \subseteq S
  BY <1>1, <1>2, SetInduction
<1> QED
  BY <1>3 DEF S

(* What such a division says of a queue that has a run. *)
LEMMA DividedIs ==
  ASSUME NEW rs \in Seq(Runs), NEW ds \in Seq(Dirs), rs # <<>>,
         NEW l, NEW n, l = Len(rs), n = Len(ds), NEW at, Divides(at, l, n, rs, ds)
  PROVE  /\ l \in Nat \ {0} /\ n \in Nat \ {0} /\ ds # <<>>
         /\ at[0] = 0 /\ at[l] = n /\ at[1] = rs[1].n
         /\ Len(Tail(ds)) = n - 1 /\ \A j \in 1..n - 1 : Tail(ds)[j] = ds[j + 1]
         /\ \A i \in 1..l : /\ rs[i] \in Runs /\ rs[i].n \in Nat /\ rs[i].n >= 1
                            /\ at[i] \in Nat /\ at[i] <= n /\ at[i] >= 1 /\ at[i - 1] \in Nat
                            /\ at[i] = at[i - 1] + rs[i].n
                            /\ \A j \in at[i - 1] + 1..at[i] : ds[j] = rs[i].slot
<1>1. l \in Nat \ {0} /\ n \in Nat
  BY LenProperties, EmptySeq
<1>2. ASSUME NEW i \in 1..l
      PROVE  rs[i] \in Runs /\ rs[i].n \in Nat /\ rs[i].n >= 1
  <2>1. rs[i] \in Runs
    BY ElementOfSeq
  <2> QED
    BY <2>1, CoreAssumption DEF Runs
<1>3. ASSUME NEW i \in 1..l
      PROVE  /\ at[i] \in Nat /\ at[i] <= n /\ at[i - 1] \in Nat /\ at[i] = at[i - 1] + rs[i].n
             /\ \A j \in at[i - 1] + 1..at[i] : ds[j] = rs[i].slot
  BY <1>1, DivisionIs DEF Divides
<1>4. at[0] = 0 /\ at[l] = n
  BY DEF Divides
<1>5. \A i \in 1..l : at[i] >= 1
  <2>1. ASSUME NEW i \in 1..l PROVE at[i] \in Nat /\ at[i] >= at[i - 1] + 1
    <3>1. PICK x, y, z : x = at[i] /\ y = at[i - 1] /\ z = rs[i].n
      OBVIOUS
    <3>2. x \in Nat /\ y \in Nat /\ z \in Nat /\ z >= 1 /\ x = y + z
      BY <1>2, <1>3, <3>1
    <3>3. x >= y + 1
      BY <3>2
    <3> QED
      BY <3>1, <3>2, <3>3
  <2> QED
    BY <1>1, <1>4, <2>1, FirstIsBefore
<1>6. n # 0 /\ at[1] = rs[1].n
  <2>1. 1 \in 1..l /\ l \in 1..l /\ 1 - 1 = 0
    BY <1>1
  <2>2. at[1] = at[0] + rs[1].n /\ rs[1].n \in Nat
    BY <1>2, <1>3, <2>1
  <2> QED
    BY <1>4, <1>5, <2>1, <2>2
<1>7. ds # <<>>
  BY <1>6
<1>8. Len(Tail(ds)) = n - 1 /\ \A j \in 1..n - 1 : Tail(ds)[j] = ds[j + 1]
  BY <1>7, HeadTailProperties
<1> QED
  BY <1>1, <1>2, <1>3, <1>4, <1>5, <1>6, <1>7, <1>8

(* The first detent, taken from a run of more than one. *)
LEMMA TakenOfRun ==
  ASSUME NEW rs \in Seq(Runs), NEW ds \in Seq(Dirs), InOrder(rs, ds), rs # <<>>,
         NEW r \in Runs, r.slot = rs[1].slot, r.n = rs[1].n - 1
  PROVE  ds # <<>> /\ InOrder([rs EXCEPT ![1] = r], Tail(ds))
<1>1. PICK l, n, q, e : l = Len(rs) /\ n = Len(ds) /\ q = [rs EXCEPT ![1] = r] /\ e = Tail(ds)
  OBVIOUS
<1>2. PICK at : Divides(at, l, n, rs, ds)
  BY <1>1, Divided
<1>3. /\ l \in Nat \ {0} /\ n \in Nat \ {0} /\ ds # <<>>
      /\ at[0] = 0 /\ at[l] = n /\ at[1] = rs[1].n
      /\ Len(e) = n - 1 /\ \A j \in 1..n - 1 : e[j] = ds[j + 1]
  BY <1>1, <1>2, DividedIs
<1>4. \A i \in 1..l : /\ rs[i].n \in Nat /\ rs[i].n >= 1
                       /\ at[i] \in Nat /\ at[i] <= n /\ at[i] >= 1 /\ at[i - 1] \in Nat
                       /\ at[i] = at[i - 1] + rs[i].n
                       /\ \A j \in at[i - 1] + 1..at[i] : ds[j] = rs[i].slot
  BY <1>1, <1>2, DividedIs
<1>5. 1 \in 1..Len(rs)
  BY <1>1, <1>3
<1>6. /\ Len(q) = l /\ q[1] = r
      /\ \A i \in 1..l : i # 1 => q[i] = rs[i]
  BY <1>1, <1>5, ExceptSeq
<1> DEFINE to == [i \in 0..l |-> IF i = 0 THEN 0 ELSE at[i] - 1]
<1>7. to \in [0..l -> 0..n - 1] /\ to[0] = 0 /\ \A i \in 1..l : to[i] = at[i] - 1
  BY <1>3, <1>4
<1> HIDE DEF to
<1>8. to[l] = n - 1
  BY <1>3, <1>7
<1>9. ASSUME NEW i \in 1..l
      PROVE  /\ to[i] = to[i - 1] + q[i].n
             /\ \A j \in to[i - 1] + 1..to[i] : e[j] = q[i].slot
  <2>1. /\ rs[i].n \in Nat /\ at[i] \in Nat /\ at[i] <= n /\ at[i] >= 1 /\ at[i - 1] \in Nat
        /\ at[i] = at[i - 1] + rs[i].n /\ to[i] = at[i] - 1
        /\ \A j \in at[i - 1] + 1..at[i] : ds[j] = rs[i].slot
    BY <1>4, <1>7
  <2>2. q[i].slot = rs[i].slot
    BY <1>6
  <2>3. PICK x, y, z, p : x = at[i] /\ y = at[i - 1] /\ z = rs[i].n /\ p = to[i - 1]
    OBVIOUS
  <2>4. x \in Nat /\ y \in Nat /\ z \in Nat /\ x = y + z /\ x <= n /\ to[i] = x - 1
    BY <2>1, <2>3
  <2>5. p \in Nat /\ p >= y - 1 /\ x - 1 = p + q[i].n
    <3>1. CASE i = 1
      <4>1. p = 0 /\ y = 0 /\ q[i].n = z - 1
        BY <1>3, <1>6, <1>7, <2>3, <3>1
      <4> QED
        BY <2>4, <4>1
    <3>2. CASE i # 1
      <4>1. i - 1 \in 1..l
        BY <1>3, <3>2
      <4>2. p = y - 1 /\ q[i].n = z /\ y >= 1
        BY <1>4, <1>6, <1>7, <2>3, <3>2, <4>1
      <4> QED
        BY <2>4, <4>2
    <3> QED
      BY <3>1, <3>2
  <2>6. ASSUME NEW j \in p + 1..x - 1 PROVE e[j] = q[i].slot
    <3>1. j + 1 \in y + 1..x /\ j \in 1..n - 1
      BY <1>3, <2>4, <2>5
    <3>2. ds[j + 1] = rs[i].slot
      BY <2>1, <2>3, <3>1
    <3> QED
      BY <1>3, <2>2, <3>1, <3>2
  <2> QED
    BY <2>3, <2>4, <2>5, <2>6
<1>10. Divides(to, l, n - 1, q, e)
  BY <1>7, <1>8, <1>9 DEF Divides
<1>11. InOrder(q, e)
  BY <1>3, <1>6, <1>10, Divided
<1> QED
  BY <1>1, <1>3, <1>11

(* The first detent, the only one of its run. *)
LEMMA TakenRun ==
  ASSUME NEW rs \in Seq(Runs), NEW ds \in Seq(Dirs), InOrder(rs, ds), rs # <<>>, rs[1].n = 1
  PROVE  ds # <<>> /\ InOrder(Tail(rs), Tail(ds))
<1>1. PICK l, n, q, e : l = Len(rs) /\ n = Len(ds) /\ q = Tail(rs) /\ e = Tail(ds)
  OBVIOUS
<1>2. PICK at : Divides(at, l, n, rs, ds)
  BY <1>1, Divided
<1>3. /\ l \in Nat \ {0} /\ n \in Nat \ {0} /\ ds # <<>>
      /\ at[0] = 0 /\ at[l] = n /\ at[1] = 1
      /\ Len(e) = n - 1 /\ \A j \in 1..n - 1 : e[j] = ds[j + 1]
  BY <1>1, <1>2, DividedIs
<1>4. \A i \in 1..l : /\ rs[i].n \in Nat /\ rs[i].n >= 1
                       /\ at[i] \in Nat /\ at[i] <= n /\ at[i] >= 1 /\ at[i - 1] \in Nat
                       /\ at[i] = at[i - 1] + rs[i].n
                       /\ \A j \in at[i - 1] + 1..at[i] : ds[j] = rs[i].slot
  BY <1>1, <1>2, DividedIs
<1>5. Len(q) = l - 1 /\ \A i \in 1..l - 1 : q[i] = rs[i + 1]
  BY <1>1, HeadTailProperties
<1> DEFINE to == [i \in 0..l - 1 |-> at[i + 1] - 1]
<1>6. to \in [0..l - 1 -> 0..n - 1] /\ \A i \in 0..l - 1 : to[i] = at[i + 1] - 1
  BY <1>3, <1>4
<1> HIDE DEF to
<1>7. to[l - 1] = n - 1 /\ to[0] = 0
  <2>1. l - 1 \in 0..l - 1 /\ 0 \in 0..l - 1 /\ (l - 1) + 1 = l /\ 0 + 1 = 1
    BY <1>3
  <2>2. to[l - 1] = at[l] - 1
    BY <1>6, <2>1
  <2>3. to[0] = at[1] - 1
    BY <1>6, <2>1
  <2> QED
    BY <1>3, <2>2, <2>3
<1>8. ASSUME NEW i \in 1..l - 1
      PROVE  /\ to[i] = to[i - 1] + q[i].n
             /\ \A j \in to[i - 1] + 1..to[i] : e[j] = q[i].slot
  <2>1. i + 1 \in 1..l /\ i \in 0..l - 1 /\ i - 1 \in 0..l - 1 /\ (i + 1) - 1 = i /\ (i - 1) + 1 = i
        /\ i \in 1..l
    BY <1>3
  <2>2. /\ rs[i + 1].n \in Nat /\ at[i + 1] \in Nat /\ at[i + 1] <= n /\ at[i] \in Nat /\ at[i] >= 1
        /\ at[i + 1] = at[i] + rs[i + 1].n
        /\ to[i] = at[i + 1] - 1 /\ to[i - 1] = at[i] - 1 /\ q[i] = rs[i + 1]
    BY <1>4, <1>5, <1>6, <2>1
  <2>3. \A j \in at[i] + 1..at[i + 1] : ds[j] = rs[i + 1].slot
    BY <1>4, <2>1
  <2>4. PICK x, y, z : x = at[i + 1] /\ y = at[i] /\ z = rs[i + 1].n
    OBVIOUS
  <2>5. /\ x \in Nat /\ y \in Nat /\ z \in Nat /\ x = y + z /\ x <= n /\ y >= 1
        /\ to[i] = x - 1 /\ to[i - 1] = y - 1 /\ q[i].n = z
    BY <2>2, <2>4
  <2>6. x - 1 = (y - 1) + z
    BY <2>5
  <2>7. ASSUME NEW j \in (y - 1) + 1..x - 1 PROVE e[j] = q[i].slot
    <3>0. j \in Int /\ y <= j /\ j <= x - 1 /\ n \in Nat /\ x <= n /\ y >= 1 /\ y \in Nat /\ x \in Nat
      BY <1>3, <2>5
    <3>1. j + 1 \in y + 1..x /\ j \in 1..n - 1
      BY <3>0
    <3>2. ds[j + 1] = rs[i + 1].slot
      BY <2>3, <2>4, <3>1
    <3> QED
      BY <1>3, <2>2, <3>1, <3>2
  <2> QED
    BY <2>5, <2>6, <2>7
<1>9. Divides(to, l - 1, n - 1, q, e)
  BY <1>6, <1>7, <1>8 DEF Divides
<1>10. InOrder(q, e)
  BY <1>3, <1>5, <1>9, Divided
<1> QED
  BY <1>1, <1>3, <1>10

(* The room in the last run is less than what a run takes. *)
LEMMA RoomIs ==
  ASSUME runs \in Seq(Runs), NEW d \in Dirs
  PROVE  /\ Room(d) \in 0..RunMax - 1
         /\ Room(d) # 0 => /\ runs # <<>> /\ Len(runs) \in 1..Len(runs)
                           /\ Last(runs) = runs[Len(runs)] /\ Last(runs).slot = d
                           /\ Last(runs).n \in 1..RunMax /\ Room(d) = RunMax - Last(runs).n
<1>1. CASE runs = <<>> \/ Last(runs).slot # d
  BY <1>1, CoreAssumption DEF Room
<1>2. CASE runs # <<>> /\ Last(runs).slot = d
  <2>1. Len(runs) \in 1..Len(runs)
    BY <1>2, EmptySeq
  <2>2. Last(runs) = runs[Len(runs)] /\ runs[Len(runs)] \in Runs
    BY <2>1, ElementOfSeq DEF Last
  <2>3. Last(runs).n \in 1..RunMax
    BY <2>2 DEF Runs
  <2>4. Room(d) = RunMax - Last(runs).n
    BY <1>2 DEF Room
  <2> QED
    BY <1>2, <2>1, <2>2, <2>3, <2>4, CoreAssumption
<1> QED
  BY <1>1, <1>2

(* PAD_turn's two halves: joining the last run, and a run of its own.        *)
LEMMA TurnKeepsQueue ==
  ASSUME QueueOK, NEW d \in Dirs, NEW n \in 1..MaxTake, NEW rs, NEW ds,
         rs = Joined(d, n) \o NewRun(d, n), ds = owed \o [i \in 1..Accepted(d, n) |-> d]
  PROVE  /\ rs \in Seq(Runs) /\ Len(rs) <= QueueRuns /\ ds \in Seq(Dirs)
         /\ InOrder(rs, ds)
<1>1. PICK room : room = Room(d)
  OBVIOUS
<1>2. PICK m : m = Least(n, room)
  OBVIOUS
<1>3. PICK js : js = Joined(d, n)
  OBVIOUS
<1>4. /\ room \in 0..RunMax - 1 /\ n \in Nat /\ n >= 1 /\ n <= RunMax /\ RunMax \in Nat \ {0}
      /\ m \in Nat /\ m <= n /\ m <= room /\ (n <= room => m = n) /\ (n > room => m = room)
      /\ (room = 0 => m = 0)
  BY <1>1, <1>2, RoomIs, CoreAssumption DEF QueueOK, Least
<1>5. /\ js \in Seq(Runs) /\ Len(js) = Len(runs) /\ InOrder(js, owed \o Turned(d, m))
  <2>1. CASE room = 0
    <3>1. js = runs
      BY <1>1, <1>3, <2>1 DEF Joined
    <3>2. Turned(d, m) = <<>>
      BY <1>4, <2>1, TurnedIs, EmptySeq
    <3>3. owed \o Turned(d, m) = owed
      BY <3>2, ConcatEmptySeq DEF QueueOK
    <3> QED
      BY <3>1, <3>3 DEF QueueOK
  <2>2. CASE room # 0
    <3>1. PICK last : last = Last(runs)
      OBVIOUS
    <3>2. /\ runs # <<>> /\ Len(runs) \in 1..Len(runs) /\ last = runs[Len(runs)] /\ last.slot = d
          /\ last.n \in 1..RunMax /\ room = RunMax - last.n
      BY <1>1, <2>2, <3>1, RoomIs DEF QueueOK
    <3>3. PICK r : r = [slot |-> d, n |-> last.n + m]
      OBVIOUS
    <3>4. last.n + m \in 1..RunMax
      BY <1>4, <3>2
    <3>5. r \in Runs /\ r.slot = d /\ r.n = last.n + m
      BY <3>3, <3>4 DEF Runs
    <3>6. js = [runs EXCEPT ![Len(runs)] = r]
      BY <1>1, <1>2, <1>3, <2>2, <3>1, <3>3 DEF Joined
    <3>7. js \in Seq(Runs) /\ Len(js) = Len(runs)
      BY <3>2, <3>5, <3>6, ExceptSeq DEF QueueOK
    <3>8. InOrder(js, owed \o Turned(d, m))
      BY <1>4, <3>2, <3>5, <3>6, RunJoined DEF QueueOK
    <3> QED
      BY <3>7, <3>8
  <2> QED
    BY <2>1, <2>2
<1>6. owed \o Turned(d, m) \in Seq(Dirs) /\ Len(runs) \in Nat /\ QueueRuns \in Nat /\ Len(runs) <= QueueRuns
  BY <1>4, WithTurned, LenProperties, CoreAssumption DEF Follow, QueueOK
<1>7. CASE n > room /\ Len(runs) < QueueRuns
  <2>1. PICK r : r = [slot |-> d, n |-> n - room]
    OBVIOUS
  <2>2. r \in Runs /\ r.slot = d /\ r.n = n - room /\ n - room \in Nat /\ n = m + (n - room)
    <3>1. n - room \in 1..RunMax /\ n - room \in Nat /\ n = m + (n - room)
      BY <1>4, <1>7
    <3> QED
      BY <2>1, <3>1 DEF Runs
  <2>3. rs = js \o <<r>>
    BY <1>1, <1>3, <1>7, <2>1 DEF NewRun
  <2>4. <<r>> \in Seq(Runs) /\ Len(<<r>>) = 1
    BY <2>2
  <2>5. rs \in Seq(Runs) /\ Len(rs) = Len(js) + 1
    BY <1>5, <2>3, <2>4, ConcatProperties
  <2>6. Accepted(d, n) = n
    BY <1>1, <1>6, <1>7 DEF Accepted
  <2>7. ds = owed \o Turned(d, n)
    BY <2>6 DEF Turned
  <2>8. ds = (owed \o Turned(d, m)) \o Turned(d, n - room)
    <3>1. PICK k : k = n - room
      OBVIOUS
    <3>2. k \in Nat /\ n = m + k
      BY <2>2, <3>1
    <3>3. (owed \o Turned(d, m)) \o Turned(d, k) = owed \o Turned(d, m + k)
      BY <1>4, <3>2, TurnedTwice DEF QueueOK
    <3> QED
      BY <2>7, <3>1, <3>2, <3>3
  <2>9. InOrder(rs, ds)
    BY <1>5, <1>6, <2>2, <2>3, <2>8, RunAdded
  <2>10. ds \in Seq(Dirs)
    BY <1>4, <2>7, WithTurned DEF Follow, QueueOK
  <2> QED
    BY <1>5, <1>6, <1>7, <2>5, <2>9, <2>10
<1>8. CASE ~(n > room /\ Len(runs) < QueueRuns)
  <2>1. NewRun(d, n) = <<>>
    BY <1>1, <1>8 DEF NewRun
  <2>2. rs = js
    BY <1>3, <1>5, <2>1, ConcatEmptySeq
  <2>3. Accepted(d, n) = m
    BY <1>1, <1>4, <1>6, <1>8 DEF Accepted
  <2>4. ds = owed \o Turned(d, m)
    BY <2>3 DEF Turned
  <2> QED
    BY <1>5, <1>6, <2>2, <2>4
<1> QED
  BY <1>7, <1>8

(* Every step of the core keeps the queue in order. *)
LEMMA QueueStep ==
  ASSUME QueueOK, Next
  PROVE  QueueOK'
<1>1. ASSUME UNCHANGED <<runs, owed>> PROVE QueueOK'
  BY <1>1 DEF QueueOK
<1>2. ASSUME runs' = <<>>, owed' = <<>> PROVE QueueOK'
  <2>1. InOrder(runs', owed')
    <3>1. Len(runs') = 0 /\ Len(owed') = 0
      BY <1>2
    <3> QED
      BY <3>1, NoneInOrder
  <2>2. runs' \in Seq(Runs) /\ owed' \in Seq(Dirs) /\ Len(runs') <= QueueRuns
    BY <1>2, CoreAssumption
  <2> QED
    BY <2>1, <2>2 DEF QueueOK
<1>3. CASE NoCommand \/ RawOff \/ EndTurns
  BY <1>1, <1>3 DEF NoCommand, RawOff, EndTurns, tapVars
<1>4. CASE RawOn
  BY <1>1, <1>2, <1>4 DEF RawOn, tapVars
<1>5. ASSUME NEW l \in Layers, NEW s \in Slots, NEW a \in EditActions \cup {NoAction},
             SetAction(l, s, a)
      PROVE  QueueOK'
  BY <1>1, <1>5 DEF SetAction, tapVars
<1>6. ASSUME NEW l \in Layers, SetLayer(l) PROVE QueueOK'
  BY <1>1, <1>6 DEF SetLayer, GoToLayer, tapVars
<1>7. CASE Reset
  BY <1>1, <1>7 DEF Reset, GoToLayer, tapVars
<1>8. CASE Restart
  BY <1>2, <1>8 DEF Restart
<1>9. ASSUME NEW ms \in {1, TapGap}, Clock(ms) PROVE QueueOK'
  BY <1>1, <1>9 DEF Clock
<1>10. ASSUME NEW lv \in GpioLevels, NEW t \in TmKeys \cup {NoKey}, KeyScan(lv, t)
       PROVE  QueueOK'
  BY <1>1, <1>10 DEF KeyScan
<1>11. ASSUME NEW d \in Dirs, NEW n \in 1..MaxTake, Turn(d, n) PROVE QueueOK'
  <2>1. CASE PadActive
    BY <1>1, <1>11, <2>1 DEF Turn, tapVars
  <2>2. CASE ~PadActive
    <3>1. /\ runs' = Joined(d, n) \o NewRun(d, n)
          /\ owed' = owed \o [i \in 1..Accepted(d, n) |-> d]
      BY <1>11, <2>2 DEF Turn
    <3> QED
      BY <3>1, TurnKeepsQueue DEF QueueOK
  <2> QED
    BY <2>1, <2>2
<1>12. CASE Taps
  <2>1. UNCHANGED <<runs, owed>> \/ TapPress
    BY <1>12 DEF Taps, TapRelease, tapVars
  <2>2. CASE TapPress
    <3>1. PICK r : r = [slot |-> Head(runs).slot, n |-> Head(runs).n - 1]
      OBVIOUS
    <3>2. /\ runs # <<>> /\ owed' = Tail(owed)
          /\ runs' = IF Head(runs).n = 1 THEN Tail(runs) ELSE [runs EXCEPT ![1] = r]
      BY <2>2, <3>1 DEF TapPress
    <3>3. Head(runs) = runs[1] /\ 1 \in 1..Len(runs) /\ runs[1] \in Runs
      BY <3>2, EmptySeq, ElementOfSeq DEF QueueOK
    <3>4. CASE Head(runs).n = 1
      <4>1. owed # <<>> /\ InOrder(runs', owed')
        BY <3>2, <3>3, <3>4, TakenRun DEF QueueOK
      <4>2. runs' \in Seq(Runs) /\ Len(runs') = Len(runs) - 1 /\ Len(runs) \in Nat
        BY <3>2, <3>4, HeadTailProperties, LenProperties DEF QueueOK
      <4>3. owed' \in Seq(Dirs)
        BY <3>2, <4>1, HeadTailProperties DEF QueueOK
      <4> QED
        BY <4>1, <4>2, <4>3, CoreAssumption DEF QueueOK
    <3>5. CASE Head(runs).n # 1
      <4>1. runs' = [runs EXCEPT ![1] = r]
        BY <3>2, <3>5
      <4>2. r \in Runs /\ r.slot = runs[1].slot /\ r.n = runs[1].n - 1
        <5>1. runs[1].n \in 1..RunMax /\ runs[1].n # 1 /\ runs[1].slot \in Dirs
          BY <3>3, <3>5 DEF Runs
        <5>2. runs[1].n - 1 \in 1..RunMax
          BY <5>1, CoreAssumption
        <5> QED
          BY <3>1, <3>3, <5>1, <5>2 DEF Runs
      <4>3. owed # <<>> /\ InOrder(runs', owed')
        BY <3>2, <4>1, <4>2, TakenOfRun DEF QueueOK
      <4>4. runs' \in Seq(Runs) /\ Len(runs') = Len(runs)
        BY <3>3, <4>1, <4>2, ExceptSeq DEF QueueOK
      <4>5. owed' \in Seq(Dirs)
        BY <3>2, <4>3, HeadTailProperties DEF QueueOK
      <4> QED
        BY <4>3, <4>4, <4>5 DEF QueueOK
    <3> QED
      BY <3>4, <3>5
  <2> QED
    BY <1>1, <2>1, <2>2
<1> QED
  BY <1>3, <1>4, <1>5, <1>6, <1>7, <1>8, <1>9, <1>10, <1>11, <1>12 DEF Next

-----------------------------------------------------------------------------
(* The types.                                                                *)
OtherTypes ==
  /\ epoch \in 0..EpochWrap - 1 /\ total \in [Dirs -> 0..CountWrap - 1]
  /\ gpio \in GpioLevels /\ tm \in TmKeys \cup {NoKey}
  /\ phase \in {"task", "clock", "keys", "turn", "taps"} /\ took \in SUBSET Dirs
  /\ edits \in 0..MaxEdits
WholeInv == CoreInv /\ QueueOK /\ OtherTypes

(* Wrapped counters stay in their range. *)
LEMMA CountInRange ==
  ASSUME NEW x \in Int, NEW w \in Nat \ {0}
  PROVE  x % w \in 0..w - 1
  OBVIOUS

(* The bounds of the model, one by one. *)
LEMMA Bounds ==
  /\ EpochWrap \in Nat \ {0} /\ CountWrap \in Nat \ {0} /\ MaxEdits \in Nat
  /\ MaxTake \in Nat \ {0} /\ FALSE \in GpioLevels
<1>1. EpochWrap \in Nat \ {0}
  BY CoreAssumption
<1>2. CountWrap \in Nat \ {0}
  BY CoreAssumption
<1>3. MaxTake \in Nat \ {0}
  BY CoreAssumption
<1>4. MaxEdits \in Nat
  BY CoreAssumption
<1>5. FALSE \in GpioLevels
  BY CoreAssumption
<1> QED
  BY <1>1, <1>2, <1>3, <1>4, <1>5

(* Zero is a count, whatever the wrap. *)
LEMMA ZeroCounts ==
  /\ 0 \in 0..CountWrap - 1 /\ 0 \in 0..EpochWrap - 1 /\ 0 \in 0..MaxEdits
  BY Bounds

(* Every step keeps the other types. *)
LEMMA OtherTypesStep ==
  ASSUME CoreInv, OtherTypes, Next
  PROVE  OtherTypes'
<1>1. (epoch + 1) % EpochWrap \in 0..EpochWrap - 1 /\ 0 \in 0..EpochWrap - 1
  <2>1. epoch + 1 \in Int /\ EpochWrap \in Nat \ {0}
    BY Bounds DEF OtherTypes
  <2> QED
    BY <2>1, ZeroCounts, CountInRange
<1>2. ASSUME UNCHANGED rawVars \/ Raw!TickRaw, phase' \in {"task", "clock", "keys", "turn", "taps"},
             took' \in SUBSET Dirs, edits' \in 0..MaxEdits
      PROVE  OtherTypes'
  BY <1>2 DEF OtherTypes, rawVars, Raw!TickRaw
<1>3. edits < MaxEdits /\ edits' = edits + 1 => edits' \in 0..MaxEdits
  BY Bounds DEF OtherTypes
<1>4. CASE NoCommand \/ EndTurns
  BY <1>2, <1>4 DEF NoCommand, EndTurns, At, OtherTypes
<1>5. CASE RawOn
  <2>1. epoch' \in 0..EpochWrap - 1
    BY <1>1, <1>5 DEF RawOn, OtherTypes
  <2> QED
    BY <1>5, <2>1 DEF RawOn, At, OtherTypes
<1>6. CASE RawOff
  BY <1>6 DEF RawOff, At, OtherTypes
<1>7. ASSUME NEW l \in Layers, NEW s \in Slots, NEW a \in EditActions \cup {NoAction},
             SetAction(l, s, a)
      PROVE  OtherTypes'
  BY <1>2, <1>3, <1>7 DEF SetAction, At
<1>8. ASSUME NEW l \in Layers, SetLayer(l) PROVE OtherTypes'
  BY <1>2, <1>8 DEF SetLayer, GoToLayer, At, OtherTypes
<1>9. CASE Reset
  BY <1>2, <1>3, <1>9 DEF Reset, GoToLayer, At
<1>10. CASE Restart
  <2>1. /\ epoch' = 0 /\ total' = [d \in Dirs |-> 0] /\ gpio' = FALSE /\ tm' \in TmKeys \cup {NoKey}
        /\ phase' = "task" /\ took' = {} /\ edits' = edits
    BY <1>10 DEF Restart, At, Raw!ResetPad
  <2>2. 0 \in 0..CountWrap - 1 /\ FALSE \in GpioLevels
    BY ZeroCounts, Bounds
  <2>3. total' \in [Dirs -> 0..CountWrap - 1]
    BY <2>1, <2>2
  <2> QED
    BY <1>1, <2>1, <2>2, <2>3 DEF OtherTypes
<1>11. ASSUME NEW ms \in {1, TapGap}, Clock(ms) PROVE OtherTypes'
  BY <1>2, <1>11 DEF Clock, At, OtherTypes
<1>12. ASSUME NEW lv \in GpioLevels, NEW t \in TmKeys \cup {NoKey}, KeyScan(lv, t)
       PROVE  OtherTypes'
  BY <1>12 DEF KeyScan, At, OtherTypes
<1>13. ASSUME NEW d \in Dirs, NEW n \in 1..MaxTake, Turn(d, n) PROVE OtherTypes'
  <2>1. phase' = "turn" /\ took' \in SUBSET Dirs /\ edits' = edits
    BY <1>13 DEF Turn, OtherTypes
  <2>2. CASE PadActive
    <3>1. Raw!TurnRaw(d, n)
      BY <1>13, <2>2 DEF Turn
    <3>2. total[d] \in Int /\ n \in Int
      BY Bounds DEF OtherTypes
    <3>3. (total[d] + n) % CountWrap \in 0..CountWrap - 1
      <4>1. CountWrap \in Nat \ {0}
        BY Bounds
      <4>2. total[d] + n \in Int
        BY <3>2
      <4> QED
        BY <4>1, <4>2, CountInRange
    <3>4. total' \in [Dirs -> 0..CountWrap - 1]
      BY <3>1, <3>3 DEF Raw!TurnRaw, OtherTypes
    <3> QED
      BY <2>1, <3>1, <3>4 DEF Raw!TurnRaw, OtherTypes
  <2>3. CASE ~PadActive
    BY <1>2, <1>13, <2>1, <2>3 DEF Turn, OtherTypes
  <2> QED
    BY <2>2, <2>3
<1>14. CASE Taps
  BY <1>14 DEF Taps, At, OtherTypes
<1> QED
  BY <1>4, <1>5, <1>6, <1>7, <1>8, <1>9, <1>10, <1>11, <1>12, <1>13, <1>14 DEF Next

(* The whole invariant. *)
LEMMA WholeStart ==
  ASSUME Init
  PROVE  WholeInv
<1>1. CoreInv
  BY CoreStart
<1>2. runs = <<>> /\ owed = <<>> /\ phase = "task" /\ took = {} /\ edits = 0
  BY DEF Init, KeymapInit
<1>3. InOrder(runs, owed)
  <2>1. Len(runs) = 0 /\ Len(owed) = 0
    BY <1>2
  <2> QED
    BY <2>1, NoneInOrder
<1>4. QueueOK
  BY <1>2, <1>3, CoreAssumption DEF QueueOK
<1>5. OtherTypes
  <2>1. /\ 0 \in 0..CountWrap - 1 /\ 0 \in 0..EpochWrap - 1 /\ 0 \in 0..MaxEdits
        /\ FALSE \in GpioLevels
    BY ZeroCounts, Bounds
  <2>2. total = [d \in Dirs |-> 0] /\ epoch = 0 /\ gpio = FALSE /\ tm \in TmKeys \cup {NoKey}
    BY DEF Init, Raw!PadInit
  <2>3. total \in [Dirs -> 0..CountWrap - 1]
    BY <2>1, <2>2
  <2> QED
    BY <1>2, <2>1, <2>2, <2>3 DEF OtherTypes
<1> QED
  BY <1>1, <1>4, <1>5 DEF WholeInv

(* The whole invariant holds over every step. *)
LEMMA WholeStep ==
  ASSUME WholeInv, [Next]_vars
  PROVE  WholeInv'
<1>1. CASE Next
  BY <1>1, CoreStep, QueueStep, OtherTypesStep DEF WholeInv
<1>2. CASE UNCHANGED vars
  <2>1. CoreInv'
    BY <1>2, CoreStutters DEF WholeInv
  <2>2. UNCHANGED <<runs, owed, epoch, total, gpio, tm, phase, took, edits>>
    BY <1>2 DEF vars, rawVars, tapVars
  <2>3. QueueOK' /\ OtherTypes'
    BY <2>2 DEF WholeInv, QueueOK, OtherTypes
  <2> QED
    BY <2>1, <2>3 DEF WholeInv
<1> QED
  BY <1>1, <1>2

(* What it says of the types. *)
LEMMA WholeTypes ==
  ASSUME WholeInv
  PROVE  TypeOK
<1>1. /\ held \in [Slots -> Actions] /\ layer \in Layers /\ momentary \in Momentaries
      /\ host \in Hosts /\ tap \in TapStates
  BY SideFields DEF WholeInv, CoreInv, Sides
<1>2. keymap \in [Layers -> [Slots -> Actions]]
  BY DEF WholeInv, CoreInv, KeymapOK
<1>3. rawHeld \in SUBSET Raw!Keys
  <2>1. rawHeld \subseteq Raw!PadDown /\ tm \in TmKeys \cup {NoKey}
    BY DEF WholeInv, CoreInv, RawOK
  <2> QED
    BY <2>1 DEF Raw!PadDown, Raw!Keys
<1>4. Raw!PadTypeOK
  BY <1>3 DEF Raw!PadTypeOK, WholeInv, CoreInv, RawOK, OtherTypes
<1> QED
  BY <1>1, <1>2, <1>4
     DEF TypeOK, WholeInv, QueueOK, OtherTypes, Runs, Momentaries, Hosts, TapStates

(* The core's type invariant, for every keymap, set of slots, length of the  *)
(* queue and width of the counters (padlogic.c).                             *)
THEOREM CoreTypeCorrect == Spec => []TypeOK
  BY WholeStart, WholeStep, WholeTypes, PTL DEF Spec

(* Detents are typed in the order they were turned and none twice, whatever  *)
(* the queue's length and however many fit a run: PAD_turn joins the last    *)
(* run or starts one, runTaps takes from the first.                          *)
THEOREM CoreTapsInOrder == Spec => []TapsInOrder
<1>1. WholeInv => TapsInOrder
  BY DEF WholeInv, QueueOK, TapsInOrder
<1> QED
  BY <1>1, WholeStart, WholeStep, PTL DEF Spec

=============================================================================
