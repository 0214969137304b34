---------------------------- MODULE KeypadLayers ----------------------------
(***************************************************************************)
(* The layers of a keypad profile, as the Keypad page edits them.  A layer *)
(* applies while a control is held, in a context, or both; layers apply in *)
(* list order, and the profile's own bindings come last.                   *)
(*                                                                         *)
(* The bindings are those of one knob: what a turn does, and what a turn   *)
(* while the knob is pressed ("shift") does.  `convert_shift_to_held`      *)
(* moves the second kind into layers held with another control.            *)
(***************************************************************************)
EXTENDS Integers, SequencesExt

CONSTANTS Contexts,     \* contexts a layer can ask for; they exclude each other
          MaxLayerEdits

VARIABLES own,          \* the profile's own bindings
          layers,
          layerEdits,
          converted     \* the edit that was the last conversion

layerVars == <<own, layers, layerEdits, converted>>

Turns == {"cw", "ccw"}
No == "no"
NoTurns == [t \in Turns |-> No]
Anywhere == "any"            \* a layer that asks for no context

(* `held` is the control a layer is held with: the one used here, another  *)
(* (or a chord), or none.                                                  *)
Layer(held, context, turns, shift) == [held |-> held, context |-> context, turns |-> turns, shift |-> shift]
Hold == "hold"
Own(turns, shift) == Layer(No, Anywhere, turns, shift)

Mapped(layer) == layer.turns # NoTurns \/ layer.shift # NoTurns
HeldAt(ls) == {i \in DOMAIN ls : ls[i].held # No}

(* find_held_layer: the layer held with just this control, in this context *)
Found(ls, context) == {i \in DOMAIN ls : ls[i].held = Hold /\ ls[i].context = context}

(* Mutant: a new held layer goes behind the others.                        *)
HeldLayerLast(ls, context) ==
  IF Found(ls, context) # {} THEN ls ELSE Append(ls, Layer(Hold, context, NoTurns, NoTurns))

(* held_layer_for: a new layer with a context goes first of all, a plain   *)
(* one behind the held layers at the top.                                  *)
HeldLayerFor(ls, context) ==
  IF Found(ls, context) # {} THEN ls
  ELSE LET free == DOMAIN ls \ HeldAt(ls)
           at == IF context # Anywhere THEN 1 ELSE IF free = {} THEN Len(ls) + 1 ELSE Min(free)
       IN InsertAt(ls, at, Layer(Hold, context, NoTurns, NoTurns))

(* The sources of a conversion, in order: 0 is the profile itself.         *)
Source(base, ls, i) == IF i = 0 THEN base ELSE ls[i]
Sources(base, ls) ==
  {i \in {0} \cup (DOMAIN ls \ HeldAt(ls)) : Source(base, ls, i).shift # NoTurns}

(* Mutant: what the target maps already is overwritten.                    *)
MovesAll(base, ls) == Sources(base, ls)

(* Those that move: the target does not map the knob, and no source before *)
(* it fills that target.                                                   *)
Moves(base, ls) ==
  {i \in Sources(base, ls) :
     LET context == Source(base, ls, i).context IN
     /\ Found(ls, context) = {} \/ ~Mapped(ls[Min(Found(ls, context))])
     /\ \A j \in Sources(base, ls) : j < i => Source(base, ls, j).context # context}

Moved(base, ls) ==
  LET from == Moves(base, ls)
      emptied == [i \in DOMAIN ls |-> IF i \in from THEN [ls[i] EXCEPT !.shift = NoTurns] ELSE ls[i]]
      put(out, i) ==
        LET source == Source(base, ls, i)
            with == HeldLayerFor(out, source.context)
        IN [with EXCEPT ![Min(Found(with, source.context))].turns = source.shift]
  IN FoldLeft(put, emptied, SetToSortSeq(from, <))

Edited == layerEdits < MaxLayerEdits /\ layerEdits' = layerEdits + 1

AddHeldLayer ==
  /\ Edited
  /\ layers' = HeldLayerFor(layers, Anywhere)
  /\ UNCHANGED <<own, converted>>

MoveLayerFirst(i) ==
  /\ Edited
  /\ layers' = <<layers[i]>> \o RemoveAt(layers, i)
  /\ UNCHANGED <<own, converted>>

RemoveLayer(i) ==
  /\ Edited
  /\ layers' = RemoveAt(layers, i)
  /\ UNCHANGED <<own, converted>>

RemoveShiftBindings ==
  /\ Edited
  /\ own' = [own EXCEPT !.shift = NoTurns]
  /\ layers' = [i \in DOMAIN layers |-> [layers[i] EXCEPT !.shift = NoTurns]]
  /\ UNCHANGED converted

ConvertShiftToHeld ==
  /\ Edited
  /\ layers' = Moved(own, layers)
  /\ own' = IF 0 \in Moves(own, layers) THEN [own EXCEPT !.shift = NoTurns] ELSE own
  /\ converted' = layerEdits'

LayersNext ==
  \/ AddHeldLayer \/ RemoveShiftBindings \/ ConvertShiftToHeld
  \/ \E i \in DOMAIN layers : MoveLayerFirst(i) \/ RemoveLayer(i)

LayersTypeOK ==
  /\ \A i \in DOMAIN layers : layers[i].held \in {No, Hold, "other"} /\ layers[i].context \in Contexts \cup {Anywhere}
  /\ layerEdits \in 0..MaxLayerEdits

(* What the daemon finds for a turn: the first layer that applies and has  *)
(* it, else the profile's own.                                             *)
Applies(layer, holding, context) ==
  layer.held \in {No} \cup (IF holding THEN {Hold} ELSE {}) /\ layer.context \in {Anywhere, context}

Lookup(base, ls, holding, context, of(_)) ==
  LET hits == {i \in DOMAIN ls : Applies(ls[i], holding, context) /\ of(ls[i]) # No}
  IN IF hits = {} THEN of(base) ELSE of(ls[Min(hits)])

Shifted(base, ls, context, t) == Lookup(base, ls, FALSE, context, LAMBDA l : l.shift[t])
Turned(base, ls, holding, context, t) == Lookup(base, ls, holding, context, LAMBDA l : l.turns[t])

(* A profile as the page and the presets make them: held layers come       *)
(* before the others, and those ask for a context.                         *)
Usual(ls) ==
  /\ \A i \in HeldAt(ls), j \in DOMAIN ls \ HeldAt(ls) : i < j
  /\ \A j \in DOMAIN ls \ HeldAt(ls) : ls[j].context # Anywhere

Bindings(base, ls) ==
  (UNION {{l.turns[t] : t \in Turns} \cup {l.shift[t] : t \in Turns} : l \in {base} \cup Range(ls)}) \ {No}

(* Converting "turn while pressed" into "turn while the control is held"   *)
(* loses no binding.  In a usual profile it changes nothing else a turn    *)
(* does, and the turn does while the control is held what it did while the *)
(* knob was pressed, in every context, when every source moved and no      *)
(* layer held with that control mapped the knob before.                    *)
ConversionKeepsMeaning ==
  [][converted' # converted =>
       LET from == Sources(own, layers)
           clear == from = Moves(own, layers) /\ \A i \in DOMAIN layers : layers[i].held = Hold => ~Mapped(layers[i])
       IN
       /\ Bindings(own', layers') = Bindings(own, layers)
       /\ Usual(layers) => \A c \in Contexts \cup {"elsewhere"}, t \in Turns :
            /\ Turned(own', layers', FALSE, c, t) = Turned(own, layers, FALSE, c, t)
            /\ clear /\ Shifted(own, layers, c, t) # No =>
                 Turned(own', layers', TRUE, c, t) = Shifted(own, layers, c, t)]_layerVars
=============================================================================
