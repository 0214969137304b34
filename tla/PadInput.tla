------------------------------ MODULE PadInput ------------------------------
(***************************************************************************)
(* A knob of the pad (control-surface/firmware/src/padlogic.c): the timer  *)
(* interrupt decodes its two lines into detents, the main loop debounces   *)
(* its switch, freezes the decoder while it is down and takes the detents. *)
(*                                                                         *)
(* The knob's position is counted in quarters of a detent; position 0      *)
(* modulo 4 is the rest, with both lines high.  The two lines are the      *)
(* position modulo 4 (clockwise 3, 1, 0, 2 in the code).                   *)
(***************************************************************************)
EXTENDS Integers, Sequences

CONSTANTS
  DebounceSamples, (* 3 in the code: DEBOUNCE_SAMPLES                        *)
  AccMax,          (* 100 in the code: ENC_ACC_MAX                           *)
  Reach,           (* bound: quarters turned away from the start             *)
  MaxLog           (* bound: detents decoded between two takes               *)

ASSUME InputAssumption ==
  /\ {DebounceSamples, AccMax, Reach} \subseteq Nat \ {0}
  /\ MaxLog \in Nat

VARIABLES
  pos,        (* where the knob is                                           *)
  moved,      (* how far it moved since the last sample                      *)
  switch,     (* the level of its switch                                     *)
  state,      (* encState: the lines at the last sample                      *)
  count,      (* encCount: quarters counted in the current detent            *)
  acc,        (* encCw and encCcw                                            *)
  last,       (* encLastCw                                                   *)
  frozen,       (* encHeld                                                     *)
  deb,        (* debounce_t of the switch                                    *)
  polled,     (* PAD_poll has debounced and not yet taken                    *)
  cycle,      (* history since the last sample at rest: where it began, net  *)
              (* detents, whether states were skipped (and how often with no *)
              (* direction counted), whether it went beyond one quarter,     *)
              (* which way, turned back, was held, or overran                *)
  log         (* history: detents decoded since the last take, in order      *)

inputVars == <<pos, moved, switch, state, count, acc, last, frozen, deb, polled, cycle, log>>

Lines(p) == p % 4
AtRest == 0
NewCycle(p, l) == [from |-> p, net |-> 0, skipped |-> FALSE, blind |-> 0, far |-> FALSE,
                   dir |-> 0, back |-> FALSE, held |-> FALSE, lost |-> l]

InputTypeOK ==
  /\ pos \in -Reach..Reach
  /\ moved \in -2..2
  /\ switch \in BOOLEAN
  /\ state \in 0..3
  /\ count \in -3..3
  /\ acc \in [{"cw", "ccw"} -> 0..AccMax]
  /\ last \in {"cw", "ccw"}
  /\ frozen \in BOOLEAN
  /\ deb \in [stable : BOOLEAN, pending : BOOLEAN, same : 0..DebounceSamples - 1]
  /\ polled \in BOOLEAN
  /\ log \in Seq({"cw", "ccw"})

(* PAD_init: whatever the lines and the switch are is the resting state.     *)
InputInit ==
  /\ pos \in {0, 1} /\ moved = 0
  /\ switch \in BOOLEAN
  /\ state = Lines(pos) /\ count = 0
  /\ acc = [d \in {"cw", "ccw"} |-> 0] /\ last = "ccw"
  /\ frozen = FALSE
  /\ deb = [stable |-> switch, pending |-> switch, same |-> 0]
  /\ polled = FALSE
  /\ cycle = NewCycle(pos, pos # 0)
  /\ log = <<>>

-----------------------------------------------------------------------------
(* The user turns: at most two quarters between samples, so that one state   *)
(* may be missed.  The switch goes up and down, and bounces, at any time.    *)
TurnKnob(q) ==
  /\ pos + q \in -Reach..Reach
  /\ moved + q \in -2..2
  /\ pos' = pos + q
  /\ moved' = moved + q
  /\ UNCHANGED <<switch, state, count, acc, last, frozen, deb, polled, cycle, log>>

Switch ==
  /\ switch' = ~switch
  /\ UNCHANGED <<pos, moved, state, count, acc, last, frozen, deb, polled, cycle, log>>

(* ENC_DELTA; when both lines changed, twice the direction counted so far.   *)
(* Mutant: a missed state counts for nothing.                                *)
StepsIgnoringJumps(old, now) ==
  CASE (now - old) % 4 = 1 -> 1
    [] (now - old) % 4 = 3 -> -1
    [] OTHER -> 0

Steps(old, now) ==
  CASE (now - old) % 4 = 1 -> 1
    [] (now - old) % 4 = 3 -> -1
    [] (now - old) % 4 = 2 /\ count > 0 -> 2
    [] (now - old) % 4 = 2 /\ count < 0 -> -2
    [] OTHER -> 0

(* The detent a count makes: by a full cycle, and at rest by a half one too. *)
Full(c) == IF c >= 4 THEN "cw" ELSE IF c <= -4 THEN "ccw" ELSE "none"
Over(c) == IF c >= 4 THEN c - 4 ELSE IF c <= -4 THEN c + 4 ELSE c
Half(c) == IF c >= 2 THEN "cw" ELSE IF c <= -2 THEN "ccw" ELSE "none"

Worth(d) == IF d = "cw" THEN 1 ELSE IF d = "ccw" THEN -1 ELSE 0
Net(ds) == Worth(ds.full) + Worth(ds.half)

(* Mutant: encEmit without the limit.                                        *)
EmitUnbounded(k, d) ==
  IF d = "none" THEN k
  ELSE [acc |-> [k.acc EXCEPT ![d] = @ + 1], last |-> d, log |-> Append(k.log, d)]

(* encEmit: what does not fit is counted as an overrun and dropped.          *)
Emit(k, d) ==
  IF d = "none" \/ k.acc[d] >= AccMax THEN k
  ELSE [acc |-> [k.acc EXCEPT ![d] = @ + 1], last |-> d, log |-> Append(k.log, d)]

Emitted(ds) == Emit(Emit([acc |-> acc, last |-> last, log |-> log], ds.full), ds.half)

(* What the last sample showed of the turning since.  A cycle is decodable   *)
(* if states were missed only while turning one way, and at most once with   *)
(* no direction counted yet; one that is not is of no further interest.      *)
Decodable(c) ==
  /\ ~c.lost
  /\ c.skipped => ~c.back
  /\ c.blind <= 1
  /\ c.held => ~c.far

Observe(ds) ==
  LET way == IF moved > 0 THEN 1 ELSE IF moved < 0 THEN -1 ELSE 0
      missed == moved \in {-2, 2}
      overran == \E d \in {ds.full, ds.half} \ {"none"} : acc[d] >= AccMax
      c == [from |-> cycle.from,
            net |-> cycle.net + Net(ds),
            skipped |-> (cycle.skipped \/ missed),
            blind |-> IF missed /\ count = 0 THEN cycle.blind + 1 ELSE cycle.blind,
            far |-> (cycle.far \/ pos - cycle.from \notin -1..1),
            dir |-> IF way = 0 THEN cycle.dir ELSE way,
            back |-> (cycle.back \/ way * cycle.dir = -1),
            held |-> (cycle.held \/ frozen),
            lost |-> (cycle.lost \/ overran)]
  IN IF Decodable(c) THEN c ELSE NewCycle(0, TRUE)

(* PAD_encoderIsr                                                            *)
Counted == count + Steps(state, Lines(pos))
Decoded ==
  IF Lines(pos) = state \/ frozen THEN [full |-> "none", half |-> "none"]
  ELSE [full |-> Full(Counted),
        half |-> IF Lines(pos) = AtRest THEN Half(Over(Counted)) ELSE "none"]

Isr ==
  LET now == Lines(pos)
  IN /\ moved' = 0
     /\ state' = now
     /\ count' = IF now = state THEN count
                 ELSE IF frozen \/ now = AtRest THEN 0
                 ELSE Over(Counted)
     /\ LET k == Emitted(Decoded)
        IN Len(k.log) <= MaxLog /\ acc' = k.acc /\ last' = k.last /\ log' = k.log
     /\ cycle' = IF now = AtRest /\ now # state THEN NewCycle(pos, FALSE) ELSE Observe(Decoded)
     /\ UNCHANGED <<pos, switch, frozen, deb, polled>>

(* PAD_debounce                                                              *)
Debounce(d, sample) ==
  IF sample = d.stable THEN [d EXCEPT !.same = 0, !.pending = sample]
  ELSE LET same == IF sample = d.pending THEN d.same + 1 ELSE 1
       IN IF same >= DebounceSamples
          THEN [stable |-> sample, pending |-> sample, same |-> 0]
          ELSE [d EXCEPT !.pending = sample, !.same = same]

(* PAD_poll, the switch: PAD_encoderSetHeld after the debounce.              *)
PollSwitch ==
  /\ ~polled /\ polled' = TRUE
  /\ deb' = Debounce(deb, switch)
  /\ frozen' = deb'.stable
  /\ UNCHANGED <<pos, moved, switch, state, count, acc, last, cycle, log>>

(* PAD_encoderTake and PAD_turn: both counts at once, the older direction    *)
(* first.                                                                    *)
Times(d) == [i \in 1..acc[d] |-> d]
(* Mutant: always clockwise first.                                           *)
TakenClockwiseFirst == Times("cw") \o Times("ccw")
Taken == IF last = "cw" THEN Times("ccw") \o Times("cw")
         ELSE Times("cw") \o Times("ccw")

Take ==
  /\ polled /\ polled' = FALSE
  /\ acc' = [d \in {"cw", "ccw"} |-> 0]
  /\ log' = <<>>
  /\ UNCHANGED <<pos, moved, switch, state, count, last, frozen, deb, cycle>>

InputNext ==
  \/ \E q \in {-1, 1} : TurnKnob(q)
  \/ Switch
  \/ Isr
  \/ PollSwitch
  \/ Take

InputSpec == InputInit /\ [][InputNext]_inputVars

-----------------------------------------------------------------------------
(* When the knob is back at rest it has sent as many detents as it was       *)
(* turned, in spite of contact bounce and one missed state per turn, and a   *)
(* press that moves a line has sent none (PAD_encoderIsr).                   *)
RestIsExact ==
  LET seen == Observe(Decoded)
  IN (Isr /\ state # AtRest /\ state' = AtRest /\ Decodable(seen)) => 4 * seen.net = pos - cycle.from

(* Detents taken in one pass keep their order if the direction changed at    *)
(* most once (encLastCw).                                                    *)
Reversals(s) == {i \in 1..Len(s) - 1 : s[i] # s[i + 1]}
OlderFirst == Take /\ (\A i, j \in Reversals(log) : i = j) => Taken = log
=============================================================================
