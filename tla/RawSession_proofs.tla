------------------------- MODULE RawSession_proofs -------------------------
(* Proofs about the firmware's raw mode alone (RawPad) and then about the    *)
(* raw input session, for every set of keys and knobs, every timeout and     *)
(* counter width and every bound of the instances.                           *)
EXTENDS RawSession, SequenceTheorems, WellFoundedInduction, TLAPS

(* An edge, sent or not, is a sequence of what it says.                      *)
LEMMA EdgeIsSeq ==
  ASSUME NEW on, NEW kind, NEW slot, NEW S, on => [kind |-> kind, slot |-> slot] \in S
  PROVE  Edge(on, kind, slot) \in Seq(S)
<1>1. CASE on
  BY <1>1 DEF Edge
<1>2. CASE ~on
  BY <1>2 DEF Edge
<1> QED
  BY <1>1, <1>2 DEF Edge

(* What a pass reports in raw mode is about keys of the pad (PAD_event sends *)
(* an UP only for a slot whose DOWN went out).                               *)
LEMMA SentAreKeys ==
  ASSUME PadTypeOK, NEW g \in GpioLevels, NEW t \in TmKeys \cup {NoKey}
  PROVE  RawKeyEvents(g, t) \in Seq([kind : {"DOWN", "UP"}, slot : Keys])
<1> DEFINE E == [kind : {"DOWN", "UP"}, slot : Keys]
<1> DEFINE a == Edge(g # gpio /\ (g \/ GpioKey \in rawHeld), GpioKind(g), GpioKey)
<1> DEFINE b == Edge(t # tm /\ tm \in rawHeld, "UP", tm)
<1> DEFINE c == Edge(t # tm /\ t # NoKey, "DOWN", t)
<1>1. a \in Seq(E)
  BY EdgeIsSeq DEF GpioKind, Keys
<1>2. b \in Seq(E)
  BY EdgeIsSeq DEF PadTypeOK
<1>3. c \in Seq(E)
  BY EdgeIsSeq DEF Keys
<1> HIDE DEF a, b, c, E
<1>4. (a \o b) \o c \in Seq(E)
  BY <1>1, <1>2, <1>3
<1>5. <<>> \in Seq(E)
  OBVIOUS
<1> QED
  BY <1>4, <1>5 DEF RawKeyEvents, a, b, c, E

-----------------------------------------------------------------------------
(* Adding to an 8-bit counter stays in its range, whatever the width.        *)
LEMMA WrapInRange ==
  ASSUME NEW n \in Int, NEW w \in Nat \ {0}
  PROVE  n % w \in 0..w - 1
  OBVIOUS

(* Every counter may start at zero.                                          *)
LEMMA ZeroInRange ==
  /\ 0 \in 0..Timeout /\ 0 \in 0..EpochWrap - 1 /\ 0 \in 0..SeqWrap - 1
  /\ [d \in Dirs |-> 0] \in [Dirs -> 0..CountWrap - 1]
<1>1. 0 \in 0..CountWrap - 1
  BY ModAssumption
<1> QED
  BY <1>1, ModAssumption

(* Each step of the pad keeps its variables in their types.                  *)
LEMMA PadStepTyped ==
  ASSUME PadTypeOK, [PadNext]_padVars
  PROVE  PadTypeOK'
<1> USE KeysAssumption, ModAssumption DEF PadTypeOK
<1>1. ASSUME NEW g \in GpioLevels, NEW t \in TmKeys \cup {NoKey}, ScanKeys(g, t)
      PROVE  PadTypeOK'
  <2>1. gpio' \in GpioLevels /\ tm' \in TmKeys \cup {NoKey}
    BY <1>1 DEF ScanKeys
  <2>2. PadDown' \subseteq Keys
    BY <2>1 DEF PadDown, Keys
  <2>3. rawHeld' \in SUBSET Keys
    BY <1>1, <2>2 DEF ScanKeys
  <2>4. Len(RawKeyEvents(g, t)) \in Nat
    BY SentAreKeys
  <2>5. seq + Len(RawKeyEvents(g, t)) \in Int
    BY <2>4
  <2>6. seq' \in 0..SeqWrap - 1
    BY <1>1, <2>5, WrapInRange DEF ScanKeys
  <2> QED
    BY <1>1, <2>1, <2>3, <2>6 DEF ScanKeys
<1>2. ASSUME NEW d \in Dirs, NEW n \in 1..MaxTake, TurnRaw(d, n)
      PROVE  PadTypeOK'
  <2>1. total[d] + n \in Int
    OBVIOUS
  <2>2. (total[d] + n) % CountWrap \in 0..CountWrap - 1
    BY <2>1, WrapInRange
  <2>3. (seq + 1) % SeqWrap \in 0..SeqWrap - 1
    BY WrapInRange
  <2> QED
    BY <1>2, <2>2, <2>3 DEF TurnRaw
<1>3. ASSUME SetRawOn PROVE PadTypeOK'
  <2>1. (epoch + 1) % EpochWrap \in 0..EpochWrap - 1
    BY WrapInRange
  <2> QED
    BY <1>3, <2>1 DEF SetRawOn
<1>4. ASSUME SetRawOff PROVE PadTypeOK'
  BY <1>4 DEF SetRawOff
<1>5. ASSUME TickRaw PROVE PadTypeOK'
  BY <1>5 DEF TickRaw, PadActive
<1>6. ASSUME ResetPad PROVE PadTypeOK'
  BY <1>6, ZeroInRange DEF ResetPad
<1>7. ASSUME UNCHANGED padVars PROVE PadTypeOK'
  BY <1>7 DEF padVars
<1> QED
  BY <1>1, <1>2, <1>3, <1>4, <1>5, <1>6, <1>7 DEF PadNext

(* The pad's variables keep their types.                                     *)
THEOREM PadTypeCorrect == PadSpec => []PadTypeOK
<1>1. PadInit => PadTypeOK
  BY KeysAssumption, ZeroInRange DEF PadInit, PadTypeOK
<1>2. PadTypeOK /\ [PadNext]_padVars => PadTypeOK'
  BY PadStepTyped
<1> QED
  BY <1>1, <1>2, PTL DEF PadSpec

-----------------------------------------------------------------------------
(* Every end of raw mode (PAD_setRaw, PAD_tick, PAD_init) clears what was    *)
(* held, and a pass over the keys keeps only what is still down.             *)
LEMMA PadStepHeldIsDown ==
  ASSUME PadTypeOK, RawHeldIsDown, [PadNext]_padVars
  PROVE  RawHeldIsDown'
<1> USE DEF RawHeldIsDown, PadActive, PadDown
<1>1. ASSUME NEW g \in GpioLevels, NEW t \in TmKeys \cup {NoKey}, ScanKeys(g, t)
      PROVE  RawHeldIsDown'
  BY <1>1 DEF ScanKeys
<1>2. ASSUME NEW d \in Dirs, NEW n \in 1..MaxTake, TurnRaw(d, n)
      PROVE  RawHeldIsDown'
  BY <1>2 DEF TurnRaw
<1>3. ASSUME SetRawOn PROVE RawHeldIsDown'
  BY <1>3, ModAssumption DEF SetRawOn
<1>4. ASSUME SetRawOff PROVE RawHeldIsDown'
  BY <1>4 DEF SetRawOff
<1>5. ASSUME TickRaw PROVE RawHeldIsDown'
  BY <1>5, ModAssumption DEF TickRaw, PadTypeOK
<1>6. ASSUME ResetPad PROVE RawHeldIsDown'
  BY <1>6 DEF ResetPad
<1>7. ASSUME UNCHANGED padVars PROVE RawHeldIsDown'
  BY <1>7 DEF padVars
<1> QED
  BY <1>1, <1>2, <1>3, <1>4, <1>5, <1>6, <1>7 DEF PadNext

(* Outside raw mode the pad owes no UP, and inside it only for keys that are *)
(* down: no DOWN's UP is sent in a later session (PAD_event, PAD_tick).      *)
THEOREM PadHeldIsDown == PadSpec => []RawHeldIsDown
<1>1. PadInit => RawHeldIsDown
  BY DEF PadInit, RawHeldIsDown, PadActive
<1>2. PadTypeOK /\ RawHeldIsDown /\ [PadNext]_padVars => RawHeldIsDown'
  BY PadStepHeldIsDown
<1> QED
  BY <1>1, <1>2, PadTypeCorrect, PTL DEF PadSpec

-----------------------------------------------------------------------------
(* The pad's half of every step is a step of the contract or nothing: no     *)
(* message of the daemon makes the firmware leave RawPad.                    *)
LEMMA StepsOfThePad ==
  ASSUME [Next]_vars
  PROVE  [PadNext]_padVars
<1> USE DEF PadNext
<1>1. ASSUME NEW g \in GpioLevels, NEW t \in TmKeys \cup {NoKey}, PadKeys(g, t)
      PROVE  [PadNext]_padVars
  BY <1>1 DEF PadKeys
<1>2. ASSUME NEW d \in Dirs, NEW n \in 1..MaxTake, PadTurn(d, n)
      PROVE  [PadNext]_padVars
  BY <1>2 DEF PadTurn
<1>3. ASSUME PadAnswer PROVE [PadNext]_padVars
  BY <1>3 DEF PadAnswer
<1>4. ASSUME Tick PROVE [PadNext]_padVars
  BY <1>4 DEF Tick
<1>5. ASSUME Replug PROVE [PadNext]_padVars
  BY <1>5 DEF Replug
<1>6. ASSUME \/ LoseReport \/ LoseRequest \/ Start \/ AskInfo \/ Stop
             \/ InfoTimeout \/ Crash \/ Heartbeat \/ ReadReport \/ UNCHANGED vars
      PROVE  [PadNext]_padVars
  BY <1>6 DEF LoseReport, LoseRequest, Start, AskInfo, Stop, InfoTimeout, Crash,
              Heartbeat, ReadReport, vars
<1> QED
  BY <1>1, <1>2, <1>3, <1>4, <1>5, <1>6 DEF Next

(* The pad in the session implements the raw-mode contract.                  *)
THEOREM SessionKeepsContract == Spec => PadSpec
<1>1. Init => PadInit
  BY DEF Init
<1>2. [Next]_vars => [PadNext]_padVars
  BY StepsOfThePad
<1> QED
  BY <1>1, <1>2, PTL DEF Spec, PadSpec

(* The pad of a session owes an UP only for keys that are down, and none     *)
(* outside raw mode, whatever the daemon asks and whatever gets lost.        *)
THEOREM SessionHeldIsDown == Spec => []RawHeldIsDown
  BY SessionKeepsContract, PadHeldIsDown, PTL

-----------------------------------------------------------------------------
(* Removing a lost report keeps the order of the others.                     *)
LEMMA RemoveAtKeepsOrder ==
  ASSUME NEW S, NEW s \in Seq(S), NEW i \in 1..Len(s)
  PROVE  /\ RemoveAt(s, i) \in Seq(S)
         /\ Len(RemoveAt(s, i)) = Len(s) - 1
         /\ \A j \in 1..Len(s) - 1 :
              RemoveAt(s, i)[j] = IF j < i THEN s[j] ELSE s[j + 1]
<1> DEFINE a == SubSeq(s, 1, i - 1)
<1> DEFINE b == SubSeq(s, i + 1, Len(s))
<1>1. Len(s) \in Nat /\ i \in Int
  OBVIOUS
<1>2. \A j \in 1..Len(s) : s[j] \in S
  BY ElementOfSeq
<1>3. /\ a \in Seq(S) /\ Len(a) = i - 1
      /\ \A j \in 1..i - 1 : a[j] = s[j]
  <2>1. \A j \in 1..i - 1 : s[j] \in S
    BY <1>1, <1>2
  <2>2. /\ a \in Seq(S) /\ Len(a) = (IF 1 <= i - 1 THEN (i - 1) - 1 + 1 ELSE 0)
        /\ \A j \in 1..(i - 1) - 1 + 1 : a[j] = s[1 + j - 1]
    BY <1>1, <2>1, SubSeqProperties
  <2> QED
    BY <1>1, <2>2
<1>4. /\ b \in Seq(S) /\ Len(b) = Len(s) - i
      /\ \A j \in 1..Len(s) - i : b[j] = s[i + j]
  <2>1. \A j \in i + 1..Len(s) : s[j] \in S
    BY <1>1, <1>2
  <2>2. /\ b \in Seq(S)
        /\ Len(b) = (IF i + 1 <= Len(s) THEN Len(s) - (i + 1) + 1 ELSE 0)
        /\ \A j \in 1..Len(s) - (i + 1) + 1 : b[j] = s[(i + 1) + j - 1]
    BY <1>1, <2>1, SubSeqProperties
  <2> QED
    BY <1>1, <2>2
<1> HIDE DEF a, b
<1>5. /\ a \o b \in Seq(S)
      /\ Len(a \o b) = Len(a) + Len(b)
      /\ \A j \in 1..Len(a) + Len(b) :
           (a \o b)[j] = IF j <= Len(a) THEN a[j] ELSE b[j - Len(a)]
  BY <1>3, <1>4, ConcatProperties
<1>6. RemoveAt(s, i) = a \o b
  BY DEF RemoveAt, a, b
<1>7. ASSUME NEW j \in 1..Len(s) - 1
      PROVE  (a \o b)[j] = IF j < i THEN s[j] ELSE s[j + 1]
  <2>1. j \in 1..Len(a) + Len(b)
    BY <1>1, <1>3, <1>4
  <2>2. CASE j < i
    BY <1>1, <1>3, <1>5, <2>1, <2>2
  <2>3. CASE ~(j < i)
    <3>1. j - (i - 1) \in 1..Len(s) - i /\ ~(j <= Len(a))
      BY <1>1, <1>3, <2>3
    <3>2. b[j - (i - 1)] = s[i + (j - (i - 1))]
      BY <1>4, <3>1
    <3>3. (a \o b)[j] = b[j - Len(a)] /\ Len(a) = i - 1
      BY <1>3, <1>5, <2>1, <3>1
    <3>4. i + (j - (i - 1)) = j + 1
      BY <1>1, <2>1
    <3> QED
      BY <2>3, <3>2, <3>3, <3>4
  <2> QED
    BY <2>2, <2>3
<1>8. Len(a) + Len(b) = Len(s) - 1
  BY <1>1, <1>3, <1>4
<1> QED
  BY <1>5, <1>6, <1>7, <1>8

-----------------------------------------------------------------------------
(* The types of the session's variables.                                     *)

(* One report, or the events of one pass, keep the queue a queue of reports. *)
LEMMA ReportTyped ==
  ASSUME TypeOK, NEW msgs \in Seq(Message), Report(msgs)
  PROVE  chan' \in Seq(Message)
  BY DEF Report, TypeOK

(* Queueing one report keeps the queue typed. *)
LEMMA OneReportTyped ==
  ASSUME TypeOK, NEW m \in Message, Report(<<m>>)
  PROVE  chan' \in Seq(Message)
<1>1. <<m>> \in Seq(Message)
  OBVIOUS
<1> QED
  BY <1>1, ReportTyped

(* The reports of one pass over the keys.                                    *)
LEMMA EventsTyped ==
  ASSUME TypeOK, NEW g \in GpioLevels, NEW t \in TmKeys \cup {NoKey}
  PROVE  [i \in 1..Len(RawKeyEvents(g, t)) |->
            [type |-> "EVENT", seq |-> (seq + i) % SeqWrap,
             kind |-> RawKeyEvents(g, t)[i].kind,
             slot |-> RawKeyEvents(g, t)[i].slot]] \in Seq(Message)
<1> DEFINE sent == RawKeyEvents(g, t)
<1> DEFINE msg(i) == [type |-> "EVENT", seq |-> (seq + i) % SeqWrap,
                      kind |-> sent[i].kind, slot |-> sent[i].slot]
<1>1. sent \in Seq([kind : {"DOWN", "UP"}, slot : Keys])
  BY SentAreKeys DEF TypeOK
<1>2. ASSUME NEW i \in 1..Len(sent) PROVE msg(i) \in Message
  <2>1. sent[i] \in [kind : {"DOWN", "UP"}, slot : Keys]
    BY <1>1, ElementOfSeq
  <2>2. seq + i \in Int
    BY DEF TypeOK, PadTypeOK
  <2>3. (seq + i) % SeqWrap \in 0..SeqWrap - 1
    BY <2>2, WrapInRange, ModAssumption
  <2> QED
    BY <2>1, <2>3 DEF Message, EventMsg
<1>3. Len(sent) \in Nat
  BY <1>1
<1>4. [i \in 1..Len(sent) |-> msg(i)] \in Seq(Message)
  <2> HIDE DEF msg
  <2> QED
    BY <1>2, <1>3
<1> QED
  BY <1>4

(* A scan of the keys keeps TypeOK. *)
LEMMA PadKeysTyped ==
  ASSUME TypeOK, NEW g \in GpioLevels, NEW t \in TmKeys \cup {NoKey}, PadKeys(g, t)
  PROVE  TypeOK'
<1>1. PadTypeOK'
  BY PadStepTyped DEF PadKeys, PadNext, TypeOK
<1>2. chan' \in Seq(Message)
  BY EventsTyped, ReportTyped DEF PadKeys
<1> QED
  BY <1>1, <1>2 DEF PadKeys, TypeOK, daemonVars, histVars

(* Detents reported in raw mode keep TypeOK. *)
LEMMA PadTurnTyped ==
  ASSUME TypeOK, NEW d \in Dirs, NEW n \in 1..MaxTake, PadTurn(d, n)
  PROVE  TypeOK'
<1> DEFINE m == [type |-> "TAP", seq |-> seq', slot |-> d, n |-> n]
<1>1. PadTypeOK'
  BY PadStepTyped DEF PadTurn, PadNext, TypeOK
<1>2. m \in Message
  BY <1>1 DEF Message, EventMsg, PadTypeOK
<1>3. chan' \in Seq(Message)
  <2>1. Report(<<m>>)
    BY DEF PadTurn
  <2> QED
    BY <1>2, <2>1, OneReportTyped
<1>4. turned' \in [Dirs -> 0..MaxTurned]
  <2>1. turned[d] + n \in 0..MaxTurned
    BY SessionAssumption DEF PadTurn, TypeOK
  <2> QED
    BY <2>1 DEF PadTurn, TypeOK
<1> QED
  BY <1>1, <1>3, <1>4 DEF PadTurn, TypeOK, daemonVars

(* An answer tells the pad's own state after the request.                    *)
LEMMA SnapshotTyped ==
  ASSUME TypeOK, PadTypeOK', NEW type \in {"RAW_MODE", "GET_KEYS"}
  PROVE  SnapshotOf(type) \in Message
  BY DEF SnapshotOf, Message, SnapshotMsg, PadTypeOK, TypeOK

(* Answering the parked request keeps TypeOK. *)
LEMMA PadAnswerTyped ==
  ASSUME TypeOK, PadAnswer
  PROVE  TypeOK'
<1>1. PadTypeOK'
  BY PadStepTyped, StepsOfThePad DEF Next, TypeOK
<1>2. chan' \in Seq(Message)
  <2>1. ASSUME NEW m \in Message, Report(<<m>>)
        PROVE  chan' \in Seq(Message)
    BY <2>1, OneReportTyped
  <2>2. [type |-> "GET_INFO"] \in Message
    BY DEF Message
  <2>3. SnapshotOf("RAW_MODE") \in Message /\ SnapshotOf("GET_KEYS") \in Message
    BY <1>1, SnapshotTyped
  <2> QED
    BY <2>1, <2>2, <2>3 DEF PadAnswer
<1>3. synced' \in BOOLEAN
  BY DEF PadAnswer, TypeOK
<1> QED
  BY <1>1, <1>2, <1>3 DEF PadAnswer, TypeOK, daemonVars, Requests

(* A heartbeat interval keeps TypeOK. *)
LEMMA TickTyped ==
  ASSUME TypeOK, Tick
  PROVE  TypeOK'
<1>1. PadTypeOK'
  BY PadStepTyped DEF Tick, PadNext, TypeOK
<1>2. quiet' \in 0..Timeout + 1
  BY ModAssumption DEF Tick, TypeOK
<1>3. due' \in BOOLEAN /\ synced' \in BOOLEAN
  BY DEF Tick
<1> QED
  BY <1>1, <1>2, <1>3 DEF Tick, TypeOK

(* Losses and a replug keep TypeOK. *)
LEMMA LossTyped ==
  ASSUME TypeOK, LoseReport \/ LoseRequest \/ Replug
  PROVE  TypeOK'
<1>1. CASE LoseReport
  <2>1. PICK i \in 1..Len(chan) : chan' = RemoveAt(chan, i)
    BY <1>1 DEF LoseReport
  <2>2. chan' \in Seq(Message)
    BY <2>1, RemoveAtKeepsOrder DEF TypeOK
  <2>3. synced' \in BOOLEAN
    BY <1>1 DEF LoseReport
  <2>4. losses' \in 0..MaxLoss
    BY <1>1, SessionAssumption DEF LoseReport, TypeOK
  <2> QED
    BY <1>1, <2>2, <2>3, <2>4 DEF LoseReport, TypeOK, PadTypeOK, padVars, daemonVars
<1>2. CASE LoseRequest
  <2>1. losses' \in 0..MaxLoss
    BY <1>2, SessionAssumption DEF LoseRequest, TypeOK
  <2> QED
    BY <1>2, <2>1 DEF LoseRequest, TypeOK, PadTypeOK, padVars, daemonVars
<1>3. CASE Replug
  <2>1. PadTypeOK'
    BY <1>3, PadStepTyped DEF Replug, PadNext, TypeOK
  <2>2. [type |-> "GONE"] \in Message
    BY DEF Message
  <2>3. chan' \in Seq(Message)
    BY <1>3, <2>2 DEF Replug, TypeOK
  <2>4. restarts' \in 0..MaxRestarts
    BY <1>3, SessionAssumption DEF Replug, TypeOK
  <2> QED
    BY <1>3, <2>1, <2>3, <2>4 DEF Replug, TypeOK, daemonVars
<1> QED
  BY <1>1, <1>2, <1>3

(* Closing forgets the session; a request is one of the four or none.        *)
LEMMA ForgetTyped ==
  ASSUME TypeOK, Forget
  PROVE  /\ dEpoch' = NoEpoch /\ dSeq' \in 0..SeqWrap - 1 /\ dHeld' \in SUBSET Keys
         /\ base' \in [Dirs -> 0..CountWrap - 1] /\ recv' \in [Dirs -> 0..CountWrap - 1]
         /\ quiet' \in 0..Timeout + 1 /\ due' \in BOOLEAN /\ dActive' \in BOOLEAN
         /\ chan' \in Seq(Message) /\ linked' \in BOOLEAN /\ synced' \in BOOLEAN
         /\ seen' \in [Dirs -> Nat]
<1>1. ZeroCounts \in [Dirs -> 0..CountWrap - 1] /\ ZeroCounts \in [Dirs -> Nat]
  BY ZeroInRange DEF ZeroCounts
<1>2. <<>> \in Seq(Message)
  OBVIOUS
<1>3. 0 \in 0..Timeout + 1 /\ 0 \in 0..SeqWrap - 1
  BY ModAssumption
<1> QED
  BY <1>1, <1>2, <1>3 DEF Forget

(* close() leaves typed fields. *)
LEMMA CloseTyped ==
  ASSUME TypeOK, CloseDevice, UNCHANGED <<padVars, turned, losses, restarts>>,
         cmd' \in Requests \cup {"NONE"}
  PROVE  TypeOK'
<1>1. eng' \in SUBSET Keys /\ dstate' \in {"closed", "opening", "asking", "running"}
  BY DEF CloseDevice, TypeOK
<1>2. Forget
  BY DEF CloseDevice
<1> QED
  BY <1>1, <1>2, ForgetTyped DEF TypeOK, PadTypeOK, padVars

(* send() parks a request or nothing. *)
LEMMA SendTyped ==
  ASSUME TypeOK, NEW c \in Requests, SendRequest(c)
  PROVE  cmd' \in Requests \cup {"NONE"}
  BY DEF SendRequest, TypeOK

(* Opening, closing, crashing and the heartbeat keep TypeOK. *)
LEMMA OpenCloseTyped ==
  ASSUME TypeOK, Start \/ AskInfo \/ Stop \/ InfoTimeout \/ Crash \/ Heartbeat
  PROVE  TypeOK'
<1> USE DEF Requests
<1>1. CASE Start
  <2>1. chan' \in Seq(Message)
    BY <1>1 DEF Start
  <2> QED
    BY <1>1, <2>1 DEF Start, TypeOK, PadTypeOK, padVars, histVars
<1>2. CASE AskInfo
  <2>1. cmd' \in Requests \cup {"NONE"}
    BY <1>2, SendTyped DEF AskInfo
  <2> QED
    BY <1>2, <2>1 DEF AskInfo, TypeOK, PadTypeOK, padVars, histVars
<1>3. CASE Stop
  <2>1. cmd' \in Requests \cup {"NONE"}
    BY <1>3, SendTyped DEF Stop, TypeOK
  <2> QED
    BY <1>3, <2>1, CloseTyped DEF Stop
<1>4. CASE InfoTimeout
  BY <1>4, CloseTyped DEF InfoTimeout, TypeOK
<1>5. CASE Crash
  <2>1. restarts' \in 0..MaxRestarts
    BY <1>5, SessionAssumption DEF Crash, TypeOK
  <2>2. Forget
    BY <1>5 DEF Crash
  <2> QED
    BY <1>5, <2>1, <2>2, ForgetTyped DEF Crash, TypeOK, PadTypeOK, padVars
<1>6. CASE Heartbeat
  <2>1. cmd' \in Requests \cup {"NONE"}
    BY <1>6, SendTyped DEF Heartbeat
  <2>2. /\ eng' \in SUBSET Keys /\ dHeld' \in SUBSET Keys /\ dActive' \in BOOLEAN
        /\ dEpoch' \in 0..EpochWrap - 1 \cup {NoEpoch} /\ synced' \in BOOLEAN
    BY <1>6 DEF Heartbeat, TypeOK
  <2> QED
    BY <1>6, <2>1, <2>2 DEF Heartbeat, TypeOK, PadTypeOK, padVars
<1> QED
  BY <1>1, <1>2, <1>3, <1>4, <1>5, <1>6

(* What a snapshot makes of the daemon's fields, in its own session or not.  *)
LEMMA TakeSnapshotTyped ==
  ASSUME TypeOK, NEW m \in SnapshotMsg, TakeSnapshot(m)
  PROVE  /\ quiet' = 0 /\ dSeq' \in 0..SeqWrap - 1 /\ dHeld' \in SUBSET Keys
         /\ eng' \in SUBSET Keys /\ dEpoch' \in 0..EpochWrap - 1 \cup {NoEpoch}
         /\ base' \in [Dirs -> 0..CountWrap - 1] /\ recv' \in [Dirs -> 0..CountWrap - 1]
         /\ seen' \in [Dirs -> Nat]
<1>1. /\ m.seq \in 0..SeqWrap - 1 /\ m.held \in SUBSET Keys
      /\ m.epoch \in 0..EpochWrap - 1 /\ m.total \in [Dirs -> 0..CountWrap - 1]
      /\ m.turned \in [Dirs -> Nat]
  BY SessionAssumption DEF SnapshotMsg
<1>2. \A d \in Dirs : Missing(m, d) \in 0..CountWrap - 1
  <2> SUFFICES ASSUME NEW d \in Dirs PROVE Missing(m, d) \in 0..CountWrap - 1
    OBVIOUS
  <2>1. m.total[d] - base[d] - recv[d] \in Int
    BY <1>1 DEF TypeOK
  <2> QED
    BY <2>1, WrapInRange, ModAssumption DEF Missing
<1>3. quiet' = 0 /\ dSeq' \in 0..SeqWrap - 1 /\ dHeld' \in SUBSET Keys
  BY <1>1 DEF TakeSnapshot
<1>4. CASE m.epoch # dEpoch
  <2>1. ZeroCounts \in [Dirs -> 0..CountWrap - 1]
    BY ZeroInRange DEF ZeroCounts
  <2>2. /\ eng' \in SUBSET Keys /\ dEpoch' = m.epoch /\ base' = m.total
        /\ recv' = ZeroCounts /\ seen' = m.turned
    BY <1>4 DEF TakeSnapshot, TypeOK
  <2> QED
    BY <1>1, <1>3, <2>1, <2>2
<1>5. CASE m.epoch = dEpoch
  <2>1. eng' \in SUBSET Keys /\ dEpoch' = dEpoch
    BY <1>1, <1>5 DEF TakeSnapshot, TypeOK
  <2>2. base' \in [Dirs -> 0..CountWrap - 1]
    BY <1>1, <1>5 DEF TakeSnapshot, TypeOK
  <2>3. recv' \in [Dirs -> 0..CountWrap - 1]
    <3>1. \A d \in Dirs : (recv[d] + Missing(m, d)) % CountWrap \in 0..CountWrap - 1
      <4> SUFFICES ASSUME NEW d \in Dirs
                   PROVE  (recv[d] + Missing(m, d)) % CountWrap \in 0..CountWrap - 1
        OBVIOUS
      <4>1. recv[d] + Missing(m, d) \in Int
        BY <1>2 DEF TypeOK
      <4> QED
        BY <4>1, WrapInRange, ModAssumption
    <3>2. 0 \in 0..CountWrap - 1
      BY ModAssumption
    <3>3. recv' = [d \in Dirs |-> IF Missing(m, d) >= Half THEN 0
                                  ELSE (recv[d] + Missing(m, d)) % CountWrap]
      BY <1>5 DEF TakeSnapshot
    <3> QED
      BY <3>1, <3>2, <3>3
  <2>4. seen' \in [Dirs -> Nat]
    <3>1. seen' = [d \in Dirs |-> IF Missing(m, d) >= Half THEN m.turned[d]
                                  ELSE seen[d] + Missing(m, d)]
      BY <1>5 DEF TakeSnapshot
    <3>2. \A d \in Dirs : seen[d] + Missing(m, d) \in Nat /\ m.turned[d] \in Nat
      BY <1>1, <1>2 DEF TypeOK
    <3> QED
      BY <3>1, <3>2
  <2> QED
    BY <1>3, <2>1, <2>2, <2>3, <2>4 DEF TypeOK
<1> QED
  BY <1>4, <1>5

(* A report read by the daemon, by what it is.                               *)
LEMMA ReadReportTyped ==
  ASSUME TypeOK, ReadReport
  PROVE  TypeOK'
<1> DEFINE m == Head(chan)
<1> USE DEF Requests
<1>1. m \in Message /\ Tail(chan) \in Seq(Message)
  BY HeadTailProperties DEF ReadReport, TypeOK
<1>2. UNCHANGED <<padVars, turned, losses, restarts>>
  BY DEF ReadReport
<1>3. (m.type = "RAW_MODE" \/ m.type = "GET_KEYS") => m \in SnapshotMsg
  BY <1>1 DEF Message, EventMsg
<1>4. m.type = "EVENT" => m.seq \in 0..SeqWrap - 1 /\ m.slot \in Keys
  BY <1>1 DEF Message, EventMsg, SnapshotMsg
<1>5. m.type = "TAP" => m.seq \in 0..SeqWrap - 1 /\ m.slot \in Dirs /\ m.n \in Nat
  BY <1>1, ModAssumption DEF Message, EventMsg, SnapshotMsg
<1> HIDE DEF m
<1>6. CASE ReadInfo(m)
  <2>1. cmd' \in Requests \cup {"NONE"}
    BY <1>6, SendTyped DEF ReadInfo
  <2>2. chan' = Tail(chan)
    BY <1>6 DEF ReadInfo, m
  <2>3. 0 \in 0..Timeout + 1
    BY ModAssumption
  <2> QED
    BY <1>1, <1>2, <1>6, <2>1, <2>2, <2>3 DEF ReadInfo, TypeOK, PadTypeOK, padVars
<1>7. CASE RefuseInfo(m) \/ ReadRefusal(m) \/ ReadGone(m)
  <2>1. cmd' \in Requests \cup {"NONE"} /\ CloseDevice
    BY <1>7 DEF RefuseInfo, ReadRefusal, ReadGone, TypeOK
  <2> QED
    BY <1>2, <2>1, CloseTyped
<1>8. CASE ReadRawMode(m) \/ ReadKeys(m)
  <2>1. m \in SnapshotMsg /\ TakeSnapshot(m) /\ chan' = Tail(chan)
    BY <1>3, <1>8 DEF ReadRawMode, ReadKeys, m
  <2>2. dActive' \in BOOLEAN /\ UNCHANGED <<cmd, linked, dstate, due, synced>>
    BY <1>8 DEF ReadRawMode, ReadKeys, TypeOK
  <2>3. 0 \in 0..Timeout + 1
    BY ModAssumption
  <2> QED
    BY <1>1, <1>2, <2>1, <2>2, <2>3, TakeSnapshotTyped DEF TypeOK, PadTypeOK, padVars
<1>9. CASE ReadKeyEvent(m)
  <2>1. cmd' \in Requests \cup {"NONE"}
    BY <1>9, SendTyped DEF ReadKeyEvent, TypeOK
  <2>2. dHeld' \in SUBSET Keys /\ eng' \in SUBSET Keys /\ dSeq' \in 0..SeqWrap - 1
    BY <1>4, <1>9 DEF ReadKeyEvent, TypeOK
  <2>3. chan' = Tail(chan)
    BY <1>9 DEF ReadKeyEvent, m
  <2> QED
    BY <1>1, <1>2, <1>9, <2>1, <2>2, <2>3 DEF ReadKeyEvent, TypeOK, PadTypeOK, padVars
<1>10. CASE ReadTap(m)
  <2>1. cmd' \in Requests \cup {"NONE"}
    BY <1>10, SendTyped DEF ReadTap, TypeOK
  <2>2. recv' \in [Dirs -> 0..CountWrap - 1]
    <3>1. recv[m.slot] + m.n \in Int
      BY <1>5, <1>10 DEF ReadTap, TypeOK
    <3>2. (recv[m.slot] + m.n) % CountWrap \in 0..CountWrap - 1
      BY <3>1, WrapInRange, ModAssumption
    <3> QED
      BY <1>10, <3>2 DEF ReadTap, TypeOK
  <2>3. seen' \in [Dirs -> Nat]
    <3>1. seen[m.slot] + m.n \in Nat
      BY <1>5, <1>10 DEF ReadTap, TypeOK
    <3> QED
      BY <1>10, <3>1 DEF ReadTap, TypeOK
  <2>4. chan' = Tail(chan) /\ dSeq' \in 0..SeqWrap - 1
    BY <1>5, <1>10 DEF ReadTap, m
  <2> QED
    BY <1>1, <1>2, <1>10, <2>1, <2>2, <2>3, <2>4 DEF ReadTap, TypeOK, PadTypeOK, padVars
<1>11. CASE ReadSkipped(m)
  <2>1. chan' = Tail(chan)
    BY <1>11 DEF ReadSkipped, m
  <2> QED
    BY <1>1, <1>2, <1>11, <2>1 DEF ReadSkipped, TypeOK, PadTypeOK, padVars, daemonVars
<1> QED
  BY <1>6, <1>7, <1>8, <1>9, <1>10, <1>11 DEF ReadReport, m

(* Every variable of the session keeps its type: counters in their width,    *)
(* the queue a queue of reports, the daemon's slots the pad's keys.          *)
THEOREM TypeCorrect == Spec => []TypeOK
<1>1. Init => TypeOK
  <2>1. ZeroCounts \in [Dirs -> 0..CountWrap - 1] /\ ZeroCounts \in [Dirs -> Nat]
    BY ZeroInRange DEF ZeroCounts
  <2>2. ZeroCounts \in [Dirs -> 0..MaxTurned]
    BY SessionAssumption DEF ZeroCounts
  <2>3. Init => PadTypeOK
    BY KeysAssumption, ZeroInRange DEF Init, PadInit, PadTypeOK
  <2>4. /\ 0 \in 0..Timeout + 1 /\ 0 \in 0..SeqWrap - 1
        /\ 0 \in 0..MaxLoss /\ 0 \in 0..MaxRestarts
    BY ModAssumption, SessionAssumption
  <2>5. <<>> \in Seq(Message)
    OBVIOUS
  <2> QED
    BY <2>1, <2>2, <2>3, <2>4, <2>5 DEF Init, TypeOK
<1>2. TypeOK /\ [Next]_vars => TypeOK'
  <2>1. TypeOK /\ UNCHANGED vars => TypeOK'
    BY DEF vars, padVars, daemonVars, histVars, TypeOK, PadTypeOK
  <2> QED
    BY <2>1, PadKeysTyped, PadTurnTyped, PadAnswerTyped, TickTyped, LossTyped,
       OpenCloseTyped, ReadReportTyped DEF Next
<1> QED
  BY <1>1, <1>2, PTL DEF Spec

-----------------------------------------------------------------------------
(* Slots the engine holds and nothing tracks.                                *)

(* close() releases what m_held names, so it strands no slot. *)
LEMMA CloseStrandsNothing ==
  ASSUME CloseDevice
  PROVE  eng' \ dHeld' \subseteq eng \ dHeld
  BY DEF CloseDevice, Forget

(* A snapshot taken while a session is followed strands no slot. *)
LEMMA SnapshotStrandsNothing ==
  ASSUME NEW m, TakeSnapshot(m), dEpoch # NoEpoch
  PROVE  eng' \ dHeld' \subseteq eng \ dHeld
<1>1. CASE m.epoch # dEpoch
  BY <1>1 DEF TakeSnapshot
<1>2. CASE m.epoch = dEpoch
  BY <1>2 DEF TakeSnapshot
<1> QED
  BY <1>1, <1>2

(* Reading a report while a session is followed strands no slot. *)
LEMMA ReadStrandsNothing ==
  ASSUME ReadReport, dEpoch # NoEpoch
  PROVE  eng' \ dHeld' \subseteq eng \ dHeld
<1> DEFINE m == Head(chan)
<1> HIDE DEF m
<1>1. CASE ReadInfo(m) \/ ReadTap(m) \/ ReadSkipped(m)
  BY <1>1 DEF ReadInfo, ReadTap, ReadSkipped, daemonVars
<1>2. CASE RefuseInfo(m) \/ ReadRefusal(m) \/ ReadGone(m)
  BY <1>2, CloseStrandsNothing DEF RefuseInfo, ReadRefusal, ReadGone
<1>3. CASE ReadRawMode(m) \/ ReadKeys(m)
  BY <1>3, SnapshotStrandsNothing DEF ReadRawMode, ReadKeys
<1>4. CASE ReadKeyEvent(m)
  BY <1>4 DEF ReadKeyEvent
<1> QED
  BY <1>1, <1>2, <1>3, <1>4 DEF ReadReport, m

(* While a session is followed no step of any side leaves the engine with a  *)
(* slot down that the daemon does not track (releaseHeld, handleSnapshot and *)
(* handleReport keep m_held and what the engine was told together).          *)
THEOREM FollowedSessionStrandsNothing == Spec => OnlyUnfollowedReportsStrand
<1>1. ASSUME [Next]_vars, dEpoch # NoEpoch
      PROVE  eng' \ dHeld' \subseteq eng \ dHeld
  <2>1. CASE UNCHANGED <<eng, dHeld>>
    BY <2>1
  <2>2. CASE Stop \/ InfoTimeout
    BY <2>2, CloseStrandsNothing DEF Stop, InfoTimeout
  <2>3. CASE Crash \/ Heartbeat
    BY <2>3 DEF Crash, Heartbeat
  <2>4. CASE ReadReport
    BY <1>1, <2>4, ReadStrandsNothing
  <2>5. CASE \/ \E g \in GpioLevels, t \in TmKeys \cup {NoKey} : PadKeys(g, t)
             \/ \E d \in Dirs, n \in 1..MaxTake : PadTurn(d, n)
             \/ PadAnswer \/ Tick \/ LoseReport \/ LoseRequest \/ Replug
             \/ Start \/ AskInfo \/ UNCHANGED vars
    BY <2>1, <2>5 DEF PadKeys, PadTurn, PadAnswer, Tick, LoseReport, LoseRequest,
                      Replug, Start, AskInfo, vars, daemonVars
  <2> QED
    BY <1>1, <2>2, <2>3, <2>4, <2>5 DEF Next
<1>2. [Next]_vars => [dEpoch # NoEpoch => (eng' \ dHeld') \subseteq (eng \ dHeld)]_vars
  BY <1>1
<1> QED
  BY <1>2, PTL DEF Spec, OnlyUnfollowedReportsStrand
-----------------------------------------------------------------------------
(***************************************************************************)
(* The answers the daemon reads: it never takes the answer to its own stop *)
(* for a refusal, and after an answer its view is the pad's whatever was   *)
(* lost before.                                                            *)
(***************************************************************************)
(* An answer that makes the daemon leave raw mode for good.                  *)
Refusal(m) == m.type = "RAW_MODE" /\ ~m.active

(* Why no refusal is read: the only request answered with one is the stop,   *)
(* which is taken from the pad before the next GET_INFO is, so its answer    *)
(* comes before that of GET_INFO, and is dropped while m_info is not set.    *)
AnswersInOrder ==
  /\ dstate = "closed" => ~linked
  /\ ~linked /\ dstate # "closed" => cmd = "NONE"
  /\ dstate \in {"asking", "running"} => cmd # "RAW_OFF"
  /\ dstate = "opening" /\ cmd = "RAW_OFF" =>
       \A i \in 1..Len(chan) : chan[i].type # "GET_INFO"
  /\ dstate \in {"opening", "asking"} =>
       \A i, j \in 1..Len(chan) : i < j /\ chan[i].type = "GET_INFO" => ~Refusal(chan[j])
  /\ dstate = "running" => \A i \in 1..Len(chan) : ~Refusal(chan[i])

(* A closed file has no queue and nothing to be answered on.                 *)
LEMMA CloseKeepsOrder ==
  ASSUME CloseDevice
  PROVE  AnswersInOrder'
  BY DEF CloseDevice, Forget, AnswersInOrder

(* Reports added at the end that are neither answers to GET_INFO nor         *)
(* refusals.                                                                 *)
LEMMA AddingKeepsOrder ==
  ASSUME TypeOK, AnswersInOrder, NEW msgs \in Seq(Message), Report(msgs),
         \A i \in 1..Len(msgs) : msgs[i].type # "GET_INFO" /\ ~Refusal(msgs[i]),
         UNCHANGED <<dstate, linked>>, cmd' = cmd \/ cmd' = "NONE"
  PROVE  AnswersInOrder'
<1>1. CASE ~linked
  BY <1>1 DEF Report, AnswersInOrder
<1>2. CASE linked
  <2>1. chan' = chan \o msgs
    BY <1>2 DEF Report
  <2>2. chan \in Seq(Message) /\ Len(chan) \in Nat /\ Len(msgs) \in Nat
    BY DEF TypeOK
  <2>3. /\ Len(chan') = Len(chan) + Len(msgs)
        /\ \A i \in 1..Len(chan) + Len(msgs) :
             chan'[i] = IF i <= Len(chan) THEN chan[i] ELSE msgs[i - Len(chan)]
    BY <2>1, <2>2, ConcatProperties
  <2>4. \A i \in 1..Len(chan') :
          \/ i \in 1..Len(chan) /\ chan'[i] = chan[i]
          \/ /\ i \notin 1..Len(chan)
             /\ chan'[i].type # "GET_INFO" /\ ~Refusal(chan'[i])
    BY <2>2, <2>3
  <2>5. (dstate = "opening" /\ cmd = "RAW_OFF" =>
           \A i \in 1..Len(chan) : chan[i].type # "GET_INFO")'
    BY <2>4 DEF AnswersInOrder
  <2>6. (dstate = "running" => \A i \in 1..Len(chan) : ~Refusal(chan[i]))'
    BY <2>4 DEF AnswersInOrder, Refusal
  <2>7. (dstate \in {"opening", "asking"} =>
           \A i, j \in 1..Len(chan) : i < j /\ chan[i].type = "GET_INFO" => ~Refusal(chan[j]))'
    <3>1. SUFFICES ASSUME dstate \in {"opening", "asking"}, NEW i \in 1..Len(chan'),
                          NEW j \in 1..Len(chan'), i < j, chan'[i].type = "GET_INFO",
                          j \in 1..Len(chan), chan'[j] = chan[j]
                   PROVE  ~Refusal(chan[j])
      BY <2>4 DEF Refusal
    <3>2. i \in 1..Len(chan) /\ chan'[i] = chan[i]
      BY <2>4, <3>1
    <3> QED
      BY <3>1, <3>2 DEF AnswersInOrder
  <2>8. (dstate = "closed" => ~linked)' /\ (~linked /\ dstate # "closed" => cmd = "NONE")'
        /\ (dstate \in {"asking", "running"} => cmd # "RAW_OFF")'
    BY <1>2 DEF AnswersInOrder
  <2> QED
    BY <2>5, <2>6, <2>7, <2>8 DEF AnswersInOrder
<1> QED
  BY <1>1, <1>2

(* One report added to the queue of an open file.                            *)
LEMMA OneReport ==
  ASSUME TypeOK, NEW m \in Message, Report(<<m>>), linked
  PROVE  /\ Len(chan) \in Nat /\ Len(chan') = Len(chan) + 1
         /\ \A i \in 1..Len(chan) : chan'[i] = chan[i]
         /\ chan'[Len(chan) + 1] = m
<1>1. chan \in Seq(Message) /\ <<m>> \in Seq(Message)
  BY DEF TypeOK
<1>2. chan' = chan \o <<m>>
  BY DEF Report
<1>3. Len(<<m>>) = 1 /\ <<m>>[1] = m
  OBVIOUS
<1>4. /\ Len(chan') = Len(chan) + 1
      /\ \A i \in 1..Len(chan) + 1 :
           chan'[i] = IF i <= Len(chan) THEN chan[i] ELSE <<m>>[i - Len(chan)]
  BY <1>1, <1>2, <1>3, ConcatProperties
<1>5. Len(chan) \in Nat
  BY <1>1
<1>6. chan'[Len(chan) + 1] = <<m>>[1]
  BY <1>4, <1>5
<1> QED
  BY <1>3, <1>4, <1>5, <1>6

(* An answer of the pad keeps the order of answers: only RAW_OFF is answered *)
(* with a refusal, and by then the file that sent it is closed.              *)
LEMMA AnswerKeepsOrder ==
  ASSUME TypeOK, AnswersInOrder, PadAnswer
  PROVE  AnswersInOrder'
<1>1. cmd' = "NONE" /\ UNCHANGED <<dstate, linked>>
  BY DEF PadAnswer, daemonVars
<1>2. PadTypeOK'
  BY PadStepTyped, StepsOfThePad DEF Next, TypeOK
<1>3. CASE ~linked
  BY <1>1, <1>3 DEF PadAnswer, Report, AnswersInOrder
<1>4. ASSUME linked, NEW m \in Message, Report(<<m>>),
             ~Refusal(m) \/ dstate \in {"closed", "opening"},
             Refusal(m) /\ dstate = "opening" =>
               \A i \in 1..Len(chan) : chan[i].type # "GET_INFO"
      PROVE  AnswersInOrder'
  <2>1. \A i \in 1..Len(chan') : \/ i \in 1..Len(chan) /\ chan'[i] = chan[i]
                                 \/ i = Len(chan) + 1 /\ chan'[i] = m
    BY <1>4, OneReport
  <2>2. Len(chan) \in Nat /\ Len(chan') = Len(chan) + 1
    BY <1>4, OneReport
  <2> QED
    BY <1>1, <1>4, <2>1, <2>2 DEF AnswersInOrder, Refusal
<1>5. CASE linked /\ cmd = "GET_INFO"
  <2>1. [type |-> "GET_INFO"] \in Message /\ ~Refusal([type |-> "GET_INFO"])
    BY DEF Message, Refusal
  <2> QED
    BY <1>4, <1>5, <2>1 DEF PadAnswer
<1>6. CASE linked /\ cmd = "RAW_ON"
  <2>1. SnapshotOf("RAW_MODE") \in Message
    BY <1>2, SnapshotTyped
  <2>2. left' > 0
    BY <1>6, ModAssumption DEF PadAnswer, SetRawOn
  <2>3. ~Refusal(SnapshotOf("RAW_MODE"))
    BY <2>2 DEF SnapshotOf, Refusal
  <2> QED
    BY <1>4, <1>6, <2>1, <2>3 DEF PadAnswer
<1>7. CASE linked /\ cmd = "RAW_OFF"
  <2>1. SnapshotOf("RAW_MODE") \in Message
    BY <1>2, SnapshotTyped
  <2>2. dstate = "opening" /\ \A i \in 1..Len(chan) : chan[i].type # "GET_INFO"
    BY <1>7 DEF AnswersInOrder, TypeOK
  <2> QED
    BY <1>4, <1>7, <2>1, <2>2 DEF PadAnswer
<1>8. CASE linked /\ cmd = "GET_KEYS"
  <2>1. SnapshotOf("GET_KEYS") \in Message
    BY <1>2, SnapshotTyped
  <2>2. ~Refusal(SnapshotOf("GET_KEYS"))
    BY DEF SnapshotOf, Refusal
  <2> QED
    BY <1>4, <1>8, <2>1, <2>2 DEF PadAnswer
<1> QED
  BY <1>3, <1>5, <1>6, <1>7, <1>8 DEF PadAnswer

(* Events and taps are no answers, so they keep the order. *)
LEMMA PadReportsKeepOrder ==
  ASSUME TypeOK, AnswersInOrder,
         \/ \E g \in GpioLevels, t \in TmKeys \cup {NoKey} : PadKeys(g, t)
         \/ \E d \in Dirs, n \in 1..MaxTake : PadTurn(d, n)
  PROVE  AnswersInOrder'
<1>1. ASSUME NEW g \in GpioLevels, NEW t \in TmKeys \cup {NoKey}, PadKeys(g, t)
      PROVE  AnswersInOrder'
  <2> DEFINE sent == RawKeyEvents(g, t)
  <2> DEFINE msgs == [i \in 1..Len(sent) |->
               [type |-> "EVENT", seq |-> (seq + i) % SeqWrap,
                kind |-> sent[i].kind, slot |-> sent[i].slot]]
  <2>1. msgs \in Seq(Message) /\ Report(msgs)
    BY <1>1, EventsTyped DEF PadKeys
  <2>2. Len(msgs) = Len(sent) /\ Len(sent) \in Nat
    BY SentAreKeys DEF TypeOK
  <2>3. \A i \in 1..Len(msgs) : msgs[i].type = "EVENT"
    BY <2>2
  <2> HIDE DEF msgs
  <2>4. \A i \in 1..Len(msgs) : msgs[i].type # "GET_INFO" /\ ~Refusal(msgs[i])
    BY <2>3 DEF Refusal
  <2>5. UNCHANGED <<dstate, linked, cmd>>
    BY <1>1 DEF PadKeys, daemonVars
  <2> QED
    BY <2>1, <2>4, <2>5, AddingKeepsOrder
<1>2. ASSUME NEW d \in Dirs, NEW n \in 1..MaxTake, PadTurn(d, n)
      PROVE  AnswersInOrder'
  <2> DEFINE m == [type |-> "TAP", seq |-> seq', slot |-> d, n |-> n]
  <2>1. PadTypeOK'
    BY <1>2, PadStepTyped DEF PadTurn, PadNext, TypeOK
  <2>2. m \in Message /\ m.type = "TAP" /\ Report(<<m>>)
    BY <1>2, <2>1 DEF PadTurn, Message, EventMsg, PadTypeOK
  <2> HIDE DEF m
  <2>3. <<m>> \in Seq(Message) /\ Len(<<m>>) = 1 /\ <<m>>[1] = m
    BY <2>2
  <2>4. \A i \in 1..Len(<<m>>) : <<m>>[i].type # "GET_INFO" /\ ~Refusal(<<m>>[i])
    BY <2>2, <2>3 DEF Refusal
  <2>5. UNCHANGED <<dstate, linked, cmd>>
    BY <1>2 DEF PadTurn, daemonVars
  <2> QED
    BY <2>2, <2>3, <2>4, <2>5, AddingKeepsOrder
<1> QED
  BY <1>1, <1>2

(* Losing a report or a request keeps the order of those that remain. *)
LEMMA LossKeepsOrder ==
  ASSUME TypeOK, AnswersInOrder, LoseReport \/ LoseRequest \/ Replug \/ Tick
  PROVE  AnswersInOrder'
<1>1. CASE LoseReport
  <2>1. PICK i \in 1..Len(chan) : chan' = RemoveAt(chan, i)
    BY <1>1 DEF LoseReport
  <2>2. chan \in Seq(Message) /\ Len(chan) \in Nat
    BY DEF TypeOK
  <2>3. /\ Len(chan') = Len(chan) - 1
        /\ \A j \in 1..Len(chan) - 1 :
             chan'[j] = IF j < i THEN chan[j] ELSE chan[j + 1]
    BY <2>1, <2>2, RemoveAtKeepsOrder
  <2> DEFINE old(j) == IF j < i THEN j ELSE j + 1
  <2>4. \A j \in 1..Len(chan') : old(j) \in 1..Len(chan) /\ chan'[j] = chan[old(j)]
    BY <2>2, <2>3
  <2>5. \A j, k \in 1..Len(chan') : j < k => old(j) < old(k)
    BY <2>2
  <2>6. UNCHANGED <<dstate, linked, cmd>>
    BY <1>1 DEF LoseReport, daemonVars
  <2> HIDE DEF old
  <2> QED
    BY <2>4, <2>5, <2>6 DEF AnswersInOrder, Refusal
<1>2. CASE LoseRequest
  BY <1>2 DEF LoseRequest, AnswersInOrder, Refusal, daemonVars
<1>3. CASE Replug
  <2>1. /\ ~linked' /\ cmd' = "NONE" /\ dstate' = dstate
        /\ chan' = chan \/ chan' = Append(chan, [type |-> "GONE"])
    BY <1>3 DEF Replug, daemonVars
  <2>2. chan \in Seq(Message) /\ Len(chan) \in Nat /\ [type |-> "GONE"] \in Message
    BY DEF TypeOK, Message
  <2>3. /\ Len(chan) <= Len(chan') /\ Len(chan') \in Nat
        /\ \A j \in 1..Len(chan') :
             \/ j \in 1..Len(chan) /\ chan'[j] = chan[j]
             \/ chan'[j] = [type |-> "GONE"]
    <3>1. CASE chan' = chan
      BY <2>2, <3>1
    <3>2. CASE chan' = Append(chan, [type |-> "GONE"])
      BY <2>2, <3>2, AppendProperties
    <3> QED
      BY <2>1, <3>1, <3>2
  <2>4. \A j \in 1..Len(chan') :
          (chan'[j].type = "GET_INFO" \/ Refusal(chan'[j])) =>
            j \in 1..Len(chan) /\ chan'[j] = chan[j]
    BY <2>3 DEF Refusal
  <2> QED
    BY <2>1, <2>4 DEF AnswersInOrder
<1>4. CASE Tick
  BY <1>4 DEF Tick, AnswersInOrder, Refusal
<1> QED
  BY <1>1, <1>2, <1>3, <1>4

(* What the daemon does of itself keeps the order: a new file starts with nothing queued. *)
LEMMA DaemonKeepsOrder ==
  ASSUME TypeOK, AnswersInOrder,
         Start \/ AskInfo \/ Stop \/ InfoTimeout \/ Crash \/ Heartbeat
  PROVE  AnswersInOrder'
<1>1. CASE Start
  <2>1. dstate' = "opening" /\ linked' /\ chan' = <<>> /\ cmd' = cmd
    BY <1>1 DEF Start
  <2> QED
    BY <2>1 DEF AnswersInOrder
<1>2. CASE AskInfo
  <2>1. /\ dstate = "opening" /\ dstate' = "asking"
        /\ UNCHANGED <<chan, linked>> /\ cmd' # "RAW_OFF"
        /\ ~linked => cmd' = "NONE"
    BY <1>2 DEF AskInfo, SendRequest, AnswersInOrder
  <2> QED
    BY <2>1 DEF AnswersInOrder, Refusal
<1>3. CASE Stop \/ InfoTimeout
  BY <1>3, CloseKeepsOrder DEF Stop, InfoTimeout
<1>4. CASE Crash
  BY <1>4 DEF Crash, Forget, AnswersInOrder
<1>5. CASE Heartbeat
  <2>1. /\ UNCHANGED <<dstate, chan, linked>> /\ dstate = "running"
        /\ linked => cmd' = "RAW_ON"
        /\ ~linked => cmd' = cmd
    BY <1>5 DEF Heartbeat, SendRequest
  <2> QED
    BY <2>1 DEF AnswersInOrder, Refusal
<1> QED
  BY <1>1, <1>2, <1>3, <1>4, <1>5

(* Reading a report takes the first one and keeps the order of the rest. *)
LEMMA ReadingKeepsOrder ==
  ASSUME TypeOK, AnswersInOrder, ReadReport
  PROVE  AnswersInOrder'
<1> DEFINE m == Head(chan)
<1>1. chan \in Seq(Message) /\ chan # <<>> /\ Len(chan) \in Nat
  BY DEF ReadReport, TypeOK
<1>2. /\ Len(Tail(chan)) = Len(chan) - 1
      /\ \A i \in 1..Len(Tail(chan)) : Tail(chan)[i] = chan[i + 1]
  BY <1>1, HeadTailProperties
<1>3. m = chan[1] /\ 1 \in 1..Len(chan)
  BY <1>1
<1>4. \A i \in 1..Len(Tail(chan)) : i + 1 \in 1..Len(chan) /\ 1 < i + 1
  BY <1>1, <1>2
<1> HIDE DEF m
<1>5. CASE ReadInfo(m)
  <2>1. /\ dstate = "asking" /\ dstate' = "running" /\ chan' = Tail(chan)
        /\ m.type = "GET_INFO" /\ linked' = linked
        /\ linked => cmd' = "RAW_ON"
        /\ ~linked => cmd' = cmd
    BY <1>5 DEF ReadInfo, SendRequest, m
  <2>2. \A i \in 1..Len(chan') : ~Refusal(chan'[i])
    BY <1>2, <1>3, <1>4, <2>1 DEF AnswersInOrder
  <2> QED
    BY <2>1, <2>2 DEF AnswersInOrder
<1>6. CASE RefuseInfo(m) \/ ReadRefusal(m) \/ ReadGone(m)
  BY <1>6, CloseKeepsOrder DEF RefuseInfo, ReadRefusal, ReadGone
<1>7. CASE \/ ReadRawMode(m) \/ ReadKeys(m) \/ ReadKeyEvent(m) \/ ReadTap(m)
           \/ ReadSkipped(m)
  <2>1. chan' = Tail(chan) /\ UNCHANGED <<dstate, linked>>
    BY <1>7 DEF ReadRawMode, ReadKeys, ReadKeyEvent, ReadTap, ReadSkipped, m, daemonVars
  <2>2. cmd' = cmd \/ (linked /\ cmd' = "GET_KEYS")
    BY <1>7 DEF ReadRawMode, ReadKeys, ReadKeyEvent, ReadTap, ReadSkipped, SendRequest
  <2>3. dstate \in {"asking", "running"}
    BY DEF ReadReport
  <2> QED
    BY <1>1, <1>2, <1>4, <2>1, <2>2, <2>3 DEF AnswersInOrder, Refusal
<1> QED
  BY <1>5, <1>6, <1>7 DEF ReadReport, m

(* The inductive invariant behind NeverRefusesItself, in every reachable     *)
(* state: no stop request is parked for a file that asks or runs, and no     *)
(* refusal is queued behind an answer to GET_INFO.                           *)
THEOREM OrderOfAnswers == Spec => []AnswersInOrder
<1>1. Init => AnswersInOrder
  BY DEF Init, AnswersInOrder
<1>2. TypeOK /\ AnswersInOrder /\ [Next]_vars => AnswersInOrder'
  <2>1. AnswersInOrder /\ UNCHANGED vars => AnswersInOrder'
    BY DEF vars, daemonVars, AnswersInOrder, Refusal
  <2> QED
    BY <2>1, PadReportsKeepOrder, AnswerKeepsOrder, LossKeepsOrder, DaemonKeepsOrder,
       ReadingKeepsOrder DEF Next
<1> QED
  BY <1>1, <1>2, TypeCorrect, PTL DEF Spec

(* The daemon never reads the answer to its own stop, sent on a file it has  *)
(* closed since, as the firmware refusing raw mode (startOnFd resets m_info, *)
(* handleReport looks at RAW_MODE answers only once it is set).              *)
THEOREM NeverRefusesItself == Spec => []NoSelfRefusal
<1>1. AnswersInOrder => NoSelfRefusal
  BY DEF AnswersInOrder, NoSelfRefusal, Refusal
<1> QED
  BY <1>1, OrderOfAnswers, PTL

-----------------------------------------------------------------------------
(* What a queue makes of one slot, as it grows, shrinks and loses reports.   *)

(* Reports added at the end decide about the slots they are about.           *)
LEMMA EndsOfConcat ==
  ASSUME NEW S, NEW s \in Seq(S), NEW t \in Seq(S), NEW h, NEW k
  PROVE  EndsDown(s \o t, h, k) <=>
           IF \E i \in 1..Len(t) : About(t[i], k) THEN EndsDown(t, {}, k)
           ELSE EndsDown(s, h, k)
<1> DEFINE u == s \o t
<1>1. Len(s) \in Nat /\ Len(t) \in Nat /\ Len(u) = Len(s) + Len(t)
  BY ConcatProperties
<1>2. \A i \in 1..Len(s) : i \in 1..Len(u) /\ u[i] = s[i]
  BY <1>1, ConcatProperties
<1>3. \A i \in 1..Len(t) : Len(s) + i \in 1..Len(u) /\ u[Len(s) + i] = t[i]
  BY <1>1, ConcatProperties
<1>4. \A j \in 1..Len(u) : \/ j \in 1..Len(s)
                           \/ j - Len(s) \in 1..Len(t) /\ u[j] = t[j - Len(s)]
  BY <1>1, ConcatProperties
<1> HIDE DEF u
<1>5. CASE \E i \in 1..Len(t) : About(t[i], k)
  <2>1. ~(k \in h /\ \A i \in 1..Len(u) : ~About(u[i], k))
    BY <1>3, <1>5
  <2>2. ASSUME EndsDown(u, h, k) PROVE EndsDown(t, {}, k)
    <3>1. PICK i \in 1..Len(u) : /\ About(u[i], k) /\ Says(u[i], k)
                                 /\ \A j \in i + 1..Len(u) : ~About(u[j], k)
      BY <2>1, <2>2 DEF EndsDown
    <3>2. PICK n \in 1..Len(t) : About(t[n], k)
      BY <1>5
    <3>3. Len(s) + n \in 1..Len(u) /\ About(u[Len(s) + n], k)
      BY <1>3, <3>2
    <3>4. ~(Len(s) + n \in i + 1..Len(u))
      BY <3>1, <3>3
    <3>5. i - Len(s) \in 1..Len(t) /\ u[i] = t[i - Len(s)]
      BY <1>1, <1>4, <3>1, <3>3, <3>4
    <3>6. \A j \in (i - Len(s)) + 1..Len(t) : ~About(t[j], k)
      <4> SUFFICES ASSUME NEW j \in (i - Len(s)) + 1..Len(t) PROVE ~About(t[j], k)
        OBVIOUS
      <4>1. j \in 1..Len(t) /\ Len(s) + j \in i + 1..Len(u)
        BY <1>1, <3>1, <3>5
      <4> QED
        BY <1>3, <3>1, <4>1
    <3> QED
      BY <3>1, <3>5, <3>6 DEF EndsDown
  <2>3. ASSUME EndsDown(t, {}, k) PROVE EndsDown(u, h, k)
    <3>1. PICK i \in 1..Len(t) : /\ About(t[i], k) /\ Says(t[i], k)
                                 /\ \A j \in i + 1..Len(t) : ~About(t[j], k)
      BY <2>3 DEF EndsDown
    <3>2. \A j \in (Len(s) + i) + 1..Len(u) : ~About(u[j], k)
      <4> SUFFICES ASSUME NEW j \in (Len(s) + i) + 1..Len(u) PROVE ~About(u[j], k)
        OBVIOUS
      <4>1. j \in 1..Len(u) /\ j \notin 1..Len(s) /\ j - Len(s) \in i + 1..Len(t)
        BY <1>1, <3>1
      <4> QED
        BY <1>4, <3>1, <4>1
    <3> QED
      BY <1>3, <3>1, <3>2 DEF EndsDown
  <2> QED
    BY <1>5, <2>2, <2>3 DEF u
<1>6. CASE ~\E i \in 1..Len(t) : About(t[i], k)
  <2>1. \A j \in 1..Len(u) : About(u[j], k) => j \in 1..Len(s) /\ u[j] = s[j]
    BY <1>2, <1>4, <1>6
  <2>2. EndsDown(u, h, k) <=> EndsDown(s, h, k)
    <3>1. ASSUME NEW i \in 1..Len(s)
          PROVE  (\A j \in i + 1..Len(u) : ~About(u[j], k)) <=>
                   (\A j \in i + 1..Len(s) : ~About(s[j], k))
      <4>1. \A j \in i + 1..Len(s) : j \in 1..Len(s) /\ j \in i + 1..Len(u)
        BY <1>1
      <4>2. \A j \in i + 1..Len(u) : j \in 1..Len(u) /\ i < j
        BY <1>1
      <4>3. \A j \in 1..Len(s) : i < j => j \in i + 1..Len(s)
        BY <1>1
      <4> QED
        BY <1>2, <2>1, <4>1, <4>2, <4>3
    <3> QED
      BY <1>2, <2>1, <3>1 DEF EndsDown
  <2> QED
    BY <1>6, <2>2 DEF u
<1> QED
  BY <1>5, <1>6

(* A report that is about no slot of interest changes nothing.               *)
LEMMA EndsOfOther ==
  ASSUME NEW S, NEW s \in Seq(S), NEW m \in S, NEW h, NEW k, ~About(m, k)
  PROVE  EndsDown(s \o <<m>>, h, k) <=> EndsDown(s, h, k)
<1>1. <<m>> \in Seq(S) /\ Len(<<m>>) = 1 /\ <<m>>[1] = m
  OBVIOUS
<1>2. ~\E i \in 1..Len(<<m>>) : About(<<m>>[i], k)
  BY <1>1
<1> QED
  BY <1>1, <1>2, EndsOfConcat

(* A report about the slot decides alone.                                    *)
LEMMA EndsOfLast ==
  ASSUME NEW S, NEW s \in Seq(S), NEW m \in S, NEW h, NEW k, About(m, k)
  PROVE  EndsDown(s \o <<m>>, h, k) <=> Says(m, k)
<1>1. <<m>> \in Seq(S) /\ Len(<<m>>) = 1 /\ <<m>>[1] = m
  OBVIOUS
<1>2. \E i \in 1..Len(<<m>>) : About(<<m>>[i], k)
  BY <1>1
<1>3. EndsDown(<<m>>, {}, k) <=> Says(m, k)
  BY <1>1 DEF EndsDown
<1> QED
  BY <1>1, <1>2, <1>3, EndsOfConcat

(* Reading the first report moves what it says into what is held.            *)
LEMMA EndsOfTail ==
  ASSUME NEW S, NEW s \in Seq(S), s # <<>>, NEW h, NEW h2, NEW k,
         k \in h2 <=> IF About(Head(s), k) THEN Says(Head(s), k) ELSE k \in h
  PROVE  EndsDown(s, h, k) <=> EndsDown(Tail(s), h2, k)
<1> DEFINE u == Tail(s)
<1>1. Len(s) \in Nat /\ Len(u) = Len(s) - 1 /\ 1 \in 1..Len(s) /\ Head(s) = s[1]
  BY HeadTailProperties
<1>2. \A i \in 1..Len(u) : i + 1 \in 1..Len(s) /\ u[i] = s[i + 1]
  BY <1>1, HeadTailProperties
<1>3. \A i \in 1..Len(s) : i = 1 \/ (i - 1 \in 1..Len(u) /\ u[i - 1] = s[i])
  BY <1>1, <1>2
<1> HIDE DEF u
<1>4. ASSUME EndsDown(s, h, k) PROVE EndsDown(u, h2, k)
  <2>1. CASE k \in h /\ \A i \in 1..Len(s) : ~About(s[i], k)
    BY <1>1, <1>2, <2>1 DEF EndsDown
  <2>2. ASSUME NEW i \in 1..Len(s), About(s[i], k), Says(s[i], k),
               \A j \in i + 1..Len(s) : ~About(s[j], k)
        PROVE  EndsDown(u, h2, k)
    <3>1. \A j \in 1..Len(u) : j + 1 > i => ~About(u[j], k)
      BY <1>1, <1>2, <2>2
    <3>2. CASE i = 1
      BY <1>1, <2>2, <3>1, <3>2 DEF EndsDown
    <3>3. CASE i # 1
      <4>1. i - 1 \in 1..Len(u) /\ u[i - 1] = s[i]
        BY <1>3, <3>3
      <4>2. \A j \in (i - 1) + 1..Len(u) : j \in 1..Len(u) /\ j + 1 > i
        BY <1>1
      <4> QED
        BY <2>2, <3>1, <4>1, <4>2 DEF EndsDown
    <3> QED
      BY <3>2, <3>3
  <2> QED
    BY <1>4, <2>1, <2>2 DEF EndsDown
<1>5. ASSUME EndsDown(u, h2, k) PROVE EndsDown(s, h, k)
  <2>1. CASE k \in h2 /\ \A i \in 1..Len(u) : ~About(u[i], k)
    <3>1. \A i \in 1..Len(s) : i = 1 \/ ~About(s[i], k)
      BY <1>3, <2>1
    <3>2. \A j \in 1 + 1..Len(s) : j \in 1..Len(s) /\ j # 1
      BY <1>1
    <3> QED
      BY <1>1, <2>1, <3>1, <3>2 DEF EndsDown
  <2>2. ASSUME NEW i \in 1..Len(u), About(u[i], k), Says(u[i], k),
               \A j \in i + 1..Len(u) : ~About(u[j], k)
        PROVE  EndsDown(s, h, k)
    <3>1. \A j \in (i + 1) + 1..Len(s) : ~About(s[j], k)
      <4> SUFFICES ASSUME NEW j \in (i + 1) + 1..Len(s) PROVE ~About(s[j], k)
        OBVIOUS
      <4>1. j \in 1..Len(s) /\ j # 1 /\ j - 1 \in i + 1..Len(u)
        BY <1>1
      <4> QED
        BY <1>3, <2>2, <4>1
    <3> QED
      BY <1>2, <2>2, <3>1 DEF EndsDown
  <2> QED
    BY <1>5, <2>1, <2>2 DEF EndsDown
<1> QED
  BY <1>4, <1>5 DEF u

(* Losing a report does not matter once a later one is about the slot.       *)
LEMMA EndsOfRemoval ==
  ASSUME NEW S, NEW s \in Seq(S), NEW i \in 1..Len(s), NEW h, NEW k,
         NEW l \in i + 1..Len(s), About(s[l], k)
  PROVE  EndsDown(s, h, k) <=> EndsDown(RemoveAt(s, i), h, k)
<1> DEFINE u == RemoveAt(s, i)
<1>1. Len(s) \in Nat /\ Len(u) = Len(s) - 1
  BY RemoveAtKeepsOrder
<1>2. \A j \in 1..Len(u) : u[j] = IF j < i THEN s[j] ELSE s[j + 1]
  BY <1>1, RemoveAtKeepsOrder
<1> HIDE DEF u
<1>3. \A j \in i..Len(u) : j + 1 \in i + 1..Len(s) /\ u[j] = s[j + 1]
  BY <1>1, <1>2
<1>4. \A j \in i + 1..Len(s) : j - 1 \in i..Len(u) /\ u[j - 1] = s[j]
  BY <1>1, <1>2
<1>5. l - 1 \in 1..Len(u) /\ About(u[l - 1], k)
  BY <1>1, <1>4
<1>6. l \in 1..Len(s)
  BY <1>1
<1>7. ASSUME EndsDown(s, h, k) PROVE EndsDown(u, h, k)
  <2>1. PICK j \in 1..Len(s) : /\ About(s[j], k) /\ Says(s[j], k)
                               /\ \A n \in j + 1..Len(s) : ~About(s[n], k)
    BY <1>6, <1>7 DEF EndsDown
  <2>2. j \in i + 1..Len(s)
    BY <1>1, <1>6, <2>1
  <2>3. j - 1 \in 1..Len(u) /\ u[j - 1] = s[j]
    BY <1>1, <1>4, <2>2
  <2>4. \A n \in (j - 1) + 1..Len(u) : ~About(u[n], k)
    <3> SUFFICES ASSUME NEW n \in (j - 1) + 1..Len(u) PROVE ~About(u[n], k)
      OBVIOUS
    <3>1. n \in i..Len(u) /\ n + 1 \in j + 1..Len(s)
      BY <1>1, <2>2
    <3> QED
      BY <1>3, <2>1, <3>1
  <2> QED
    BY <2>1, <2>3, <2>4 DEF EndsDown
<1>8. ASSUME EndsDown(u, h, k) PROVE EndsDown(s, h, k)
  <2>1. PICK j \in 1..Len(u) : /\ About(u[j], k) /\ Says(u[j], k)
                               /\ \A n \in j + 1..Len(u) : ~About(u[n], k)
    BY <1>5, <1>8 DEF EndsDown
  <2>2. j \in i..Len(u)
    BY <1>1, <1>5, <2>1
  <2>3. j + 1 \in 1..Len(s) /\ u[j] = s[j + 1]
    BY <1>1, <1>3, <2>2
  <2>4. \A n \in (j + 1) + 1..Len(s) : ~About(s[n], k)
    <3> SUFFICES ASSUME NEW n \in (j + 1) + 1..Len(s) PROVE ~About(s[n], k)
      OBVIOUS
    <3>1. n \in i + 1..Len(s) /\ n - 1 \in j + 1..Len(u)
      BY <1>1, <2>2
    <3> QED
      BY <1>4, <2>1, <3>1
  <2> QED
    BY <2>1, <2>3, <2>4 DEF EndsDown
<1> QED
  BY <1>7, <1>8 DEF u

-----------------------------------------------------------------------------
(* The events of one pass over the keys, in raw mode.                        *)

(* Where each event comes from: at most one of each of the three edges, each *)
(* about a slot of its own.                                                  *)
LEMMA EventsOfAPass ==
  ASSUME PadTypeOK, PadActive, NEW g \in GpioLevels, NEW t \in TmKeys \cup {NoKey}
  PROVE  LET sent == RawKeyEvents(g, t)
             A == g # gpio /\ (g \/ GpioKey \in rawHeld)
             B == t # tm /\ tm \in rawHeld
             C == t # tm /\ t # NoKey
             ea == [kind |-> GpioKind(g), slot |-> GpioKey]
             eb == [kind |-> "UP", slot |-> tm]
             ec == [kind |-> "DOWN", slot |-> t]
         IN /\ Len(sent) \in Nat
            /\ \A i \in 1..Len(sent) :
                 (A /\ sent[i] = ea) \/ (B /\ sent[i] = eb) \/ (C /\ sent[i] = ec)
            /\ A => \E i \in 1..Len(sent) : sent[i] = ea
            /\ B => \E i \in 1..Len(sent) : sent[i] = eb
            /\ C => \E i \in 1..Len(sent) : sent[i] = ec
            /\ \A i, j \in 1..Len(sent) : sent[i] = sent[j] => i = j
<1> DEFINE A == g # gpio /\ (g \/ GpioKey \in rawHeld)
<1> DEFINE B == t # tm /\ tm \in rawHeld
<1> DEFINE C == t # tm /\ t # NoKey
<1> DEFINE ea == [kind |-> GpioKind(g), slot |-> GpioKey]
<1> DEFINE eb == [kind |-> "UP", slot |-> tm]
<1> DEFINE ec == [kind |-> "DOWN", slot |-> t]
<1> DEFINE a == IF A THEN <<ea>> ELSE <<>>
<1> DEFINE b == IF B THEN <<eb>> ELSE <<>>
<1> DEFINE c == IF C THEN <<ec>> ELSE <<>>
<1> DEFINE E == {ea, eb, ec}
<1> DEFINE sent == (a \o b) \o c
<1>1. (B => ea # eb) /\ (C => ea # ec) /\ eb # ec
  <2>1. B => tm # GpioKey
    BY KeysAssumption DEF PadTypeOK
  <2>2. C => t # GpioKey
    BY KeysAssumption
  <2> QED
    BY <2>1, <2>2
<1>2. RawKeyEvents(g, t) = sent
  BY DEF RawKeyEvents, Edge
<1> HIDE DEF A, B, C, ea, eb, ec
<1>3. /\ a \in Seq(E) /\ b \in Seq(E) /\ c \in Seq(E)
      /\ Len(a) = (IF A THEN 1 ELSE 0) /\ (A => a[1] = ea)
      /\ Len(b) = (IF B THEN 1 ELSE 0) /\ (B => b[1] = eb)
      /\ Len(c) = (IF C THEN 1 ELSE 0) /\ (C => c[1] = ec)
  <2>1. ea \in E /\ eb \in E /\ ec \in E
    OBVIOUS
  <2> HIDE DEF E
  <2>2. /\ <<>> \in Seq(E) /\ Len(<<>>) = 0
        /\ <<ea>> \in Seq(E) /\ <<eb>> \in Seq(E) /\ <<ec>> \in Seq(E)
        /\ Len(<<ea>>) = 1 /\ Len(<<eb>>) = 1 /\ Len(<<ec>>) = 1
        /\ <<ea>>[1] = ea /\ <<eb>>[1] = eb /\ <<ec>>[1] = ec
    BY <2>1
  <2> QED
    BY <2>2
<1> HIDE DEF a, b, c, E
<1>4. /\ a \o b \in Seq(E) /\ Len(a \o b) = Len(a) + Len(b)
      /\ \A i \in 1..Len(a) + Len(b) :
           (a \o b)[i] = IF i <= Len(a) THEN a[i] ELSE b[i - Len(a)]
  BY <1>3, ConcatProperties
<1>5. /\ Len(sent) = Len(a \o b) + Len(c)
      /\ \A i \in 1..Len(a \o b) + Len(c) :
           sent[i] = IF i <= Len(a \o b) THEN (a \o b)[i] ELSE c[i - Len(a \o b)]
  BY <1>3, <1>4, ConcatProperties
<1> HIDE DEF sent
<1> DEFINE na == IF A THEN 1 ELSE 0
<1> DEFINE nb == IF B THEN 1 ELSE 0
<1>6. /\ Len(sent) = na + nb + (IF C THEN 1 ELSE 0)
      /\ A => sent[1] = ea
      /\ B => sent[na + 1] = eb
      /\ C => sent[na + nb + 1] = ec
  BY <1>3, <1>4, <1>5
<1> QED
  BY <1>1, <1>2, <1>6 DEF A, B, C, ea, eb, ec

(* The events of a pass leave the daemon with what the pad now holds, for    *)
(* the slots they are about; the others stay as they were.                   *)
LEMMA PassSaysHeld ==
  ASSUME PadTypeOK, RawHeldIsDown, PadActive,
         NEW g \in GpioLevels, NEW t \in TmKeys \cup {NoKey}, ScanKeys(g, t),
         NEW k \in Keys
  PROVE  LET sent == RawKeyEvents(g, t)
         IN /\ \A i \in 1..Len(sent) :
                 sent[i].slot = k => (k \in rawHeld' <=> sent[i].kind = "DOWN")
            /\ \A i, j \in 1..Len(sent) :
                 sent[i].slot = k /\ sent[j].slot = k => i = j
            /\ (\A i \in 1..Len(sent) : sent[i].slot # k) =>
                 (k \in rawHeld' <=> k \in rawHeld)
<1> DEFINE sent == RawKeyEvents(g, t)
<1> DEFINE A == g # gpio /\ (g \/ GpioKey \in rawHeld)
<1> DEFINE B == t # tm /\ tm \in rawHeld
<1> DEFINE C == t # tm /\ t # NoKey
<1> DEFINE ea == [kind |-> GpioKind(g), slot |-> GpioKey]
<1> DEFINE eb == [kind |-> "UP", slot |-> tm]
<1> DEFINE ec == [kind |-> "DOWN", slot |-> t]
<1>1. /\ Len(sent) \in Nat
      /\ \A i \in 1..Len(sent) :
           (A /\ sent[i] = ea) \/ (B /\ sent[i] = eb) \/ (C /\ sent[i] = ec)
      /\ A => \E i \in 1..Len(sent) : sent[i] = ea
      /\ B => \E i \in 1..Len(sent) : sent[i] = eb
      /\ C => \E i \in 1..Len(sent) : sent[i] = ec
      /\ \A i, j \in 1..Len(sent) : sent[i] = sent[j] => i = j
  BY EventsOfAPass
<1>2. /\ gpio' = g /\ tm' = t
      /\ rawHeld' = (rawHeld \cap PadDown') \cup (PadDown' \ PadDown)
  BY DEF ScanKeys
<1>3. /\ g \in BOOLEAN /\ gpio \in BOOLEAN
      /\ tm # GpioKey /\ t # GpioKey /\ GpioKey # NoKey
  BY KeysAssumption DEF PadTypeOK
<1>4. /\ k \in PadDown <=> (gpio /\ k = GpioKey) \/ (k = tm /\ tm # NoKey)
      /\ k \in PadDown' <=> (g /\ k = GpioKey) \/ (k = t /\ t # NoKey)
      /\ k \in rawHeld => k \in PadDown
      /\ tm \in rawHeld => tm # NoKey
  BY <1>2, <1>3 DEF PadDown, RawHeldIsDown
<1>5. k \in rawHeld' <=> k \in PadDown' /\ (k \in rawHeld \/ k \notin PadDown)
  BY <1>2, <1>4
<1>6. GpioKind(g) = "DOWN" <=> g
  BY <1>3 DEF GpioKind
<1> HIDE DEF sent
<1>7. ASSUME NEW i \in 1..Len(sent), sent[i].slot = k
      PROVE  /\ k \in rawHeld' <=> sent[i].kind = "DOWN"
             /\ \/ A /\ sent[i] = ea /\ k = GpioKey
                \/ B /\ sent[i] = eb /\ k = tm
                \/ C /\ sent[i] = ec /\ k = t
  <2>1. CASE A /\ sent[i] = ea
    <3>1. k = GpioKey /\ sent[i].kind = GpioKind(g)
      BY <1>7, <2>1
    <3> QED
      BY <1>3, <1>4, <1>5, <1>6, <2>1, <3>1
  <2>2. CASE B /\ sent[i] = eb
    <3>1. k = tm /\ sent[i].kind = "UP"
      BY <1>7, <2>2
    <3> QED
      BY <1>3, <1>4, <1>5, <2>2, <3>1
  <2>3. CASE C /\ sent[i] = ec
    <3>1. k = t /\ sent[i].kind = "DOWN"
      BY <1>7, <2>3
    <3> QED
      BY <1>3, <1>4, <1>5, <2>3, <3>1
  <2> QED
    BY <1>1, <2>1, <2>2, <2>3
<1>8. ASSUME NEW i \in 1..Len(sent), NEW j \in 1..Len(sent),
             sent[i].slot = k, sent[j].slot = k
      PROVE  i = j
  <2>1. sent[i] = sent[j]
    BY <1>3, <1>7, <1>8
  <2> QED
    BY <1>1, <2>1
<1>9. ASSUME \A i \in 1..Len(sent) : sent[i].slot # k
      PROVE  k \in rawHeld' <=> k \in rawHeld
  <2>1. (A => k # GpioKey) /\ (B => k # tm) /\ (C => k # t)
    BY <1>1, <1>9
  <2> QED
    BY <1>3, <1>4, <1>5, <2>1
<1> QED
  BY <1>7, <1>8, <1>9 DEF sent

-----------------------------------------------------------------------------
(* The invariant: the view is right after the queue, and only the open file  *)
(* of the pad now plugged in can be in step with it.                         *)
InStep ==
  /\ synced => linked
  /\ AnswersRestoreHeld

(* Key reports of the pad keep both views in step (PAD_event, raw branch). *)
LEMMA PadKeysKeepInStep ==
  ASSUME TypeOK, RawHeldIsDown, InStep,
         NEW g \in GpioLevels, NEW t \in TmKeys \cup {NoKey}, PadKeys(g, t)
  PROVE  InStep'
<1> DEFINE sent == RawKeyEvents(g, t)
<1> DEFINE msgs == [i \in 1..Len(sent) |->
             [type |-> "EVENT", seq |-> (seq + i) % SeqWrap,
              kind |-> sent[i].kind, slot |-> sent[i].slot]]
<1>1. /\ UNCHANGED <<synced, linked, dstate, dHeld>> /\ ScanKeys(g, t)
      /\ Report(msgs)
  BY DEF PadKeys, daemonVars, histVars
<1>2. chan \in Seq(Message) /\ msgs \in Seq(Message) /\ PadTypeOK
  BY EventsTyped DEF TypeOK
<1>3. /\ Len(msgs) = Len(sent) /\ Len(sent) \in Nat
      /\ \A i \in 1..Len(msgs) :
           /\ msgs[i].type = "EVENT" /\ msgs[i].slot = sent[i].slot
           /\ msgs[i].kind = sent[i].kind
  BY <1>2, SentAreKeys
<1> HIDE DEF msgs
<1>4. \A i \in 1..Len(msgs), k \in Keys :
        /\ About(msgs[i], k) <=> sent[i].slot = k
        /\ Says(msgs[i], k) <=> sent[i].kind = "DOWN"
  BY <1>3 DEF About, Says, Restores
<1>5. ASSUME dstate = "running", synced, NEW k \in Keys
      PROVE  EndsDown(chan', dHeld', k) <=> k \in rawHeld'
  <2>1. chan' = chan \o msgs
    BY <1>1, <1>5 DEF Report, InStep
  <2>2. EndsDown(chan', dHeld, k) <=>
          IF \E i \in 1..Len(msgs) : About(msgs[i], k) THEN EndsDown(msgs, {}, k)
          ELSE EndsDown(chan, dHeld, k)
    BY <1>2, <2>1, EndsOfConcat
  <2>3. EndsDown(chan, dHeld, k) <=> k \in rawHeld
    BY <1>5 DEF InStep, AnswersRestoreHeld
  <2>4. CASE ~PadActive
    <3>1. rawHeld' = rawHeld /\ sent = <<>>
      BY <1>1, <2>4 DEF ScanKeys, RawKeyEvents
    <3>2. Len(msgs) = 0
      BY <1>3, <3>1
    <3> QED
      BY <1>1, <2>2, <2>3, <3>1, <3>2
  <2>5. CASE PadActive
    <3>1. /\ \A i \in 1..Len(sent) :
               sent[i].slot = k => (k \in rawHeld' <=> sent[i].kind = "DOWN")
          /\ \A i, j \in 1..Len(sent) :
               sent[i].slot = k /\ sent[j].slot = k => i = j
          /\ (\A i \in 1..Len(sent) : sent[i].slot # k) =>
               (k \in rawHeld' <=> k \in rawHeld)
      BY <1>1, <1>2, <2>5, PassSaysHeld
    <3> HIDE DEF sent
    <3>2. ASSUME NEW i \in 1..Len(msgs), About(msgs[i], k)
          PROVE  EndsDown(msgs, {}, k) <=> k \in rawHeld'
      <4>1. \A j \in 1..Len(msgs) : About(msgs[j], k) => j = i
        BY <1>3, <1>4, <3>1, <3>2
      <4>2. Says(msgs[i], k) <=> k \in rawHeld'
        BY <1>3, <1>4, <3>1, <3>2
      <4>3. \A j \in i + 1..Len(msgs) : j \in 1..Len(msgs) /\ j # i
        BY <1>3
      <4> QED
        BY <3>2, <4>1, <4>2, <4>3 DEF EndsDown
    <3>3. (\A i \in 1..Len(msgs) : ~About(msgs[i], k)) =>
            (k \in rawHeld' <=> k \in rawHeld)
      BY <1>3, <1>4, <3>1
    <3> QED
      BY <1>1, <2>2, <2>3, <3>2, <3>3
  <2> QED
    BY <2>4, <2>5
<1> QED
  BY <1>1, <1>5 DEF InStep, AnswersRestoreHeld

(* A report of the pad about no key, while what it holds stays.              *)
LEMMA OtherReportKeepsInStep ==
  ASSUME TypeOK, InStep, NEW m \in Message, Report(<<m>>), \A k \in Keys : ~About(m, k),
         UNCHANGED <<rawHeld, linked, dstate, dHeld>>, synced' => synced
  PROVE  InStep'
<1>1. ASSUME dstate = "running", synced, NEW k \in Keys
      PROVE  EndsDown(chan', dHeld', k) <=> k \in rawHeld'
  <2>1. chan \in Seq(Message) /\ chan' = chan \o <<m>> /\ ~About(m, k)
    BY <1>1 DEF Report, InStep, TypeOK
  <2>2. EndsDown(chan \o <<m>>, dHeld, k) <=> EndsDown(chan, dHeld, k)
    BY <2>1, EndsOfOther
  <2> QED
    BY <1>1, <2>1, <2>2 DEF InStep, AnswersRestoreHeld
<1> QED
  BY <1>1 DEF InStep, AnswersRestoreHeld

(* A snapshot of a session puts the daemon in step, whatever came before.    *)
LEMMA SnapshotPutsInStep ==
  ASSUME TypeOK, PadTypeOK', NEW type \in {"RAW_MODE", "GET_KEYS"},
         Report(<<SnapshotOf(type)>>), left' > 0, UNCHANGED <<linked, dHeld>>,
         synced' => linked
  PROVE  InStep'
<1> DEFINE m == SnapshotOf(type)
<1>1. ASSUME synced', NEW k \in Keys
      PROVE  EndsDown(chan', dHeld', k) <=> k \in rawHeld'
  <2>1. chan \in Seq(Message) /\ m \in Message /\ chan' = chan \o <<m>>
    BY <1>1, SnapshotTyped DEF Report, TypeOK
  <2>2. About(m, k) /\ (Says(m, k) <=> k \in rawHeld')
    BY DEF SnapshotOf, About, Says, Restores
  <2> HIDE DEF m
  <2> QED
    BY <2>1, <2>2, EndsOfLast
<1> QED
  BY <1>1 DEF InStep, AnswersRestoreHeld

(* An answer to a heartbeat or GET_KEYS puts both views in step. *)
LEMMA AnswerKeepsInStep ==
  ASSUME TypeOK, AnswersInOrder, InStep, PadAnswer
  PROVE  InStep'
<1>1. UNCHANGED <<linked, dstate, dHeld>>
  BY DEF PadAnswer, daemonVars
<1>2. PadTypeOK'
  BY PadStepTyped, StepsOfThePad DEF Next, TypeOK
<1>3. CASE cmd = "GET_INFO"
  <2>1. [type |-> "GET_INFO"] \in Message
    BY DEF Message
  <2>2. \A k \in Keys : ~About([type |-> "GET_INFO"], k)
    BY DEF About, Restores
  <2> QED
    BY <1>1, <1>3, <2>1, <2>2, OtherReportKeepsInStep DEF PadAnswer, padVars
<1>4. CASE cmd = "RAW_ON"
  <2>1. left' > 0
    BY <1>4, ModAssumption DEF PadAnswer, SetRawOn
  <2> QED
    BY <1>1, <1>2, <1>4, <2>1, SnapshotPutsInStep DEF PadAnswer
<1>5. CASE cmd = "RAW_OFF"
  <2>1. dstate # "running" /\ synced' = linked
    BY <1>5 DEF PadAnswer, AnswersInOrder
  <2> QED
    BY <1>1, <2>1 DEF InStep, AnswersRestoreHeld
<1>6. CASE cmd = "GET_KEYS" /\ PadActive
  <2>1. left' > 0 /\ synced' => linked
    BY <1>6 DEF PadAnswer, padVars, PadActive, InStep
  <2>2. left' > 0 /\ Report(<<SnapshotOf("GET_KEYS")>>)
    BY <1>6 DEF PadAnswer, padVars, PadActive
  <2> QED
    BY <1>1, <1>2, <2>1, <2>2, SnapshotPutsInStep
<1>7. CASE cmd = "GET_KEYS" /\ ~PadActive
  <2>1. Report(<<SnapshotOf("GET_KEYS")>>) /\ rawHeld' = rawHeld /\ (synced' => synced)
    BY <1>7 DEF PadAnswer, padVars
  <2>2. \A k \in Keys : ~About(SnapshotOf("GET_KEYS"), k)
    BY <1>7 DEF PadAnswer, padVars, PadActive, SnapshotOf, About, Restores
  <2>3. SnapshotOf("GET_KEYS") \in Message
    BY <1>2, SnapshotTyped
  <2> QED
    BY <1>1, <2>1, <2>2, <2>3, OtherReportKeepsInStep
<1> QED
  BY <1>3, <1>4, <1>5, <1>6, <1>7 DEF PadAnswer

(* Detents say nothing about keys. *)
LEMMA PadTurnKeepsInStep ==
  ASSUME TypeOK, InStep, NEW d \in Dirs, NEW n \in 1..MaxTake, PadTurn(d, n)
  PROVE  InStep'
<1> DEFINE m == [type |-> "TAP", seq |-> seq', slot |-> d, n |-> n]
<1>1. PadTypeOK'
  BY PadStepTyped DEF PadTurn, PadNext, TypeOK
<1>2. m \in Message /\ Report(<<m>>)
  BY <1>1 DEF PadTurn, Message, EventMsg, PadTypeOK
<1>3. \A k \in Keys : ~About(m, k)
  BY DEF About, Restores
<1>4. UNCHANGED <<rawHeld, linked, dstate, dHeld, synced>>
  BY DEF PadTurn, TurnRaw, daemonVars
<1> QED
  BY <1>2, <1>3, <1>4, OtherReportKeepsInStep

(* A loss leaves the views in step only if an answer behind it restores them. *)
LEMMA LossKeepsInStep ==
  ASSUME TypeOK, InStep, LoseReport \/ LoseRequest \/ Replug \/ Tick
  PROVE  InStep'
<1>1. CASE LoseReport
  <2>1. PICK i \in 1..Len(chan) :
          /\ chan' = RemoveAt(chan, i)
          /\ synced' = (synced /\ \E j \in i + 1..Len(chan) : Restores(chan[j]))
    BY <1>1 DEF LoseReport
  <2>2. UNCHANGED <<rawHeld, linked, dstate, dHeld>>
    BY <1>1 DEF LoseReport, padVars, daemonVars
  <2>3. ASSUME dstate = "running", synced', NEW k \in Keys
        PROVE  EndsDown(chan', dHeld', k) <=> k \in rawHeld'
    <3>1. PICK j \in i + 1..Len(chan) : Restores(chan[j])
      BY <2>1, <2>3
    <3>2. About(chan[j], k) /\ chan \in Seq(Message)
      BY <3>1 DEF About, TypeOK
    <3>3. EndsDown(chan, dHeld, k) <=> EndsDown(RemoveAt(chan, i), dHeld, k)
      BY <3>2, EndsOfRemoval
    <3> QED
      BY <2>1, <2>2, <2>3, <3>3 DEF InStep, AnswersRestoreHeld
  <2> QED
    BY <2>1, <2>2, <2>3 DEF InStep, AnswersRestoreHeld
<1>2. CASE LoseRequest
  <2>1. UNCHANGED <<rawHeld, linked, dstate, dHeld, chan, synced>>
    BY <1>2 DEF LoseRequest, padVars, daemonVars
  <2> QED
    BY <2>1 DEF InStep, AnswersRestoreHeld
<1>3. CASE Replug
  BY <1>3 DEF Replug, InStep, AnswersRestoreHeld
<1>4. CASE Tick
  <2>1. /\ UNCHANGED <<linked, dstate, dHeld, chan>>
        /\ synced' => synced /\ rawHeld' = rawHeld
    BY <1>4 DEF Tick
  <2> QED
    BY <2>1 DEF InStep, AnswersRestoreHeld
<1> QED
  BY <1>1, <1>2, <1>3, <1>4

(* A closed device claims nothing. *)
LEMMA CloseKeepsInStep ==
  ASSUME CloseDevice
  PROVE  InStep'
  BY DEF CloseDevice, Forget, InStep, AnswersRestoreHeld

(* What the daemon does of itself keeps both views in step. *)
LEMMA DaemonKeepsInStep ==
  ASSUME TypeOK, InStep,
         Start \/ AskInfo \/ Stop \/ InfoTimeout \/ Crash \/ Heartbeat
  PROVE  InStep'
<1>1. CASE Start \/ AskInfo
  BY <1>1 DEF Start, AskInfo, histVars, InStep, AnswersRestoreHeld
<1>2. CASE Stop \/ InfoTimeout
  BY <1>2, CloseKeepsInStep DEF Stop, InfoTimeout
<1>3. CASE Crash
  BY <1>3 DEF Crash, Forget, InStep, AnswersRestoreHeld
<1>4. CASE Heartbeat
  <2>1. /\ UNCHANGED <<rawHeld, linked, dstate, chan>>
        /\ ~synced' \/ UNCHANGED <<synced, dHeld>>
    BY <1>4 DEF Heartbeat, padVars
  <2> QED
    BY <2>1 DEF InStep, AnswersRestoreHeld
<1> QED
  BY <1>1, <1>2, <1>3, <1>4

(* Reading a report moves what it says from the queue to m_held. *)
LEMMA ReadingKeepsInStep ==
  ASSUME TypeOK, InStep, ReadReport
  PROVE  InStep'
<1> DEFINE m == Head(chan)
<1>1. chan \in Seq(Message) /\ chan # <<>> /\ UNCHANGED padVars
  BY DEF ReadReport, TypeOK
<1>2. ASSUME UNCHANGED <<dstate, linked, synced>>, chan' = Tail(chan),
             dstate = "running" =>
               \A k \in Keys :
                 k \in dHeld' <=> IF About(m, k) THEN Says(m, k) ELSE k \in dHeld
      PROVE  InStep'
  <2>1. ASSUME dstate = "running", synced, NEW k \in Keys
        PROVE  EndsDown(chan', dHeld', k) <=> k \in rawHeld'
    <3>1. EndsDown(chan, dHeld, k) <=> EndsDown(Tail(chan), dHeld', k)
      BY <1>1, <1>2, <2>1, EndsOfTail
    <3> QED
      BY <1>1, <1>2, <2>1, <3>1 DEF InStep, AnswersRestoreHeld, padVars
  <2> QED
    BY <1>2, <2>1 DEF InStep, AnswersRestoreHeld
<1>3. CASE ReadInfo(m)
  BY <1>3 DEF ReadInfo, InStep, AnswersRestoreHeld
<1>4. CASE RefuseInfo(m) \/ ReadRefusal(m) \/ ReadGone(m)
  BY <1>4, CloseKeepsInStep DEF RefuseInfo, ReadRefusal, ReadGone
<1>5. CASE ReadRawMode(m) \/ ReadKeys(m)
  <2>1. /\ UNCHANGED <<dstate, linked, synced>> /\ chan' = Tail(chan)
        /\ dHeld' = m.held /\ Restores(m) /\ m.type # "EVENT"
    BY <1>5 DEF ReadRawMode, ReadKeys, TakeSnapshot, Restores
  <2> HIDE DEF m
  <2>2. \A k \in Keys : About(m, k) /\ (Says(m, k) <=> k \in dHeld')
    BY <2>1 DEF About, Says
  <2> QED
    BY <1>2, <2>1, <2>2 DEF m
<1>6. CASE ReadKeyEvent(m)
  <2>1. /\ UNCHANGED <<dstate, linked, synced>> /\ chan' = Tail(chan)
        /\ m.type = "EVENT"
        /\ dHeld' = IF m.kind = "DOWN" THEN dHeld \cup {m.slot} ELSE dHeld \ {m.slot}
    BY <1>6 DEF ReadKeyEvent
  <2> HIDE DEF m
  <2>2. \A k \in Keys :
          k \in dHeld' <=> IF About(m, k) THEN Says(m, k) ELSE k \in dHeld
    BY <2>1 DEF About, Says, Restores
  <2> QED
    BY <1>2, <2>1, <2>2 DEF m
<1>7. CASE ReadTap(m) \/ ReadSkipped(m)
  <2>1. UNCHANGED <<dstate, linked, synced, dHeld>> /\ chan' = Tail(chan)
    BY <1>7 DEF ReadTap, ReadSkipped, daemonVars
  <2>2. dstate = "running" => \A k \in Keys : ~About(m, k)
    BY <1>7 DEF ReadTap, ReadSkipped, Skips, About, Restores
  <2> QED
    BY <1>2, <2>1, <2>2
<1> QED
  BY <1>3, <1>4, <1>5, <1>6, <1>7 DEF ReadReport

(* After every answer of the pad, and until something is lost again, the     *)
(* daemon's view once its queue is read is the set of keys whose DOWN the    *)
(* pad sent and whose UP it did not (handleSnapshot, snapshot()).            *)
THEOREM AnswersRestore == Spec => []AnswersRestoreHeld
<1>1. Init => InStep
  BY DEF Init, InStep, AnswersRestoreHeld
<1>2. TypeOK /\ RawHeldIsDown /\ AnswersInOrder /\ InStep /\ [Next]_vars => InStep'
  <2>1. InStep /\ UNCHANGED vars => InStep'
    BY DEF vars, padVars, daemonVars, histVars, InStep, AnswersRestoreHeld
  <2> QED
    BY <2>1, PadKeysKeepInStep, PadTurnKeepsInStep, AnswerKeepsInStep, LossKeepsInStep,
       DaemonKeepsInStep, ReadingKeepsInStep DEF Next
<1>3. InStep => AnswersRestoreHeld
  BY DEF InStep
<1> QED
  BY <1>1, <1>2, <1>3, TypeCorrect, SessionHeldIsDown, OrderOfAnswers, PTL DEF Spec

-----------------------------------------------------------------------------
(* Counting modulo the width of a counter.                                   *)

(* A number is a multiple of the width and a rest below it.                  *)
LEMMA DivMod ==
  ASSUME NEW a \in Int, NEW w \in Nat \ {0}
  PROVE  \E q \in Int, r \in 0..w - 1 : a = w * q + r /\ a % w = r
<1> DEFINE q == a \div w
<1> DEFINE r == a % w
<1>1. a = w * q + r /\ r \in 0..w - 1 /\ q \in Int
  OBVIOUS
<1> HIDE DEF q
<1> QED
  BY <1>1

(* The rest does not change with the multiple.                               *)
LEMMA ModUnique ==
  ASSUME NEW w \in Nat \ {0}, NEW q \in Int, NEW r \in 0..w - 1
  PROVE  (w * q + r) % w = r
<1> DEFINE a == w * q + r
<1>1. PICK p \in Int, s \in 0..w - 1 : a = w * p + s /\ a % w = s
  BY DivMod
<1>2. w * (q - p) = s - r
  BY <1>1
<1>3. CASE q - p >= 1
  <2>1. w * (q - p) >= w
    BY <1>3
  <2> QED
    BY <2>1, <1>2
<1>4. CASE q - p <= -1
  <2>1. w * (q - p) <= -w
    BY <1>4
  <2> QED
    BY <2>1, <1>2
<1>5. CASE q = p
  BY <1>5, <1>1
<1> QED
  BY <1>3, <1>4, <1>5

(* What is added to a wrapped counter is added to what it counts.            *)
LEMMA ModAdd ==
  ASSUME NEW a \in Int, NEW b \in Int, NEW w \in Nat \ {0}
  PROVE  ((a % w) + b) % w = (a + b) % w
<1>1. PICK p \in Int, r \in 0..w - 1 : a = w * p + r /\ a % w = r
  BY DivMod
<1>2. PICK q \in Int, s \in 0..w - 1 : r + b = w * q + s /\ (r + b) % w = s
  <2>1. r + b \in Int
    OBVIOUS
  <2> QED
    BY <2>1, DivMod
<1>3. a + b = w * (p + q) + s
  BY <1>1, <1>2
<1>4. (w * (p + q) + s) % w = s
  BY ModUnique
<1> QED
  BY <1>1, <1>2, <1>3, <1>4

(* A number below the width is its own rest.                                 *)
LEMMA ModSmall ==
  ASSUME NEW w \in Nat \ {0}, NEW r \in 0..w - 1
  PROVE  r % w = r
  OBVIOUS

-----------------------------------------------------------------------------
(* Sums over the queue.                                                      *)

(* Induction over the naturals, for a set instead of a formula.              *)
LEMMA SetInduction ==
  ASSUME NEW S, 0 \in S, \A n \in Nat : n \in S => n + 1 \in S
  PROVE  Nat \subseteq S
<1> DEFINE Bad == Nat \ S
<1>1. SUFFICES ASSUME Bad # {} PROVE FALSE
  OBVIOUS
<1>2. PICK x \in Bad : \A y \in Bad : ~ (<<y, x>> \in OpToRel(<, Nat))
  <2> HIDE DEF Bad
  <2>1. Bad \subseteq Nat
    BY DEF Bad
  <2> QED
    BY <1>1, <2>1, WFMin, NatLessThanWellFounded, Zenon
<1>3. x \in Nat /\ x # 0
  OBVIOUS
<1>4. x - 1 \in Nat /\ x - 1 < x
  BY <1>3
<1>5. x - 1 \notin Bad
  BY <1>2, <1>3, <1>4 DEF OpToRel
<1> QED
  BY <1>3, <1>4, <1>5

(* Two running sums with the same steps differ by where they start.          *)
LEMMA SameSteps ==
  ASSUME NEW n \in Nat, NEW p, NEW q,
         \A i \in 0..n : p[i] \in Int /\ q[i] \in Int,
         \A i \in 1..n : p[i] - p[i - 1] = q[i] - q[i - 1]
  PROVE  \A i \in 0..n : p[i] - p[0] = q[i] - q[0]
<1> DEFINE S == {k \in Nat : k \in 0..n => p[k] - p[0] = q[k] - q[0]}
<1>1. 0 \in S
  OBVIOUS
<1>2. ASSUME NEW k \in Nat, k \in S
      PROVE  k + 1 \in S
  <2>1. SUFFICES ASSUME k + 1 \in 0..n
                 PROVE  p[k + 1] - p[0] = q[k + 1] - q[0]
    OBVIOUS
  <2>2. p[k + 1] - p[(k + 1) - 1] = q[k + 1] - q[(k + 1) - 1]
    BY <2>1
  <2>3. (k + 1) - 1 = k /\ k \in 0..n
    BY <2>1
  <2>4. /\ p[k] \in Int /\ q[k] \in Int /\ p[k + 1] \in Int /\ q[k + 1] \in Int
        /\ p[0] \in Int /\ q[0] \in Int
    BY <2>1, <2>3
  <2> QED
    BY <1>2, <2>2, <2>3, <2>4
<1>3. Nat \subseteq S
  <2> HIDE DEF S
  <2> QED
    BY <1>1, <1>2, SetInduction
<1> QED
  BY <1>3

(* The same for sums kept as they are defined, whatever they are sums of.    *)
StepAlike(n, p, q) ==
  /\ \A i \in 0..n : p[i] \in Int /\ q[i] \in Int
  /\ \A i \in 1..n : p[i] - p[i - 1] = q[i] - q[i - 1]
GrowAlike(n, p, q) == \A i \in 0..n : p[i] - p[0] = q[i] - q[0]

(* Sums whose steps are alike grow alike.                                    *)
LEMMA AlikeSteps ==
  ASSUME NEW n \in Nat, NEW p, NEW q, StepAlike(n, p, q)
  PROVE  GrowAlike(n, p, q)
  BY SameSteps DEF StepAlike, GrowAlike

(* The running sum of n numbers.                                             *)
LEMMA SumExists ==
  ASSUME NEW n \in Nat, NEW f
  PROVE  \E q : q = [i \in 0..n |-> IF i = 0 THEN 0 ELSE q[i - 1] + f[i]]
<1> DEFINE S == {k \in Nat : \E q : q = [i \in 0..k |-> IF i = 0 THEN 0 ELSE q[i - 1] + f[i]]}
<1>1. 0 \in S
  <2> DEFINE q0 == [i \in 0..0 |-> 0]
  <2>1. q0 = [i \in 0..0 |-> IF i = 0 THEN 0 ELSE q0[i - 1] + f[i]]
    OBVIOUS
  <2> QED
    BY <2>1
<1>2. ASSUME NEW k \in Nat, k \in S
      PROVE  k + 1 \in S
  <2>1. PICK q : q = [i \in 0..k |-> IF i = 0 THEN 0 ELSE q[i - 1] + f[i]]
    BY <1>2
  <2> DEFINE r == [i \in 0..k + 1 |-> IF i = k + 1 THEN q[k] + f[k + 1] ELSE q[i]]
  <2>2. ASSUME NEW i \in 0..k + 1
        PROVE  r[i] = IF i = 0 THEN 0 ELSE r[i - 1] + f[i]
    <3>1. CASE i = k + 1
      BY <3>1
    <3>2. CASE i = 0
      BY <3>2, <2>1
    <3>3. CASE i \in 1..k
      <4>1. q[i] = q[i - 1] + f[i]
        BY <2>1, <3>3
      <4>2. r[i] = q[i] /\ r[i - 1] = q[i - 1]
        BY <3>3
      <4> QED
        BY <4>1, <4>2, <3>3
    <3> QED
      BY <3>1, <3>2, <3>3
  <2>3. r = [i \in 0..k + 1 |-> IF i = 0 THEN 0 ELSE r[i - 1] + f[i]]
    <3> DEFINE t == [i \in 0..k + 1 |-> IF i = 0 THEN 0 ELSE r[i - 1] + f[i]]
    <3>1. \A i \in 0..k + 1 : r[i] = t[i]
      BY <2>2
    <3> QED
      BY <3>1
  <2> HIDE DEF r
  <2> QED
    BY <2>3
<1>3. Nat \subseteq S
  <2> HIDE DEF S
  <2> QED
    BY <1>1, <1>2, SetInduction
<1> QED
  BY <1>3

(* What SumUpTo returns: each sum is the one before it and one number more.  *)
LEMMA SumIs ==
  ASSUME NEW n \in Nat, NEW f, \A i \in 1..n : f[i] \in Int
  PROVE  /\ \A i \in 0..n : SumUpTo(f, n)[i] \in Int
         /\ SumUpTo(f, n)[0] = 0
         /\ \A i \in 1..n : SumUpTo(f, n)[i] = SumUpTo(f, n)[i - 1] + f[i]
<1> DEFINE q == SumUpTo(f, n)
<1>1. q = [i \in 0..n |-> IF i = 0 THEN 0 ELSE q[i - 1] + f[i]]
  BY SumExists, Zenon DEF SumUpTo
<1> HIDE DEF q
<1>2. /\ q[0] = 0
      /\ \A i \in 1..n : q[i] = q[i - 1] + f[i]
  BY <1>1
<1> DEFINE S == {k \in Nat : k \in 0..n => q[k] \in Int}
<1>3. 0 \in S
  BY <1>2
<1>4. ASSUME NEW k \in Nat, k \in S
      PROVE  k + 1 \in S
  <2>1. SUFFICES ASSUME k + 1 \in 0..n
                 PROVE  q[k + 1] \in Int
    OBVIOUS
  <2>2. k + 1 \in 1..n /\ (k + 1) - 1 = k /\ k \in 0..n
    BY <2>1
  <2>3. q[k + 1] = q[k] + f[k + 1]
    BY <1>2, <2>2
  <2> QED
    BY <1>4, <2>2, <2>3
<1>5. Nat \subseteq S
  <2> HIDE DEF S
  <2> QED
    BY <1>3, <1>4, SetInduction
<1>6. \A i \in 0..n : q[i] \in Int
  BY <1>5
<1> QED
  BY <1>2, <1>6 DEF q

(* A report brings no less than no detents.                                  *)
LEMMA TapOfIsNat ==
  ASSUME NEW m \in Message, NEW d
  PROVE  TapOf(m, d) \in Nat
  BY ModAssumption DEF TapOf, Message, EventMsg, SnapshotMsg

(* The detents of a queue, report by report.                                 *)
LEMMA TappedIs ==
  ASSUME NEW s \in Seq(Message), NEW d
  PROVE  /\ \A i \in 0..Len(s) : Tapped(s, d)[i] \in Int
         /\ Tapped(s, d)[0] = 0
         /\ \A i \in 1..Len(s) :
              /\ TapOf(s[i], d) \in Nat
              /\ Tapped(s, d)[i] = Tapped(s, d)[i - 1] + TapOf(s[i], d)
<1> DEFINE n == Len(s)
<1> DEFINE f == [i \in 1..n |-> TapOf(s[i], d)]
<1>1. n \in Nat
  OBVIOUS
<1>2. \A i \in 1..n : f[i] = TapOf(s[i], d) /\ f[i] \in Nat
  BY TapOfIsNat, ElementOfSeq
<1>3. Tapped(s, d) = SumUpTo(f, n)
  BY DEF Tapped
<1> HIDE DEF f, n
<1>4. /\ \A i \in 0..n : SumUpTo(f, n)[i] \in Int
      /\ SumUpTo(f, n)[0] = 0
      /\ \A i \in 1..n : SumUpTo(f, n)[i] = SumUpTo(f, n)[i - 1] + f[i]
  BY <1>1, <1>2, SumIs
<1> QED
  BY <1>2, <1>3, <1>4 DEF n

(* Reports put behind the queue.                                             *)
LEMMA TappedOfConcat ==
  ASSUME NEW s \in Seq(Message), NEW t \in Seq(Message), NEW d
  PROVE  /\ \A i \in 0..Len(s) : Tapped(s \o t, d)[i] = Tapped(s, d)[i]
         /\ \A i \in 0..Len(t) :
              Tapped(s \o t, d)[Len(s) + i] = Tapped(s, d)[Len(s)] + Tapped(t, d)[i]
<1> DEFINE r == s \o t
<1> DEFINE p == Tapped(r, d)
<1>1. r \in Seq(Message) /\ Len(r) = Len(s) + Len(t) /\ Len(s) \in Nat /\ Len(t) \in Nat
  OBVIOUS
<1>2. /\ \A i \in 1..Len(s) : r[i] = s[i]
      /\ \A i \in 1..Len(t) : r[Len(s) + i] = t[i]
  OBVIOUS
<1> HIDE DEF r
<1>3. /\ \A i \in 0..Len(r) : p[i] \in Int
      /\ p[0] = 0
      /\ \A i \in 1..Len(r) : p[i] = p[i - 1] + TapOf(r[i], d)
  BY <1>1, TappedIs
<1> DEFINE a == Tapped(s, d)
<1>4. /\ \A i \in 0..Len(s) : a[i] \in Int
      /\ a[0] = 0
      /\ \A i \in 1..Len(s) : a[i] = a[i - 1] + TapOf(s[i], d) /\ TapOf(s[i], d) \in Nat
  BY TappedIs
<1> DEFINE b == Tapped(t, d)
<1>5. /\ \A i \in 0..Len(t) : b[i] \in Int
      /\ b[0] = 0
      /\ \A i \in 1..Len(t) : b[i] = b[i - 1] + TapOf(t[i], d) /\ TapOf(t[i], d) \in Nat
  BY TappedIs
<1> HIDE DEF p, a, b
<1>6. \A i \in 0..Len(s) : p[i] = a[i]
  <2>1. \A i \in 0..Len(s) : p[i] \in Int /\ a[i] \in Int
    BY <1>1, <1>3, <1>4
  <2>2. ASSUME NEW i \in 1..Len(s)
        PROVE  p[i] - p[i - 1] = a[i] - a[i - 1]
    <3>1. i \in 1..Len(r) /\ i - 1 \in 0..Len(s)
      BY <1>1
    <3>2. p[i] = p[i - 1] + TapOf(s[i], d) /\ a[i] = a[i - 1] + TapOf(s[i], d) /\ TapOf(s[i], d) \in Nat
      BY <1>2, <1>3, <1>4, <3>1
    <3>3. p[i - 1] \in Int /\ a[i - 1] \in Int
      BY <2>1, <3>1
    <3> QED
      BY <3>2, <3>3
  <2>3. \A i \in 0..Len(s) : p[i] - p[0] = a[i] - a[0]
    BY <1>1, <2>1, <2>2, SameSteps
  <2> QED
    BY <1>3, <1>4, <2>1, <2>3
<1>7. \A i \in 0..Len(t) : p[Len(s) + i] = a[Len(s)] + b[i]
  <2> DEFINE c == [i \in 0..Len(t) |-> p[Len(s) + i]]
  <2>1. \A i \in 0..Len(t) : c[i] = p[Len(s) + i] /\ c[i] \in Int /\ b[i] \in Int
    BY <1>1, <1>3, <1>5
  <2>2. \A i \in 1..Len(t) : c[i] - c[i - 1] = b[i] - b[i - 1]
    <3>1. TAKE i \in 1..Len(t)
    <3>2. Len(s) + i \in 1..Len(r) /\ (Len(s) + i) - 1 = Len(s) + (i - 1) /\ i - 1 \in 0..Len(t)
      BY <1>1
    <3>3. p[Len(s) + i] = p[Len(s) + (i - 1)] + TapOf(t[i], d)
      BY <1>2, <1>3, <3>2
    <3>4. c[i] = p[Len(s) + i] /\ c[i - 1] = p[Len(s) + (i - 1)]
      BY <2>1, <3>2
    <3>5. b[i] = b[i - 1] + TapOf(t[i], d) /\ TapOf(t[i], d) \in Nat /\ b[i - 1] \in Int /\ c[i - 1] \in Int
      BY <1>5, <2>1, <3>2
    <3> HIDE DEF c
    <3> QED
      BY <3>3, <3>4, <3>5
  <2> HIDE DEF c
  <2>3. \A i \in 0..Len(t) : c[i] - c[0] = b[i] - b[0]
    BY <1>1, <2>1, <2>2, SameSteps
  <2>4. 0 \in 0..Len(t) /\ Len(s) + 0 = Len(s) /\ Len(s) \in 0..Len(s)
    BY <1>1
  <2>5. c[0] = a[Len(s)]
    BY <1>6, <2>1, <2>4
  <2>6. TAKE i \in 0..Len(t)
  <2>7. c[i] - a[Len(s)] = b[i] - 0 /\ a[Len(s)] \in Int
    BY <1>4, <1>5, <2>3, <2>4, <2>5
  <2> QED
    BY <2>1, <2>7
<1> QED
  BY <1>6, <1>7 DEF p, a, b, r

(* Reading the first report.                                                 *)
LEMMA TappedOfTail ==
  ASSUME NEW s \in Seq(Message), s # <<>>, NEW d
  PROVE  \A i \in 0..Len(s) - 1 : Tapped(Tail(s), d)[i] = Tapped(s, d)[i + 1] - TapOf(Head(s), d)
<1> DEFINE t == Tail(s)
<1>1. /\ t \in Seq(Message) /\ Len(t) = Len(s) - 1 /\ Len(s) \in Nat \ {0} /\ Head(s) = s[1]
      /\ \A i \in 1..Len(t) : t[i] = s[i + 1]
  OBVIOUS
<1> HIDE DEF t
<1> DEFINE a == Tapped(s, d)
<1>2. /\ \A i \in 0..Len(s) : a[i] \in Int
      /\ a[0] = 0
      /\ \A i \in 1..Len(s) : a[i] = a[i - 1] + TapOf(s[i], d) /\ TapOf(s[i], d) \in Nat
  BY TappedIs
<1> DEFINE b == Tapped(t, d)
<1>3. /\ \A i \in 0..Len(t) : b[i] \in Int
      /\ b[0] = 0
      /\ \A i \in 1..Len(t) : b[i] = b[i - 1] + TapOf(t[i], d) /\ TapOf(t[i], d) \in Nat
  BY <1>1, TappedIs
<1> HIDE DEF a, b
<1> DEFINE c == [i \in 0..Len(t) |-> a[i + 1]]
<1>4. \A i \in 0..Len(t) : c[i] = a[i + 1] /\ c[i] \in Int /\ b[i] \in Int
  BY <1>1, <1>2, <1>3
<1> HIDE DEF c
<1>5. ASSUME NEW i \in 1..Len(t)
      PROVE  c[i] - c[i - 1] = b[i] - b[i - 1]
  <2>1. i + 1 \in 1..Len(s) /\ (i + 1) - 1 = (i - 1) + 1 /\ i - 1 \in 0..Len(t) /\ i \in 0..Len(t)
    BY <1>1
  <2>2. a[i + 1] = a[(i - 1) + 1] + TapOf(t[i], d)
    BY <1>1, <1>2, <2>1
  <2>3. c[i] = c[i - 1] + TapOf(t[i], d)
    BY <1>4, <2>1, <2>2
  <2>4. b[i] = b[i - 1] + TapOf(t[i], d) /\ TapOf(t[i], d) \in Nat /\ c[i - 1] \in Int /\ b[i - 1] \in Int
    BY <1>3, <1>4, <2>1
  <2> QED
    BY <2>3, <2>4
<1>6. \A i \in 0..Len(t) : c[i] - c[0] = b[i] - b[0]
  <2>1. Len(t) \in Nat
    BY <1>1
  <2>2. \A i \in 0..Len(t) : c[i] \in Int /\ b[i] \in Int
    BY <1>4
  <2> QED
    BY <1>5, <2>1, <2>2, SameSteps
<1>7. c[0] = TapOf(Head(s), d) /\ c[0] \in Int
  <2>1. 0 \in 0..Len(t) /\ 1 \in 1..Len(s) /\ 0 + 1 = 1 /\ 1 - 1 = 0
    BY <1>1
  <2>2. a[1] = a[0] + TapOf(s[1], d) /\ TapOf(s[1], d) \in Nat
    BY <1>2, <2>1
  <2> QED
    BY <1>1, <1>2, <1>4, <2>1, <2>2
<1>8. ASSUME NEW i \in 0..Len(s) - 1
      PROVE  b[i] = a[i + 1] - TapOf(Head(s), d)
  <2>1. i \in 0..Len(t) /\ b[0] = 0 /\ b[i] \in Int
    BY <1>1, <1>3
  <2>2. c[i] - c[0] = b[i] /\ c[i] = a[i + 1] /\ c[i] \in Int
    BY <1>4, <1>6, <2>1
  <2> QED
    BY <1>7, <2>1, <2>2
<1> QED
  BY <1>8 DEF a, b, t

(* Losing a report.                                                          *)
LEMMA TappedOfRemoval ==
  ASSUME NEW s \in Seq(Message), NEW k \in 1..Len(s), NEW d
  PROVE  \A i \in 0..Len(s) - 1 :
           Tapped(RemoveAt(s, k), d)[i] =
             IF i < k THEN Tapped(s, d)[i] ELSE Tapped(s, d)[i + 1] - TapOf(s[k], d)
<1> DEFINE t == RemoveAt(s, k)
<1> HIDE DEF t
<1>1. /\ t \in Seq(Message) /\ Len(t) = Len(s) - 1 /\ Len(s) \in Nat \ {0}
      /\ \A i \in 1..Len(t) : t[i] = IF i < k THEN s[i] ELSE s[i + 1]
  <2>1. /\ t \in Seq(Message) /\ Len(t) = Len(s) - 1
        /\ \A i \in 1..Len(s) - 1 : t[i] = IF i < k THEN s[i] ELSE s[i + 1]
    BY RemoveAtKeepsOrder DEF t
  <2>2. Len(s) \in Nat \ {0}
    OBVIOUS
  <2> QED
    BY <2>1, <2>2
<1> DEFINE a == Tapped(s, d)
<1>2. /\ \A i \in 0..Len(s) : a[i] \in Int
      /\ a[0] = 0
      /\ \A i \in 1..Len(s) : a[i] = a[i - 1] + TapOf(s[i], d) /\ TapOf(s[i], d) \in Nat
  BY TappedIs
<1> DEFINE b == Tapped(t, d)
<1>3. /\ \A i \in 0..Len(t) : b[i] \in Int
      /\ b[0] = 0
      /\ \A i \in 1..Len(t) : b[i] = b[i - 1] + TapOf(t[i], d) /\ TapOf(t[i], d) \in Nat
  BY <1>1, TappedIs
<1> HIDE DEF a, b
<1> DEFINE x == TapOf(s[k], d)
<1>4. x \in Nat /\ a[k] = a[k - 1] + x /\ k - 1 \in 0..Len(s) /\ k \in 0..Len(s)
  BY <1>1, <1>2
<1> HIDE DEF x
<1> DEFINE c == [i \in 0..Len(t) |-> IF i < k THEN a[i] ELSE a[i + 1] - x]
<1>5. ASSUME NEW i \in 0..Len(t)
      PROVE  c[i] = (IF i < k THEN a[i] ELSE a[i + 1] - x) /\ c[i] \in Int /\ b[i] \in Int
  <2>1. i \in 0..Len(s) /\ i + 1 \in 0..Len(s)
    BY <1>1
  <2> QED
    BY <1>2, <1>3, <1>4, <2>1
<1> HIDE DEF c
<1>6. ASSUME NEW i \in 1..Len(t)
      PROVE  c[i] - c[i - 1] = b[i] - b[i - 1]
  <2>1. /\ i \in 0..Len(t) /\ i - 1 \in 0..Len(t) /\ i \in 1..Len(s) /\ i + 1 \in 1..Len(s)
        /\ (i - 1) + 1 = i /\ (i + 1) - 1 = i /\ i - 1 \in 0..Len(s) /\ i \in 0..Len(s)
    BY <1>1
  <2>2. b[i] = b[i - 1] + TapOf(t[i], d) /\ TapOf(t[i], d) \in Nat /\ c[i - 1] \in Int /\ b[i - 1] \in Int
    BY <1>3, <1>5, <2>1
  <2>3. CASE i < k
    <3>1. t[i] = s[i] /\ a[i] = a[i - 1] + TapOf(s[i], d) /\ i - 1 < k
      BY <1>1, <1>2, <2>1, <2>3
    <3>2. c[i] = a[i] /\ c[i - 1] = a[i - 1]
      BY <1>5, <2>1, <2>3, <3>1
    <3> QED
      BY <2>2, <3>1, <3>2
  <2>4. CASE i = k
    <3>1. t[i] = s[i + 1] /\ a[i + 1] = a[i] + TapOf(s[i + 1], d) /\ i - 1 < k /\ ~(i < k)
      BY <1>1, <1>2, <2>1, <2>4
    <3>2. c[i] = a[i + 1] - x /\ c[i - 1] = a[i - 1] /\ a[i] = a[i - 1] + x /\ a[i - 1] \in Int
      BY <1>2, <1>4, <1>5, <2>1, <2>4, <3>1
    <3> QED
      BY <1>4, <2>2, <3>1, <3>2
  <2>5. CASE i > k
    <3>1. t[i] = s[i + 1] /\ a[i + 1] = a[i] + TapOf(s[i + 1], d) /\ ~(i - 1 < k) /\ ~(i < k)
      <4>1. ~(i - 1 < k) /\ ~(i < k)
        BY <2>5
      <4>2. t[i] = s[i + 1]
        BY <1>1, <4>1
      <4>3. a[i + 1] = a[(i + 1) - 1] + TapOf(s[i + 1], d)
        BY <1>2, <2>1
      <4> QED
        BY <2>1, <4>1, <4>2, <4>3
    <3>2. c[i] = a[i + 1] - x /\ c[i - 1] = a[i] - x /\ a[i] \in Int
      BY <1>2, <1>5, <2>1, <3>1
    <3>3. c[i] = (a[i] + TapOf(t[i], d)) - x
      BY <3>1, <3>2
    <3>4. c[i] = c[i - 1] + TapOf(t[i], d)
      BY <1>4, <2>2, <3>2, <3>3
    <3> QED
      BY <2>2, <3>4
  <2>6. i < k \/ i = k \/ i > k
    BY <2>1
  <2> QED
    BY <2>3, <2>4, <2>5, <2>6
<1>7. \A i \in 0..Len(t) : c[i] - c[0] = b[i] - b[0]
  <2>1. StepAlike(Len(t), c, b)
    BY <1>5, <1>6 DEF StepAlike
  <2>2. Len(t) \in Nat
    BY <1>1
  <2>3. GrowAlike(Len(t), c, b)
    BY <2>1, <2>2, AlikeSteps
  <2> QED
    BY <2>3 DEF GrowAlike
<1>8. c[0] = 0
  BY <1>1, <1>2, <1>5
<1>9. ASSUME NEW i \in 0..Len(s) - 1
      PROVE  b[i] = IF i < k THEN a[i] ELSE a[i + 1] - x
  <2>1. i \in 0..Len(t)
    BY <1>1
  <2>2. c[i] = b[i]
    BY <1>3, <1>5, <1>7, <1>8, <2>1
  <2> QED
    BY <1>5, <2>1, <2>2
<1> QED
  BY <1>9 DEF a, b, t, x

-----------------------------------------------------------------------------
(* No detent twice.                                                          *)

(* The reports that tell how many detents were turned when the pad sent them. *)
HasTurned(m) == m.type \in {"RAW_MODE", "GET_KEYS"}

(* What was turned at one answer and is queued behind it was turned by the   *)
(* next answer (or until now: top); what was accounted for (low) and is      *)
(* queued before an answer was turned by that answer.                        *)
Rises(s, d) ==
  \A i, j \in 1..Len(s) :
    i < j /\ HasTurned(s[i]) /\ HasTurned(s[j]) =>
      s[i].turned[d] + Tapped(s, d)[j] - Tapped(s, d)[i] <= s[j].turned[d]
EndsBelow(s, d, top) ==
  \A i \in 1..Len(s) :
    HasTurned(s[i]) => s[i].turned[d] + Tapped(s, d)[Len(s)] - Tapped(s, d)[i] <= top
StartsAbove(s, d, low) ==
  \A i \in 1..Len(s) : HasTurned(s[i]) => low + Tapped(s, d)[i] <= s[i].turned[d]

(* An answer says a number of detents and brings none.                       *)
LEMMA AnswersCount ==
  ASSUME NEW m \in Message, HasTurned(m), NEW d \in Dirs
  PROVE  m.turned[d] \in Int /\ TapOf(m, d) = 0
  BY SessionAssumption DEF HasTurned, Message, EventMsg, SnapshotMsg, TapOf

(* Reading the first report.                                                 *)
LEMMA BoundsOfTail ==
  ASSUME NEW s \in Seq(Message), s # <<>>, NEW d \in Dirs, NEW top \in Int,
         Rises(s, d), EndsBelow(s, d, top)
  PROVE  Rises(Tail(s), d) /\ EndsBelow(Tail(s), d, top)
<1> DEFINE t == Tail(s)
<1> DEFINE x == TapOf(Head(s), d)
<1> DEFINE a == Tapped(s, d)
<1> DEFINE b == Tapped(t, d)
<1>1. /\ t \in Seq(Message) /\ Len(t) = Len(s) - 1 /\ Len(s) \in Nat \ {0} /\ Head(s) = s[1]
      /\ \A i \in 1..Len(t) : t[i] = s[i + 1] /\ t[i] \in Message
  OBVIOUS
<1>2. \A i \in 0..Len(s) : a[i] \in Int
  BY TappedIs
<1>3. x \in Int
  BY <1>1, TapOfIsNat
<1>4. \A i \in 0..Len(t) : b[i] = a[i + 1] - x
  BY <1>1, TappedOfTail
<1> HIDE DEF t, x, a, b
<1>5. ASSUME NEW i \in 1..Len(t), HasTurned(t[i])
      PROVE  /\ i + 1 \in 1..Len(s) /\ HasTurned(s[i + 1]) /\ s[i + 1].turned[d] \in Int
             /\ t[i].turned[d] = s[i + 1].turned[d]
             /\ b[i] = a[i + 1] - x /\ a[i + 1] \in Int
  BY <1>1, <1>2, <1>4, <1>5, AnswersCount
<1>6. ASSUME NEW i \in 1..Len(t), NEW j \in 1..Len(t), i < j, HasTurned(t[i]), HasTurned(t[j])
      PROVE  t[i].turned[d] + b[j] - b[i] <= t[j].turned[d]
  <2>1. s[i + 1].turned[d] + a[j + 1] - a[i + 1] <= s[j + 1].turned[d]
    BY <1>5, <1>6 DEF Rises, a
  <2> QED
    BY <1>3, <1>5, <1>6, <2>1
<1>7. ASSUME NEW i \in 1..Len(t), HasTurned(t[i])
      PROVE  t[i].turned[d] + b[Len(t)] - b[i] <= top
  <2>1. s[i + 1].turned[d] + a[Len(s)] - a[i + 1] <= top
    BY <1>5, <1>7 DEF EndsBelow, a
  <2>2. b[Len(t)] = a[Len(s)] - x /\ a[Len(s)] \in Int
    BY <1>1, <1>2, <1>4
  <2> QED
    BY <1>3, <1>5, <1>7, <2>1, <2>2
<1> QED
  BY <1>6, <1>7 DEF Rises, EndsBelow, t, b

(* What is accounted for after the first report: what an answer says at      *)
(* most, or the detents of any report besides.                               *)
LEMMA StartOfTail ==
  ASSUME NEW s \in Seq(Message), s # <<>>, NEW d \in Dirs, NEW top \in Int,
         NEW low \in Int, NEW next \in Int,
         \/ /\ HasTurned(Head(s)) /\ Rises(s, d) /\ EndsBelow(s, d, top)
            /\ next <= Head(s).turned[d]
         \/ /\ StartsAbove(s, d, low) /\ low + Tapped(s, d)[Len(s)] <= top
            /\ next = low + TapOf(Head(s), d)
  PROVE  StartsAbove(Tail(s), d, next) /\ next + Tapped(Tail(s), d)[Len(Tail(s))] <= top
<1> DEFINE t == Tail(s)
<1> DEFINE x == TapOf(Head(s), d)
<1> DEFINE a == Tapped(s, d)
<1> DEFINE b == Tapped(t, d)
<1>1. /\ t \in Seq(Message) /\ Len(t) = Len(s) - 1 /\ Len(s) \in Nat \ {0}
      /\ Head(s) = s[1] /\ s[1] \in Message
      /\ \A i \in 1..Len(t) : t[i] = s[i + 1] /\ t[i] \in Message
  OBVIOUS
<1>2. \A i \in 0..Len(s) : a[i] \in Int
  BY TappedIs
<1>3. x \in Int
  BY <1>1, TapOfIsNat
<1>4. \A i \in 0..Len(t) : b[i] = a[i + 1] - x
  BY <1>1, TappedOfTail
<1>5. a[1] = x
  <2>1. a[0] = 0 /\ a[1] = a[1 - 1] + TapOf(s[1], d)
    BY <1>1, TappedIs
  <2>2. 1 - 1 = 0
    OBVIOUS
  <2> HIDE DEF a
  <2> QED
    BY <1>1, <1>3, <2>1, <2>2
<1>6. b[Len(t)] = a[Len(s)] - x /\ a[Len(s)] \in Int
  BY <1>1, <1>2, <1>4
<1> HIDE DEF t, x, a, b
<1>7. ASSUME NEW i \in 1..Len(t), HasTurned(t[i])
      PROVE  /\ i + 1 \in 1..Len(s) /\ HasTurned(s[i + 1]) /\ s[i + 1].turned[d] \in Int
             /\ t[i].turned[d] = s[i + 1].turned[d] /\ 1 < i + 1
             /\ b[i] = a[i + 1] - x /\ a[i + 1] \in Int
  BY <1>1, <1>2, <1>4, <1>7, AnswersCount
<1>8. CASE HasTurned(Head(s)) /\ Rises(s, d) /\ EndsBelow(s, d, top) /\ next <= Head(s).turned[d]
  <2>1. 1 \in 1..Len(s) /\ HasTurned(s[1]) /\ s[1].turned[d] \in Int /\ x = 0
    BY <1>1, <1>8, AnswersCount DEF x
  <2>2. ASSUME NEW i \in 1..Len(t), HasTurned(t[i])
        PROVE  next + b[i] <= t[i].turned[d]
    <3>1. s[1].turned[d] + a[i + 1] - a[1] <= s[i + 1].turned[d]
      BY <1>7, <1>8, <2>1, <2>2 DEF Rises, a
    <3> QED
      BY <1>1, <1>5, <1>7, <1>8, <2>1, <2>2, <3>1
  <2>3. next + b[Len(t)] <= top
    <3>1. s[1].turned[d] + a[Len(s)] - a[1] <= top
      BY <1>8, <2>1 DEF EndsBelow, a
    <3> QED
      BY <1>1, <1>5, <1>6, <1>8, <2>1, <3>1
  <2> QED
    BY <2>2, <2>3 DEF StartsAbove, t, b
<1>9. CASE StartsAbove(s, d, low) /\ low + a[Len(s)] <= top /\ next = low + x
  <2>1. ASSUME NEW i \in 1..Len(t), HasTurned(t[i])
        PROVE  next + b[i] <= t[i].turned[d]
    <3>1. low + a[i + 1] <= s[i + 1].turned[d]
      BY <1>7, <1>9, <2>1 DEF StartsAbove, a
    <3> QED
      BY <1>3, <1>7, <1>9, <2>1, <3>1
  <2>2. next + b[Len(t)] <= top
    BY <1>3, <1>6, <1>9
  <2> QED
    BY <2>1, <2>2 DEF StartsAbove, t, b
<1> QED
  BY <1>8, <1>9 DEF a, x

(* Losing a report.                                                          *)
LEMMA BoundsOfRemoval ==
  ASSUME NEW s \in Seq(Message), NEW k \in 1..Len(s), NEW d \in Dirs, NEW top \in Int,
         NEW low \in Int
  PROVE  LET t == RemoveAt(s, k) IN
         /\ Rises(s, d) => Rises(t, d)
         /\ EndsBelow(s, d, top) => EndsBelow(t, d, top)
         /\ StartsAbove(s, d, low) => StartsAbove(t, d, low)
         /\ low + Tapped(s, d)[Len(s)] <= top => low + Tapped(t, d)[Len(t)] <= top
<1> DEFINE t == RemoveAt(s, k)
<1> DEFINE x == TapOf(s[k], d)
<1> DEFINE a == Tapped(s, d)
<1> DEFINE b == Tapped(t, d)
<1> DEFINE from(i) == IF i < k THEN i ELSE i + 1
<1>1. /\ t \in Seq(Message) /\ Len(t) = Len(s) - 1 /\ Len(s) \in Nat \ {0}
      /\ \A i \in 1..Len(t) : t[i] = (IF i < k THEN s[i] ELSE s[i + 1]) /\ t[i] \in Message
  BY RemoveAtKeepsOrder, ElementOfSeq
<1>2. \A i \in 0..Len(s) : a[i] \in Int
  BY TappedIs
<1>3. x \in Nat /\ (HasTurned(s[k]) => x = 0)
  BY TapOfIsNat, AnswersCount, ElementOfSeq
<1>4. \A i \in 0..Len(s) - 1 : b[i] = IF i < k THEN a[i] ELSE a[i + 1] - x
  BY TappedOfRemoval
<1>5. a[k] = a[k - 1] + x
  BY TappedIs
<1> HIDE DEF t, x, a, b
<1>6. ASSUME NEW i \in 1..Len(t), HasTurned(t[i])
      PROVE  /\ from(i) \in 1..Len(s) /\ HasTurned(s[from(i)]) /\ s[from(i)].turned[d] \in Int
             /\ t[i].turned[d] = s[from(i)].turned[d]
             /\ b[i] = (IF i < k THEN a[from(i)] ELSE a[from(i)] - x) /\ a[from(i)] \in Int
  <2>1. /\ t[i].turned[d] \in Int /\ from(i) \in 1..Len(s) /\ t[i] = s[from(i)]
        /\ i \in 0..Len(s) - 1 /\ from(i) \in 0..Len(s)
    BY <1>1, <1>6, AnswersCount
  <2> QED
    BY <1>2, <1>4, <1>6, <2>1
<1>7. b[Len(t)] = a[Len(s)] - x /\ a[Len(s)] \in Int
  <2>1. CASE Len(t) < k
    <3>1. Len(t) = k - 1 /\ k = Len(s) /\ Len(t) \in 0..Len(s) - 1 /\ k - 1 \in 0..Len(s) /\ k \in 0..Len(s)
      BY <1>1, <2>1
    <3> QED
      BY <1>2, <1>3, <1>4, <1>5, <2>1, <3>1
  <2>2. CASE ~(Len(t) < k)
    <3>1. Len(t) + 1 = Len(s) /\ Len(t) \in 0..Len(s) - 1 /\ Len(s) \in 0..Len(s)
      BY <1>1
    <3> QED
      BY <1>2, <1>4, <2>2, <3>1
  <2> QED
    BY <2>1, <2>2
<1>8. ASSUME Rises(s, d), NEW i \in 1..Len(t), NEW j \in 1..Len(t), i < j,
             HasTurned(t[i]), HasTurned(t[j])
      PROVE  t[i].turned[d] + b[j] - b[i] <= t[j].turned[d]
  <2>1. from(i) < from(j)
    BY <1>8
  <2>2. s[from(i)].turned[d] + a[from(j)] - a[from(i)] <= s[from(j)].turned[d]
    BY <1>6, <1>8, <2>1 DEF Rises, a
  <2> DEFINE p == s[from(i)].turned[d]
  <2> DEFINE q == s[from(j)].turned[d]
  <2> DEFINE ai == a[from(i)]
  <2> DEFINE aj == a[from(j)]
  <2>3. p \in Int /\ ai \in Int /\ t[i].turned[d] = p /\ b[i] = IF i < k THEN ai ELSE ai - x
    BY <1>6, <1>8
  <2>4. q \in Int /\ aj \in Int /\ t[j].turned[d] = q /\ b[j] = IF j < k THEN aj ELSE aj - x
    BY <1>6, <1>8
  <2>5. p + aj - ai <= q
    BY <2>2
  <2> HIDE DEF p, q, ai, aj
  <2>6. p + b[j] - b[i] <= q
    BY <1>3, <1>8, <2>3, <2>4, <2>5
  <2> QED
    BY <2>3, <2>4, <2>6
<1>9. ASSUME EndsBelow(s, d, top), NEW i \in 1..Len(t), HasTurned(t[i])
      PROVE  t[i].turned[d] + b[Len(t)] - b[i] <= top
  <2>1. s[from(i)].turned[d] + a[Len(s)] - a[from(i)] <= top
    BY <1>6, <1>9 DEF EndsBelow, a
  <2> DEFINE p == s[from(i)].turned[d]
  <2> DEFINE ai == a[from(i)]
  <2> DEFINE an == a[Len(s)]
  <2>2. p \in Int /\ ai \in Int /\ t[i].turned[d] = p /\ (b[i] = ai \/ b[i] = ai - x)
    BY <1>6, <1>9
  <2>3. b[Len(t)] = an - x /\ an \in Int /\ p + an - ai <= top
    BY <1>7, <2>1
  <2> HIDE DEF p, ai, an
  <2>4. p + b[Len(t)] - b[i] <= top
    BY <1>3, <2>2, <2>3
  <2> QED
    BY <2>2, <2>4
<1>10. ASSUME StartsAbove(s, d, low), NEW i \in 1..Len(t), HasTurned(t[i])
      PROVE  low + b[i] <= t[i].turned[d]
  <2>1. low + a[from(i)] <= s[from(i)].turned[d]
    BY <1>6, <1>10 DEF StartsAbove, a
  <2> QED
    BY <1>3, <1>6, <1>10, <2>1
<1>11. low + a[Len(s)] <= top => low + b[Len(t)] <= top
  BY <1>3, <1>7
<1> QED
  BY <1>8, <1>9, <1>10, <1>11 DEF Rises, EndsBelow, StartsAbove, t, a, b

(* A bound moves with what is added on both sides of it.                     *)
LEMMA Shift ==
  ASSUME NEW p \in Int, NEW x \in Int, NEW q \in Int, NEW y \in Int, NEW n \in Int,
         p + x - q <= y
  PROVE  p + (x + n) - q <= y + n
  OBVIOUS

(* What comes and what is taken at the same place leave the level as it is.  *)
LEMMA SameLevel ==
  ASSUME NEW y \in Int, NEW x \in Int, NEW k \in Int, NEW n \in Int
  PROVE  (y + k) + (x + n) - (x + k) = y + n
  OBVIOUS

(* Reports put behind the queue: taps raise what is turned by what they      *)
(* bring, an answer says what is turned when it is sent.                     *)
LEMMA BoundsOfConcat ==
  ASSUME NEW s \in Seq(Message), NEW t \in Seq(Message), NEW d \in Dirs,
         NEW top \in Int, NEW next \in Int, NEW low \in Int,
         \A j \in 1..Len(t) : HasTurned(t[j]) => t[j].turned[d] = top + Tapped(t, d)[j],
         next = top + Tapped(t, d)[Len(t)],
         Rises(s, d), EndsBelow(s, d, top)
  PROVE  /\ Rises(s \o t, d) /\ EndsBelow(s \o t, d, next)
         /\ StartsAbove(s, d, low) /\ low + Tapped(s, d)[Len(s)] <= top =>
              /\ StartsAbove(s \o t, d, low)
              /\ low + Tapped(s \o t, d)[Len(s \o t)] <= next
<1> DEFINE r == s \o t
<1> DEFINE a == Tapped(s, d)
<1> DEFINE b == Tapped(t, d)
<1> DEFINE c == Tapped(r, d)
<1> DEFINE n == Len(s)
<1>1. /\ r \in Seq(Message) /\ Len(r) = n + Len(t) /\ n \in Nat /\ Len(t) \in Nat
      /\ \A i \in 1..n : r[i] = s[i] /\ s[i] \in Message
      /\ \A i \in 1..Len(t) : r[n + i] = t[i] /\ t[i] \in Message
  OBVIOUS
<1>2. /\ \A i \in 0..n : c[i] = a[i] /\ a[i] \in Int
      /\ \A i \in 0..Len(t) : c[n + i] = a[n] + b[i] /\ b[i] \in Int
  BY TappedOfConcat, TappedIs
<1>3. \A i \in 1..Len(t) : HasTurned(t[i]) => t[i].turned[d] = top + b[i]
  OBVIOUS
<1>4. next = top + b[Len(t)]
  OBVIOUS
<1> HIDE DEF r, a, b, c
<1> DEFINE said(i) == r[i].turned[d]
<1> DEFINE last == a[n]
<1>5. ASSUME NEW i \in 1..n, HasTurned(r[i])
      PROVE  /\ r[i] = s[i] /\ HasTurned(s[i]) /\ said(i) = s[i].turned[d]
             /\ c[i] = a[i] /\ a[i] \in Int /\ said(i) \in Int
  <2>1. i \in 0..n
    BY <1>1
  <2>2. r[i] = s[i] /\ s[i] \in Message /\ c[i] = a[i] /\ a[i] \in Int
  BY <1>1, <1>2, <2>1
  <2> QED
    BY <1>5, <2>2, AnswersCount
<1>6. ASSUME NEW i \in 1..Len(r), i \notin 1..n, HasTurned(r[i])
      PROVE  \E x \in Int : said(i) = top + x /\ c[i] = last + x
  <2> DEFINE k == i - n
  <2>1. k \in 1..Len(t) /\ k \in 0..Len(t) /\ i = n + k
    BY <1>1, <1>6
  <2> HIDE DEF k
  <2>2. r[i] = t[k] /\ c[i] = a[n] + b[k] /\ b[k] \in Int
    BY <1>1, <1>2, <2>1
  <2> QED
    BY <1>3, <1>6, <2>1, <2>2
<1>7. last \in Int /\ b[Len(t)] \in Int /\ c[Len(r)] = last + b[Len(t)]
  <2>1. n \in 0..n /\ Len(t) \in 0..Len(t)
    BY <1>1
  <2> QED
    BY <1>1, <1>2, <2>1
<1>8. ASSUME NEW i \in 1..n, HasTurned(r[i])
      PROVE  said(i) + last - a[i] <= top
  BY <1>5, <1>8 DEF EndsBelow, a
<1>9. ASSUME NEW i \in 1..n, NEW j \in 1..n, i < j, HasTurned(r[i]), HasTurned(r[j])
      PROVE  said(i) + a[j] - a[i] <= said(j)
  BY <1>5, <1>9 DEF Rises, a
<1> HIDE DEF said, last
<1>10. ASSUME NEW i \in 1..Len(r), NEW j \in 1..Len(r), i < j,
              HasTurned(r[i]), HasTurned(r[j])
       PROVE  said(i) + c[j] - c[i] <= said(j)
  <2>1. CASE i \in 1..n /\ j \in 1..n
    <3>1. c[i] = a[i] /\ c[j] = a[j]
      BY <1>5, <1>10, <2>1
    <3> QED
      BY <1>9, <1>10, <2>1, <3>1
  <2>2. CASE i \in 1..n /\ j \notin 1..n
    <3>1. c[i] = a[i] /\ a[i] \in Int /\ said(i) \in Int /\ said(i) + last - a[i] <= top
      BY <1>5, <1>8, <1>10, <2>2
    <3>2. PICK x \in Int : said(j) = top + x /\ c[j] = last + x
      BY <1>6, <1>10, <2>2
    <3>3. said(i) + (last + x) - a[i] <= top + x
      BY <1>7, <3>1, <3>2, Shift
    <3> QED
      BY <3>1, <3>2, <3>3
  <2>3. CASE i \notin 1..n /\ j \notin 1..n
    <3>1. PICK x \in Int : said(i) = top + x /\ c[i] = last + x
      BY <1>6, <1>10, <2>3
    <3>2. PICK y \in Int : said(j) = top + y /\ c[j] = last + y
      BY <1>6, <1>10, <2>3
    <3>3. (top + x) + (last + y) - (last + x) = top + y
      BY <1>7, <3>1, <3>2, SameLevel
    <3>4. said(i) + c[j] - c[i] = said(j) /\ said(j) \in Int
      BY <3>1, <3>2, <3>3
    <3> QED
      BY <3>4
  <2>4. ~(i \notin 1..n /\ j \in 1..n)
    BY <1>1, <1>10
  <2> QED
    BY <2>1, <2>2, <2>3, <2>4
<1>11. ASSUME NEW i \in 1..Len(r), HasTurned(r[i])
       PROVE  said(i) + c[Len(r)] - c[i] <= next
  <2>1. CASE i \in 1..n
    <3>1. c[i] = a[i] /\ a[i] \in Int /\ said(i) \in Int /\ said(i) + last - a[i] <= top
      BY <1>5, <1>8, <1>11, <2>1
    <3>2. said(i) + (last + b[Len(t)]) - a[i] <= top + b[Len(t)]
      BY <1>7, <3>1, Shift
    <3> QED
      BY <1>4, <1>7, <3>1, <3>2
  <2>2. CASE i \notin 1..n
    <3>1. PICK x \in Int : said(i) = top + x /\ c[i] = last + x
      BY <1>6, <1>11, <2>2
    <3>2. (top + x) + (last + b[Len(t)]) - (last + x) = top + b[Len(t)]
      BY <1>7, <3>1, SameLevel
    <3>3. said(i) + c[Len(r)] - c[i] = next /\ next \in Int
      BY <1>4, <1>7, <3>1, <3>2
    <3> QED
      BY <3>3
  <2> QED
    BY <2>1, <2>2
<1>12. ASSUME StartsAbove(s, d, low), low + last <= top, NEW i \in 1..Len(r), HasTurned(r[i])
       PROVE  low + c[i] <= said(i)
  <2>1. CASE i \in 1..n
    <3>1. HasTurned(s[i]) /\ c[i] = a[i] /\ said(i) = s[i].turned[d]
      BY <1>5, <1>12, <2>1
    <3> QED
      BY <1>12, <2>1, <3>1 DEF StartsAbove, a
  <2>2. CASE i \notin 1..n
    <3>1. PICK x \in Int : said(i) = top + x /\ c[i] = last + x
      BY <1>6, <1>12, <2>2
    <3> QED
      BY <1>7, <1>12, <3>1
  <2> QED
    BY <2>1, <2>2
<1>13. low + last <= top => low + c[Len(r)] <= next
  BY <1>4, <1>7
<1>14. Rises(r, d)
  BY <1>10 DEF Rises, said, c
<1>15. EndsBelow(r, d, next)
  BY <1>11 DEF EndsBelow, said, c
<1>16. StartsAbove(s, d, low) /\ low + last <= top =>
         StartsAbove(r, d, low) /\ low + c[Len(r)] <= next
  BY <1>12, <1>13 DEF StartsAbove, said, c
<1> QED
  BY <1>14, <1>15, <1>16 DEF r, a, c, last

(* Reports that neither bring detents nor say how many were turned.          *)
LEMMA TappedOfQuiet ==
  ASSUME NEW t \in Seq(Message), NEW d, \A i \in 1..Len(t) : TapOf(t[i], d) = 0
  PROVE  \A i \in 0..Len(t) : Tapped(t, d)[i] = 0
<1> DEFINE n == Len(t)
<1> DEFINE b == Tapped(t, d)
<1>1. n \in Nat
  OBVIOUS
<1>2. /\ \A i \in 0..n : b[i] \in Int
      /\ b[0] = 0
      /\ \A i \in 1..n : b[i] = b[i - 1] + TapOf(t[i], d)
  BY TappedIs
<1>3. \A i \in 1..n : TapOf(t[i], d) = 0
  OBVIOUS
<1> DEFINE c == [i \in 0..n |-> 0]
<1> HIDE DEF b, n
<1>4. \A i \in 0..n : b[i] - b[0] = c[i] - c[0]
  <2>1. \A i \in 0..n : b[i] \in Int /\ c[i] \in Int
    BY <1>2
  <2>2. \A i \in 1..n : b[i] - b[i - 1] = c[i] - c[i - 1]
    BY <1>1, <1>2, <1>3
  <2> HIDE DEF c
  <2> QED
    BY <1>1, <2>1, <2>2, SameSteps
<1>5. \A i \in 0..n : b[i] = 0
  BY <1>1, <1>2, <1>4
<1> QED
  BY <1>5 DEF b, n

(* One report.                                                               *)
LEMMA TappedOfOne ==
  ASSUME NEW m \in Message, NEW d
  PROVE  /\ <<m>> \in Seq(Message) /\ Len(<<m>>) = 1 /\ <<m>>[1] = m
         /\ Tapped(<<m>>, d)[1] = TapOf(m, d)
<1> DEFINE t == <<m>>
<1>1. t \in Seq(Message) /\ Len(t) = 1 /\ t[1] = m
  OBVIOUS
<1> HIDE DEF t
<1>2. /\ Tapped(t, d)[0] = 0
      /\ \A i \in 1..Len(t) : /\ TapOf(t[i], d) \in Nat
                              /\ Tapped(t, d)[i] = Tapped(t, d)[i - 1] + TapOf(t[i], d)
  BY <1>1, TappedIs
<1>3. 1 \in 1..Len(t) /\ 1 - 1 = 0
  BY <1>1
<1>4. Tapped(t, d)[1] = 0 + TapOf(m, d) /\ TapOf(m, d) \in Nat
  BY <1>1, <1>2, <1>3
<1>5. Tapped(t, d)[1] = TapOf(m, d)
  BY <1>4
<1> QED
  BY <1>1, <1>5 DEF t

Following == dEpoch # NoEpoch

(* The queue never brings the daemon past what was turned.                   *)
QueueIsBounded ==
  \A d \in Dirs :
    /\ Rises(chan, d) /\ EndsBelow(chan, d, turned[d])
    /\ Following =>
         StartsAbove(chan, d, seen[d]) /\ seen[d] + Tapped(chan, d)[Len(chan)] <= turned[d]

(* The wrapped totals and the detents themselves differ by off, the same on  *)
(* the pad, in the queued answers and in the daemon's sum of what it took    *)
(* over (base) and received since (recv).                                    *)
TotalsAgree(off) ==
  \A d \in Dirs :
    /\ linked => total[d] = (turned[d] + off[d]) % CountWrap
    /\ \A i \in 1..Len(chan) :
         HasTurned(chan[i]) => chan[i].total[d] = (chan[i].turned[d] + off[d]) % CountWrap
    /\ Following => (base[d] + recv[d]) % CountWrap = (seen[d] + off[d]) % CountWrap

Offsets == [Dirs -> 0..CountWrap - 1]
NoSessionYet == dstate # "running" => ~Following

(* Why no detent reaches the engine twice.                                   *)
DetentsAccounted ==
  NoSessionYet /\ QueueIsBounded /\ \E off \in Offsets : TotalsAgree(off)

(* A closed file has nothing queued and follows nothing.                     *)
LEMMA CloseKeepsAccount ==
  ASSUME CloseDevice \/ (Crash /\ Forget), NEW off \in Offsets
  PROVE  NoSessionYet' /\ QueueIsBounded' /\ TotalsAgree(off)'
<1>1. ~linked' /\ chan' = <<>> /\ dEpoch' = NoEpoch
  BY DEF CloseDevice, Forget
<1>2. Len(<<>>) = 0
  OBVIOUS
<1> QED
  BY <1>1, <1>2
  DEF NoSessionYet, QueueIsBounded, TotalsAgree, Following, Rises, EndsBelow

(* Reports queued at the end, with what they bring added to what is turned.  *)
LEMMA ReportKeepsAccount ==
  ASSUME TypeOK, TypeOK', DetentsAccounted, NEW msgs \in Seq(Message), Report(msgs),
         \A d \in Dirs :
           /\ turned'[d] = turned[d] + Tapped(msgs, d)[Len(msgs)] \/ ~linked
           /\ turned[d] <= turned'[d]
           /\ \A j \in 1..Len(msgs) :
                HasTurned(msgs[j]) =>
                  /\ msgs[j].turned[d] = turned[d] /\ Tapped(msgs, d)[j] = 0
                  /\ turned'[d] = turned[d]
                  /\ linked' /\ msgs[j].total[d] = total'[d]
           /\ linked' => linked /\ total'[d] = (total[d] + turned'[d] - turned[d]) % CountWrap,
         UNCHANGED <<dstate, dEpoch, base, recv, seen>>
  PROVE  DetentsAccounted'
<1>1. NoSessionYet'
  BY DEF NoSessionYet, DetentsAccounted, Following
<1>2. CountWrap \in Nat \ {0} /\ chan \in Seq(Message) /\ Len(chan) \in Nat
  BY ModAssumption DEF TypeOK
<1>3. ASSUME NEW d \in Dirs
      PROVE  turned[d] \in Int /\ turned'[d] \in Int /\ seen[d] \in Int /\ total[d] \in Int
  BY SessionAssumption, ModAssumption DEF TypeOK, PadTypeOK
<1>4. QueueIsBounded'
  <2> SUFFICES ASSUME NEW d \in Dirs
               PROVE  /\ Rises(chan', d) /\ EndsBelow(chan', d, turned'[d])
                      /\ Following => /\ StartsAbove(chan', d, seen[d])
                                      /\ seen[d] + Tapped(chan', d)[Len(chan')] <= turned'[d]
    BY DEF QueueIsBounded, Following
  <2>1. /\ Rises(chan, d) /\ EndsBelow(chan, d, turned[d])
        /\ Following => /\ StartsAbove(chan, d, seen[d])
                        /\ seen[d] + Tapped(chan, d)[Len(chan)] <= turned[d]
    BY DEF DetentsAccounted, QueueIsBounded
  <2>2. CASE linked
    <3>1. chan' = chan \o msgs
      BY <2>2 DEF Report
    <3>2. turned'[d] = turned[d] + Tapped(msgs, d)[Len(msgs)]
      BY <2>2
    <3>3. \A j \in 1..Len(msgs) :
            HasTurned(msgs[j]) => msgs[j].turned[d] = turned[d] + Tapped(msgs, d)[j]
      BY <1>3
    <3>4. /\ Rises(chan \o msgs, d) /\ EndsBelow(chan \o msgs, d, turned'[d])
          /\ StartsAbove(chan, d, seen[d]) /\ seen[d] + Tapped(chan, d)[Len(chan)] <= turned[d] =>
               /\ StartsAbove(chan \o msgs, d, seen[d])
               /\ seen[d] + Tapped(chan \o msgs, d)[Len(chan \o msgs)] <= turned'[d]
      BY <1>2, <1>3, <2>1, <3>2, <3>3, BoundsOfConcat
    <3> QED
      BY <2>1, <3>1, <3>4
  <2>3. CASE ~linked
    <3>1. chan' = chan /\ turned[d] <= turned'[d]
      BY <2>3 DEF Report
    <3>2. Tapped(chan, d)[Len(chan)] \in Int
      BY <1>2, TappedIs
    <3>3. ASSUME NEW i \in 1..Len(chan), HasTurned(chan[i])
          PROVE  chan[i].turned[d] \in Int /\ Tapped(chan, d)[i] \in Int
      BY <1>2, <3>3, TappedIs, AnswersCount, ElementOfSeq
    <3>4. EndsBelow(chan, d, turned'[d])
      BY <1>3, <2>1, <3>1, <3>2, <3>3 DEF EndsBelow
    <3>5. Following => seen[d] + Tapped(chan, d)[Len(chan)] <= turned'[d]
      BY <1>3, <2>1, <3>1, <3>2
    <3> QED
      BY <2>1, <3>1, <3>4, <3>5
  <2> QED
    BY <2>2, <2>3
<1>5. PICK off \in Offsets : TotalsAgree(off)
  BY DEF DetentsAccounted
<1>6. TotalsAgree(off)'
  <2> SUFFICES ASSUME NEW d \in Dirs
               PROVE  /\ linked' => total'[d] = (turned'[d] + off[d]) % CountWrap
                      /\ \A i \in 1..Len(chan') : HasTurned(chan'[i]) =>
                           chan'[i].total[d] = (chan'[i].turned[d] + off[d]) % CountWrap
                      /\ Following =>
                           (base[d] + recv[d]) % CountWrap = (seen[d] + off[d]) % CountWrap
    BY DEF TotalsAgree, Following
  <2>1. /\ linked => total[d] = (turned[d] + off[d]) % CountWrap
        /\ \A i \in 1..Len(chan) :
             HasTurned(chan[i]) => chan[i].total[d] = (chan[i].turned[d] + off[d]) % CountWrap
        /\ Following => (base[d] + recv[d]) % CountWrap = (seen[d] + off[d]) % CountWrap
    BY <1>5 DEF TotalsAgree
  <2>2. off[d] \in Int
    BY ModAssumption DEF Offsets
  <2>3. ASSUME linked' PROVE total'[d] = (turned'[d] + off[d]) % CountWrap
    <3> DEFINE n == turned'[d] - turned[d]
    <3> DEFINE x == turned[d] + off[d]
    <3>1. n \in Int /\ x \in Int /\ total[d] + n = total[d] + turned'[d] - turned[d]
          /\ x + n = turned'[d] + off[d]
      BY <1>3, <2>2
    <3>2. total[d] = x % CountWrap
      BY <2>1, <2>3
    <3>3. total'[d] = (total[d] + n) % CountWrap
      BY <2>3
    <3> HIDE DEF n, x
    <3>4. ((x % CountWrap) + n) % CountWrap = (x + n) % CountWrap
      BY <1>2, <3>1, ModAdd
    <3> QED
      BY <3>1, <3>2, <3>3, <3>4
  <2>4. ASSUME NEW i \in 1..Len(chan'), HasTurned(chan'[i])
        PROVE  chan'[i].total[d] = (chan'[i].turned[d] + off[d]) % CountWrap
    <3>1. CASE ~linked
      BY <2>1, <2>4, <3>1 DEF Report
    <3>2. CASE linked /\ i \in 1..Len(chan)
      <4>1. chan'[i] = chan[i]
        BY <1>2, <3>2, ConcatProperties DEF Report
      <4> QED
        BY <2>1, <2>4, <3>2, <4>1
    <3>3. CASE linked /\ i \notin 1..Len(chan)
      <4> DEFINE j == i - Len(chan)
      <4>1. j \in 1..Len(msgs) /\ chan'[i] = msgs[j]
        BY <1>2, <3>3, ConcatProperties DEF Report
      <4> HIDE DEF j
      <4>2. linked' /\ msgs[j].turned[d] = turned'[d] /\ msgs[j].total[d] = total'[d]
        BY <2>4, <4>1
      <4> QED
        BY <2>3, <3>3, <4>1, <4>2
    <3> QED
      BY <3>1, <3>2, <3>3
  <2> QED
    BY <2>1, <2>3, <2>4
<1> QED
  BY <1>1, <1>4, <1>5, <1>6 DEF DetentsAccounted

(* What one report adds to the account.                                      *)
LEMMA OneReportKeepsAccount ==
  ASSUME TypeOK, TypeOK', DetentsAccounted, NEW m \in Message, Report(<<m>>),
         \A d \in Dirs :
           /\ turned'[d] = turned[d] + TapOf(m, d) \/ (turned'[d] >= turned[d] /\ ~linked)
           /\ HasTurned(m) => /\ m.turned[d] = turned[d] /\ turned'[d] = turned[d]
                              /\ linked' /\ m.total[d] = total'[d]
           /\ linked' => linked /\ total'[d] = (total[d] + turned'[d] - turned[d]) % CountWrap,
         UNCHANGED <<dstate, dEpoch, base, recv, seen>>
  PROVE  DetentsAccounted'
<1> DEFINE msgs == <<m>>
<1>1. msgs \in Seq(Message) /\ Len(msgs) = 1 /\ \A j \in 1..Len(msgs) : j = 1 /\ msgs[j] = m
  OBVIOUS
<1>2. \A d \in Dirs : Tapped(msgs, d)[1] = TapOf(m, d) /\ TapOf(m, d) \in Nat
  BY TappedOfOne, TapOfIsNat
<1>3. Report(msgs)
  OBVIOUS
<1> HIDE DEF msgs
<1>4. ASSUME NEW d \in Dirs
      PROVE  /\ turned'[d] = turned[d] + Tapped(msgs, d)[Len(msgs)] \/ ~linked
             /\ turned[d] <= turned'[d]
             /\ \A j \in 1..Len(msgs) :
                  HasTurned(msgs[j]) =>
                    /\ msgs[j].turned[d] = turned[d] /\ Tapped(msgs, d)[j] = 0
                    /\ turned'[d] = turned[d]
                    /\ linked' /\ msgs[j].total[d] = total'[d]
  <2>1. turned[d] \in Int /\ turned'[d] \in Int
    BY SessionAssumption DEF TypeOK
  <2>2. turned[d] <= turned'[d]
    BY <1>2, <2>1
  <2>3. HasTurned(m) => TapOf(m, d) = 0
    BY AnswersCount
  <2> QED
    BY <1>1, <1>2, <2>2, <2>3
<1> QED
  BY <1>1, <1>3, <1>4, ReportKeepsAccount

(* What a counter of the session is, one fact at a time.                     *)
LEMMA CountTypes ==
  ASSUME TypeOK, NEW d \in Dirs
  PROVE  /\ CountWrap \in Nat \ {0}
         /\ total[d] \in 0..CountWrap - 1 /\ base[d] \in 0..CountWrap - 1
         /\ recv[d] \in 0..CountWrap - 1
         /\ turned[d] \in Nat /\ seen[d] \in Nat
<1>1. CountWrap \in Nat \ {0}
  BY ModAssumption
<1>2. total \in [Dirs -> 0..CountWrap - 1]
  BY DEF TypeOK, PadTypeOK
<1>3. base \in [Dirs -> 0..CountWrap - 1] /\ recv \in [Dirs -> 0..CountWrap - 1]
  BY DEF TypeOK
<1>4. turned \in [Dirs -> 0..MaxTurned] /\ seen \in [Dirs -> Nat]
  BY DEF TypeOK
<1>5. turned[d] \in 0..MaxTurned /\ MaxTurned \in Nat
  BY <1>4, SessionAssumption
<1>6. turned[d] \in Nat
  BY <1>5
<1> QED
  BY <1>1, <1>2, <1>3, <1>4, <1>6

(* And what the counters of a snapshot are.                                  *)
LEMMA SnapshotTypes ==
  ASSUME NEW m \in SnapshotMsg, NEW d \in Dirs
  PROVE  m.total[d] \in 0..CountWrap - 1 /\ m.turned[d] \in Nat
<1>1. m.total \in [Dirs -> 0..CountWrap - 1] /\ m.turned \in [Dirs -> 0..MaxTurned]
  BY DEF SnapshotMsg
<1>2. m.turned[d] \in 0..MaxTurned /\ MaxTurned \in Nat
  BY <1>1, SessionAssumption
<1>3. m.turned[d] \in Nat
  BY <1>2
<1> QED
  BY <1>1, <1>3

(* A total that nothing is added to.                                         *)
LEMMA TotalStays ==
  ASSUME TypeOK, NEW d \in Dirs, total'[d] = total[d], turned'[d] = turned[d]
  PROVE  total'[d] = (total[d] + turned'[d] - turned[d]) % CountWrap
<1>1. turned[d] \in Nat /\ total[d] \in 0..CountWrap - 1 /\ CountWrap \in Nat \ {0}
  BY CountTypes
<1>2. total[d] + turned'[d] - turned[d] = total[d]
  BY <1>1
<1> QED
  BY <1>1, <1>2, ModSmall

(* The pad's own steps: its events, its taps and its answers.                *)
LEMMA PadKeepsAccount ==
  ASSUME TypeOK, TypeOK', DetentsAccounted,
         \/ \E g \in GpioLevels, t \in TmKeys \cup {NoKey} : PadKeys(g, t)
         \/ \E d \in Dirs, n \in 1..MaxTake : PadTurn(d, n)
         \/ PadAnswer
  PROVE  DetentsAccounted'
<1>1. ASSUME NEW g \in GpioLevels, NEW t \in TmKeys \cup {NoKey}, PadKeys(g, t)
      PROVE  DetentsAccounted'
  <2> DEFINE sent == RawKeyEvents(g, t)
  <2> DEFINE msgs == [i \in 1..Len(sent) |->
               [type |-> "EVENT", seq |-> (seq + i) % SeqWrap,
                kind |-> sent[i].kind, slot |-> sent[i].slot]]
  <2>1. msgs \in Seq(Message) /\ Report(msgs)
    BY <1>1, EventsTyped DEF PadKeys
  <2>2. Len(msgs) = Len(sent) /\ Len(sent) \in Nat
    BY SentAreKeys DEF TypeOK
  <2>3. \A i \in 1..Len(msgs) : msgs[i].type = "EVENT"
    BY <2>2
  <2> HIDE DEF msgs, sent
  <2>4. ASSUME NEW d \in Dirs
        PROVE  /\ \A i \in 1..Len(msgs) : TapOf(msgs[i], d) = 0 /\ ~HasTurned(msgs[i])
               /\ Tapped(msgs, d)[Len(msgs)] = 0
    <3>1. \A i \in 1..Len(msgs) : TapOf(msgs[i], d) = 0 /\ ~HasTurned(msgs[i])
      BY <2>3 DEF TapOf, HasTurned
    <3>2. Len(msgs) \in 0..Len(msgs)
      BY <2>2
    <3> QED
      BY <2>1, <3>1, <3>2, TappedOfQuiet
  <2>5. UNCHANGED <<linked, total, turned, dstate, dEpoch, base, recv, seen>>
    BY <1>1 DEF PadKeys, ScanKeys, daemonVars, histVars
  <2>6. \A d \in Dirs : turned[d] \in Int
    BY SessionAssumption DEF TypeOK
  <2>7. \A d \in Dirs : total'[d] = (total[d] + turned'[d] - turned[d]) % CountWrap
    BY <2>5, TotalStays
  <2> QED
    BY <2>1, <2>4, <2>5, <2>6, <2>7, ReportKeepsAccount
<1>2. ASSUME NEW d \in Dirs, NEW n \in 1..MaxTake, PadTurn(d, n)
      PROVE  DetentsAccounted'
  <2> DEFINE m == [type |-> "TAP", seq |-> seq', slot |-> d, n |-> n]
  <2>1. m \in Message /\ Report(<<m>>)
    BY <1>2 DEF PadTurn, Message, EventMsg, TypeOK, PadTypeOK
  <2>2. /\ ~HasTurned(m) /\ linked' = linked
        /\ UNCHANGED <<dstate, dEpoch, base, recv, seen>>
    BY <1>2 DEF PadTurn, daemonVars, HasTurned
  <2>3. ASSUME NEW e \in Dirs
        PROVE  /\ turned'[e] = turned[e] + TapOf(m, e)
               /\ total'[e] = (total[e] + turned'[e] - turned[e]) % CountWrap
    <3>1. turned[e] \in Nat /\ n \in Int
      BY CountTypes
    <3>2. turned \in [Dirs -> 0..MaxTurned] /\ total \in [Dirs -> 0..CountWrap - 1]
      BY DEF TypeOK, PadTypeOK
    <3>3. turned' = [turned EXCEPT ![d] = @ + n]
      BY <1>2 DEF PadTurn
    <3>4. total' = [total EXCEPT ![d] = (@ + n) % CountWrap]
      BY <1>2 DEF PadTurn, TurnRaw
    <3>5. CASE e = d
      <4>1. turned'[e] = turned[e] + n /\ TapOf(m, e) = n
        BY <3>2, <3>3, <3>5 DEF TapOf
      <4>2. total'[e] = (total[e] + n) % CountWrap
        BY <3>2, <3>4, <3>5
      <4>3. turned'[e] - turned[e] = n
        BY <3>1, <4>1
      <4> QED
        BY <4>1, <4>2, <4>3
    <3>6. CASE e # d
      <4>1. turned'[e] = turned[e] /\ total'[e] = total[e]
        BY <3>2, <3>3, <3>4, <3>6
      <4>2. TapOf(m, e) = 0
        BY <3>6 DEF TapOf
      <4>3. turned'[e] = turned[e] + 0
        BY <3>1, <4>1
      <4> QED
        BY <4>1, <4>2, <4>3, TotalStays
    <3> QED
      BY <3>5, <3>6
  <2> HIDE DEF m
  <2> QED
    BY <2>1, <2>2, <2>3, OneReportKeepsAccount
<1>3. ASSUME PadAnswer
      PROVE  DetentsAccounted'
  <2>1. UNCHANGED <<linked, total, turned, dstate, dEpoch, base, recv, seen>>
    BY <1>3 DEF PadAnswer, padVars, SetRawOn, SetRawOff, daemonVars
  <2>2. \A d \in Dirs : turned[d] \in Int
    BY SessionAssumption DEF TypeOK
  <2>3. \A d \in Dirs : total'[d] = (total[d] + turned'[d] - turned[d]) % CountWrap
    BY <2>1, TotalStays
  <2>4. PadTypeOK'
    BY DEF TypeOK
  <2>5. ASSUME NEW type \in {"RAW_MODE", "GET_KEYS"}
        PROVE  /\ SnapshotOf(type) \in Message /\ HasTurned(SnapshotOf(type))
               /\ SnapshotOf(type).turned = turned /\ SnapshotOf(type).total = total'
               /\ \A d \in Dirs : TapOf(SnapshotOf(type), d) = 0
    <3>1. SnapshotOf(type) \in Message
      BY <2>4, SnapshotTyped
    <3> QED
      BY <3>1 DEF SnapshotOf, HasTurned, TapOf
  <2>6. CASE Report(<<[type |-> "GET_INFO"]>>)
    <3>1. /\ [type |-> "GET_INFO"] \in Message /\ ~HasTurned([type |-> "GET_INFO"])
          /\ \A d \in Dirs : TapOf([type |-> "GET_INFO"], d) = 0
      BY DEF Message, HasTurned, TapOf
    <3> QED
      BY <2>1, <2>2, <2>3, <2>6, <3>1, OneReportKeepsAccount
  <2>7. ASSUME NEW type \in {"RAW_MODE", "GET_KEYS"}, Report(<<SnapshotOf(type)>>), linked
        PROVE  DetentsAccounted'
    BY <2>1, <2>2, <2>3, <2>5, <2>7, OneReportKeepsAccount
  <2>8. CASE ~linked
    <3>1. chan' = chan
      BY <1>3, <2>8 DEF PadAnswer, Report
    <3> QED
      BY <2>1, <2>8, <3>1
      DEF DetentsAccounted, NoSessionYet, QueueIsBounded, TotalsAgree, Following
  <2> QED
    BY <1>3, <2>6, <2>7, <2>8 DEF PadAnswer
<1> QED
  BY <1>1, <1>2, <1>3

(* Losses, restarts and what the daemon does of itself.                      *)
LEMMA LossKeepsAccount ==
  ASSUME TypeOK, TypeOK', DetentsAccounted, LoseReport \/ LoseRequest \/ Replug \/ Tick
  PROVE  DetentsAccounted'
<1>1. CASE LoseReport
  <2>1. PICK k \in 1..Len(chan) : chan' = RemoveAt(chan, k)
    BY <1>1 DEF LoseReport
  <2>2. UNCHANGED <<linked, total, turned, dstate, dEpoch, base, recv, seen>>
    BY <1>1 DEF LoseReport, padVars, daemonVars
  <2>3. chan \in Seq(Message)
    BY DEF TypeOK
  <2>4. QueueIsBounded'
    <3> SUFFICES ASSUME NEW d \in Dirs
                 PROVE  /\ Rises(chan', d) /\ EndsBelow(chan', d, turned[d])
                        /\ Following => /\ StartsAbove(chan', d, seen[d])
                                        /\ seen[d] + Tapped(chan', d)[Len(chan')] <= turned[d]
      BY <2>2 DEF QueueIsBounded, Following
    <3>1. turned[d] \in Int /\ seen[d] \in Int
      BY SessionAssumption DEF TypeOK
    <3>2. /\ Rises(chan, d) /\ EndsBelow(chan, d, turned[d])
          /\ Following => /\ StartsAbove(chan, d, seen[d])
                          /\ seen[d] + Tapped(chan, d)[Len(chan)] <= turned[d]
      BY DEF DetentsAccounted, QueueIsBounded
    <3> QED
      BY <2>1, <2>3, <3>1, <3>2, BoundsOfRemoval
  <2>5. PICK off \in Offsets : TotalsAgree(off)
    BY DEF DetentsAccounted
  <2>6. /\ Len(chan') = Len(chan) - 1 /\ Len(chan) \in Nat
        /\ \A j \in 1..Len(chan) - 1 : chan'[j] = IF j < k THEN chan[j] ELSE chan[j + 1]
    BY <2>1, <2>3, RemoveAtKeepsOrder
  <2>7. \A j \in 1..Len(chan') : \E i \in 1..Len(chan) : chan'[j] = chan[i]
    BY <2>6
  <2>8. TotalsAgree(off)'
    BY <2>2, <2>5, <2>7 DEF TotalsAgree, Following
  <2> QED
    BY <2>2, <2>4, <2>5, <2>8 DEF DetentsAccounted, NoSessionYet, Following
<1>2. CASE LoseRequest \/ Tick
  <2>1. UNCHANGED <<chan, linked, total, turned, dstate, dEpoch, base, recv, seen>>
    BY <1>2 DEF LoseRequest, Tick, TickRaw, padVars, daemonVars
  <2> QED
    BY <2>1 DEF DetentsAccounted, NoSessionYet, QueueIsBounded, TotalsAgree, Following
<1>3. CASE Replug
  <2>1. ~linked' /\ UNCHANGED <<turned, dstate, dEpoch, base, recv, seen>>
    BY <1>3 DEF Replug, daemonVars
  <2>2. CASE linked
    <3> DEFINE m == [type |-> "GONE"]
    <3>1. m \in Message /\ ~HasTurned(m) /\ \A d \in Dirs : TapOf(m, d) = 0
      BY DEF Message, HasTurned, TapOf
    <3>2. chan' = Append(chan, m) /\ chan \in Seq(Message)
      BY <1>3, <2>2 DEF Replug, TypeOK
    <3> HIDE DEF m
    <3>3. Append(chan, m) = chan \o <<m>>
      BY <3>1, <3>2, AppendIsConcat
    <3>4. Report(<<m>>)
      BY <2>2, <3>2, <3>3 DEF Report
    <3>5. \A d \in Dirs : turned[d] \in Int
      BY SessionAssumption DEF TypeOK
    <3> QED
      BY <2>1, <3>1, <3>4, <3>5, OneReportKeepsAccount
  <2>3. CASE ~linked
    <3>1. chan' = chan
      BY <1>3, <2>3 DEF Replug
    <3> QED
      BY <2>1, <3>1 DEF DetentsAccounted, NoSessionYet, QueueIsBounded, TotalsAgree, Following
  <2> QED
    BY <2>2, <2>3
<1> QED
  BY <1>1, <1>2, <1>3

(* A new file is opened: the offset from now on is the pad's total against   *)
(* what was turned so far, and nothing is followed yet.                      *)
LEMMA StartKeepsAccount ==
  ASSUME TypeOK, DetentsAccounted, Start
  PROVE  DetentsAccounted'
<1>1. CountWrap \in Nat \ {0}
  BY ModAssumption
<1>2. chan' = <<>> /\ UNCHANGED <<total, turned, dEpoch>> /\ dEpoch = NoEpoch /\ Len(<<>>) = 0
  BY DEF Start, padVars, histVars, DetentsAccounted, NoSessionYet, Following
<1>3. ASSUME NEW d \in Dirs
      PROVE  /\ (total[d] - turned[d]) % CountWrap \in 0..CountWrap - 1
             /\ total[d] = (turned[d] + ((total[d] - turned[d]) % CountWrap)) % CountWrap
  <2> DEFINE x == total[d] - turned[d]
  <2> DEFINE o == x % CountWrap
  <2>1. turned[d] \in Int /\ total[d] \in 0..CountWrap - 1 /\ x \in Int /\ x + turned[d] = total[d]
    <3>1. turned[d] \in Nat /\ total[d] \in 0..CountWrap - 1
      BY CountTypes
    <3> QED
      BY <3>1, <1>1
  <2> HIDE DEF x
  <2>2. ((x % CountWrap) + turned[d]) % CountWrap = (x + turned[d]) % CountWrap
    BY <1>1, <2>1, ModAdd
  <2>3. total[d] % CountWrap = total[d]
    BY <1>1, <2>1, ModSmall
  <2>4. o \in 0..CountWrap - 1
    BY <1>1, <2>1, WrapInRange
  <2>5. o + turned[d] = turned[d] + o
    BY <1>1, <2>1, <2>4
  <2> QED
    BY <2>1, <2>2, <2>3, <2>4, <2>5 DEF x
<1>4. PICK off \in Offsets : off = [d \in Dirs |-> (total[d] - turned[d]) % CountWrap]
  BY <1>3 DEF Offsets
<1>5. \A d \in Dirs : total[d] = (turned[d] + off[d]) % CountWrap
  BY <1>3, <1>4
<1>6. TotalsAgree(off)'
  BY <1>2, <1>5 DEF TotalsAgree, Following
<1>7. QueueIsBounded' /\ NoSessionYet'
  BY <1>2 DEF QueueIsBounded, NoSessionYet, Following, Rises, EndsBelow
<1> QED
  BY <1>4, <1>6, <1>7 DEF DetentsAccounted

(* The daemon's own steps read nothing and account for nothing.              *)
LEMMA DaemonKeepsAccount ==
  ASSUME TypeOK, DetentsAccounted, AskInfo \/ Stop \/ InfoTimeout \/ Crash \/ Heartbeat
  PROVE  DetentsAccounted'
<1>1. PICK off \in Offsets : TotalsAgree(off)
  BY DEF DetentsAccounted
<1>2. CASE Stop \/ InfoTimeout \/ Crash
  <2>1. CloseDevice \/ (Crash /\ Forget)
    BY <1>2 DEF Stop, InfoTimeout, Crash
  <2> QED
    BY <1>1, <2>1, CloseKeepsAccount DEF DetentsAccounted
<1>3. CASE AskInfo \/ Heartbeat
  <2>1. /\ UNCHANGED <<chan, linked, total, turned, base, recv, seen>>
        /\ dEpoch' = dEpoch \/ dEpoch' = NoEpoch
        /\ dstate' = "running" => dstate = "running"
        /\ dstate = "running" => dstate' = "running"
    BY <1>3 DEF AskInfo, Heartbeat, padVars, histVars
  <2>2. NoSessionYet'
    BY <2>1 DEF NoSessionYet, Following, DetentsAccounted
  <2>3. QueueIsBounded'
    BY <2>1 DEF QueueIsBounded, Following, DetentsAccounted
  <2>4. TotalsAgree(off)'
    BY <1>1, <2>1 DEF TotalsAgree, Following
  <2> QED
    BY <1>1, <2>2, <2>3, <2>4 DEF DetentsAccounted
<1> QED
  BY <1>2, <1>3

(* A snapshot of the session followed: what the totals say is missing is at  *)
(* most what is, and all of it when less than a turn of the counter is.      *)
LEMMA MissingIsMissed ==
  ASSUME TypeOK, NEW m \in SnapshotMsg, NEW d \in Dirs, NEW off \in Offsets,
         m.total[d] = (m.turned[d] + off[d]) % CountWrap,
         (base[d] + recv[d]) % CountWrap = (seen[d] + off[d]) % CountWrap,
         seen[d] <= m.turned[d]
  PROVE  /\ Missing(m, d) \in 0..CountWrap - 1
         /\ Missing(m, d) = (m.turned[d] - seen[d]) % CountWrap
         /\ Missing(m, d) <= m.turned[d] - seen[d]
         /\ m.turned[d] - seen[d] < CountWrap => Missing(m, d) = m.turned[d] - seen[d]
<1> DEFINE w == CountWrap
<1> DEFINE b == base[d] + recv[d]
<1> DEFINE t == m.turned[d]
<1> DEFINE s == seen[d]
<1> DEFINE o == off[d]
<1>1. /\ w \in Nat \ {0} /\ b \in Int /\ t \in Int /\ s \in Int /\ o \in Int
      /\ m.total[d] \in Int /\ base[d] \in Int /\ recv[d] \in Int
  <2>1. /\ w \in Nat \ {0} /\ base[d] \in 0..w - 1 /\ recv[d] \in 0..w - 1 /\ s \in Nat
    BY CountTypes
  <2>2. m.total[d] \in 0..w - 1 /\ t \in Nat
    BY SnapshotTypes
  <2>3. o \in 0..w - 1
    BY DEF Offsets
  <2> QED
    BY <2>1, <2>2, <2>3
<1>2. m.total[d] = (t + o) % w /\ b % w = (s + o) % w /\ s <= t
  OBVIOUS
<1>3. Missing(m, d) = (m.total[d] + (-b)) % w
  <2>1. m.total[d] - base[d] - recv[d] = m.total[d] + (-b)
    BY <1>1
  <2> QED
    BY <2>1 DEF Missing
<1> HIDE DEF w, b, t, s, o
<1>4. Missing(m, d) = (t + o + (-b)) % w
  <2>1. t + o \in Int /\ -b \in Int
    BY <1>1
  <2>2. (((t + o) % w) + (-b)) % w = ((t + o) + (-b)) % w
    BY <1>1, <2>1, ModAdd
  <2> QED
    BY <1>2, <1>3, <2>2
<1>5. Missing(m, d) = (t - s) % w
  <2> DEFINE c == (t - s) - b
  <2>1. s + o \in Int /\ c \in Int /\ b + c = t - s /\ (s + o) + c = t + o + (-b)
    BY <1>1
  <2> HIDE DEF c
  <2>2. ((b % w) + c) % w = (b + c) % w
    BY <1>1, <2>1, ModAdd
  <2>3. (((s + o) % w) + c) % w = ((s + o) + c) % w
    BY <1>1, <2>1, ModAdd
  <2> QED
    BY <1>2, <1>4, <2>1, <2>2, <2>3
<1>6. PICK q \in Int, r \in 0..w - 1 : t - s = w * q + r /\ (t - s) % w = r
  <2>1. t - s \in Int
    BY <1>1
  <2> QED
    BY <1>1, <2>1, DivMod
<1>7. q >= 0 /\ w * q >= 0
  BY <1>1, <1>2, <1>6
<1>8. t - s < w => q = 0
  BY <1>1, <1>6, <1>7
<1>9. q = 0 => w * q = 0
  BY <1>1
<1> QED
  BY <1>1, <1>5, <1>6, <1>7, <1>8, <1>9 DEF w, t, s

(* What the daemon accounts for after a snapshot: no more than it says, in   *)
(* step with the totals, and all of it when less than half a turn of the     *)
(* counter went missing.                                                     *)
LEMMA SnapshotAccounts ==
  ASSUME TypeOK, NEW m \in SnapshotMsg, TakeSnapshot(m), NEW d \in Dirs, NEW off \in Offsets,
         m.total[d] = (m.turned[d] + off[d]) % CountWrap,
         Following =>
           /\ (base[d] + recv[d]) % CountWrap = (seen[d] + off[d]) % CountWrap
           /\ seen[d] <= m.turned[d]
  PROVE  /\ (base'[d] + recv'[d]) % CountWrap = (seen'[d] + off[d]) % CountWrap
         /\ seen'[d] <= m.turned[d]
         /\ m.epoch = dEpoch /\ m.turned[d] - seen[d] < Half => seen'[d] = m.turned[d]
<1> DEFINE w == CountWrap
<1> DEFINE t == m.turned[d]
<1> DEFINE T == m.total[d]
<1> DEFINE b == base[d]
<1> DEFINE r == recv[d]
<1> DEFINE s == seen[d]
<1> DEFINE o == off[d]
<1> DEFINE x == Missing(m, d)
<1>1. /\ w \in Nat \ {0} /\ t \in Int /\ s \in Int /\ o \in Int /\ T \in 0..w - 1
      /\ b \in Int /\ r \in Int /\ m.epoch # NoEpoch
  <2>1. w \in Nat \ {0} /\ b \in 0..w - 1 /\ r \in 0..w - 1 /\ s \in Nat
    BY CountTypes
  <2>2. T \in 0..w - 1 /\ t \in Nat
    BY SnapshotTypes
  <2>3. o \in 0..w - 1
    BY DEF Offsets
  <2>4. m.epoch \in Nat /\ NoEpoch \notin Nat
    BY ModAssumption, SessionAssumption DEF SnapshotMsg
  <2> QED
    BY <2>1, <2>2, <2>3, <2>4
<1>2. T % w = T /\ T + 0 = T /\ T = (t + o) % w
  BY <1>1, ModSmall
<1>3. CASE m.epoch # dEpoch
  <2>1. base'[d] = T /\ recv'[d] = 0 /\ seen'[d] = t
    BY <1>3 DEF TakeSnapshot, ZeroCounts
  <2> QED
    BY <1>1, <1>2, <1>3, <2>1
<1>4. CASE m.epoch = dEpoch
  <2>1. /\ base'[d] = IF x >= Half THEN T ELSE b
        /\ recv'[d] = IF x >= Half THEN 0 ELSE (r + x) % w
        /\ seen'[d] = IF x >= Half THEN t ELSE s + x
    BY <1>4 DEF TakeSnapshot
  <2>2. (b + r) % w = (s + o) % w /\ s <= t
    BY <1>1, <1>4 DEF Following
  <2>3. x \in 0..w - 1 /\ x <= t - s /\ (t - s < w => x = t - s)
    BY <2>2, MissingIsMissed
  <2>4. Half \in Int /\ Half <= w
    BY <1>1 DEF Half
  <2> HIDE DEF w, t, T, b, r, s, o, x
  <2>5. CASE x >= Half
    <3>1. base'[d] = T /\ recv'[d] = 0 /\ seen'[d] = t /\ ~(t - s < Half)
      BY <1>1, <2>1, <2>3, <2>4, <2>5
    <3> QED
      BY <1>1, <1>2, <3>1 DEF w, t, s, o
  <2>6. CASE ~(x >= Half)
    <3>1. (b + ((r + x) % w)) % w = (s + x + o) % w
      <4>1. r + x \in Int /\ b + r \in Int /\ s + o \in Int /\ x \in Int
        BY <1>1, <2>3
      <4>2. (((r + x) % w) + b) % w = ((r + x) + b) % w
        BY <1>1, <4>1, ModAdd
      <4>3. (((b + r) % w) + x) % w = ((b + r) + x) % w
        BY <1>1, <4>1, ModAdd
      <4>4. (((s + o) % w) + x) % w = ((s + o) + x) % w
        BY <1>1, <4>1, ModAdd
      <4>5. (r + x) % w \in Int
        BY <1>1, <4>1, WrapInRange
      <4>6. /\ ((r + x) % w) + b = b + ((r + x) % w) /\ (r + x) + b = (b + r) + x
            /\ (s + o) + x = s + x + o
        BY <1>1, <4>1, <4>5
      <4> QED
        BY <2>2, <4>2, <4>3, <4>4, <4>6
    <3>2. s + x <= t /\ (t - s < Half => s + x = t)
      BY <1>1, <2>3, <2>4
    <3>3. base'[d] = b /\ recv'[d] = (r + x) % w /\ seen'[d] = s + x
      BY <2>1, <2>6
    <3> QED
      BY <3>1, <3>2, <3>3 DEF w, t, s, o
  <2> QED
    BY <2>5, <2>6
<1> QED
  BY <1>3, <1>4

(* Reading a report.                                                         *)
LEMMA ReadingKeepsAccount ==
  ASSUME TypeOK, TypeOK', DetentsAccounted, ReadReport
  PROVE  /\ DetentsAccounted'
         /\ (dstate = "running" /\ Restores(Head(chan)) /\ dEpoch = Head(chan).epoch) =>
              \A d \in Dirs :
                Head(chan).turned[d] - seen[d] < Half => seen'[d] = Head(chan).turned[d]
<1> DEFINE m == Head(chan)
<1> DEFINE Restored ==
      (dstate = "running" /\ Restores(m) /\ dEpoch = m.epoch) =>
         \A d \in Dirs : m.turned[d] - seen[d] < Half => seen'[d] = m.turned[d]
<1>1. /\ m \in Message /\ chan \in Seq(Message) /\ chan # <<>> /\ m = chan[1]
      /\ Tail(chan) \in Seq(Message) /\ 1 \in 1..Len(chan) /\ Len(chan) \in Nat
      /\ Len(Tail(chan)) = Len(chan) - 1
      /\ \A i \in 1..Len(Tail(chan)) : i + 1 \in 1..Len(chan) /\ Tail(chan)[i] = chan[i + 1]
  BY DEF ReadReport, TypeOK
<1>2. PICK off \in Offsets : TotalsAgree(off)
  BY DEF DetentsAccounted
<1>3. UNCHANGED <<total, turned>>
  BY DEF ReadReport, padVars
<1>4. \A d \in Dirs : turned[d] \in Int /\ seen[d] \in Int /\ seen'[d] \in Int
  BY SessionAssumption DEF TypeOK
<1>5. /\ HasTurned(m) => m \in SnapshotMsg
      /\ m.type = "TAP" => m.slot \in Dirs /\ m.n \in Nat
  BY <1>1, ModAssumption DEF Message, EventMsg, SnapshotMsg, HasTurned
<1> HIDE DEF m
<1>6. ASSUME chan' = Tail(chan), linked' = linked, dstate' # "running" => dEpoch' = NoEpoch,
             Following' => Following \/ HasTurned(m),
             \A d \in Dirs : Following' =>
               /\ (base'[d] + recv'[d]) % CountWrap = (seen'[d] + off[d]) % CountWrap
               /\ \/ HasTurned(m) /\ seen'[d] <= m.turned[d]
                  \/ Following /\ seen'[d] = seen[d] + TapOf(m, d)
      PROVE  DetentsAccounted'
  <2>1. NoSessionYet'
    BY <1>6 DEF NoSessionYet, Following
  <2>2. QueueIsBounded'
    <3> SUFFICES ASSUME NEW d \in Dirs
                 PROVE  /\ Rises(Tail(chan), d) /\ EndsBelow(Tail(chan), d, turned[d])
                        /\ Following' =>
                             /\ StartsAbove(Tail(chan), d, seen'[d])
                             /\ seen'[d] + Tapped(Tail(chan), d)[Len(Tail(chan))] <= turned[d]
      BY <1>3, <1>6 DEF QueueIsBounded, Following
    <3>1. /\ Rises(chan, d) /\ EndsBelow(chan, d, turned[d])
          /\ Following => /\ StartsAbove(chan, d, seen[d])
                          /\ seen[d] + Tapped(chan, d)[Len(chan)] <= turned[d]
      BY DEF DetentsAccounted, QueueIsBounded
    <3>2. Rises(Tail(chan), d) /\ EndsBelow(Tail(chan), d, turned[d])
      BY <1>1, <1>4, <3>1, BoundsOfTail
    <3>3. ASSUME Following'
          PROVE  /\ StartsAbove(Tail(chan), d, seen'[d])
                 /\ seen'[d] + Tapped(Tail(chan), d)[Len(Tail(chan))] <= turned[d]
      <4>1. CASE HasTurned(m) /\ seen'[d] <= m.turned[d]
        BY <1>1, <1>4, <3>1, <4>1, StartOfTail DEF m
      <4>2. CASE Following /\ seen'[d] = seen[d] + TapOf(m, d)
        BY <1>1, <1>4, <3>1, <4>2, StartOfTail DEF m
      <4> QED
        BY <1>6, <3>3, <4>1, <4>2
    <3> QED
      BY <3>2, <3>3
  <2>3. TotalsAgree(off)'
    BY <1>1, <1>2, <1>3, <1>6 DEF TotalsAgree, Following
  <2> QED
    BY <2>1, <2>2, <2>3 DEF DetentsAccounted
<1>7. CASE RefuseInfo(m) \/ ReadRefusal(m) \/ ReadGone(m)
  <2>1. CloseDevice /\ ~(dstate = "running" /\ Restores(m))
    BY <1>7 DEF RefuseInfo, ReadRefusal, ReadGone, Restores
  <2>2. DetentsAccounted'
    BY <1>2, <2>1, CloseKeepsAccount DEF DetentsAccounted
  <2> QED
    BY <2>1, <2>2 DEF m
<1>8. CASE ReadRawMode(m) \/ ReadKeys(m)
  <2>1. /\ m \in SnapshotMsg /\ HasTurned(m) /\ TakeSnapshot(m) /\ chan' = Tail(chan)
        /\ linked' = linked /\ dstate' = dstate /\ dstate = "running"
    BY <1>5, <1>8 DEF ReadRawMode, ReadKeys, m, HasTurned
  <2>2. ASSUME NEW d \in Dirs
        PROVE  /\ (base'[d] + recv'[d]) % CountWrap = (seen'[d] + off[d]) % CountWrap
               /\ seen'[d] <= m.turned[d]
               /\ m.epoch = dEpoch /\ m.turned[d] - seen[d] < Half => seen'[d] = m.turned[d]
    <3>1. m.total[d] = (m.turned[d] + off[d]) % CountWrap
      BY <1>1, <1>2, <2>1 DEF TotalsAgree
    <3>2. Following => (base[d] + recv[d]) % CountWrap = (seen[d] + off[d]) % CountWrap
      BY <1>2 DEF TotalsAgree
    <3>3. ASSUME Following PROVE seen[d] <= m.turned[d]
      <4>1. seen[d] + Tapped(chan, d)[1] <= m.turned[d]
        BY <1>1, <2>1, <3>3 DEF DetentsAccounted, QueueIsBounded, StartsAbove
      <4>2. /\ Tapped(chan, d)[0] = 0 /\ Tapped(chan, d)[1] = Tapped(chan, d)[1 - 1] + TapOf(m, d)
            /\ TapOf(m, d) \in Nat /\ 1 - 1 = 0
        BY <1>1, TappedIs
      <4>3. Tapped(chan, d)[1] = TapOf(m, d)
        BY <4>2
      <4>4. m.turned[d] \in Int
        BY <2>1, SessionAssumption DEF SnapshotMsg
      <4> QED
        BY <1>4, <4>1, <4>2, <4>3, <4>4
    <3> QED
      BY <2>1, <3>1, <3>2, <3>3, SnapshotAccounts
  <2>3. DetentsAccounted'
    BY <1>6, <2>1, <2>2
  <2> QED
    BY <2>2, <2>3 DEF m
<1>9. CASE ReadTap(m)
  <2>1. /\ chan' = Tail(chan) /\ UNCHANGED <<linked, dstate, dEpoch, base>> /\ dstate = "running"
        /\ m.type = "TAP" /\ m.slot \in Dirs /\ m.n \in Nat
        /\ recv' = [recv EXCEPT ![m.slot] = (@ + m.n) % CountWrap]
        /\ seen' = IF Following THEN [seen EXCEPT ![m.slot] = @ + m.n] ELSE seen
    BY <1>5, <1>9 DEF ReadTap, m, Following
  <2>2. ASSUME NEW d \in Dirs, Following
        PROVE  /\ (base'[d] + recv'[d]) % CountWrap = (seen'[d] + off[d]) % CountWrap
               /\ seen'[d] = seen[d] + TapOf(m, d)
    <3>1. /\ base[d] \in Int /\ recv[d] \in Int /\ seen[d] \in Int /\ off[d] \in Int
          /\ CountWrap \in Nat \ {0}
      <4>1. /\ base[d] \in 0..CountWrap - 1 /\ recv[d] \in 0..CountWrap - 1
            /\ seen[d] \in Nat /\ CountWrap \in Nat \ {0}
        BY CountTypes
      <4>2. off[d] \in 0..CountWrap - 1
        BY DEF Offsets
      <4> QED
        BY <4>1, <4>2
    <3>2. (base[d] + recv[d]) % CountWrap = (seen[d] + off[d]) % CountWrap
      BY <1>2, <2>2 DEF TotalsAgree
    <3>3. CASE d # m.slot
      <4>1. base'[d] = base[d] /\ recv'[d] = recv[d] /\ seen'[d] = seen[d] /\ TapOf(m, d) = 0
        <5>1. base'[d] = base[d] /\ TapOf(m, d) = 0
          BY <2>1, <3>3 DEF TapOf
        <5>2. recv \in [Dirs -> 0..CountWrap - 1] /\ seen \in [Dirs -> Nat]
          BY DEF TypeOK
        <5>3. recv'[d] = recv[d] /\ seen'[d] = seen[d]
          BY <2>1, <3>3, <5>2
        <5> QED
          BY <5>1, <5>3
      <4> QED
        BY <3>1, <3>2, <4>1
    <3>4. CASE d = m.slot
      <4> DEFINE w == CountWrap
      <4> DEFINE b == base[d]
      <4> DEFINE r == recv[d]
      <4> DEFINE s == seen[d]
      <4> DEFINE o == off[d]
      <4> DEFINE n == m.n
      <4>1. /\ base'[d] = b /\ recv'[d] = (r + n) % w /\ seen'[d] = s + n /\ TapOf(m, d) = n
            /\ n \in Int
        <5>1. base'[d] = b /\ n \in Int
          BY <2>1
        <5>2. recv \in [Dirs -> 0..CountWrap - 1] /\ seen \in [Dirs -> Nat]
          BY DEF TypeOK
        <5>3. recv'[d] = (r + n) % w
          BY <2>1, <3>4, <5>2
        <5>4. seen'[d] = s + n
          BY <2>1, <2>2, <3>4, <5>2
        <5>5. TapOf(m, d) = n
          BY <2>1, <3>4 DEF TapOf
        <5> QED
          BY <5>1, <5>3, <5>4, <5>5
      <4>2. /\ w \in Nat \ {0} /\ b \in Int /\ r \in Int /\ s \in Int /\ o \in Int
            /\ (b + r) % w = (s + o) % w
            /\ b + r \in Int /\ s + o \in Int /\ r + n \in Int
        BY <3>1, <3>2, <4>1
      <4> HIDE DEF w, b, r, s, o, n
      <4>3. (((r + n) % w) + b) % w = ((r + n) + b) % w
        BY <4>1, <4>2, ModAdd
      <4>4. (((b + r) % w) + n) % w = ((b + r) + n) % w
        BY <4>1, <4>2, ModAdd
      <4>5. (((s + o) % w) + n) % w = ((s + o) + n) % w
        BY <4>1, <4>2, ModAdd
      <4>6. (r + n) % w \in Int
        BY <4>1, <4>2, WrapInRange
      <4>7. /\ ((r + n) % w) + b = b + ((r + n) % w) /\ (r + n) + b = (b + r) + n
            /\ (s + o) + n = (s + n) + o
        BY <4>1, <4>2, <4>6
      <4>8. (b + ((r + n) % w)) % w = ((s + n) + o) % w
        BY <4>2, <4>3, <4>4, <4>5, <4>7
      <4> QED
        BY <4>1, <4>8 DEF w, o, s
    <3> QED
      BY <3>3, <3>4
  <2>3. DetentsAccounted'
    BY <1>6, <2>1, <2>2 DEF Following
  <2> QED
    BY <2>1, <2>3 DEF m, Restores
<1>10. CASE ReadInfo(m) \/ ReadKeyEvent(m) \/ ReadSkipped(m)
  <2>1. /\ chan' = Tail(chan) /\ UNCHANGED <<linked, dEpoch, base, recv, seen>>
        /\ dstate' = "running" \/ dstate' = dstate
        /\ ~(dstate = "running" /\ Restores(m))
    BY <1>10 DEF ReadInfo, ReadKeyEvent, ReadSkipped, Skips, Restores, m, daemonVars
  <2>2. ~(m.type = "TAP" /\ Following)
    BY <1>10 DEF ReadInfo, ReadKeyEvent, ReadSkipped, Skips, DetentsAccounted, NoSessionYet
  <2>3. ASSUME NEW d \in Dirs, Following
        PROVE  /\ (base'[d] + recv'[d]) % CountWrap = (seen'[d] + off[d]) % CountWrap
               /\ seen'[d] = seen[d] + TapOf(m, d)
    BY <1>2, <1>4, <2>1, <2>2, <2>3 DEF TotalsAgree, TapOf
  <2>4. dstate' # "running" => dEpoch' = NoEpoch
    BY <2>1 DEF DetentsAccounted, NoSessionYet, Following
  <2>5. DetentsAccounted'
    BY <1>6, <2>1, <2>3, <2>4 DEF Following
  <2> QED
    BY <2>1, <2>5 DEF m
<1> QED
  BY <1>7, <1>8, <1>9, <1>10 DEF ReadReport, m

(* The account holds in every reachable state.                               *)
THEOREM AccountOfDetents == Spec => []DetentsAccounted
<1>1. Init => DetentsAccounted
  <2> SUFFICES ASSUME Init PROVE DetentsAccounted
    OBVIOUS
  <2>1. ~linked /\ chan = <<>> /\ dEpoch = NoEpoch /\ Len(<<>>) = 0
    BY DEF Init
  <2>2. ZeroCounts \in Offsets
    BY ZeroInRange DEF Offsets, ZeroCounts
  <2>3. TotalsAgree(ZeroCounts)
    BY <2>1 DEF TotalsAgree, Following
  <2>4. QueueIsBounded /\ NoSessionYet
    BY <2>1 DEF QueueIsBounded, NoSessionYet, Following, Rises, EndsBelow
  <2> QED
    BY <2>2, <2>3, <2>4 DEF DetentsAccounted
<1>2. TypeOK /\ TypeOK' /\ DetentsAccounted /\ [Next]_vars => DetentsAccounted'
  <2>1. DetentsAccounted /\ UNCHANGED vars => DetentsAccounted'
    BY DEF vars, padVars, daemonVars, histVars, DetentsAccounted, NoSessionYet,
           QueueIsBounded, TotalsAgree, Following
  <2> QED
    BY <2>1, PadKeepsAccount, LossKeepsAccount, StartKeepsAccount, DaemonKeepsAccount,
       ReadingKeepsAccount DEF Next
<1> QED
  BY <1>1, <1>2, TypeCorrect, PTL DEF Spec

(* The engine never gets a detent twice: what it was given in the session    *)
(* followed and what is still queued for it were turned, whatever was lost,  *)
(* restored by an answer, or wrapped in the counters (m_detentBase and       *)
(* m_detentRecv of rawpaddevice.cpp against knobRaw of padlogic.c).          *)
THEOREM NoDetentComesTwice == Spec => []NoDetentTwice
<1>1. DetentsAccounted => NoDetentTwice
  BY DEF DetentsAccounted, QueueIsBounded, NoDetentTwice, Queued, Following
<1> QED
  BY <1>1, AccountOfDetents, PTL

(* An answer of the session followed gives the engine every detent turned    *)
(* before it, when fewer than half the counter's range went missing          *)
(* (handleSnapshot of rawpaddevice.cpp).                                     *)
THEOREM AnswersRestoreDetents == Spec => [][AnswerRestoresDetents]_vars
<1>1. TypeOK /\ TypeOK' /\ DetentsAccounted /\ [Next]_vars => [AnswerRestoresDetents]_vars
  BY ReadingKeepsAccount DEF AnswerRestoresDetents
<1> QED
  BY <1>1, TypeCorrect, AccountOfDetents, PTL DEF Spec
=============================================================================
