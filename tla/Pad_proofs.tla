----------------------------- MODULE Pad_proofs -----------------------------
(* Proofs about the pad as the run has it: its keymap in flash, where power  *)
(* cuts between any two writes lose nothing and mix nothing, for any slots,  *)
(* bytes and keymaps and any CRC that notices one changed byte; its core and *)
(* its session, from the theorems about them; and its knobs.                 *)
EXTENDS MCPad, PadCore_proofs, SequenceTheorems, TLAPS

Addresses == Cells \cup Header

(* The byte of the keymap m that a cell is to have.                          *)
ByteOf(m, c) == IF c[2] = "lo" THEN m[c[1]][1] ELSE m[c[1]][2]

(* What may be written where.                                                *)
Writes ==
  [at : Cells, val : Bytes] \cup [at : {Magic}, val : {Good, Bad}] \cup [at : {Rest}, val : {Good}]
    \cup [at : {StartByte}, val : StartLayers]
    \cup [at : {CrcByte}, val : {Computed} \cup Bytes]

StoreTypes ==
  /\ flash = [a \in Addresses |-> flash[a]]
  /\ \A c \in Cells : flash[c] \in Bytes
  /\ flash[Magic] \in {Good, Bad, Erased}
  /\ flash[Rest] \in {Good, Erased}
  /\ flash[StartByte] \in StartLayers \cup {Erased}
  /\ flash[CrcByte] \in Bytes
  /\ flipped \in BOOLEAN
  /\ ram \in Maps /\ was \in Maps
  /\ power \in {"off", "boot", "up"}
  /\ todo \in Seq(Writes)
  /\ ok \in BOOLEAN
  /\ fails \in 0..MaxFails /\ commands \in 0..MaxCommands

(* The header's addresses are four, and no cells.                            *)
LEMMA Headers ==
  /\ Magic \in Header /\ Rest \in Header /\ CrcByte \in Header /\ StartByte \in Header
  /\ Magic # Rest /\ Magic # CrcByte /\ Magic # StartByte /\ Rest # CrcByte /\ Rest # StartByte
  /\ CrcByte # StartByte
  /\ \A c \in Cells : c \notin Header
  BY StoreAssumption DEF Header, Magic, Rest, CrcByte, StartByte

(* The bytes of the actions are a memory, and the keymap they make is m if   *)
(* each cell has the byte of m.                                              *)
LEMMA BytesAre ==
  ASSUME StoreTypes
  PROVE  /\ ActionBytes \in [Cells -> Bytes]
         /\ \A m \in Maps : (\A c \in Cells : flash[c] = ByteOf(m, c)) <=> Stored = m
         /\ (\A s \in Places : Stored[s] \in ValidActions) => Stored \in Maps
<1>1. ActionBytes \in [Cells -> Bytes]
  BY DEF ActionBytes, StoreTypes
<1>2. ASSUME NEW m \in Maps, \A c \in Cells : flash[c] = ByteOf(m, c)
      PROVE  Stored = m
  <2>1. ASSUME NEW s \in Places
        PROVE  Stored[s] = m[s]
    <3>1. m[s] \in Bytes \X Bytes
      BY StoreAssumption DEF Maps
    <3>2. <<s, "lo">> \in Cells /\ <<s, "hi">> \in Cells
      BY DEF Cells
    <3>3. flash[<<s, "lo">>] = m[s][1] /\ flash[<<s, "hi">>] = m[s][2]
      BY <1>2, <3>2 DEF ByteOf
    <3> QED
      BY <3>1, <3>3 DEF Stored
  <2> QED
    BY <2>1 DEF Stored, Maps
<1>3. ASSUME NEW m \in Maps, Stored = m, NEW c \in Cells
      PROVE  flash[c] = ByteOf(m, c)
  <2>1. PICK s \in Places, h \in {"lo", "hi"} : c = <<s, h>>
    BY DEF Cells
  <2>2. m[s] = <<flash[<<s, "lo">>], flash[<<s, "hi">>]>>
    BY <1>3 DEF Stored
  <2> QED
    BY <2>1, <2>2 DEF ByteOf
<1>4. (\A s \in Places : Stored[s] \in ValidActions) => Stored \in Maps
  BY DEF Stored, Maps
<1> QED
  BY <1>1, <1>2, <1>3, <1>4

(* The bytes of a keymap are bytes.                                          *)
LEMMA ByteIs ==
  ASSUME NEW m \in Maps, NEW c \in Cells
  PROVE  ByteOf(m, c) \in Bytes /\ SaveByte(m, c) = [at |-> c, val |-> ByteOf(m, c)]
<1>1. c[1] \in Places
  BY DEF Cells
<1>2. m[c[1]] \in Bytes \X Bytes
  BY <1>1, StoreAssumption DEF Maps
<1> QED
  BY <1>2 DEF ByteOf, SaveByte, Write

(* A whole save: the magic is invalidated, then come the cells, then the     *)
(* header, the magic last.                                                   *)
LEMMA SaveAllIs ==
  ASSUME NEW m \in Maps, NEW l \in StartLayers
  PROVE  LET t == SaveAll(m, l)
             n == Len(CellOrder)
         IN /\ n \in Nat /\ t \in Seq(Writes) /\ Len(t) = n + 5
            /\ t[1] = Write(Magic, Bad)
            /\ \A i \in 1..n : CellOrder[i] \in Cells /\ t[i + 1] = [at |-> CellOrder[i], val |-> ByteOf(m, CellOrder[i])]
            /\ t[n + 2] = Write(StartByte, l) /\ t[n + 3] = Write(CrcByte, Computed)
            /\ t[n + 4] = Write(Rest, Good) /\ t[n + 5] = Write(Magic, Good)
<1> DEFINE n == Len(CellOrder)
           a == <<Write(Magic, Bad)>>
           b == [i \in 1..n |-> SaveByte(m, CellOrder[i])]
           c == <<Write(StartByte, l), Write(CrcByte, Computed), Write(Rest, Good), Write(Magic, Good)>>
<1>1. n \in Nat /\ \A i \in 1..n : CellOrder[i] \in Cells
  BY StoreAssumption, ElementOfSeq
<1>2. \A i \in 1..n : SaveByte(m, CellOrder[i]) = [at |-> CellOrder[i], val |-> ByteOf(m, CellOrder[i])]
  BY <1>1, ByteIs
<1>3. \A i \in 1..n : SaveByte(m, CellOrder[i]) \in Writes
  BY <1>1, <1>2, ByteIs DEF Writes
<1>4. b \in Seq(Writes) /\ Len(b) = n /\ \A i \in 1..n : b[i] = SaveByte(m, CellOrder[i])
  BY <1>1, <1>3, IsASeq
<1>5. a \in Seq(Writes) /\ Len(a) = 1 /\ a[1] = Write(Magic, Bad)
  BY DEF Writes, Write
<1>6. /\ c \in Seq(Writes) /\ Len(c) = 4
      /\ c[1] = Write(StartByte, l) /\ c[2] = Write(CrcByte, Computed)
      /\ c[3] = Write(Rest, Good) /\ c[4] = Write(Magic, Good)
  BY DEF Writes, Write
<1> HIDE DEF a, b, c
<1>7. SaveAll(m, l) = (a \o b) \o c
  BY DEF SaveAll, a, b, c, n
<1>8. /\ a \o b \in Seq(Writes) /\ Len(a \o b) = n + 1 /\ (a \o b)[1] = a[1]
      /\ \A i \in 1..n : (a \o b)[i + 1] = b[i]
  <2>1. a \o b \in Seq(Writes) /\ Len(a \o b) = Len(a) + Len(b)
        /\ \A i \in 1..Len(a) + Len(b) : (a \o b)[i] = IF i <= Len(a) THEN a[i] ELSE b[i - Len(a)]
    <3>1. a \in Seq(Writes) /\ b \in Seq(Writes)
      BY <1>4, <1>5
    <3> QED
      BY <3>1, ConcatProperties
  <2> QED
    BY <2>1, <1>1, <1>4, <1>5
<1>9. /\ (a \o b) \o c \in Seq(Writes) /\ Len((a \o b) \o c) = Len(a \o b) + Len(c)
      /\ \A i \in 1..Len(a \o b) + Len(c) :
           ((a \o b) \o c)[i] = IF i <= Len(a \o b) THEN (a \o b)[i] ELSE c[i - Len(a \o b)]
  <2>1. a \o b \in Seq(Writes) /\ c \in Seq(Writes)
    BY <1>8, <1>6
  <2> QED
    BY <2>1, ConcatProperties
<1> DEFINE t == (a \o b) \o c
<1>10. t \in Seq(Writes) /\ Len(t) = n + 5
  BY <1>1, <1>6, <1>8, <1>9
<1>11. \A i \in 1..n + 1 : t[i] = (a \o b)[i]
  BY <1>1, <1>6, <1>8, <1>9
<1>12. t[n + 2] = c[1] /\ t[n + 3] = c[2] /\ t[n + 4] = c[3] /\ t[n + 5] = c[4]
  BY <1>1, <1>6, <1>8, <1>9
<1>13. t[1] = Write(Magic, Bad)
  BY <1>1, <1>5, <1>8, <1>11
<1>14. \A i \in 1..n : t[i + 1] = [at |-> CellOrder[i], val |-> ByteOf(m, CellOrder[i])]
  BY <1>1, <1>2, <1>4, <1>8, <1>11
<1> QED
  BY <1>1, <1>6, <1>7, <1>10, <1>12, <1>13, <1>14

-----------------------------------------------------------------------------
(* The types.                                                                *)

(* The byte that a write leaves behind when it takes.                        *)
LEMMA ValueIs ==
  ASSUME StoreTypes, NEW w \in Writes
  PROVE  /\ w.at \in Addresses
         /\ w.at \in Cells => Value(w) = w.val /\ Value(w) \in Bytes
         /\ w.at = Magic => Value(w) = w.val /\ Value(w) \in {Good, Bad}
         /\ w.at = Rest => Value(w) = Good
         /\ w.at = StartByte => Value(w) = w.val /\ Value(w) \in StartLayers
         /\ w.at = CrcByte /\ w.val = Computed => Value(w) = Crc(ActionBytes)
         /\ w.at = CrcByte /\ w.val # Computed => Value(w) = w.val
         /\ w.at = CrcByte => Value(w) \in Bytes
<1>1. Crc(ActionBytes) \in Bytes
  BY BytesAre, CrcAssumption
<1> QED
  BY <1>1, StoreAssumption, Headers DEF Writes, Value, Addresses, Header

(* A write, whether it takes or not, leaves a byte of the address's type.    *)
LEMMA ByteWritten ==
  ASSUME StoreTypes, NEW x \in Addresses, NEW v,
         x \in Cells => v \in Bytes,
         x = Magic => v \in {Good, Bad, Erased}, x = Rest => v \in {Good, Erased},
         x = StartByte => v \in StartLayers \cup {Erased}, x = CrcByte => v \in Bytes,
         flash' = [flash EXCEPT ![x] = v]
  PROVE  /\ flash' = [a \in Addresses |-> flash'[a]]
         /\ flash'[x] = v /\ \A a \in Addresses \ {x} : flash'[a] = flash[a]
         /\ \A c \in Cells : flash'[c] \in Bytes
         /\ flash'[Magic] \in {Good, Bad, Erased}
         /\ flash'[Rest] \in {Good, Erased}
         /\ flash'[StartByte] \in StartLayers \cup {Erased}
         /\ flash'[CrcByte] \in Bytes
<1>1. flash'[x] = v /\ \A a \in Addresses \ {x} : flash'[a] = flash[a]
  BY DEF StoreTypes
<1>2. flash' = [a \in Addresses |-> flash'[a]]
  BY DEF StoreTypes
<1>3. \A c \in Cells : c \in Addresses
  BY DEF Addresses
<1>4. Magic \in Addresses /\ Rest \in Addresses /\ StartByte \in Addresses /\ CrcByte \in Addresses
  BY Headers DEF Addresses
<1> QED
  BY <1>1, <1>2, <1>3, <1>4 DEF StoreTypes

(* What remains to be written is still a list of writes.                     *)
LEMMA RestOfTodo ==
  ASSUME todo \in Seq(Writes), todo # <<>>
  PROVE  /\ Head(todo) \in Writes /\ Head(todo) = todo[1] /\ Tail(todo) \in Seq(Writes)
         /\ Len(Tail(todo)) = Len(todo) - 1 /\ Len(todo) \in Nat /\ Len(todo) >= 1
         /\ \A i \in 1..Len(todo) - 1 : Tail(todo)[i] = todo[i + 1]
         /\ AfterFailure \in Seq(Writes)
<1>1. /\ Head(todo) \in Writes /\ Head(todo) = todo[1] /\ Tail(todo) \in Seq(Writes)
      /\ Len(Tail(todo)) = Len(todo) - 1 /\ Len(todo) \in Nat /\ Len(todo) >= 1
      /\ \A i \in 1..Len(todo) - 1 : Tail(todo)[i] = todo[i + 1]
  BY HeadTailProperties, LenProperties, ElementOfSeq, EmptySeq
<1>2. CASE Last(todo).at = CrcByte /\ Len(todo) > 1
  <2>1. Front(Tail(todo)) = SubSeq(Tail(todo), 1, Len(Tail(todo)) - 1)
    BY DEF Front
  <2>2. \A i \in 1..Len(Tail(todo)) - 1 : Tail(todo)[i] \in Writes
    BY <1>1, ElementOfSeq
  <2>3. Front(Tail(todo)) \in Seq(Writes)
    BY <1>1, <1>2, <2>1, <2>2, SubSeqProperties
  <2> QED
    BY <1>1, <1>2, <2>3 DEF AfterFailure
<1>3. CASE ~(Last(todo).at = CrcByte /\ Len(todo) > 1)
  BY <1>1, <1>3 DEF AfterFailure
<1> QED
  BY <1>1, <1>2, <1>3

(* A chip fresh from the factory has the types.                              *)
LEMMA TypesInit == StoreInit => StoreTypes
<1> SUFFICES ASSUME StoreInit PROVE StoreTypes
  OBVIOUS
<1>1. PICK b \in Bytes :
        flash = [a \in Cells \cup Header |-> IF a \in Cells \cup {CrcByte} THEN b ELSE Erased]
  BY DEF StoreInit
<1>2. flash = [a \in Addresses |-> flash[a]]
  BY <1>1 DEF Addresses
<1>3. \A c \in Cells : flash[c] \in Bytes
  BY <1>1
<1>4. flash[Magic] = Erased /\ flash[Rest] = Erased /\ flash[StartByte] = Erased
      /\ flash[CrcByte] \in Bytes
  BY <1>1, Headers
<1>5. todo \in Seq(Writes)
  BY EmptySeq DEF StoreInit
<1>6. fails \in 0..MaxFails /\ commands \in 0..MaxCommands
  BY StoreAssumption DEF StoreInit
<1> QED
  BY <1>2, <1>3, <1>4, <1>5, <1>6, StoreAssumption DEF StoreInit, StoreTypes

(* Every write of a command may be written.                                  *)
LEMMA CommandKeepsTypes ==
  ASSUME StoreTypes, NEW m \in Maps, NEW t \in Seq(Writes), Command(m, t)
  PROVE  StoreTypes'
<1>1. commands' \in 0..MaxCommands
  BY StoreAssumption DEF Command, StoreTypes
<1> QED
  BY <1>1 DEF Command, StoreTypes

(* SET_ACTION writes two bytes of one slot and the CRC.                      *)
LEMMA PutIs ==
  ASSUME StoreTypes, NEW s \in Places, NEW a \in ValidActions
  PROVE  LET m == [ram EXCEPT ![s] = a]
             t == Append(SaveSlot(m, s), Write(CrcByte, Computed))
             lo == <<s, "lo">>
             hi == <<s, "hi">>
         IN /\ m \in Maps /\ lo \in Cells /\ hi \in Cells /\ lo # hi
            /\ t \in Seq(Writes) /\ Len(t) = 3 /\ t[1] = [at |-> lo, val |-> ByteOf(m, lo)]
            /\ t[2] = [at |-> hi, val |-> ByteOf(m, hi)] /\ t[3] = [at |-> CrcByte, val |-> Computed]
            /\ \A c \in Cells \ {lo, hi} : ByteOf(m, c) = ByteOf(ram, c)
<1> DEFINE m == [ram EXCEPT ![s] = a]
           lo == <<s, "lo">>
           hi == <<s, "hi">>
<1>1. m \in Maps
  BY DEF StoreTypes, Maps
<1>2. lo \in Cells /\ hi \in Cells /\ lo # hi
  BY DEF Cells
<1>3. SaveByte(m, lo) = [at |-> lo, val |-> ByteOf(m, lo)] /\ SaveByte(m, hi) = [at |-> hi, val |-> ByteOf(m, hi)]
      /\ ByteOf(m, lo) \in Bytes /\ ByteOf(m, hi) \in Bytes
  BY <1>1, <1>2, ByteIs
<1>4. \A c \in Cells \ {lo, hi} : ByteOf(m, c) = ByteOf(ram, c)
  <2> SUFFICES ASSUME NEW c \in Cells \ {lo, hi} PROVE c[1] \in Places /\ c[1] # s
    BY DEF ByteOf, StoreTypes, Maps
  <2>1. PICK p \in Places, h \in {"lo", "hi"} : c = <<p, h>>
    BY DEF Cells
  <2> QED
    BY <2>1
<1> HIDE DEF m
<1> DEFINE u == [at |-> lo, val |-> ByteOf(m, lo)]
           v == [at |-> hi, val |-> ByteOf(m, hi)]
           w == [at |-> CrcByte, val |-> Computed]
<1>5. u \in Writes /\ v \in Writes /\ w \in Writes
  BY <1>2, <1>3 DEF Writes
<1> HIDE DEF u, v, w
<1>6. <<u, v>> \in Seq(Writes) /\ Len(<<u, v>>) = 2 /\ <<u, v>>[1] = u /\ <<u, v>>[2] = v
  BY <1>5
<1> DEFINE t == Append(<<u, v>>, w)
<1>7. t \in Seq(Writes) /\ Len(t) = 3 /\ t[1] = u /\ t[2] = v /\ t[3] = w
  BY <1>5, <1>6, AppendProperties
<1>8. SaveSlot(m, s) = <<u, v>> /\ Write(CrcByte, Computed) = w
  BY <1>3 DEF SaveSlot, u, v, w, Write
<1> QED
  BY <1>1, <1>2, <1>4, <1>7, <1>8 DEF m, u, v, w

-----------------------------------------------------------------------------
(* While every write takes, the flash is in one of these phases. It was      *)
(* never written; it holds the keymap in RAM; or a save is under way.        *)
Headed == flash[Magic] = Good /\ flash[Rest] = Good /\ flash[StartByte] \in StartLayers
Holds(m) == \A c \in Cells : flash[c] = ByteOf(m, c)
CrcFits ==
  /\ flipped => flash[CrcByte] = Flip(Crc(ActionBytes))
  /\ ~flipped => flash[CrcByte] = Crc(ActionBytes)
Settled == Headed /\ Holds(ram) /\ ram = was /\ CrcFits

Blank == power = "off" /\ todo = <<>> /\ flash[Magic] = Erased /\ ram = DefaultMap
Resting == todo = <<>> /\ Settled

(* A whole save: not begun, when the flash is as it was; or between two of   *)
(* its writes, when the magic is bad, each cell has its byte or is still to  *)
(* be written, and the CRC comes after all cells.                            *)
Pending(x) == \E i \in 1..Len(todo) : todo[i].at = x
Before == (\E l \in StartLayers : todo = SaveAll(ram, l)) /\ (Loads => Holds(was))
Saving ==
  /\ flash[Magic] = Bad
  /\ Len(todo) >= 1 /\ todo[Len(todo)].at = Magic /\ todo[Len(todo)].val = Good
  /\ \A i \in 1..Len(todo) - 1 : todo[i].at # Magic
  /\ \A i \in 1..Len(todo) : /\ todo[i].at \in Cells => todo[i].val = ByteOf(ram, todo[i].at)
                             /\ todo[i].at = CrcByte => todo[i].val = Computed
  /\ \A i, j \in 1..Len(todo) : todo[i].at = CrcByte /\ todo[j].at \in Cells => j < i
  /\ \A c \in Cells : flash[c] = ByteOf(ram, c) \/ Pending(c)
  /\ \A c \in Cells : Pending(c) => Pending(CrcByte)
  /\ (~flipped /\ flash[CrcByte] = Crc(ActionBytes)) \/ Pending(CrcByte)
  /\ flash[Rest] = Good \/ Pending(Rest)
  /\ flash[StartByte] \in StartLayers \/ Pending(StartByte)

(* SET_ACTION for the slot s: three, two or one write to go. After the first *)
(* one a CRC that was not inverted fits only if that byte did not change.    *)
ToGo(s, n) ==
  /\ Len(todo) = n
  /\ n = 3 => todo[1] = [at |-> <<s, "lo">>, val |-> ByteOf(ram, <<s, "lo">>)]
  /\ n >= 2 => todo[n - 1] = [at |-> <<s, "hi">>, val |-> ByteOf(ram, <<s, "hi">>)]
  /\ todo[n] = [at |-> CrcByte, val |-> Computed]
Putting(s) ==
  /\ Headed
  /\ \/ /\ ToGo(s, 3) /\ Holds(was) /\ CrcFits
        /\ \A c \in Cells \ {<<s, "lo">>, <<s, "hi">>} : ByteOf(ram, c) = ByteOf(was, c)
     \/ /\ ToGo(s, 2) /\ (Loads => Holds(was) \/ flipped)
        /\ \A c \in Cells \ {<<s, "hi">>} : flash[c] = ByteOf(ram, c)
     \/ ToGo(s, 1) /\ Holds(ram)

(* The start layer or the CRC alone.                                         *)
Small ==
  /\ Settled /\ Len(todo) = 1
  /\ \/ todo[1].at = StartByte
     \/ todo[1].at = CrcByte /\ todo[1].val = Flip(flash[CrcByte])

Phase == Blank \/ Resting \/ Before \/ Saving \/ (\E s \in Places : Putting(s)) \/ Small
StoreInv == StoreTypes /\ (fails = 0 => ok /\ Phase)

(* What a boot then loads is the keymap of the last command or of the one    *)
(* that was interrupted, but for half an edit under an inverted CRC.         *)
LEMMA LoadsWhole ==
  ASSUME StoreTypes, Phase, Loads
  PROVE  Holds(was) \/ Holds(ram) \/ (flipped /\ HalfAnEdit)
<1>1. CASE Blank \/ Saving
  BY <1>1, StoreAssumption DEF Blank, Saving, Loads
<1>2. CASE Resting \/ Before \/ Small
  BY <1>2 DEF Resting, Before, Small, Settled
<1>3. CASE \E s \in Places : Putting(s)
  <2>1. PICK s \in Places : Putting(s)
    BY <1>3
  <2>2. ToGo(s, 2) => HalfAnEdit
    BY DEF ToGo, HalfAnEdit, Write
  <2> QED
    BY <2>1, <2>2 DEF Putting
<1> QED
  BY <1>1, <1>2, <1>3 DEF Phase

(* A settled flash loads, and loads the keymap in RAM, unless the recovery   *)
(* test inverted the CRC.                                                    *)
LEMMA SettledLoads ==
  ASSUME StoreTypes, Settled, ~flipped
  PROVE  Loads /\ Stored = ram
<1>1. Stored = ram
  BY BytesAre DEF Settled, Holds, StoreTypes
<1>2. \A s \in Places : Stored[s] \in ValidActions
  BY <1>1 DEF StoreTypes, Maps
<1> QED
  BY <1>1, <1>2 DEF Settled, CrcFits, Headed, Loads

-----------------------------------------------------------------------------
(* A boot loads what is stored or saves the defaults.                        *)
LEMMA BootKeeps ==
  ASSUME StoreInv, Boot
  PROVE  StoreInv'
<1>1. flash' = flash /\ fails' = fails /\ commands' = commands /\ ok' = TRUE
  BY DEF Boot
<1>2. CASE Loads
  <2>1. Stored \in Maps
    BY <1>2, BytesAre DEF StoreInv, Loads
  <2>2. power' = "up" /\ ram' = Stored /\ was' = Stored /\ todo' = <<>> /\ flipped' = FALSE
    BY <1>2 DEF Boot
  <2>3. StoreTypes'
    BY <1>1, <2>1, <2>2, EmptySeq DEF StoreInv, StoreTypes
  <2>4. ActionBytes' = ActionBytes
    BY <1>1 DEF ActionBytes
  <2>5. \A c \in Cells : flash[c] = ByteOf(Stored, c)
    BY <2>1, BytesAre DEF StoreInv
  <2>6. Resting'
    BY <1>1, <1>2, <2>2, <2>4, <2>5 DEF Loads, Resting, Settled, CrcFits, Headed, Holds
  <2> QED
    BY <1>1, <2>3, <2>6 DEF StoreInv, Phase
<1>3. CASE ~Loads
  <2>1. power' = "boot" /\ ram' = DefaultMap /\ was' = DefaultMap /\ todo' = SaveAll(DefaultMap, 0)
        /\ flipped' = flipped
    BY <1>3 DEF Boot
  <2>2. StoreTypes'
    BY <1>1, <2>1, SaveAllIs, StoreAssumption DEF StoreInv, StoreTypes
  <2>3. ~Loads'
    BY <1>1, <1>3 DEF Loads, ActionBytes, Stored
  <2>4. Before'
    BY <2>1, <2>3, StoreAssumption DEF Before
  <2> QED
    BY <1>1, <2>2, <2>4 DEF StoreInv, Phase
<1> QED
  BY <1>2, <1>3

(* Power goes.                                                               *)
LEMMA CutKeeps ==
  ASSUME StoreInv, PowerCut
  PROVE  StoreInv'
<1>1. UNCHANGED <<flash, ram, todo, ok, was, flipped, fails, commands>> /\ power' = "off" /\ power # "off"
  BY DEF PowerCut
<1>2. StoreTypes'
  BY <1>1 DEF StoreInv, StoreTypes
<1>3. fails = 0 => (Resting \/ Before \/ Saving \/ (\E s \in Places : Putting(s)) \/ Small)
  BY <1>1 DEF StoreInv, Phase, Blank
<1>4. ActionBytes' = ActionBytes /\ Loads' = Loads /\ Headed' = Headed
      /\ \A m \in Maps : Holds(m)' = Holds(m)
  BY <1>1 DEF ActionBytes, Loads, Stored, Headed, Holds
<1>5. Settled' = Settled /\ CrcFits' = CrcFits
  BY <1>1 DEF ActionBytes, Settled, CrcFits, Headed, Holds
<1>6. Resting' = Resting /\ Small' = Small
  BY <1>1, <1>4, <1>5 DEF Resting, Small
<1>7. Before' = Before
  BY <1>1, <1>4 DEF Before, StoreInv, StoreTypes
<1>8. Saving' = Saving
  BY <1>1, <1>4 DEF Saving, Pending
<1>9. \A s \in Places : Putting(s)' = Putting(s)
  BY <1>1, <1>4, <1>5 DEF Putting, ToGo, Headed, Holds
<1> QED
  BY <1>1, <1>2, <1>3, <1>6, <1>7, <1>8, <1>9 DEF StoreInv, Phase

(* A write that does not take ends the promise, and keeps the types.         *)
LEMMA FailKeeps ==
  ASSUME StoreInv, DoesNotTake
  PROVE  StoreInv'
<1>1. todo # <<>> /\ todo \in Seq(Writes)
  BY DEF DoesNotTake, StoreInv, StoreTypes
<1>2. Head(todo) \in Writes /\ AfterFailure \in Seq(Writes)
  BY <1>1, RestOfTodo
<1> DEFINE x == Head(todo).at
<1>3. x \in Addresses
  BY <1>2, ValueIs DEF StoreInv
<1>4. PICK v \in Misread(x) : flash' = [flash EXCEPT ![x] = v]
  BY DEF DoesNotTake
<1>5. x \notin Cells \cup {CrcByte} => v \in {flash[x], Erased}
  BY <1>4 DEF Misread
<1>6. x \in Cells \cup {CrcByte} => v \in Bytes
  BY <1>4 DEF Misread
<1>7. /\ x = Magic => v \in {Good, Bad, Erased}
      /\ x = Rest => v \in {Good, Erased}
      /\ x = StartByte => v \in StartLayers \cup {Erased}
  BY <1>5, Headers DEF StoreInv, StoreTypes
<1> HIDE DEF x
<1>8. /\ flash' = [a \in Addresses |-> flash'[a]] /\ \A c \in Cells : flash'[c] \in Bytes
      /\ flash'[CrcByte] \in Bytes
      /\ flash'[Magic] \in {Good, Bad, Erased} /\ flash'[Rest] \in {Good, Erased}
      /\ flash'[StartByte] \in StartLayers \cup {Erased}
  BY <1>3, <1>4, <1>6, <1>7, ByteWritten DEF StoreInv
<1>9. fails' \in 0..MaxFails /\ fails' # 0
  BY StoreAssumption DEF DoesNotTake, StoreInv, StoreTypes
<1>10. todo' \in Seq(Writes) /\ power' \in {"off", "boot", "up"} /\ ok' = FALSE
       /\ UNCHANGED <<ram, was, flipped, commands>>
  BY <1>2 DEF DoesNotTake, GoOn, StoreInv, StoreTypes
<1> QED
  BY <1>8, <1>9, <1>10 DEF StoreInv, StoreTypes

-----------------------------------------------------------------------------
(* A command finds the flash settled, if all writes took.                    *)
LEMMA CommandFinds ==
  ASSUME StoreInv, NEW m \in Maps, NEW t \in Seq(Writes), Command(m, t)
  PROVE  /\ StoreTypes' /\ flash' = flash /\ fails' = fails /\ ok' = TRUE
         /\ ram' = m /\ todo' = t /\ was' = was /\ power' = "up" /\ flipped' = flipped
         /\ ActionBytes' = ActionBytes /\ Loads' = Loads
         /\ fails = 0 => Settled
<1>1. StoreTypes'
  BY CommandKeepsTypes DEF StoreInv
<1>2. /\ flash' = flash /\ fails' = fails /\ ok' = TRUE /\ ram' = m /\ todo' = t /\ was' = was
      /\ flipped' = flipped
      /\ power = "up" /\ power' = power /\ todo = <<>>
  BY DEF Command
<1>3. ActionBytes' = ActionBytes /\ Loads' = Loads
  BY <1>2 DEF ActionBytes, Loads, Stored
<1>4. \A l \in StartLayers : SaveAll(ram, l) # <<>>
  <2>1. ASSUME NEW l \in StartLayers PROVE Len(SaveAll(ram, l)) = Len(CellOrder) + 5 /\ Len(CellOrder) \in Nat
    BY SaveAllIs DEF StoreInv, StoreTypes
  <2> QED
    BY <2>1
<1>5. fails = 0 => Settled
  BY <1>2, <1>4 DEF StoreInv, Phase, Blank, Resting, Before, Saving, Putting, ToGo, Small
<1> QED
  BY <1>1, <1>2, <1>3, <1>5

(* SET_ACTION starts the phase of its slot.                                  *)
LEMMA PutActionKeeps ==
  ASSUME StoreInv, NEW s \in Places, NEW a \in ValidActions, PutAction(s, a)
  PROVE  StoreInv'
<1> DEFINE m == [ram EXCEPT ![s] = a]
           t == Append(SaveSlot(m, s), Write(CrcByte, Computed))
<1>1. /\ m \in Maps /\ t \in Seq(Writes) /\ Len(t) = 3
      /\ t[1] = [at |-> <<s, "lo">>, val |-> ByteOf(m, <<s, "lo">>)]
      /\ t[2] = [at |-> <<s, "hi">>, val |-> ByteOf(m, <<s, "hi">>)]
      /\ t[3] = [at |-> CrcByte, val |-> Computed]
      /\ \A c \in Cells \ {<<s, "lo">>, <<s, "hi">>} : ByteOf(m, c) = ByteOf(ram, c)
  BY PutIs DEF StoreInv
<1>2. Command(m, t)
  BY DEF PutAction
<1> HIDE DEF m, t
<1>3. /\ StoreTypes' /\ flash' = flash /\ fails' = fails /\ ok' = TRUE
      /\ ram' = m /\ todo' = t /\ was' = was /\ flipped' = flipped
      /\ ActionBytes' = ActionBytes /\ (fails = 0 => Settled)
  BY <1>1, <1>2, CommandFinds
<1>4. ASSUME fails = 0 PROVE Putting(s)'
  <2>1. Settled
    BY <1>3, <1>4
  <2>2. Headed' /\ Holds(was)' /\ CrcFits'
    BY <1>3, <2>1 DEF Settled, CrcFits, Headed, Holds
  <2>3. ToGo(s, 3)'
    BY <1>1, <1>3 DEF ToGo
  <2>4. \A c \in Cells \ {<<s, "lo">>, <<s, "hi">>} : ByteOf(ram, c)' = ByteOf(was, c)'
    BY <1>1, <1>3, <2>1 DEF Settled, ByteOf
  <2> QED
    BY <2>2, <2>3, <2>4 DEF Putting
<1> QED
  BY <1>3, <1>4 DEF StoreInv, Phase

(* RESET starts a whole save of the defaults.                                *)
LEMMA ResetKeeps ==
  ASSUME StoreInv, ResetAll
  PROVE  StoreInv'
<1>1. DefaultMap \in Maps /\ 0 \in StartLayers /\ SaveAll(DefaultMap, 0) \in Seq(Writes)
  BY SaveAllIs, StoreAssumption
<1>2. /\ StoreTypes' /\ flash' = flash /\ fails' = fails /\ ok' = TRUE
      /\ ram' = DefaultMap /\ todo' = SaveAll(DefaultMap, 0) /\ was' = was
      /\ Loads' = Loads /\ (fails = 0 => Settled)
  BY <1>1, CommandFinds DEF ResetAll
<1>3. fails = 0 => Before'
  BY <1>1, <1>2 DEF Settled, Before, Holds
<1> QED
  BY <1>2, <1>3 DEF StoreInv, Phase

(* One write of a header byte whose cell bytes stay.                         *)
LEMMA SmallKeeps ==
  ASSUME StoreInv, NEW w \in Writes, Command(ram, <<w>>),
         w.at = StartByte \/ (w.at = CrcByte /\ w.val = Flip(flash[CrcByte]))
  PROVE  StoreInv'
<1>1. <<w>> \in Seq(Writes) /\ Len(<<w>>) = 1 /\ <<w>>[1] = w /\ ram \in Maps
  BY DEF StoreInv, StoreTypes
<1>2. /\ StoreTypes' /\ flash' = flash /\ fails' = fails /\ ok' = TRUE
      /\ ram' = ram /\ todo' = <<w>> /\ was' = was /\ flipped' = flipped
      /\ ActionBytes' = ActionBytes /\ (fails = 0 => Settled)
  BY <1>1, CommandFinds
<1>3. fails = 0 => Small'
  BY <1>1, <1>2 DEF Settled, CrcFits, Headed, Small, Holds
<1> QED
  BY <1>2, <1>3 DEF StoreInv, Phase

(* SET_LAYER writes one byte of the header.                                  *)
LEMMA StartLayerKeeps ==
  ASSUME StoreInv, NEW l \in StartLayers, SetStartLayer(l)
  PROVE  StoreInv'
<1>1. Write(StartByte, l) \in Writes /\ Write(StartByte, l).at = StartByte
  BY DEF Writes, Write
<1> QED
  BY <1>1, SmallKeeps DEF SetStartLayer

(* The recovery test writes the CRC alone.                                   *)
LEMMA CorruptKeeps ==
  ASSUME StoreInv, Corrupt
  PROVE  StoreInv'
<1> DEFINE v == Flip(flash[CrcByte])
<1>1. v \in Bytes
  BY StoreAssumption DEF StoreInv, StoreTypes
<1>2. Command(ram, <<Write(CrcByte, v)>>)
  BY DEF Corrupt
<1>3. Write(CrcByte, v) \in Writes /\ Write(CrcByte, v).at = CrcByte /\ Write(CrcByte, v).val = v
  BY <1>1 DEF Writes, Write
<1> QED
  BY <1>2, <1>3, SmallKeeps

-----------------------------------------------------------------------------
(* A write that takes changes the byte at its address and goes on with the   *)
(* next write.                                                               *)
LEMMA TakesIs ==
  ASSUME StoreTypes, Takes
  PROVE  LET w == todo[1]
         IN /\ StoreTypes' /\ todo # <<>> /\ w \in Writes /\ w.at \in Addresses
            /\ flash'[w.at] = Value(w) /\ \A a \in Addresses \ {w.at} : flash'[a] = flash[a]
            /\ Len(todo) \in Nat /\ Len(todo) >= 1 /\ Len(todo)' = Len(todo) - 1
            /\ \A i \in 1..Len(todo) - 1 : todo'[i] = todo[i + 1]
            /\ Len(todo) = 1 => todo' = <<>>
            /\ was' = IF Len(todo) = 1 /\ ok THEN ram ELSE was
            /\ ram' = ram /\ ok' = ok /\ fails' = fails
            /\ w.at # CrcByte => flipped' = flipped
            /\ w.at = CrcByte => flipped' = (w.val # Computed /\ ~flipped)
<1> DEFINE w == todo[1]
           x == w.at
           v == Value(w)
<1>1. todo # <<>> /\ todo \in Seq(Writes)
  BY DEF Takes, StoreTypes
<1>2. /\ w \in Writes /\ Head(todo) = w /\ Tail(todo) \in Seq(Writes)
      /\ Len(todo) \in Nat /\ Len(todo) >= 1 /\ Len(Tail(todo)) = Len(todo) - 1
      /\ \A i \in 1..Len(todo) - 1 : Tail(todo)[i] = todo[i + 1]
  BY <1>1, RestOfTodo
<1>3. /\ x \in Addresses /\ (x \in Cells => v \in Bytes) /\ (x = Magic => v \in {Good, Bad})
      /\ (x = Rest => v = Good) /\ (x = StartByte => v \in StartLayers) /\ (x = CrcByte => v \in Bytes)
  BY <1>2, ValueIs
<1>4. /\ flash' = [flash EXCEPT ![x] = v] /\ todo' = Tail(todo)
      /\ power' = IF todo' = <<>> THEN "up" ELSE power
      /\ was' = (IF Len(todo) = 1 /\ ok THEN ram ELSE was)
      /\ ram' = ram /\ ok' = ok /\ fails' = fails /\ commands' = commands
      /\ (x # CrcByte => flipped' = flipped)
      /\ (x = CrcByte => flipped' = (w.val # Computed /\ ~flipped))
  BY <1>2 DEF Takes, GoOn
<1> HIDE DEF x, v
<1>5. /\ flash' = [a \in Addresses |-> flash'[a]]
      /\ flash'[x] = v /\ \A a \in Addresses \ {x} : flash'[a] = flash[a]
      /\ \A c \in Cells : flash'[c] \in Bytes
      /\ flash'[Magic] \in {Good, Bad, Erased} /\ flash'[Rest] \in {Good, Erased}
      /\ flash'[StartByte] \in StartLayers \cup {Erased} /\ flash'[CrcByte] \in Bytes
  BY <1>3, <1>4, ByteWritten
<1>6. Len(todo) = 1 => Tail(todo) = <<>>
  <2>1. Tail(todo) # <<>> => Len(Tail(todo)) \in Nat \ {0}
    BY <1>2, EmptySeq
  <2> QED
    BY <2>1, <1>2
<1>7. StoreTypes'
  <2>1. flipped' \in BOOLEAN
    BY <1>4 DEF StoreTypes
  <2> QED
    BY <1>2, <1>4, <1>5, <2>1 DEF StoreTypes
<1> QED
  BY <1>1, <1>2, <1>3, <1>4, <1>5, <1>6, <1>7 DEF x, v

(* The bytes of the actions change with a cell and only with a cell.         *)
LEMMA BytesChange ==
  ASSUME StoreTypes, NEW x \in Addresses, NEW v, flash'[x] = v,
         \A a \in Addresses \ {x} : flash'[a] = flash[a]
  PROVE  /\ x \notin Cells => ActionBytes' = ActionBytes
         /\ x \in Cells => ActionBytes' = [ActionBytes EXCEPT ![x] = v]
  BY DEF ActionBytes, Addresses

(* The first write of a whole save makes the magic bad.                      *)
LEMMA BeforeGoesOn ==
  ASSUME StoreTypes, Before, Takes
  PROVE  Saving'
<1> DEFINE n == Len(CellOrder)
<1>1. PICK l \in StartLayers : todo = SaveAll(ram, l)
  BY DEF Before
<1>2. /\ n \in Nat /\ Len(todo) = n + 5 /\ todo[1] = Write(Magic, Bad)
      /\ \A i \in 1..n : CellOrder[i] \in Cells /\ todo[i + 1] = [at |-> CellOrder[i], val |-> ByteOf(ram, CellOrder[i])]
      /\ todo[n + 2] = Write(StartByte, l) /\ todo[n + 3] = Write(CrcByte, Computed)
      /\ todo[n + 4] = Write(Rest, Good) /\ todo[n + 5] = Write(Magic, Good)
  BY <1>1, SaveAllIs DEF StoreTypes
<1> HIDE DEF n
<1>3. flash'[Magic] = Bad
  <2>1. todo[1].at = Magic /\ todo[1].val = Bad
    BY <1>2 DEF Write
  <2> QED
    BY <2>1, TakesIs, ValueIs
<1>4. /\ Len(todo)' = n + 4 /\ \A i \in 1..n + 4 : todo'[i] = todo[i + 1]
      /\ ram' = ram
  BY <1>2, TakesIs
<1>5. ASSUME NEW i \in 1..n
      PROVE  /\ todo'[i].at = CellOrder[i] /\ todo'[i].at \in Cells
             /\ todo'[i].val = ByteOf(ram, CellOrder[i])
  <2>1. i \in 1..n + 4
    BY <1>2
  <2>2. todo'[i] = [at |-> CellOrder[i], val |-> ByteOf(ram, CellOrder[i])]
    BY <2>1, <1>2, <1>4
  <2> QED
    BY <2>2, <1>2
<1>6. /\ todo'[n + 1] = Write(StartByte, l) /\ todo'[n + 2] = Write(CrcByte, Computed)
      /\ todo'[n + 3] = Write(Rest, Good) /\ todo'[n + 4] = Write(Magic, Good)
  <2>1. n + 1 \in 1..n + 4 /\ n + 2 \in 1..n + 4 /\ n + 3 \in 1..n + 4 /\ n + 4 \in 1..n + 4
    BY <1>2
  <2>2. /\ todo'[n + 1] = todo[(n + 1) + 1] /\ todo'[n + 2] = todo[(n + 2) + 1]
        /\ todo'[n + 3] = todo[(n + 3) + 1] /\ todo'[n + 4] = todo[(n + 4) + 1]
    BY <2>1, <1>4
  <2>3. (n + 1) + 1 = n + 2 /\ (n + 2) + 1 = n + 3 /\ (n + 3) + 1 = n + 4 /\ (n + 4) + 1 = n + 5
    BY <1>2
  <2> QED
    BY <2>2, <2>3, <1>2
<1>7. /\ todo'[n + 1].at = StartByte
      /\ todo'[n + 2].at = CrcByte /\ todo'[n + 2].val = Computed
      /\ todo'[n + 3].at = Rest
      /\ todo'[n + 4].at = Magic /\ todo'[n + 4].val = Good
  BY <1>6 DEF Write
<1>8. Pending(CrcByte)' /\ Pending(Rest)' /\ Pending(StartByte)'
  <2>1. n + 1 \in 1..Len(todo)' /\ n + 2 \in 1..Len(todo)' /\ n + 3 \in 1..Len(todo)'
    BY <1>2, <1>4
  <2> QED
    BY <2>1, <1>7 DEF Pending
<1>9. ASSUME NEW c \in Cells PROVE Pending(c)'
  <2>1. PICK i \in 1..n : CellOrder[i] = c
    BY StoreAssumption DEF n
  <2>2. i \in 1..Len(todo)'
    BY <1>2, <1>4
  <2> QED
    BY <2>1, <2>2, <1>5 DEF Pending
<1>10. ASSUME NEW i \in 1..n + 4
       PROVE  /\ i \in 1..n + 3 => todo'[i].at # Magic
              /\ todo'[i].at \in Cells => i \in 1..n /\ todo'[i].val = ByteOf(ram, todo'[i].at)
              /\ todo'[i].at = CrcByte => i = n + 2 /\ todo'[i].val = Computed
  <2>1. CASE i \in 1..n
    BY <2>1, <1>5, Headers
  <2>2. CASE i \in {n + 1, n + 2, n + 3}
    BY <2>2, <1>7, Headers
  <2>3. CASE i = n + 4
    BY <2>3, <1>2, <1>7, Headers
  <2> QED
    BY <2>1, <2>2, <2>3, <1>2
<1>11. \A i, j \in 1..n + 4 : todo'[i].at = CrcByte /\ todo'[j].at \in Cells => j < i
  <2> SUFFICES ASSUME NEW i \in 1..n + 4, NEW j \in 1..n + 4, todo'[i].at = CrcByte, todo'[j].at \in Cells
               PROVE  j < i
    OBVIOUS
  <2>1. i = n + 2 /\ j \in 1..n
    BY <1>10
  <2> QED
    BY <2>1, <1>2
<1>12. \A c \in Cells : ByteOf(ram', c) = ByteOf(ram, c)
  BY <1>4 DEF ByteOf
<1>13. ASSUME NEW i \in 1..Len(todo)'
       PROVE  /\ todo'[i].at \in Cells => todo'[i].val = ByteOf(ram', todo'[i].at)
              /\ todo'[i].at = CrcByte => todo'[i].val = Computed
  <2>1. i \in 1..n + 4
    BY <1>4
  <2> QED
    BY <2>1, <1>10, <1>12
<1>14. Len(todo)' >= 1 /\ Len(todo)' - 1 = n + 3
  BY <1>2, <1>4
<1>15. \A i \in 1..Len(todo)' - 1 : todo'[i].at # Magic
  BY <1>2, <1>10, <1>14
<1> QED
  BY <1>3, <1>4, <1>7, <1>8, <1>9, <1>11, <1>13, <1>14, <1>15 DEF Saving
(* A whole save goes on, or ends with the flash settled.                     *)
LEMMA SavingGoesOn ==
  ASSUME StoreTypes, Saving, Takes, ok
  PROVE  Saving' \/ Resting'
<1> DEFINE w == todo[1]
           n == Len(todo)
<1>1. /\ StoreTypes' /\ w \in Writes /\ w.at \in Addresses /\ n \in Nat /\ n >= 1
      /\ flash'[w.at] = Value(w) /\ \A a \in Addresses \ {w.at} : flash'[a] = flash[a]
      /\ Len(todo)' = n - 1 /\ \A i \in 1..n - 1 : todo'[i] = todo[i + 1]
      /\ n = 1 => todo' = <<>> /\ was' = ram
      /\ ram' = ram
      /\ w.at # CrcByte => flipped' = flipped
      /\ w.at = CrcByte => flipped' = (w.val # Computed /\ ~flipped)
  BY TakesIs
<1>2. /\ w.at \in Cells => Value(w) = w.val
      /\ w.at = Magic => Value(w) = w.val
      /\ w.at = Rest => Value(w) = Good
      /\ w.at = StartByte => Value(w) \in StartLayers
      /\ w.at = CrcByte /\ w.val = Computed => Value(w) = Crc(ActionBytes)
  BY <1>1, ValueIs
<1>3. Magic \in Addresses /\ Rest \in Addresses /\ CrcByte \in Addresses /\ StartByte \in Addresses
      /\ \A c \in Cells : c \in Addresses
  BY Headers DEF Addresses
<1>4. /\ w.at \notin Cells => ActionBytes' = ActionBytes
      /\ w.at \in Cells => ActionBytes' = [ActionBytes EXCEPT ![w.at] = Value(w)]
  BY <1>1, BytesChange
<1>5. \A c \in Cells : ByteOf(ram', c) = ByteOf(ram, c)
  BY <1>1 DEF ByteOf
<1>6. CASE n = 1
  <2>1. w.at = Magic /\ w.val = Good
    BY <1>6 DEF Saving
  <2>2. \A x : x # Magic => ~Pending(x)
    BY <2>1, <1>6 DEF Pending
  <2>3. flash[Rest] = Good /\ flash[StartByte] \in StartLayers /\ flash[CrcByte] = Crc(ActionBytes)
        /\ ~flipped
    BY <2>2, Headers DEF Saving
  <2>4. Holds(ram)
    BY <2>2, Headers DEF Saving, Holds
  <2>5. flash'[Magic] = Good
    BY <1>1, <1>2, <2>1
  <2>6. \A a \in Addresses : a # Magic => flash'[a] = flash[a]
    BY <1>1, <2>1
  <2>7. Headed' /\ flash'[CrcByte] = Crc(ActionBytes)' /\ ~flipped'
    BY <1>1, <1>3, <1>4, <2>1, <2>3, <2>5, <2>6, Headers DEF Headed
  <2>8. Holds(ram)'
    BY <1>3, <1>5, <2>4, <2>6, Headers DEF Holds
  <2> QED
    BY <1>1, <1>6, <2>7, <2>8 DEF Resting, Settled, CrcFits
<1>7. CASE n > 1
  <2>1. w.at # Magic
    BY <1>7, <1>1 DEF Saving
  <2>2. flash'[Magic] = Bad
    BY <1>1, <1>3, <2>1 DEF Saving
  <2>3. \A x : w.at # x /\ Pending(x) => Pending(x)'
    <3> SUFFICES ASSUME NEW x, w.at # x, Pending(x) PROVE Pending(x)'
      OBVIOUS
    <3>1. PICK i \in 1..n : todo[i].at = x
      BY DEF Pending
    <3>2. i - 1 \in 1..n - 1 /\ todo'[i - 1] = todo[i]
      BY <3>1, <1>1
    <3> QED
      BY <3>1, <3>2, <1>1 DEF Pending
  <2>4. \A x : Pending(x)' => Pending(x)
    <3> SUFFICES ASSUME NEW x, Pending(x)' PROVE Pending(x)
      OBVIOUS
    <3>1. PICK i \in 1..n - 1 : todo'[i].at = x
      BY <1>1 DEF Pending
    <3>2. i + 1 \in 1..n /\ todo[i + 1].at = x
      BY <3>1, <1>1
    <3> QED
      BY <3>2 DEF Pending
  <2>5. ASSUME NEW c \in Cells, Pending(c)
        PROVE  Pending(CrcByte)'
    <3>1. w.at # CrcByte
      <4>1. PICK j \in 1..n : todo[j].at = c
        BY <2>5 DEF Pending
      <4>2. 1 \in 1..n /\ ~(j < 1)
        BY <1>1
      <4> QED
        BY <4>1, <4>2 DEF Saving
    <3>2. Pending(CrcByte)
      BY <2>5 DEF Saving
    <3> QED
      BY <3>1, <3>2, <2>3
  <2>6. Len(todo)' >= 1 /\ todo'[Len(todo)'] = todo[n] /\ Len(todo)' = n - 1
    BY <1>1, <1>7
  <2>7. ASSUME NEW i \in 1..n - 1
        PROVE  i + 1 \in 1..n /\ todo'[i] = todo[i + 1] /\ (i \in 1..n - 2 => i + 1 \in 1..n - 1)
    BY <1>1
  <2>8. \A i \in 1..n - 2 : todo'[i].at # Magic
    BY <2>7, <1>1 DEF Saving
  <2>9. \A i \in 1..n - 1 : /\ todo'[i].at \in Cells => todo'[i].val = ByteOf(ram', todo'[i].at)
                            /\ todo'[i].at = CrcByte => todo'[i].val = Computed
    BY <2>7, <1>5 DEF Saving
  <2>10. \A i, j \in 1..n - 1 : todo'[i].at = CrcByte /\ todo'[j].at \in Cells => j < i
    <3> SUFFICES ASSUME NEW i \in 1..n - 1, NEW j \in 1..n - 1, todo'[i].at = CrcByte, todo'[j].at \in Cells
                 PROVE  j < i
      OBVIOUS
    <3>1. i + 1 \in 1..n /\ j + 1 \in 1..n /\ todo[i + 1].at = CrcByte /\ todo[j + 1].at \in Cells
      BY <2>7
    <3>2. j + 1 < i + 1
      BY <3>1 DEF Saving
    <3> QED
      BY <3>2, <1>1
  <2>11. ASSUME NEW c \in Cells PROVE flash'[c] = ByteOf(ram', c) \/ Pending(c)'
    <3>1. CASE w.at = c
      <4>1. 1 \in 1..n
        BY <1>1
      <4> QED
        BY <4>1, <3>1, <1>1, <1>2, <1>5 DEF Saving
    <3>2. CASE w.at # c
      BY <3>2, <1>1, <1>3, <1>5, <2>3 DEF Saving
    <3> QED
      BY <3>1, <3>2
  <2>12. \A c \in Cells : Pending(c)' => Pending(CrcByte)'
    BY <2>4, <2>5
  <2>13. (~flipped' /\ flash'[CrcByte] = Crc(ActionBytes)') \/ Pending(CrcByte)'
    <3>1. CASE w.at \in Cells
      <4>1. Pending(w.at)
        BY <1>1 DEF Pending
      <4> QED
        BY <4>1, <3>1, <2>5
    <3>2. CASE w.at = CrcByte
      <4>1. w.val = Computed
        BY <3>2, <1>1 DEF Saving
      <4> QED
        BY <4>1, <3>2, <1>1, <1>2, <1>4, Headers
    <3>3. CASE w.at \notin Cells /\ w.at # CrcByte
      BY <3>3, <1>1, <1>3, <1>4, <2>3 DEF Saving
    <3> QED
      BY <3>1, <3>2, <3>3
  <2>14. flash'[Rest] = Good \/ Pending(Rest)'
    BY <1>1, <1>2, <1>3, <2>3 DEF Saving
  <2>15. flash'[StartByte] \in StartLayers \/ Pending(StartByte)'
    BY <1>1, <1>2, <1>3, <2>3 DEF Saving
  <2>16. todo'[Len(todo)'].at = Magic /\ todo'[Len(todo)'].val = Good
    BY <2>6 DEF Saving
  <2>17. \A i \in 1..Len(todo)' - 1 : todo'[i].at # Magic
    BY <2>6, <2>8, <1>1
  <2> HIDE DEF n, w
  <2> QED
    BY <2>2, <2>6, <2>9, <2>10, <2>11, <2>12, <2>13, <2>14, <2>15, <2>16, <2>17 DEF Saving
<1> QED
  BY <1>1, <1>6, <1>7

(* The CRC of two memories that differ in one byte is not the same.          *)
LEMMA CrcNotices ==
  ASSUME NEW m \in [Cells -> Bytes], NEW c \in Cells, NEW b \in Bytes, NEW m2,
         m2 = [m EXCEPT ![c] = b], Crc(m2) = Crc(m)
  PROVE  b = m[c]
  BY CrcAssumption

(* SET_ACTION's first byte leaves the CRC behind, unless it did not change;  *)
(* its second completes the keymap and its third the CRC.                    *)
LEMMA PuttingGoesOn ==
  ASSUME StoreTypes, NEW s \in Places, Putting(s), Takes, ok
  PROVE  Putting(s)' \/ Resting'
<1> DEFINE w == todo[1]
           n == Len(todo)
           lo == <<s, "lo">>
           hi == <<s, "hi">>
<1>1. /\ StoreTypes' /\ w \in Writes /\ w.at \in Addresses /\ n \in Nat /\ n >= 1
      /\ flash'[w.at] = Value(w) /\ \A a \in Addresses \ {w.at} : flash'[a] = flash[a]
      /\ Len(todo)' = n - 1 /\ \A i \in 1..n - 1 : todo'[i] = todo[i + 1]
      /\ n = 1 => todo' = <<>> /\ was' = ram
      /\ n # 1 => was' = was
      /\ ram' = ram
      /\ w.at # CrcByte => flipped' = flipped
      /\ w.at = CrcByte => flipped' = (w.val # Computed /\ ~flipped)
  BY TakesIs
<1>2. /\ w.at \in Cells => Value(w) = w.val /\ Value(w) \in Bytes
      /\ w.at = CrcByte /\ w.val = Computed => Value(w) = Crc(ActionBytes)
  BY <1>1, ValueIs
<1>3. Magic \in Addresses /\ Rest \in Addresses /\ CrcByte \in Addresses /\ StartByte \in Addresses
      /\ \A c \in Cells : c \in Addresses
  BY Headers DEF Addresses
<1>4. /\ w.at \notin Cells => ActionBytes' = ActionBytes
      /\ w.at \in Cells => ActionBytes' = [ActionBytes EXCEPT ![w.at] = Value(w)]
  BY <1>1, BytesChange
<1>5. \A c \in Cells : ByteOf(ram', c) = ByteOf(ram, c)
  BY <1>1 DEF ByteOf
<1>6. lo \in Cells /\ hi \in Cells /\ lo # hi
  BY DEF Cells
<1>7. w.at \in Cells \cup {CrcByte} => Headed'
  BY <1>1, <1>3, Headers DEF Putting, Headed
<1>8. CASE n = 3
  <2>1. /\ w = [at |-> lo, val |-> ByteOf(ram, lo)]
        /\ todo[2] = [at |-> hi, val |-> ByteOf(ram, hi)]
        /\ todo[3] = [at |-> CrcByte, val |-> Computed]
        /\ Holds(was) /\ CrcFits
        /\ \A c \in Cells \ {lo, hi} : ByteOf(ram, c) = ByteOf(was, c)
    BY <1>8 DEF Putting, ToGo
  <2>2. ToGo(s, 2)'
    <3>1. Len(todo)' = 2 /\ todo'[1] = todo[2] /\ todo'[2] = todo[3]
      BY <1>1, <1>8
    <3> QED
      BY <3>1, <2>1, <1>5, <1>6 DEF ToGo
  <2>3. \A c \in Cells \ {hi} : flash'[c] = ByteOf(ram', c)
    BY <1>1, <1>2, <1>3, <1>5, <1>6, <2>1 DEF Holds
  <2>4. Loads' => Holds(was)' \/ flipped'
    <3> SUFFICES ASSUME Loads', ~flipped' PROVE Holds(was)'
      OBVIOUS
    <3>1. flash'[CrcByte] = Crc(ActionBytes)' /\ flash'[CrcByte] = flash[CrcByte]
      BY <1>1, <1>3, <1>6, <2>1, Headers DEF Loads
    <3>2. ActionBytes \in [Cells -> Bytes] /\ ActionBytes' \in [Cells -> Bytes]
      BY <1>1, BytesAre DEF StoreTypes, ActionBytes
    <3>3. ~flipped
      BY <1>1, <1>6, <2>1, Headers
    <3>4. Crc(ActionBytes') = Crc(ActionBytes)
      BY <3>1, <3>3, <2>1 DEF CrcFits
    <3>5. Value(w) = ActionBytes[lo]
      <4>1. ActionBytes' = [ActionBytes EXCEPT ![lo] = Value(w)] /\ Value(w) \in Bytes
        BY <1>2, <1>4, <1>6, <2>1
      <4> QED
        BY <4>1, <3>2, <3>4, <1>6, CrcNotices
    <3>6. flash'[lo] = flash[lo]
      BY <3>5, <1>1, <1>6, <2>1 DEF ActionBytes
    <3>7. \A c \in Cells : flash'[c] = flash[c]
      BY <3>6, <1>1, <1>3, <2>1
    <3> QED
      BY <3>7, <1>1, <1>8, <2>1 DEF Holds, ByteOf
  <2> QED
    BY <1>6, <1>7, <2>1, <2>2, <2>3, <2>4 DEF Putting
<1>9. CASE n = 2
  <2>1. /\ w = [at |-> hi, val |-> ByteOf(ram, hi)]
        /\ todo[2] = [at |-> CrcByte, val |-> Computed]
        /\ \A c \in Cells \ {hi} : flash[c] = ByteOf(ram, c)
    BY <1>9 DEF Putting, ToGo
  <2>2. ToGo(s, 1)'
    <3>1. Len(todo)' = 1 /\ todo'[1] = todo[2]
      BY <1>1, <1>9
    <3> QED
      BY <3>1, <2>1 DEF ToGo
  <2>3. Holds(ram)'
    <3>1. flash'[hi] = ByteOf(ram, hi)
      BY <1>1, <1>2, <1>6, <2>1
    <3>2. \A c \in Cells \ {hi} : flash'[c] = flash[c]
      BY <1>1, <1>3, <2>1
    <3>3. \A c \in Cells : flash'[c] = ByteOf(ram', c)
      BY <3>1, <3>2, <1>5, <1>6, <2>1
    <3> QED
      BY <3>3 DEF Holds
  <2> QED
    BY <1>6, <1>7, <2>1, <2>2, <2>3 DEF Putting
<1>10. CASE n = 1
  <2>1. w = [at |-> CrcByte, val |-> Computed] /\ Holds(ram)
    BY <1>10 DEF Putting, ToGo
  <2>2. flash'[CrcByte] = Crc(ActionBytes)' /\ ~flipped'
    <3>1. w.at = CrcByte /\ w.val = Computed
      BY <2>1
    <3>2. flash'[CrcByte] = Crc(ActionBytes)'
      BY <3>1, <1>1, <1>2, <1>4, Headers
    <3>3. ~flipped'
      BY <3>1, <1>1
    <3> QED
      BY <3>2, <3>3
  <2>3. Holds(ram)'
    BY <1>1, <1>3, <1>5, <2>1, Headers DEF Holds
  <2> QED
    BY <1>1, <1>7, <1>10, <2>1, <2>2, <2>3 DEF Resting, Settled, CrcFits
<1>11. n \in {1, 2, 3}
  BY DEF Putting, ToGo
<1> QED
  BY <1>8, <1>9, <1>10, <1>11

(* One byte of the header, and the flash is settled again.                   *)
LEMMA SmallGoesOn ==
  ASSUME StoreTypes, Small, Takes, ok
  PROVE  Resting'
<1> DEFINE w == todo[1]
<1>1. /\ StoreTypes' /\ w \in Writes /\ w.at \in Addresses
      /\ flash'[w.at] = Value(w) /\ \A a \in Addresses \ {w.at} : flash'[a] = flash[a]
      /\ todo' = <<>> /\ was' = ram /\ ram' = ram
      /\ w.at # CrcByte => flipped' = flipped
      /\ w.at = CrcByte => flipped' = (w.val # Computed /\ ~flipped)
  BY TakesIs DEF Small
<1>2. w.at = StartByte => Value(w) \in StartLayers
  BY <1>1, ValueIs
<1>3. Magic \in Addresses /\ Rest \in Addresses /\ CrcByte \in Addresses /\ StartByte \in Addresses
      /\ \A c \in Cells : c \in Addresses
  BY Headers DEF Addresses
<1>4. w.at \notin Cells /\ w.at # Magic /\ w.at # Rest
  BY Headers DEF Small
<1>5. ActionBytes' = ActionBytes
  BY <1>1, <1>4, BytesChange
<1>6. Holds(ram)'
  <2>1. \A c \in Cells : flash'[c] = flash[c] /\ flash[c] = ByteOf(ram, c)
    BY <1>1, <1>3, <1>4 DEF Small, Settled, Holds
  <2>2. \A c \in Cells : ByteOf(ram', c) = ByteOf(ram, c)
    BY <1>1 DEF ByteOf
  <2>3. \A c \in Cells : flash'[c] = ByteOf(ram', c)
    BY <2>1, <2>2
  <2> QED
    BY <2>3 DEF Holds
<1>7. Headed'
  BY <1>1, <1>2, <1>3, <1>4 DEF Small, Settled, Headed
<1>8. CrcFits'
  <2>1. CASE w.at = StartByte
    BY <2>1, <1>1, <1>3, <1>5, Headers DEF Small, Settled, CrcFits
  <2>2. CASE w.at = CrcByte /\ w.val = Flip(flash[CrcByte])
    <3>1. w.val \in Bytes /\ w.val # Computed
      BY <2>2, StoreAssumption DEF StoreTypes
    <3>2. flash'[CrcByte] = Flip(flash[CrcByte]) /\ flipped' = ~flipped
      BY <2>2, <3>1, <1>1, ValueIs
    <3>3. Crc(ActionBytes) \in Bytes
      BY BytesAre, CrcAssumption
    <3>4. Flip(Flip(Crc(ActionBytes))) = Crc(ActionBytes)
      BY <3>3, StoreAssumption
    <3> QED
      BY <3>2, <3>4, <1>5 DEF Small, Settled, CrcFits, StoreTypes
  <2> QED
    BY <2>1, <2>2 DEF Small
<1> QED
  BY <1>1, <1>5, <1>6, <1>7, <1>8 DEF Resting, Settled

(* A write that takes goes on with the phase it finds.                       *)
LEMMA TakesKeeps ==
  ASSUME StoreInv, Takes
  PROVE  StoreInv'
<1>1. StoreTypes' /\ fails' = fails /\ ok' = ok /\ todo # <<>> /\ power # "off"
  BY TakesIs DEF StoreInv, Takes
<1>2. ASSUME fails = 0, ok, Phase PROVE Phase'
  <2>1. CASE Before
    BY <2>1, BeforeGoesOn DEF StoreInv, Phase
  <2>2. CASE Saving
    BY <2>2, <1>2, SavingGoesOn DEF StoreInv, Phase
  <2>3. CASE \E s \in Places : Putting(s)
    BY <2>3, <1>2, PuttingGoesOn DEF StoreInv, Phase
  <2>4. CASE Small
    BY <2>4, <1>2, SmallGoesOn DEF StoreInv, Phase
  <2>5. ~Blank /\ ~Resting
    BY <1>1 DEF Blank, Resting
  <2> QED
    BY <2>1, <2>2, <2>3, <2>4, <2>5, <1>2 DEF Phase
<1> QED
  BY <1>1, <1>2 DEF StoreInv

(* The other parts of the pad leave the flash alone.                         *)
LEMMA StoreRests ==
  ASSUME StoreInv, UNCHANGED storeVars
  PROVE  StoreInv'
<1>1. UNCHANGED <<flash, ram, power, todo, ok, was, flipped, fails, commands>>
  BY DEF storeVars
<1>2. StoreTypes'
  BY <1>1 DEF StoreInv, StoreTypes
<1>3. ActionBytes' = ActionBytes /\ Loads' = Loads /\ Headed' = Headed
      /\ \A m \in Maps : Holds(m)' = Holds(m)
  BY <1>1 DEF ActionBytes, Loads, Stored, Headed, Holds
<1>4. Settled' = Settled /\ CrcFits' = CrcFits
  BY <1>1 DEF ActionBytes, Settled, CrcFits, Headed, Holds
<1>5. Blank' = Blank /\ Resting' = Resting /\ Small' = Small
  BY <1>1, <1>3, <1>4 DEF Blank, Resting, Small
<1>6. Before' = Before
  BY <1>1, <1>3 DEF Before, StoreInv, StoreTypes
<1>7. Saving' = Saving
  BY <1>1, <1>3 DEF Saving, Pending
<1>8. \A s \in Places : Putting(s)' = Putting(s)
  BY <1>1, <1>3, <1>4 DEF Putting, ToGo, Headed, Holds
<1> QED
  BY <1>1, <1>2, <1>5, <1>6, <1>7, <1>8 DEF StoreInv, Phase

(* The phases are an inductive invariant of the store.                       *)
LEMMA StoreInvHolds ==
  /\ StoreInit => StoreInv
  /\ StoreInv /\ [StoreNext]_storeVars => StoreInv'
<1>1. ASSUME StoreInit PROVE StoreInv
  <2>1. flash[Magic] = Erased
    BY <1>1, Headers DEF StoreInit
  <2> QED
    BY <2>1, <1>1, TypesInit DEF StoreInit, StoreInv, Phase, Blank
<1>2. ASSUME StoreInv, StoreNext PROVE StoreInv'
  <2>1. CASE Boot
    BY <1>2, <2>1, BootKeeps
  <2>2. CASE PowerCut
    BY <1>2, <2>2, CutKeeps
  <2>3. CASE Takes
    BY <1>2, <2>3, TakesKeeps
  <2>4. CASE DoesNotTake
    BY <1>2, <2>4, FailKeeps
  <2>5. ASSUME NEW s \in Places, NEW a \in ValidActions, PutAction(s, a) PROVE StoreInv'
    BY <1>2, <2>5, PutActionKeeps
  <2>6. CASE ResetAll
    BY <1>2, <2>6, ResetKeeps
  <2>7. ASSUME NEW l \in StartLayers, SetStartLayer(l) PROVE StoreInv'
    BY <1>2, <2>7, StartLayerKeeps
  <2>8. CASE Corrupt
    BY <1>2, <2>8, CorruptKeeps
  <2> QED
    BY <1>2, <2>1, <2>2, <2>3, <2>4, <2>5, <2>6, <2>7, <2>8 DEF StoreNext
<1> QED
  BY <1>1, <1>2, StoreRests

(* What a boot promises in such a state.                                     *)
LEMMA BootIsSafe ==
  ASSUME StoreInv, Boot, fails = 0
  PROVE  /\ ram' \in AskedFor \/ (flipped /\ HalfAnEdit)
         /\ todo = <<>> /\ ~flipped => ram' = ram
<1>1. StoreTypes /\ Phase /\ ram \in Maps /\ was \in Maps
  BY DEF StoreInv, StoreTypes
<1>2. ram' = IF Loads THEN Stored ELSE DefaultMap
  BY DEF Boot
<1>3. Loads => Stored \in {was, ram} \/ (flipped /\ HalfAnEdit)
  BY <1>1, LoadsWhole, BytesAre DEF Holds
<1>4. ASSUME todo = <<>>, ~flipped PROVE ram' = ram
  <2>1. Len(todo) = 0
    BY <1>4
  <2>2. ~Before
    <3>1. \A l \in StartLayers : Len(SaveAll(ram, l)) = Len(CellOrder) + 5 /\ Len(CellOrder) \in Nat
      BY <1>1, SaveAllIs
    <3> QED
      BY <2>1, <3>1 DEF Before
  <2>3. Blank \/ Resting
    BY <1>1, <2>1, <2>2 DEF Phase, Saving, Putting, ToGo, Small
  <2>4. CASE Blank
    BY <2>4, <1>2, StoreAssumption DEF Blank, Loads
  <2>5. CASE Resting
    BY <2>5, <1>1, <1>2, <1>4, SettledLoads DEF Resting
  <2> QED
    BY <2>3, <2>4, <2>5
<1> QED
  BY <1>2, <1>3, <1>4 DEF AskedFor

(* So the two promises hold of every step from such a state.                 *)
LEMMA StoreStep ==
  StoreInv => BootFindsWhole /\ Durable
  BY BootIsSafe DEF BootFindsWhole, Durable

-----------------------------------------------------------------------------
(* What the invariant says of the types.                                     *)
LEMMA StoreTypesGiven == StoreInv => StoreTypeOK
<1> SUFFICES ASSUME StoreInv PROVE StoreTypeOK
  OBVIOUS
<1>1. StoreTypes /\ ActionBytes \in [Cells -> Bytes]
  BY BytesAre DEF StoreInv
<1>2. \A i \in 1..Len(todo) : todo[i].at \in Cells \cup Header
  <2> SUFFICES ASSUME NEW i \in 1..Len(todo) PROVE todo[i].at \in Cells \cup Header
    OBVIOUS
  <2>1. todo[i] \in Writes
    BY <1>1, ElementOfSeq DEF StoreTypes
  <2> QED
    BY <1>1, <2>1, ValueIs DEF Addresses
<1> QED
  BY <1>1, <1>2 DEF StoreTypes, StoreTypeOK

(* The stored keymap's type invariant holds of every behaviour of the store  *)
(* (padstore.c).                                                             *)
THEOREM StoreTypeCorrect == StoreSpec => []StoreTypeOK
  BY StoreTypesGiven, StoreInvHolds, PTL DEF StoreSpec

(* Power may go before, between or after the writes of any command: as long  *)
(* as every write takes, a boot finds a keymap somebody asked for, whole, and*)
(* finds the last one that was completed (PADSTORE_init, loadStored), but    *)
(* for an edit cut in half while CMD_CORRUPT has the CRC inverted.  Of the   *)
(* CRC it is assumed that it is a byte and notices one changed byte.         *)
THEOREM StoreIsSafe == StoreSpec => [][BootFindsWhole /\ Durable]_storeVars
<1>1. StoreInv /\ [StoreNext]_storeVars => [BootFindsWhole /\ Durable]_storeVars
  BY StoreStep
<1> QED
  BY <1>1, StoreInvHolds, PTL DEF StoreSpec

(* The same of the store among the parts of the pad.                         *)
THEOREM PadFlashIsSafe == PadSpec => FlashIsSafe
<1>1. PadInit => StoreInv
  BY StoreInvHolds DEF PadInit
<1>2. PadNext => StoreNext \/ UNCHANGED storeVars
  BY DEF PadNext
<1>3. StoreInv /\ [PadNext]_padVariables => StoreInv'
  <2>1. UNCHANGED padVariables => UNCHANGED storeVars
    BY DEF padVariables
  <2> QED
    BY <1>2, <2>1, StoreInvHolds
<1>4. StoreInv => (part = "store" => BootFindsWhole /\ Durable)
  BY StoreStep
<1> QED
  BY <1>1, <1>3, <1>4, PTL DEF PadSpec, FlashIsSafe
-----------------------------------------------------------------------------
(* The same of the pad as the run has it, where a behaviour is one of the    *)
(* core or of another part.                                                  *)
ChordsInv == part = "chords" => CoreInv

(* A behaviour of the run that is of this part starts in the invariant. *)
LEMMA ChordsStart ==
  ASSUME PadInit
  PROVE  ChordsInv /\ (part = "chords" => Raw!PadInit)
<1>1. part = "chords" => Init
  BY DEF PadInit
<1> QED
  BY <1>1, CoreStart DEF ChordsInv

(* Every step of the run keeps the invariant, and a step of this part is one *)
(* of the contract or none of it.                                            *)
LEMMA ChordsStep ==
  ASSUME ChordsInv, [PadNext]_padVariables
  PROVE  ChordsInv' /\ (part = "chords" => RawStep)
<1>1. part' = part
  BY DEF PadNext, padVariables
<1>2. CASE part = "chords"
  <2>1. CoreInv
    BY <1>2 DEF ChordsInv
  <2>2. Next \/ UNCHANGED vars
    BY <1>2 DEF PadNext, padVariables
  <2>3. CoreInv' /\ RawStep
    BY <2>1, <2>2, CoreStep, CoreStutters
  <2> QED
    BY <2>3 DEF ChordsInv
<1>3. CASE part # "chords"
  BY <1>1, <1>3 DEF ChordsInv
<1> QED
  BY <1>2, <1>3

(* The property the run checks of the keys (padlogic.c): nothing stays down *)
(* that no slot or tap accounts for, raw mode types nothing, a momentary    *)
(* layer lasts as long as the key that holds it, a key the host has down is *)
(* held, and a chord's release leaves the modifiers other keys need.        *)
THEOREM PadKeysAreSound == PadSpec => []KeysAreSound
<1>1. PadInit => ChordsInv
  BY ChordsStart
<1>2. ChordsInv /\ [PadNext]_padVariables => ChordsInv'
  BY ChordsStep
<1>3. ChordsInv => KeysAreSound
  BY CoreInvGives DEF ChordsInv, KeysAreSound
<1> QED
  BY <1>1, <1>2, <1>3, PTL DEF PadSpec

(* The refinement the run checks: behind any keymap, layers, chords and      *)
(* commands the firmware's raw mode is the contract RawPad that the daemon's *)
(* session relies on.                                                        *)
THEOREM PadIsRawPad == PadSpec => RawIsRawPad
<1>1. PadInit => ChordsInv /\ (part = "chords" => Raw!PadInit)
  BY ChordsStart
<1>2. ChordsInv /\ [PadNext]_padVariables => ChordsInv'
  BY ChordsStep
<1>3. ChordsInv /\ [PadNext]_padVariables =>
        [part = "chords" => Raw!PadNext \/ UNCHANGED rawVars]_padVariables
  BY ChordsStep DEF RawStep
<1> QED
  BY <1>1, <1>2, <1>3, PTL DEF PadSpec, RawIsRawPad

-----------------------------------------------------------------------------
(* A knob.  Its decoder counts quarters, emits a detent for four of them and *)
(* drops the rest of a count at rest; the history tells what really happened *)
(* since, and the invariant is how far the two may differ.                   *)
(* What is known of a cycle after c quarters were counted and t turned: a    *)
(* state is missed only while turning one way, a press keeps within one      *)
(* quarter, and otherwise the turning is what was counted and emitted, with  *)
(* half a detent the way of it if a state was missed with nothing counted.   *)
Says(c, t, net, dir, blind, skipped, far, back, down) ==
  /\ skipped => ~back /\ far
  /\ blind = 0 \/ (blind = 1 /\ skipped)
  /\ dir \in {-1, 0, 1}
  /\ down => ~far
  /\ ~far => t \in -1..1 /\ net = 0
  /\ far => dir # 0
  /\ dir = 0 => t = 0 /\ c = 0
  /\ ~down => t = 4 * net + c + 2 * dir * blind
  /\ ~back => dir * c >= 0 /\ dir * t >= 0
  /\ down => c - t \in -1..1

(* What a count of quarters comes to: the detents of a full cycle, and what  *)
(* is left; at rest a half cycle's detent too.                               *)
Overs(c, rest, n) ==
  \/ c >= 4 /\ rest = c - 4 /\ n = 1
  \/ c <= -4 /\ rest = c + 4 /\ n = -1
  \/ c \in -3..3 /\ rest = c /\ n = 0
Rests(c, n) ==
  \/ c \in 2..5 /\ n = 1
  \/ c \in -1..1 /\ n = 0
  \/ c \in -5..-2 /\ n = -1

(* A missed state: two quarters the way counted so far, if any.              *)
Twice(c, steps, blind, blind2) ==
  \/ c > 0 /\ steps = 2 /\ blind2 = blind
  \/ c < 0 /\ steps = -2 /\ blind2 = blind
  \/ c = 0 /\ steps = 0 /\ blind2 = blind + 1

(* How one sample's flags and counts follow from the last one's.             *)
Farther(far2, far, t) == far2 <=> (far \/ t \notin -1..1)
TurnsBack(back2, back, way, dir) == back2 <=> (back \/ way * dir = -1)

Keeps(skipped, back, down, far) == (skipped => ~back) /\ (down => ~far)
TwoOn(tt, t, way) == tt = t + 2 * way
OneWay(way) == way = 1 \/ way = -1
Adds(sum, a, b) == sum = a + b
Fours(t, q) == t = 4 * q
Yes(b) == b = TRUE
Presses(down2, down) == down => down2

(* No move: only a press can be new.                                         *)
LEMMA StillGoes ==
  ASSUME NEW c \in -3..3, NEW t \in Int, NEW net \in Int, NEW dir \in Int, NEW blind \in Int,
         NEW skipped, NEW far, NEW back, NEW down,
         Says(c, t, net, dir, blind, skipped, far, back, down),
         NEW far2, NEW down2,
         Farther(far2, far, t), Presses(down2, down), Keeps(skipped, back, down2, far2)
  PROVE  Says(c, t, net, dir, blind, skipped, far2, back, down2)
<1>1. CASE dir = 0
  BY <1>1 DEF Says, Farther, Keeps, Presses
<1>2. CASE dir = 1
  BY <1>2 DEF Says, Farther, Keeps, Presses
<1>3. CASE dir = -1
  BY <1>3 DEF Says, Farther, Keeps, Presses
<1> QED
  BY <1>1, <1>2, <1>3 DEF Says, Keeps, Presses

(* A quarter counted.                                                        *)
LEMMA QuarterGoes ==
  ASSUME NEW c \in -3..3, NEW t \in Int, NEW net \in Int, NEW dir \in Int, NEW blind \in Int,
         NEW skipped, NEW far, NEW back, NEW down,
         Says(c, t, net, dir, blind, skipped, far, back, down),
         NEW far2, NEW back2,
         NEW way \in Int, OneWay(way), NEW c2 \in Int, NEW n \in Int,
         NEW tt \in Int, Adds(tt, t, way), NEW s \in Int, Adds(s, c, way),
         NEW net2 \in Int, Adds(net2, net, n),
         Farther(far2, far, tt), TurnsBack(back2, back, way, dir),
         Keeps(skipped, back2, down, far2), Overs(s, c2, n)
  PROVE  Says(c2, tt, net2, way, blind, skipped, far2, back2, down)
<1>1. CASE way = 1 /\ dir = 0
  BY <1>1 DEF Says, Overs, Farther, TurnsBack, Keeps, OneWay, Adds
<1>2. CASE way = 1 /\ dir = 1
  BY <1>2 DEF Says, Overs, Farther, TurnsBack, Keeps, OneWay, Adds
<1>3. CASE way = 1 /\ dir = -1
  BY <1>3 DEF Says, Overs, Farther, TurnsBack, Keeps, OneWay, Adds
<1>4. CASE way = -1 /\ dir = 0
  BY <1>4 DEF Says, Overs, Farther, TurnsBack, Keeps, OneWay, Adds
<1>5. CASE way = -1 /\ dir = 1
  BY <1>5 DEF Says, Overs, Farther, TurnsBack, Keeps, OneWay, Adds
<1>6. CASE way = -1 /\ dir = -1
  BY <1>6 DEF Says, Overs, Farther, TurnsBack, Keeps, OneWay, Adds
<1> QED
  BY <1>1, <1>2, <1>3, <1>4, <1>5, <1>6 DEF Says, Keeps, OneWay, Adds

(* A quarter while the decoder is frozen.                                    *)
LEMMA FrozenGoes ==
  ASSUME NEW c \in -3..3, NEW t \in Int, NEW net \in Int, NEW dir \in Int, NEW blind \in Int,
         NEW skipped, NEW far, NEW back, NEW down,
         Says(c, t, net, dir, blind, skipped, far, back, down),
         NEW far2, NEW back2,
         NEW way \in Int, OneWay(way), NEW tt \in Int, Adds(tt, t, way), NEW c2, c2 = 0,
         Farther(far2, far, tt), TurnsBack(back2, back, way, dir),
         NEW down2, Yes(down2), Keeps(skipped, back2, down2, far2)
  PROVE  Says(c2, tt, net, way, blind, skipped, far2, back2, down2)
<1>1. CASE way = 1 /\ dir = 0
  BY <1>1 DEF Says, Farther, TurnsBack, Keeps, Yes, OneWay, Adds
<1>2. CASE way = 1 /\ dir = 1
  BY <1>2 DEF Says, Farther, TurnsBack, Keeps, Yes, OneWay, Adds
<1>3. CASE way = 1 /\ dir = -1
  BY <1>3 DEF Says, Farther, TurnsBack, Keeps, Yes, OneWay, Adds
<1>4. CASE way = -1 /\ dir = 0
  <2>1. t = 0 /\ c = 0 /\ net = 0 /\ blind = 0 /\ ~far /\ ~skipped
    BY <1>4 DEF Says, Keeps, Yes, OneWay, Adds
  <2> QED
    BY <1>4, <2>1 DEF Says, Farther, TurnsBack, Keeps, Yes, OneWay, Adds
<1>5. CASE way = -1 /\ dir = 1
  BY <1>5 DEF Says, Farther, TurnsBack, Keeps, Yes, OneWay, Adds
<1>6. CASE way = -1 /\ dir = -1
  BY <1>6 DEF Says, Farther, TurnsBack, Keeps, Yes, OneWay, Adds
<1> QED
  BY <1>1, <1>2, <1>3, <1>4, <1>5, <1>6 DEF Says, Keeps, Yes, OneWay, Adds

(* A state missed.                                                           *)
LEMMA MissedGoes ==
  ASSUME NEW c \in -3..3, NEW t \in Int, NEW net \in Int, NEW dir \in Int, NEW blind \in Int,
         NEW skipped, NEW far, NEW back, NEW down,
         Says(c, t, net, dir, blind, skipped, far, back, down),
         NEW far2, NEW back2,
         NEW way \in Int, OneWay(way), NEW steps \in Int, NEW blind2 \in Int, NEW c2 \in Int, NEW n \in Int,
         NEW tt \in Int, TwoOn(tt, t, way), NEW s \in Int, Adds(s, c, steps),
         NEW net2 \in Int, Adds(net2, net, n),
         Farther(far2, far, tt), TurnsBack(back2, back, way, dir),
         NEW skipped2, Yes(skipped2), Keeps(skipped2, back2, down, far2), blind2 <= 1,
         Twice(c, steps, blind, blind2), Overs(s, c2, n)
  PROVE  Says(c2, tt, net2, way, blind2, skipped2, far2, back2, down)
<1>1. CASE way = 1 /\ dir = 0
  BY <1>1 DEF Says, Overs, Twice, Farther, TurnsBack, Keeps, Yes, OneWay, TwoOn, Adds
<1>2. CASE way = 1 /\ dir = 1
  BY <1>2 DEF Says, Overs, Twice, Farther, TurnsBack, Keeps, Yes, OneWay, TwoOn, Adds
<1>3. CASE way = 1 /\ dir = -1
  BY <1>3 DEF Says, Overs, Twice, Farther, TurnsBack, Keeps, Yes, OneWay, TwoOn, Adds
<1>4. CASE way = -1 /\ dir = 0
  BY <1>4 DEF Says, Overs, Twice, Farther, TurnsBack, Keeps, Yes, OneWay, TwoOn, Adds
<1>5. CASE way = -1 /\ dir = 1
  BY <1>5 DEF Says, Overs, Twice, Farther, TurnsBack, Keeps, Yes, OneWay, TwoOn, Adds
<1>6. CASE way = -1 /\ dir = -1
  BY <1>6 DEF Says, Overs, Twice, Farther, TurnsBack, Keeps, Yes, OneWay, TwoOn, Adds
<1> QED
  BY <1>1, <1>2, <1>3, <1>4, <1>5, <1>6 DEF Says, Keeps, Yes, OneWay, TwoOn, Adds

(* No press lasts over a missed state.                                       *)
LEMMA FrozenMissesNone ==
  ASSUME NEW c \in -3..3, NEW t \in Int, NEW net \in Int, NEW dir \in Int, NEW blind \in Int,
         NEW skipped, NEW far, NEW back, NEW down,
         Says(c, t, net, dir, blind, skipped, far, back, down),
         NEW far2, NEW back2,
         NEW way \in Int, OneWay(way), NEW tt \in Int, TwoOn(tt, t, way),
         Farther(far2, far, tt), TurnsBack(back2, back, way, dir),
         NEW skipped2, NEW down2, Yes(skipped2), Yes(down2), Keeps(skipped2, back2, down2, far2)
  PROVE  FALSE
<1>1. CASE way = 1 /\ dir = 0
  BY <1>1 DEF Says, Farther, TurnsBack, Keeps, Yes, OneWay, TwoOn
<1>2. CASE way = 1 /\ dir = 1
  BY <1>2 DEF Says, Farther, TurnsBack, Keeps, Yes, OneWay, TwoOn
<1>3. CASE way = 1 /\ dir = -1
  BY <1>3 DEF Says, Farther, TurnsBack, Keeps, Yes, OneWay, TwoOn
<1>4. CASE way = -1 /\ dir = 0
  BY <1>4 DEF Says, Farther, TurnsBack, Keeps, Yes, OneWay, TwoOn
<1>5. CASE way = -1 /\ dir = 1
  BY <1>5 DEF Says, Farther, TurnsBack, Keeps, Yes, OneWay, TwoOn
<1>6. CASE way = -1 /\ dir = -1
  BY <1>6 DEF Says, Farther, TurnsBack, Keeps, Yes, OneWay, TwoOn
<1> QED
  BY <1>1, <1>2, <1>3, <1>4, <1>5, <1>6 DEF Says, Keeps, Yes, OneWay, TwoOn

(* Back at rest after a quarter: the detents are the turning, in fours.      *)
LEMMA QuarterRests ==
  ASSUME NEW c \in -3..3, NEW t \in Int, NEW net \in Int, NEW dir \in Int, NEW blind \in Int,
         NEW skipped, NEW far, NEW back, NEW down,
         Says(c, t, net, dir, blind, skipped, far, back, down),
         NEW far2, NEW back2,
         NEW way \in Int, OneWay(way), NEW n \in Int, NEW q \in Int,
         NEW tt \in Int, Adds(tt, t, way), NEW s \in Int, Adds(s, c, way),
         NEW net2 \in Int, Adds(net2, net, n),
         Farther(far2, far, tt), TurnsBack(back2, back, way, dir),
         Keeps(skipped, back2, down, far2), Rests(s, n), Fours(tt, q)
  PROVE  Fours(tt, net2)
<1>1. CASE way = 1 /\ dir = 0
  BY <1>1 DEF Says, Rests, Farther, TurnsBack, Keeps, OneWay, Adds, Fours
<1>2. CASE way = 1 /\ dir = 1
  BY <1>2 DEF Says, Rests, Farther, TurnsBack, Keeps, OneWay, Adds, Fours
<1>3. CASE way = 1 /\ dir = -1
  BY <1>3 DEF Says, Rests, Farther, TurnsBack, Keeps, OneWay, Adds, Fours
<1>4. CASE way = -1 /\ dir = 0
  BY <1>4 DEF Says, Rests, Farther, TurnsBack, Keeps, OneWay, Adds, Fours
<1>5. CASE way = -1 /\ dir = 1
  BY <1>5 DEF Says, Rests, Farther, TurnsBack, Keeps, OneWay, Adds, Fours
<1>6. CASE way = -1 /\ dir = -1
  BY <1>6 DEF Says, Rests, Farther, TurnsBack, Keeps, OneWay, Adds, Fours
<1> QED
  BY <1>1, <1>2, <1>3, <1>4, <1>5, <1>6 DEF Says, Keeps, OneWay, Adds, Fours

(* Or after a state that was missed.                                         *)
LEMMA MissedRests ==
  ASSUME NEW c \in -3..3, NEW t \in Int, NEW net \in Int, NEW dir \in Int, NEW blind \in Int,
         NEW skipped, NEW far, NEW back, NEW down,
         Says(c, t, net, dir, blind, skipped, far, back, down),
         NEW far2, NEW back2,
         NEW way \in Int, OneWay(way), NEW steps \in Int, NEW blind2 \in Int, NEW n \in Int, NEW q \in Int,
         NEW tt \in Int, TwoOn(tt, t, way), NEW s \in Int, Adds(s, c, steps),
         NEW net2 \in Int, Adds(net2, net, n),
         Farther(far2, far, tt), TurnsBack(back2, back, way, dir),
         NEW skipped2, Yes(skipped2), Keeps(skipped2, back2, down, far2), blind2 <= 1,
         Twice(c, steps, blind, blind2), Rests(s, n), Fours(tt, q)
  PROVE  Fours(tt, net2)
<1>1. CASE way = 1 /\ dir = 0
  BY <1>1 DEF Says, Rests, Twice, Farther, TurnsBack, Keeps, Yes, OneWay, TwoOn, Adds, Fours
<1>2. CASE way = 1 /\ dir = 1
  BY <1>2 DEF Says, Rests, Twice, Farther, TurnsBack, Keeps, Yes, OneWay, TwoOn, Adds, Fours
<1>3. CASE way = 1 /\ dir = -1
  BY <1>3 DEF Says, Rests, Twice, Farther, TurnsBack, Keeps, Yes, OneWay, TwoOn, Adds, Fours
<1>4. CASE way = -1 /\ dir = 0
  BY <1>4 DEF Says, Rests, Twice, Farther, TurnsBack, Keeps, Yes, OneWay, TwoOn, Adds, Fours
<1>5. CASE way = -1 /\ dir = 1
  BY <1>5 DEF Says, Rests, Twice, Farther, TurnsBack, Keeps, Yes, OneWay, TwoOn, Adds, Fours
<1>6. CASE way = -1 /\ dir = -1
  BY <1>6 DEF Says, Rests, Twice, Farther, TurnsBack, Keeps, Yes, OneWay, TwoOn, Adds, Fours
<1> QED
  BY <1>1, <1>2, <1>3, <1>4, <1>5, <1>6 DEF Says, Keeps, Yes, OneWay, TwoOn, Adds, Fours

(* A press leaves the knob where it began.                                   *)
LEMMA FrozenRests ==
  ASSUME NEW c \in -3..3, NEW t \in Int, NEW net \in Int, NEW dir \in Int, NEW blind \in Int,
         NEW skipped, NEW far, NEW back, NEW down,
         Says(c, t, net, dir, blind, skipped, far, back, down),
         NEW far2, NEW back2, NEW skipped2, NEW tt \in Int, NEW q \in Int,
         Farther(far2, far, tt), NEW down2, Yes(down2), Keeps(skipped2, back2, down2, far2), Fours(tt, q)
  PROVE  Fours(tt, net)
  BY DEF Says, Farther, Keeps, Yes, Fours

-----------------------------------------------------------------------------
Knobs == {"cw", "ccw"}
Cycles == [from : Int, net : Int, skipped : BOOLEAN, blind : Int, far : BOOLEAN, dir : Int,
           back : BOOLEAN, held : BOOLEAN, lost : BOOLEAN]

(* The lines after a move, against the lines before it.                      *)
LEMMA LinesMove ==
  ASSUME NEW p \in Int, NEW m \in -2..2
  PROVE  /\ m = 1 => (Lines(p) - Lines(p - m)) % 4 = 1
         /\ m = -1 => (Lines(p) - Lines(p - m)) % 4 = 3
         /\ m \in {-2, 2} => (Lines(p) - Lines(p - m)) % 4 = 2
         /\ Lines(p) = Lines(p - m) <=> m = 0
         /\ Lines(p) \in 0..3
  BY DEF Lines

(* What they count for: a quarter is one.                                    *)
LEMMA QuarterSteps ==
  ASSUME pos \in Int, moved \in {-1, 1}, state = Lines(pos - moved)
  PROVE  Steps(state, Lines(pos)) = moved
<1>1. moved \in -2..2
  OBVIOUS
<1>2. CASE moved = 1
  <2>1. (Lines(pos) - state) % 4 = 1
    BY <1>1, <1>2, LinesMove
  <2> QED
    BY <1>2, <2>1 DEF Steps
<1>3. CASE moved = -1
  <2>1. (Lines(pos) - state) % 4 = 3
    BY <1>1, <1>3, LinesMove
  <2>2. Steps(state, Lines(pos)) = -1
    BY <2>1 DEF Steps
  <2> QED
    BY <1>3, <2>2
<1> QED
  BY <1>2, <1>3

(* And two are two the way counted so far, if any.                           *)
LEMMA MissedSteps ==
  ASSUME count \in -3..3, pos \in Int, moved \in {-2, 2}, state = Lines(pos - moved)
  PROVE  \/ count > 0 /\ Steps(state, Lines(pos)) = 2
         \/ count < 0 /\ Steps(state, Lines(pos)) = -2
         \/ count = 0 /\ Steps(state, Lines(pos)) = 0
<1>1. moved \in -2..2
  OBVIOUS
<1>2. (Lines(pos) - state) % 4 = 2
  BY <1>1, LinesMove
<1> QED
  BY <1>2 DEF Steps

(* What a sample is found to show.                                           *)
Sees(shown, ds) ==
  LET way == IF moved > 0 THEN 1 ELSE IF moved < 0 THEN -1 ELSE 0
  IN /\ ~shown.lost /\ ~cycle.lost
     /\ shown.from = cycle.from
     /\ shown.net = cycle.net + Net(ds)
     /\ shown.skipped <=> (cycle.skipped \/ moved \in {-2, 2})
     /\ shown.blind = IF moved \in {-2, 2} /\ count = 0 THEN cycle.blind + 1 ELSE cycle.blind
     /\ Farther(shown.far, cycle.far, pos - cycle.from)
     /\ TurnsBack(shown.back, cycle.back, way, cycle.dir)
     /\ shown.dir = IF way = 0 THEN cycle.dir ELSE way
     /\ shown.held <=> (cycle.held \/ frozen)

(* A cycle that is not lost shows the sample.                                *)
LEMMA ObserveIs ==
  ASSUME cycle \in Cycles, count \in -3..3, pos \in Int, moved \in -2..2, frozen \in BOOLEAN,
         NEW ds \in [full : Knobs \cup {"none"}, half : Knobs \cup {"none"}]
  PROVE  /\ Observe(ds) \in Cycles
         /\ ~Observe(ds).lost => Decodable(Observe(ds)) /\ Sees(Observe(ds), ds)
<1> DEFINE way == IF moved > 0 THEN 1 ELSE IF moved < 0 THEN -1 ELSE 0
<1> DEFINE missed == moved \in {-2, 2}
<1> DEFINE overran == \E d \in {ds.full, ds.half} \ {"none"} : acc[d] >= AccMax
<1> DEFINE net == cycle.net + Net(ds)
<1> DEFINE blind == IF missed /\ count = 0 THEN cycle.blind + 1 ELSE cycle.blind
<1> DEFINE dir == IF way = 0 THEN cycle.dir ELSE way
<1> DEFINE skipped == cycle.skipped \/ missed
<1> DEFINE far == cycle.far \/ pos - cycle.from \notin -1..1
<1> DEFINE back == cycle.back \/ way * cycle.dir = -1
<1> DEFINE down == cycle.held \/ frozen
<1> DEFINE lost == cycle.lost \/ overran
<1> DEFINE k == [from |-> cycle.from, net |-> net, skipped |-> skipped, blind |-> blind, far |-> far,
                 dir |-> dir, back |-> back, held |-> down, lost |-> lost]
<1>1. Observe(ds) = IF Decodable(k) THEN k ELSE NewCycle(0, TRUE)
  BY DEF Observe
<1>2. Net(ds) \in Int /\ way \in Int
  BY DEF Net, Worth
<1>3. NewCycle(0, TRUE) \in Cycles /\ NewCycle(0, TRUE).lost
  BY DEF NewCycle, Cycles
<1>4. /\ cycle.from \in Int /\ net \in Int /\ blind \in Int /\ dir \in Int
  BY <1>2 DEF Cycles
<1>5. skipped \in BOOLEAN /\ far \in BOOLEAN /\ back \in BOOLEAN /\ down \in BOOLEAN /\ lost \in BOOLEAN
  OBVIOUS
<1>6. Sees([from |-> cycle.from, net |-> net, skipped |-> skipped, blind |-> blind, far |-> far,
            dir |-> dir, back |-> back, held |-> down, lost |-> FALSE], ds) \/ lost
  BY DEF Sees, Farther, TurnsBack
<1> HIDE DEF net, blind, dir, skipped, far, back, down, lost
<1>7. k \in Cycles /\ (k.lost <=> lost)
  BY <1>4, <1>5 DEF Cycles
<1>8. ~lost => Sees(k, ds)
  BY <1>5, <1>6 DEF Sees
<1>9. Decodable(k) => ~lost
  BY <1>7 DEF Decodable
<1> HIDE DEF k
<1> QED
  BY <1>1, <1>3, <1>7, <1>8, <1>9

(* The detents of a count, and what is left of it.                           *)
LEMMA CountMakes ==
  ASSUME NEW c \in -5..5
  PROVE  /\ Over(c) \in -3..3
         /\ Overs(c, Over(c), Worth(Full(c)))
         /\ Rests(c, Worth(Full(c)) + Worth(Half(Over(c))))
         /\ Full(c) \in Knobs \cup {"none"} /\ Half(Over(c)) \in Knobs \cup {"none"}
<1>1. CASE c \in 4..5
  <2>1. Full(c) = "cw" /\ Over(c) = c - 4 /\ Half(c - 4) = "none"
    BY <1>1 DEF Full, Over, Half
  <2> QED
    BY <1>1, <2>1 DEF Overs, Rests, Worth, Knobs
<1>2. CASE c \in -5..-4
  <2>1. Full(c) = "ccw" /\ Over(c) = c + 4 /\ Half(c + 4) = "none"
    BY <1>2 DEF Full, Over, Half
  <2> QED
    BY <1>2, <2>1 DEF Overs, Rests, Worth, Knobs
<1>3. CASE c \in -3..3
  <2>1. Full(c) = "none" /\ Over(c) = c
    BY <1>3 DEF Full, Over
  <2>2. CASE c \in 2..3
    <3>1. Half(c) = "cw"
      BY <2>2 DEF Half
    <3> QED
      BY <2>1, <2>2, <3>1 DEF Overs, Rests, Worth, Knobs
  <2>3. CASE c \in -3..-2
    <3>1. Half(c) = "ccw"
      BY <2>3 DEF Half
    <3> QED
      BY <2>1, <2>3, <3>1 DEF Overs, Rests, Worth, Knobs
  <2>4. CASE c \in -1..1
    <3>1. Half(c) = "none"
      BY <2>4 DEF Half
    <3> QED
      BY <2>1, <2>4, <3>1 DEF Overs, Rests, Worth, Knobs
  <2> QED
    BY <1>3, <2>2, <2>3, <2>4
<1> QED
  BY <1>1, <1>2, <1>3

(* A cycle is what is known of it, or lost.                                  *)
CycleTrue(k, c, p) ==
  ~k.lost =>
    /\ k.from % 4 = 0
    /\ Says(c, p - k.from, k.net, k.dir, k.blind, k.skipped, k.far, k.back, k.held)

KnobOK ==
  /\ InputTypeOK /\ cycle \in Cycles
  /\ state = Lines(pos - moved)
  /\ CycleTrue(cycle, count, pos - moved)

(* What the sample is taken from.                                            *)
LEMMA KnobTypes ==
  ASSUME KnobOK
  PROVE  /\ pos \in Int /\ moved \in -2..2 /\ moved \in Int /\ frozen \in BOOLEAN
         /\ count \in -3..3 /\ cycle \in Cycles /\ state = Lines(pos - moved)
         /\ CycleTrue(cycle, count, pos - moved)
         /\ Lines(pos) = state <=> moved = 0
<1>1. pos \in -Reach..Reach /\ Reach \in Nat
  BY InputAssumption DEF KnobOK, InputTypeOK
<1>2. pos \in Int
  BY <1>1
<1>3. moved \in -2..2 /\ moved \in Int /\ frozen \in BOOLEAN /\ count \in -3..3
  BY DEF KnobOK, InputTypeOK
<1>4. cycle \in Cycles /\ state = Lines(pos - moved) /\ CycleTrue(cycle, count, pos - moved)
  BY DEF KnobOK
<1>5. Lines(pos) = state <=> moved = 0
  BY <1>2, <1>3, <1>4, LinesMove
<1> QED
  BY <1>2, <1>3, <1>4, <1>5

(* A count is decoded to what it comes to.                                   *)
LEMMA DecodedIs ==
  ASSUME KnobOK
  PROVE  /\ Decoded \in [full : Knobs \cup {"none"}, half : Knobs \cup {"none"}]
         /\ Lines(pos) = state \/ frozen => Net(Decoded) = 0
         /\ Lines(pos) # state /\ ~frozen =>
              /\ Counted \in -5..5 /\ Over(Counted) \in -3..3
              /\ Lines(pos) # AtRest => Overs(Counted, Over(Counted), Net(Decoded))
              /\ Lines(pos) = AtRest => Rests(Counted, Net(Decoded))
<1>1. CASE Lines(pos) = state \/ frozen
  <2>1. Decoded = [full |-> "none", half |-> "none"]
    BY <1>1 DEF Decoded
  <2> QED
    BY <1>1, <2>1 DEF Net, Worth
<1>2. CASE Lines(pos) # state /\ ~frozen
  <2>1. Steps(state, Lines(pos)) \in -2..2
    <3>1. moved \in {-1, 1} \/ moved \in {-2, 2}
      BY <1>2, KnobTypes
    <3> QED
      BY <3>1, KnobTypes, QuarterSteps, MissedSteps
  <2>2. Counted \in -5..5
    BY <2>1, KnobTypes DEF Counted
  <2>3. /\ Over(Counted) \in -3..3
        /\ Overs(Counted, Over(Counted), Worth(Full(Counted)))
        /\ Rests(Counted, Worth(Full(Counted)) + Worth(Half(Over(Counted))))
        /\ Full(Counted) \in Knobs \cup {"none"} /\ Half(Over(Counted)) \in Knobs \cup {"none"}
    BY <2>2, CountMakes
  <2>4. Worth(Full(Counted)) \in Int /\ Worth("none") = 0
    BY DEF Worth
  <2>5. CASE Lines(pos) = AtRest
    <3>1. Decoded = [full |-> Full(Counted), half |-> Half(Over(Counted))]
      BY <1>2, <2>5 DEF Decoded
    <3>2. Net(Decoded) = Worth(Full(Counted)) + Worth(Half(Over(Counted)))
      BY <3>1 DEF Net
    <3> QED
      BY <1>2, <2>2, <2>3, <2>5, <3>1, <3>2
  <2>6. CASE Lines(pos) # AtRest
    <3>1. Decoded = [full |-> Full(Counted), half |-> "none"]
      BY <1>2, <2>6 DEF Decoded
    <3>2. Net(Decoded) = Worth(Full(Counted)) + Worth("none")
      BY <3>1 DEF Net
    <3>3. Net(Decoded) = Worth(Full(Counted))
      BY <2>4, <3>2
    <3> QED
      BY <1>2, <2>2, <2>3, <2>6, <3>1, <3>3
  <2> QED
    BY <2>5, <2>6
<1> QED
  BY <1>1, <1>2

(* What a sample shows, when tt quarters were turned after the t so far.     *)
SampleShows(shown, t, tt) ==
  /\ t = (pos - moved) - cycle.from /\ tt = pos - cycle.from /\ tt = t + moved
  /\ shown.from = cycle.from /\ cycle.from % 4 = 0 /\ cycle.from \in Int
  /\ Says(count, t, cycle.net, cycle.dir, cycle.blind, cycle.skipped, cycle.far,
          cycle.back, cycle.held)
  /\ shown.net = cycle.net + Net(Decoded)
  /\ shown.skipped <=> (cycle.skipped \/ moved \in {-2, 2})
  /\ shown.blind = IF moved \in {-2, 2} /\ count = 0 THEN cycle.blind + 1 ELSE cycle.blind
  /\ Farther(shown.far, cycle.far, tt)
  /\ shown.held <=> (cycle.held \/ frozen)
  /\ moved = 0 => shown.dir = cycle.dir /\ (shown.back <=> cycle.back)
  /\ \A way \in {-1, 1} :
       moved = way \/ moved = 2 * way =>
         shown.dir = way /\ TurnsBack(shown.back, cycle.back, way, cycle.dir)
  /\ Keeps(shown.skipped, shown.back, shown.held, shown.far)
  /\ shown.blind <= 1

(* And shows it against what was known.                                      *)
LEMMA SampleSees ==
  ASSUME KnobOK, NEW shown, shown = Observe(Decoded), ~shown.lost
  PROVE  /\ shown \in Cycles
         /\ \E t, tt \in Int : SampleShows(shown, t, tt)
<1>1. shown \in Cycles /\ Sees(shown, Decoded) /\ Decodable(shown)
  BY KnobTypes, DecodedIs, ObserveIs
<1>2. ~cycle.lost /\ shown.from = cycle.from
  BY <1>1 DEF Sees
<1>3. /\ cycle.from % 4 = 0 /\ cycle.from \in Int
      /\ Says(count, (pos - moved) - cycle.from, cycle.net, cycle.dir, cycle.blind,
              cycle.skipped, cycle.far, cycle.back, cycle.held)
  BY <1>2, KnobTypes DEF CycleTrue, Cycles
<1> DEFINE t == (pos - moved) - cycle.from
<1> DEFINE tt == pos - cycle.from
<1>4. t \in Int /\ tt \in Int /\ tt = t + moved
  BY <1>3, KnobTypes
<1>5. /\ shown.net = cycle.net + Net(Decoded)
      /\ shown.skipped <=> (cycle.skipped \/ moved \in {-2, 2})
      /\ shown.blind = IF moved \in {-2, 2} /\ count = 0 THEN cycle.blind + 1 ELSE cycle.blind
      /\ Farther(shown.far, cycle.far, tt)
      /\ shown.held <=> (cycle.held \/ frozen)
  BY <1>1 DEF Sees
<1>6. ASSUME NEW way \in {-1, 1}, moved = way \/ moved = 2 * way
      PROVE  shown.dir = way /\ TurnsBack(shown.back, cycle.back, way, cycle.dir)
  BY <1>1, <1>6 DEF Sees
<1>7. moved = 0 => shown.dir = cycle.dir /\ (shown.back <=> cycle.back)
  <2>1. SUFFICES ASSUME moved = 0
                 PROVE  shown.dir = cycle.dir /\ (shown.back <=> cycle.back)
    OBVIOUS
  <2>2. TurnsBack(shown.back, cycle.back, 0, cycle.dir) /\ shown.dir = cycle.dir
    BY <1>1, <2>1 DEF Sees
  <2>3. cycle.dir \in Int
    BY KnobTypes DEF Cycles
  <2> QED
    BY <2>2, <2>3 DEF TurnsBack
<1>8. shown.blind <= 1 /\ Keeps(shown.skipped, shown.back, shown.held, shown.far)
  BY <1>1 DEF Decodable, Keeps
<1> HIDE DEF t, tt
<1>9. t = (pos - moved) - cycle.from /\ tt = pos - cycle.from
  BY DEF t, tt
<1>10. SampleShows(shown, t, tt)
  BY <1>2, <1>3, <1>4, <1>5, <1>6, <1>7, <1>8, <1>9 DEF SampleShows
<1> QED
  BY <1>1, <1>4, <1>10

(* The fields of both are integers and booleans.                             *)
LEMMA SampleTypes ==
  ASSUME KnobOK, NEW shown \in Cycles
  PROVE  /\ cycle.net \in Int /\ cycle.dir \in Int /\ cycle.blind \in Int
         /\ cycle.skipped \in BOOLEAN /\ cycle.far \in BOOLEAN /\ cycle.back \in BOOLEAN
         /\ cycle.held \in BOOLEAN
         /\ shown.net \in Int /\ shown.blind \in Int /\ shown.skipped \in BOOLEAN
         /\ shown.far \in BOOLEAN /\ shown.back \in BOOLEAN /\ shown.held \in BOOLEAN
         /\ moved = 0 \/ moved \in {-1, 1} \/ \E way \in {-1, 1} : moved = 2 * way
  BY KnobTypes DEF Cycles

(* Between rests a sample keeps what is known of the cycle.                  *)
LEMMA SampleGoes ==
  ASSUME KnobOK, ~(Lines(pos) = AtRest /\ Lines(pos) # state), NEW n \in Int,
         n = IF Lines(pos) = state THEN count ELSE IF frozen THEN 0 ELSE Over(Counted)
  PROVE  CycleTrue(Observe(Decoded), n, pos)
<1>1. SUFFICES ASSUME NEW shown, shown = Observe(Decoded), ~shown.lost
               PROVE  CycleTrue(shown, n, pos)
  BY DEF CycleTrue
<1>2. shown \in Cycles /\ \E t, tt \in Int : SampleShows(shown, t, tt)
  BY <1>1, SampleSees
<1>3. PICK t \in Int, tt \in Int : SampleShows(shown, t, tt)
  BY <1>2
<1>4. Says(count, t, cycle.net, cycle.dir, cycle.blind, cycle.skipped, cycle.far,
           cycle.back, cycle.held)
  BY <1>3 DEF SampleShows
<1>5. /\ shown.net = cycle.net + Net(Decoded)
      /\ shown.skipped <=> (cycle.skipped \/ moved \in {-2, 2})
      /\ shown.blind = IF moved \in {-2, 2} /\ count = 0 THEN cycle.blind + 1 ELSE cycle.blind
      /\ shown.held <=> (cycle.held \/ frozen)
      /\ tt = t + moved
  BY <1>3 DEF SampleShows
<1>6. Farther(shown.far, cycle.far, tt) /\ Keeps(shown.skipped, shown.back, shown.held, shown.far)
  BY <1>3 DEF SampleShows
<1>7. shown.blind <= 1
  BY <1>3 DEF SampleShows
<1>8. /\ moved = 0 => shown.dir = cycle.dir /\ (shown.back <=> cycle.back)
      /\ \A way \in {-1, 1} :
           moved = way \/ moved = 2 * way =>
             shown.dir = way /\ TurnsBack(shown.back, cycle.back, way, cycle.dir)
  BY <1>3 DEF SampleShows
<1>9. SUFFICES Says(n, tt, shown.net, shown.dir, shown.blind, shown.skipped, shown.far,
                    shown.back, shown.held)
  BY <1>3 DEF CycleTrue, SampleShows
<1>10. /\ cycle.net \in Int /\ cycle.dir \in Int /\ cycle.blind \in Int
       /\ cycle.skipped \in BOOLEAN /\ cycle.far \in BOOLEAN /\ cycle.back \in BOOLEAN
       /\ cycle.held \in BOOLEAN
       /\ shown.net \in Int /\ shown.blind \in Int /\ shown.skipped \in BOOLEAN
       /\ shown.far \in BOOLEAN /\ shown.back \in BOOLEAN /\ shown.held \in BOOLEAN
       /\ count \in -3..3 /\ (Lines(pos) = state <=> moved = 0)
  BY <1>2, SampleTypes, KnobTypes
<1>11. count \in -3..3 /\ cycle.net \in Int /\ cycle.dir \in Int /\ cycle.blind \in Int
  BY <1>10
<1>12. CASE moved = 0
  <2>1. n = count /\ Net(Decoded) = 0
    BY <1>10, <1>12, DecodedIs
  <2>2. shown.net = cycle.net /\ tt = t
    BY <1>5, <1>10, <1>12, <2>1
  <2>3. /\ shown.skipped = cycle.skipped /\ shown.blind = cycle.blind
        /\ shown.dir = cycle.dir /\ shown.back = cycle.back
    BY <1>5, <1>8, <1>10, <1>12
  <2>4. Presses(shown.held, cycle.held)
    BY <1>5 DEF Presses
  <2>5. Farther(shown.far, cycle.far, t) /\ Keeps(cycle.skipped, cycle.back, shown.held, shown.far)
    BY <1>6, <2>2, <2>3
  <2>6. Says(count, t, cycle.net, cycle.dir, cycle.blind, cycle.skipped, shown.far,
             cycle.back, shown.held)
    BY <1>4, <1>11, <2>4, <2>5, StillGoes
  <2> QED
    BY <2>1, <2>2, <2>3, <2>6
<1>13. CASE moved \in {-1, 1}
  <2>1. PICK way \in {-1, 1} : way = moved
    BY <1>13
  <2>2. Lines(pos) # state /\ Lines(pos) # AtRest /\ moved \notin {-2, 2}
    BY <1>10, <1>13
  <2>3. shown.skipped = cycle.skipped /\ shown.blind = cycle.blind /\ shown.dir = way
    BY <1>5, <1>8, <1>10, <2>1, <2>2
  <2>4. OneWay(way) /\ TurnsBack(shown.back, cycle.back, way, cycle.dir) /\ Adds(tt, t, way)
    BY <1>5, <1>8, <2>1 DEF OneWay, Adds
  <2>5. CASE ~frozen
    <3>1. shown.held = cycle.held
      BY <1>5, <1>10, <2>5
    <3>2. PICK s \in Int : s = count + way /\ s = Counted
      BY <1>13, <2>1, QuarterSteps, KnobTypes DEF Counted
    <3>3. Overs(s, n, Net(Decoded)) /\ Net(Decoded) \in Int
      BY <2>2, <2>5, <3>2, DecodedIs DEF Overs
    <3>4. Keeps(cycle.skipped, shown.back, cycle.held, shown.far)
      BY <1>6, <2>3, <3>1
    <3>5. shown.net \in Int /\ Adds(shown.net, cycle.net, Net(Decoded)) /\ Adds(s, count, way)
      BY <1>5, <1>10, <3>2 DEF Adds
    <3>6. Says(n, tt, shown.net, way, cycle.blind, cycle.skipped, shown.far, shown.back, cycle.held)
      BY <1>4, <1>6, <1>11, <2>4, <3>3, <3>4, <3>5, QuarterGoes
    <3> QED
      BY <2>3, <3>1, <3>6
  <2>6. CASE frozen
    <3>1. Yes(shown.held)
      BY <1>5, <1>10, <2>6 DEF Yes
    <3>2. n = 0 /\ Net(Decoded) = 0
      BY <2>2, <2>6, DecodedIs
    <3>3. shown.net = cycle.net
      BY <1>5, <1>10, <3>2
    <3>4. Keeps(cycle.skipped, shown.back, shown.held, shown.far)
      BY <1>6, <2>3
    <3>5. Says(n, tt, cycle.net, way, cycle.blind, cycle.skipped, shown.far, shown.back, shown.held)
      BY <1>4, <1>6, <1>11, <2>4, <3>1, <3>2, <3>4, FrozenGoes
    <3> QED
      BY <2>3, <3>3, <3>5
  <2> QED
    BY <2>5, <2>6
<1>14. CASE \E way \in {-1, 1} : moved = 2 * way
  <2>1. PICK way \in {-1, 1} : moved = 2 * way
    BY <1>14
  <2>2. moved \in {-2, 2} /\ Lines(pos) # state /\ Lines(pos) # AtRest
    BY <1>10, <2>1
  <2>3. Yes(shown.skipped) /\ shown.dir = way
    BY <1>5, <1>8, <1>10, <2>1, <2>2 DEF Yes
  <2>4. OneWay(way) /\ TurnsBack(shown.back, cycle.back, way, cycle.dir) /\ TwoOn(tt, t, way)
    BY <1>5, <1>8, <2>1 DEF OneWay, TwoOn
  <2>5. CASE frozen
    <3>1. Yes(shown.held)
      BY <1>5, <1>10, <2>5 DEF Yes
    <3> QED
      BY <1>4, <1>6, <1>11, <2>3, <2>4, <3>1, FrozenMissesNone
  <2>6. CASE ~frozen
    <3>1. shown.held = cycle.held
      BY <1>5, <1>10, <2>6
    <3>2. PICK steps \in Int :
            /\ steps = Steps(state, Lines(pos))
            /\ \/ count > 0 /\ steps = 2
               \/ count < 0 /\ steps = -2
               \/ count = 0 /\ steps = 0
      BY <2>2, MissedSteps, KnobTypes
    <3>3. Twice(count, steps, cycle.blind, shown.blind)
      BY <1>5, <1>10, <2>2, <3>2 DEF Twice
    <3>4. PICK s \in Int : s = count + steps /\ s = Counted
      BY <1>11, <3>2 DEF Counted
    <3>5. Overs(s, n, Net(Decoded)) /\ Net(Decoded) \in Int
      BY <2>2, <2>6, <3>4, DecodedIs DEF Overs
    <3>6. Keeps(shown.skipped, shown.back, cycle.held, shown.far)
      BY <1>6, <3>1
    <3>7. /\ shown.net \in Int /\ shown.blind \in Int /\ steps \in Int
          /\ Adds(shown.net, cycle.net, Net(Decoded)) /\ Adds(s, count, steps)
      BY <1>5, <1>10, <3>2, <3>4 DEF Adds
    <3>8. Says(n, tt, shown.net, way, shown.blind, shown.skipped, shown.far, shown.back, cycle.held)
      BY <1>4, <1>6, <1>7, <1>11, <2>3, <2>4, <3>3, <3>5, <3>6, <3>7, MissedGoes
    <3> QED
      BY <2>3, <3>1, <3>8
  <2> QED
    BY <2>5, <2>6
<1> QED
  BY <1>2, <1>12, <1>13, <1>14, SampleTypes

Other(d) == IF d = "cw" THEN "ccw" ELSE "cw"

(* The detents of a log are those of one direction, then those of the last,  *)
(* as many as were counted.                                                  *)
InTurn(a, l, s) ==
  /\ Len(s) = a[Other(l)] + a[l]
  /\ \A i \in 1..Len(s) : s[i] = IF i <= a[Other(l)] THEN Other(l) ELSE l

(* They are if the direction changed at most once.                           *)
LogTrue(a, l, s) ==
  /\ s # <<>> => s[Len(s)] = l
  /\ (\A i, j \in Reversals(s) : i = j) => InTurn(a, l, s)

(* One more detent of the direction d.                                       *)
MayCount(a, d) == a[d] < AccMax
OneMoreOf(a, d) == [a EXCEPT ![d] = @ + 1]

(* A log that is true stays true with one more detent at its end.            *)
LEMMA OneMore ==
  ASSUME NEW a \in [Knobs -> 0..AccMax], NEW l \in Knobs, NEW s \in Seq(Knobs), LogTrue(a, l, s),
         NEW d \in Knobs, MayCount(a, d), NEW b, b = OneMoreOf(a, d), NEW t, t = Append(s, d)
  PROVE  b \in [Knobs -> 0..AccMax] /\ t \in Seq(Knobs) /\ LogTrue(b, d, t)
<1>1. AccMax \in Nat
  BY InputAssumption
<1>2. a[d] \in Nat /\ a[l] \in Nat /\ a[Other(d)] \in Nat /\ Other(d) \in Knobs /\ Other(d) # d
  BY <1>1 DEF Knobs, Other
<1>3. b \in [Knobs -> 0..AccMax] /\ b[d] = a[d] + 1 /\ b[Other(d)] = a[Other(d)]
  BY <1>1, <1>2 DEF MayCount, OneMoreOf
<1>4. Len(s) \in Nat /\ \A i \in 1..Len(s) : s[i] \in Knobs
  BY LenProperties, ElementOfSeq
<1>5. /\ t \in Seq(Knobs) /\ Len(t) = Len(s) + 1 /\ t[Len(s) + 1] = d
      /\ \A i \in 1..Len(s) : t[i] = s[i]
  BY AppendProperties
<1>6. t[Len(t)] = d
  BY <1>5
<1>7. ASSUME \A i, j \in Reversals(t) : i = j
      PROVE  InTurn(b, d, t)
  <2>1. ASSUME NEW i \in Reversals(s)
        PROVE  i \in Reversals(t)
    BY <1>4, <1>5, <2>1 DEF Reversals
  <2>2. InTurn(a, l, s)
    BY <1>7, <2>1 DEF LogTrue
  <2>3. CASE l = d
    <3>1. Len(s) = a[Other(d)] + a[d] /\ Len(t) = b[Other(d)] + b[d]
      BY <1>2, <1>3, <1>5, <2>2, <2>3 DEF InTurn
    <3>2. \A i \in 1..Len(s) : s[i] = IF i <= a[Other(d)] THEN Other(d) ELSE d
      BY <2>2, <2>3 DEF InTurn
    <3>3. ASSUME NEW i \in 1..Len(t)
          PROVE  t[i] = IF i <= b[Other(d)] THEN Other(d) ELSE d
      <4>1. CASE i \in 1..Len(s)
        BY <1>3, <1>5, <3>2, <4>1
      <4>2. CASE i = Len(s) + 1
        <5>1. ~(i <= b[Other(d)])
          BY <1>2, <1>3, <3>1, <4>2
        <5> QED
          BY <1>5, <4>2, <5>1
      <4> QED
        BY <1>4, <1>5, <4>1, <4>2
    <3> QED
      BY <3>1, <3>3 DEF InTurn
  <2>4. CASE l # d
    <3>1. l = Other(d) /\ Other(l) = d
      BY <2>4 DEF Knobs, Other
    <3>2. Len(s) = a[d] + a[l] /\ \A i \in 1..Len(s) : s[i] = IF i <= a[d] THEN d ELSE l
      BY <2>2, <3>1 DEF InTurn
    <3>3. a[d] = 0
      <4>1. SUFFICES ASSUME a[d] # 0 PROVE FALSE
        OBVIOUS
      <4>2. Len(s) # 0 /\ s # <<>> /\ Len(s) \in 1..Len(s)
        BY <1>2, <1>4, <3>2, <4>1, EmptySeq
      <4>3. s[Len(s)] = l
        BY <4>2 DEF LogTrue
      <4>4. ~(Len(s) <= a[d])
        BY <2>4, <3>2, <4>2, <4>3
      <4>5. a[d] \in 1..Len(s) /\ a[d] + 1 \in 1..Len(s)
        BY <1>2, <1>4, <4>1, <4>4
      <4>6. s[a[d]] = d /\ s[a[d] + 1] = l
        BY <1>2, <3>2, <4>5
      <4>7. a[d] \in Reversals(t)
        BY <1>2, <1>5, <2>4, <4>5, <4>6 DEF Reversals
      <4>8. Len(s) \in Reversals(t)
        BY <1>5, <1>4, <2>4, <4>2, <4>3 DEF Reversals
      <4>9. a[d] = Len(s)
        BY <1>7, <4>7, <4>8
      <4> QED
        BY <1>2, <4>4, <4>9
    <3>4. Len(t) = b[Other(d)] + b[d]
      BY <1>2, <1>3, <1>5, <3>1, <3>2, <3>3
    <3>5. ASSUME NEW i \in 1..Len(t)
          PROVE  t[i] = IF i <= b[Other(d)] THEN Other(d) ELSE d
      <4>1. b[Other(d)] = Len(s)
        BY <1>2, <1>3, <3>1, <3>2, <3>3
      <4>2. CASE i \in 1..Len(s)
        BY <1>2, <1>5, <3>1, <3>2, <3>3, <4>1, <4>2
      <4>3. CASE i = Len(s) + 1
        BY <1>4, <1>5, <4>1, <4>3
      <4> QED
        BY <1>4, <1>5, <4>2, <4>3
    <3> QED
      BY <3>4, <3>5 DEF InTurn
  <2> QED
    BY <2>3, <2>4
<1> QED
  BY <1>3, <1>5, <1>6, <1>7 DEF LogTrue

(* A detent emitted keeps the log, and its counts in their range.            *)
LEMMA EmitKeeps ==
  ASSUME NEW k, k.acc \in [Knobs -> 0..AccMax], k.last \in Knobs, k.log \in Seq(Knobs),
         LogTrue(k.acc, k.last, k.log), NEW d \in Knobs \cup {"none"}
  PROVE  LET e == Emit(k, d)
         IN /\ e.acc \in [Knobs -> 0..AccMax] /\ e.last \in Knobs /\ e.log \in Seq(Knobs)
            /\ LogTrue(e.acc, e.last, e.log)
<1>1. CASE d = "none" \/ k.acc[d] >= AccMax
  BY <1>1 DEF Emit
<1>2. CASE ~(d = "none" \/ k.acc[d] >= AccMax)
  <2>1. d \in Knobs /\ k.acc[d] \in 0..AccMax /\ AccMax \in Nat
    BY <1>2, InputAssumption
  <2>2. k.acc[d] < AccMax
    BY <1>2, <2>1
  <2>3. /\ Emit(k, d).acc = [k.acc EXCEPT ![d] = @ + 1] /\ Emit(k, d).last = d
        /\ Emit(k, d).log = Append(k.log, d)
    BY <1>2 DEF Emit
  <2>4. PICK a, l, s : a = k.acc /\ l = k.last /\ s = k.log
    OBVIOUS
  <2>5. PICK b, t : b = OneMoreOf(a, d) /\ t = Append(s, d)
    OBVIOUS
  <2>6. a \in [Knobs -> 0..AccMax] /\ l \in Knobs /\ s \in Seq(Knobs) /\ LogTrue(a, l, s) /\ MayCount(a, d)
    BY <2>2, <2>4 DEF MayCount
  <2>7. b \in [Knobs -> 0..AccMax] /\ t \in Seq(Knobs) /\ LogTrue(b, d, t)
    BY <2>1, <2>5, <2>6, OneMore
  <2> QED
    BY <2>1, <2>3, <2>4, <2>5, <2>7 DEF OneMoreOf
<1> QED
  BY <1>1, <1>2

(* What is taken of a true log is the log.                                   *)
LEMMA TakenIsLog ==
  ASSUME acc \in [Knobs -> 0..AccMax], last \in Knobs, log \in Seq(Knobs),
         InTurn(acc, last, log)
  PROVE  Taken = log
<1>1. AccMax \in Nat
  BY InputAssumption
<1> DEFINE o == Other(last)
<1>2. o \in Knobs /\ acc[o] \in Nat /\ acc[last] \in Nat
  BY <1>1 DEF Knobs, Other
<1>3. Taken = Times(o) \o Times(last)
  BY DEF Taken, Other, Knobs
<1>4. \A d \in Knobs : /\ Times(d) \in Seq(Knobs) /\ Len(Times(d)) = acc[d]
                       /\ \A i \in 1..acc[d] : Times(d)[i] = d
  <2>1. SUFFICES ASSUME NEW d \in Knobs
                 PROVE  /\ Times(d) \in Seq(Knobs) /\ Len(Times(d)) = acc[d]
                        /\ \A i \in 1..acc[d] : Times(d)[i] = d
    OBVIOUS
  <2>2. acc[d] \in Nat
    BY <1>1
  <2> QED
    BY <2>2 DEF Times
<1>5. /\ Taken \in Seq(Knobs) /\ Len(Taken) = acc[o] + acc[last]
      /\ \A i \in 1..acc[o] + acc[last] :
           Taken[i] = IF i <= acc[o] THEN Times(o)[i] ELSE Times(last)[i - acc[o]]
  <2>1. PICK u, v : u = Times(o) /\ v = Times(last)
    OBVIOUS
  <2>2. u \in Seq(Knobs) /\ v \in Seq(Knobs) /\ Len(u) = acc[o] /\ Len(v) = acc[last]
    BY <1>2, <1>4, <2>1
  <2>3. u \o v \in Seq(Knobs) /\ Len(u \o v) = Len(u) + Len(v)
        /\ \A i \in 1..Len(u) + Len(v) : (u \o v)[i] = IF i <= Len(u) THEN u[i] ELSE v[i - Len(u)]
    BY <2>2, ConcatProperties
  <2> QED
    BY <1>3, <2>1, <2>2, <2>3
<1>6. Len(log) = acc[o] + acc[last]
  BY DEF InTurn
<1>7. ASSUME NEW i \in 1..Len(log)
      PROVE  Taken[i] = log[i]
  <2>1. i \in 1..acc[o] + acc[last] /\ log[i] = IF i <= acc[o] THEN o ELSE last
    BY <1>6 DEF InTurn
  <2>2. CASE i <= acc[o]
    <3>1. i \in 1..acc[o]
      BY <1>2, <2>1, <2>2
    <3> QED
      BY <1>2, <1>4, <1>5, <2>1, <2>2, <3>1
  <2>3. CASE ~(i <= acc[o])
    <3>1. i - acc[o] \in 1..acc[last]
      BY <1>2, <2>1, <2>3
    <3> QED
      BY <1>4, <1>5, <2>1, <2>3, <3>1
  <2> QED
    BY <2>2, <2>3
<1> QED
  BY <1>5, <1>6, <1>7, SeqEqual

(* Two rests are whole detents apart.                                        *)
LEMMA FoursApart ==
  ASSUME NEW p \in Int, NEW f \in Int, p % 4 = 0, f % 4 = 0
  PROVE  \E q \in Int : Fours(p - f, q)
<1>1. PICK m \in Int : p = 4 * m
  OBVIOUS
<1>2. PICK n \in Int : f = 4 * n
  OBVIOUS
<1>3. p - f = 4 * (m - n) /\ m - n \in Int
  BY <1>1, <1>2
<1> QED
  BY <1>3 DEF Fours

(* At rest again, a cycle that can be told has been told.                    *)
LEMMA RestTells ==
  ASSUME KnobOK, Lines(pos) = AtRest, Lines(pos) # state, ~Observe(Decoded).lost
  PROVE  4 * Observe(Decoded).net = pos - cycle.from
<1>1. PICK shown : shown = Observe(Decoded)
  OBVIOUS
<1>2. shown \in Cycles /\ \E t, tt \in Int : SampleShows(shown, t, tt)
  BY <1>1, SampleSees
<1>3. PICK t \in Int, tt \in Int : SampleShows(shown, t, tt)
  BY <1>2
<1>4. Says(count, t, cycle.net, cycle.dir, cycle.blind, cycle.skipped, cycle.far,
           cycle.back, cycle.held)
  BY <1>3 DEF SampleShows
<1>5. /\ shown.net = cycle.net + Net(Decoded)
      /\ shown.skipped <=> (cycle.skipped \/ moved \in {-2, 2})
      /\ shown.blind = IF moved \in {-2, 2} /\ count = 0 THEN cycle.blind + 1 ELSE cycle.blind
      /\ shown.held <=> (cycle.held \/ frozen)
      /\ tt = t + moved
  BY <1>3 DEF SampleShows
<1>6. Farther(shown.far, cycle.far, tt) /\ Keeps(shown.skipped, shown.back, shown.held, shown.far)
  BY <1>3 DEF SampleShows
<1>7. shown.blind <= 1
  BY <1>3 DEF SampleShows
<1>8. \A way \in {-1, 1} :
        moved = way \/ moved = 2 * way =>
          shown.dir = way /\ TurnsBack(shown.back, cycle.back, way, cycle.dir)
  BY <1>3 DEF SampleShows
<1>9. /\ cycle.net \in Int /\ cycle.dir \in Int /\ cycle.blind \in Int
      /\ cycle.skipped \in BOOLEAN /\ cycle.far \in BOOLEAN /\ cycle.back \in BOOLEAN
      /\ cycle.held \in BOOLEAN
      /\ shown.net \in Int /\ shown.blind \in Int /\ shown.skipped \in BOOLEAN
      /\ shown.far \in BOOLEAN /\ shown.back \in BOOLEAN /\ shown.held \in BOOLEAN
      /\ moved # 0
  BY <1>2, SampleTypes, KnobTypes
<1>10. count \in -3..3 /\ cycle.net \in Int /\ cycle.dir \in Int /\ cycle.blind \in Int
  BY <1>9, KnobTypes
<1>11. PICK q \in Int : Fours(tt, q)
  <2>1. tt = pos - cycle.from /\ cycle.from % 4 = 0 /\ cycle.from \in Int /\ pos \in Int
    BY <1>3, KnobTypes DEF SampleShows
  <2>2. pos % 4 = 0
    BY DEF Lines, AtRest
  <2> QED
    BY <2>1, <2>2, FoursApart
<1>12. Fours(tt, shown.net)
  <2>1. CASE frozen
    <3>1. Yes(shown.held)
      BY <1>5, <1>9, <2>1 DEF Yes
    <3>2. Net(Decoded) = 0
      BY <2>1, DecodedIs
    <3>3. shown.net = cycle.net
      BY <1>5, <1>9, <3>2
    <3>4. Fours(tt, cycle.net)
      BY <1>4, <1>6, <1>10, <1>11, <3>1, FrozenRests
    <3> QED
      BY <3>3, <3>4
  <2>2. CASE ~frozen /\ moved \in {-1, 1}
    <3>1. PICK way \in {-1, 1} : way = moved
      BY <2>2
    <3>2. OneWay(way) /\ TurnsBack(shown.back, cycle.back, way, cycle.dir) /\ Adds(tt, t, way)
      BY <1>5, <1>8, <3>1 DEF OneWay, Adds
    <3>3. shown.held = cycle.held /\ shown.skipped = cycle.skipped
      BY <1>5, <1>9, <2>2
    <3>4. PICK s \in Int : s = count + way /\ s = Counted
      BY <2>2, <3>1, QuarterSteps, KnobTypes DEF Counted
    <3>5. Rests(s, Net(Decoded)) /\ Net(Decoded) \in Int
      BY <2>2, <3>4, DecodedIs DEF Rests
    <3>6. Keeps(cycle.skipped, shown.back, cycle.held, shown.far)
      BY <1>6, <3>3
    <3>7. shown.net \in Int /\ Adds(shown.net, cycle.net, Net(Decoded)) /\ Adds(s, count, way)
      BY <1>5, <1>9, <3>4 DEF Adds
    <3> QED
      BY <1>4, <1>6, <1>10, <1>11, <3>2, <3>5, <3>6, <3>7, QuarterRests
  <2>3. CASE ~frozen /\ \E way \in {-1, 1} : moved = 2 * way
    <3>1. PICK way \in {-1, 1} : moved = 2 * way
      BY <2>3
    <3>2. OneWay(way) /\ TurnsBack(shown.back, cycle.back, way, cycle.dir) /\ TwoOn(tt, t, way)
      BY <1>5, <1>8, <3>1 DEF OneWay, TwoOn
    <3>3. moved \in {-2, 2}
      BY <3>1
    <3>4. Yes(shown.skipped) /\ shown.held = cycle.held
      BY <1>5, <1>9, <2>3, <3>3 DEF Yes
    <3>5. PICK steps \in Int :
            /\ steps = Steps(state, Lines(pos))
            /\ \/ count > 0 /\ steps = 2
               \/ count < 0 /\ steps = -2
               \/ count = 0 /\ steps = 0
      BY <3>3, MissedSteps, KnobTypes
    <3>6. Twice(count, steps, cycle.blind, shown.blind)
      BY <1>5, <1>9, <3>3, <3>5 DEF Twice
    <3>7. PICK s \in Int : s = count + steps /\ s = Counted
      BY <1>10, <3>5 DEF Counted
    <3>8. Rests(s, Net(Decoded)) /\ Net(Decoded) \in Int
      BY <2>3, <3>7, DecodedIs DEF Rests
    <3>9. Keeps(shown.skipped, shown.back, cycle.held, shown.far)
      BY <1>6, <3>4
    <3>10. /\ shown.net \in Int /\ shown.blind \in Int /\ steps \in Int
           /\ Adds(shown.net, cycle.net, Net(Decoded)) /\ Adds(s, count, steps)
      BY <1>5, <1>9, <3>5, <3>7 DEF Adds
    <3> QED
      BY <1>4, <1>6, <1>7, <1>10, <1>11, <3>2, <3>4, <3>6, <3>8, <3>9, <3>10, MissedRests
  <2> QED
    BY <1>2, <1>9, <2>1, <2>2, <2>3, SampleTypes
<1> QED
  BY <1>1, <1>3, <1>12 DEF SampleShows, Fours

(* What is known of the knob between its steps.                              *)
KnobInv == KnobOK /\ LogTrue(acc, last, log)

(* It is known at the start.                                                 *)
LEMMA KnobStarts == InputInit => KnobInv
<1>1. SUFFICES ASSUME InputInit PROVE KnobInv
  OBVIOUS
<1>2. {DebounceSamples, AccMax, Reach} \subseteq Nat \ {0}
  BY InputAssumption
<1>3. DebounceSamples \in Nat \ {0} /\ AccMax \in Nat /\ Reach \in Nat \ {0}
  BY <1>2
<1>4. /\ pos \in {0, 1} /\ moved = 0 /\ switch \in BOOLEAN /\ state = Lines(pos) /\ count = 0
      /\ acc = [d \in Knobs |-> 0] /\ last = "ccw" /\ frozen = FALSE /\ polled = FALSE
      /\ deb = [stable |-> switch, pending |-> switch, same |-> 0]
      /\ cycle = NewCycle(pos, pos # 0) /\ log = <<>>
  BY <1>1 DEF InputInit, Knobs
<1>5. cycle \in Cycles
  BY <1>4 DEF NewCycle, Cycles
<1>6. state = Lines(pos - moved) /\ state \in 0..3
  BY <1>4 DEF Lines
<1>7. CycleTrue(cycle, count, pos - moved)
  <2>1. SUFFICES ASSUME ~cycle.lost
                 PROVE  /\ cycle.from % 4 = 0
                        /\ Says(count, (pos - moved) - cycle.from, cycle.net, cycle.dir, cycle.blind,
                                cycle.skipped, cycle.far, cycle.back, cycle.held)
    BY DEF CycleTrue
  <2>2. pos = 0 /\ cycle = NewCycle(0, FALSE)
    <3>1. cycle.lost = (pos # 0)
      BY <1>4 DEF NewCycle
    <3>2. pos = 0
      BY <1>4, <2>1, <3>1
    <3> QED
      BY <1>4, <3>2
  <2>3. /\ cycle.from = 0 /\ cycle.net = 0 /\ cycle.dir = 0 /\ cycle.blind = 0
        /\ cycle.skipped = FALSE /\ cycle.far = FALSE /\ cycle.back = FALSE /\ cycle.held = FALSE
    BY <2>2 DEF NewCycle
  <2>4. Says(0, 0, 0, 0, 0, FALSE, FALSE, FALSE, FALSE)
    BY DEF Says
  <2>5. (pos - moved) - cycle.from = 0 /\ count = 0 /\ 0 % 4 = 0
    BY <1>4, <2>2, <2>3
  <2> QED
    BY <2>3, <2>4, <2>5
<1>8. Len(log) = 0 /\ log \in Seq(Knobs)
  BY <1>4
<1>9. LogTrue(acc, last, log)
  BY <1>4, <1>8 DEF LogTrue, InTurn, Other, Knobs
<1>10. InputTypeOK
  <2>1. pos \in -Reach..Reach
    BY <1>3, <1>4
  <2>2. acc \in [Knobs -> 0..AccMax] /\ last \in Knobs
    BY <1>3, <1>4 DEF Knobs
  <2>3. deb \in [stable : BOOLEAN, pending : BOOLEAN, same : 0..DebounceSamples - 1]
    BY <1>3, <1>4
  <2>4. switch \in BOOLEAN /\ frozen \in BOOLEAN /\ polled \in BOOLEAN
    BY <1>4
  <2>6. moved = 0 /\ count = 0 /\ 0 \in -2..2 /\ 0 \in -3..3
    BY <1>4
  <2>7. moved \in -2..2 /\ count \in -3..3
    BY <2>6
  <2>5. {"cw", "ccw"} = Knobs
    BY DEF Knobs
  <2> QED
    BY <1>6, <1>8, <2>1, <2>2, <2>3, <2>4, <2>5, <2>7 DEF InputTypeOK
<1> QED
  BY <1>5, <1>6, <1>7, <1>9, <1>10 DEF KnobInv, KnobOK

(* What a debounce leaves is a debounce.                                     *)
LEMMA DebounceIs ==
  ASSUME NEW d \in [stable : BOOLEAN, pending : BOOLEAN, same : 0..DebounceSamples - 1],
         NEW sample \in BOOLEAN
  PROVE  Debounce(d, sample) \in [stable : BOOLEAN, pending : BOOLEAN, same : 0..DebounceSamples - 1]
<1>1. {DebounceSamples, AccMax, Reach} \subseteq Nat \ {0}
  BY InputAssumption
<1>2. DebounceSamples \in Nat \ {0}
  BY <1>1
<1>3. PICK same \in 0..DebounceSamples - 1, stable \in BOOLEAN, pending \in BOOLEAN :
        d = [stable |-> stable, pending |-> pending, same |-> same]
  OBVIOUS
<1>4. CASE sample = d.stable
  <2>1. Debounce(d, sample) = [d EXCEPT !.same = 0, !.pending = sample]
    BY <1>4 DEF Debounce
  <2>2. Debounce(d, sample) = [stable |-> stable, pending |-> sample, same |-> 0]
    BY <1>3, <2>1
  <2> QED
    BY <1>2, <2>2
<1>5. CASE sample # d.stable
  <2> DEFINE n == IF sample = pending THEN same + 1 ELSE 1
  <2>1. n \in 1..DebounceSamples
    BY <1>2
  <2>2. CASE n >= DebounceSamples
    <3>1. Debounce(d, sample) = [stable |-> sample, pending |-> sample, same |-> 0]
      BY <1>3, <1>5, <2>2 DEF Debounce
    <3> QED
      BY <1>2, <3>1
  <2>3. CASE ~(n >= DebounceSamples)
    <3>1. Debounce(d, sample) = [d EXCEPT !.pending = sample, !.same = n]
      BY <1>3, <1>5, <2>3 DEF Debounce
    <3>2. n \in 0..DebounceSamples - 1
      BY <1>2, <2>1, <2>3
    <3> HIDE DEF n
    <3>3. Debounce(d, sample) = [stable |-> stable, pending |-> sample, same |-> n]
      BY <1>3, <3>1
    <3> QED
      BY <3>2, <3>3
  <2> QED
    BY <2>2, <2>3
<1> QED
  BY <1>4, <1>5

(* The detents of a sample keep the log.                                     *)
LEMMA EmittedKeeps ==
  ASSUME KnobOK, LogTrue(acc, last, log)
  PROVE  LET k == Emitted(Decoded)
         IN /\ k.acc \in [Knobs -> 0..AccMax] /\ k.last \in Knobs /\ k.log \in Seq(Knobs)
            /\ LogTrue(k.acc, k.last, k.log)
<1>1. acc \in [Knobs -> 0..AccMax] /\ last \in Knobs /\ log \in Seq(Knobs)
  BY DEF KnobOK, InputTypeOK, Knobs
<1>2. Decoded.full \in Knobs \cup {"none"} /\ Decoded.half \in Knobs \cup {"none"}
  BY DecodedIs
<1>3. PICK k : k = [acc |-> acc, last |-> last, log |-> log]
  OBVIOUS
<1>4. k.acc = acc /\ k.last = last /\ k.log = log
  BY <1>3
<1>5. PICK e : e = Emit(k, Decoded.full)
  OBVIOUS
<1>6. /\ e.acc \in [Knobs -> 0..AccMax] /\ e.last \in Knobs /\ e.log \in Seq(Knobs)
      /\ LogTrue(e.acc, e.last, e.log)
  BY <1>1, <1>2, <1>4, <1>5, EmitKeeps
<1>7. Emitted(Decoded) = Emit(e, Decoded.half)
  BY <1>3, <1>5 DEF Emitted
<1> QED
  BY <1>2, <1>6, <1>7, EmitKeeps

(* So does the interrupt.                                                    *)
LEMMA IsrGoes ==
  ASSUME KnobOK, LogTrue(acc, last, log), Isr
  PROVE  KnobOK' /\ LogTrue(acc', last', log')
<1>1. /\ pos \in -Reach..Reach /\ moved \in -2..2 /\ switch \in BOOLEAN /\ state \in 0..3
      /\ count \in -3..3 /\ frozen \in BOOLEAN /\ polled \in BOOLEAN
      /\ deb \in [stable : BOOLEAN, pending : BOOLEAN, same : 0..DebounceSamples - 1]
  BY DEF KnobOK, InputTypeOK
<1>2. pos \in Int
  BY KnobTypes
<1>3. /\ moved' = 0 /\ state' = Lines(pos)
      /\ count' = IF Lines(pos) = state THEN count
                  ELSE IF frozen \/ Lines(pos) = AtRest THEN 0
                  ELSE Over(Counted)
      /\ cycle' = IF Lines(pos) = AtRest /\ Lines(pos) # state THEN NewCycle(pos, FALSE)
                  ELSE Observe(Decoded)
      /\ UNCHANGED <<pos, switch, frozen, deb, polled>>
  BY DEF Isr
<1>4. acc' = Emitted(Decoded).acc /\ last' = Emitted(Decoded).last /\ log' = Emitted(Decoded).log
  BY DEF Isr
<1>5. acc' \in [Knobs -> 0..AccMax] /\ last' \in Knobs /\ log' \in Seq(Knobs)
      /\ LogTrue(acc', last', log')
  BY <1>4, EmittedKeeps
<1>6. count' \in -3..3
  BY <1>1, <1>3, DecodedIs
<1>7. Lines(pos) \in 0..3
  BY <1>2 DEF Lines
<1>8. InputTypeOK'
  <2>1. moved' \in -2..2 /\ state' \in 0..3
    BY <1>3, <1>7
  <2>2. acc' \in [{"cw", "ccw"} -> 0..AccMax] /\ last' \in {"cw", "ccw"} /\ log' \in Seq({"cw", "ccw"})
    BY <1>5 DEF Knobs
  <2>3. UNCHANGED <<pos, switch, frozen, deb, polled>>
    BY <1>3
  <2> QED
    BY <1>1, <1>6, <2>1, <2>2, <2>3 DEF InputTypeOK
<1>9. pos' - moved' = pos /\ (state = Lines(pos - moved))'
  BY <1>2, <1>3
<1>10. CASE Lines(pos) = AtRest /\ Lines(pos) # state
  <2>1. cycle' = NewCycle(pos, FALSE) /\ count' = 0
    BY <1>3, <1>10
  <2>2. cycle' \in Cycles
    BY <1>2, <2>1 DEF NewCycle, Cycles
  <2>3. /\ cycle'.from = pos /\ cycle'.net = 0 /\ cycle'.dir = 0 /\ cycle'.blind = 0
        /\ cycle'.skipped = FALSE /\ cycle'.far = FALSE /\ cycle'.back = FALSE /\ cycle'.held = FALSE
    BY <2>1 DEF NewCycle
  <2>4. Says(0, 0, 0, 0, 0, FALSE, FALSE, FALSE, FALSE)
    BY DEF Says
  <2>5. pos - cycle'.from = 0 /\ cycle'.from % 4 = 0
    BY <1>2, <1>10, <2>3 DEF Lines, AtRest
  <2>6. CycleTrue(cycle', count', pos)
    BY <2>1, <2>3, <2>4, <2>5 DEF CycleTrue
  <2> QED
    BY <1>5, <1>8, <1>9, <2>2, <2>6 DEF KnobOK, CycleTrue
<1>11. CASE ~(Lines(pos) = AtRest /\ Lines(pos) # state)
  <2>1. cycle' = Observe(Decoded)
    BY <1>3, <1>11
  <2>2. count' = IF Lines(pos) = state THEN count ELSE IF frozen THEN 0 ELSE Over(Counted)
    BY <1>3, <1>11
  <2>3. count' \in Int
    BY <1>6
  <2>4. CycleTrue(Observe(Decoded), count', pos)
    BY <1>11, <2>2, <2>3, SampleGoes
  <2>5. Observe(Decoded) \in Cycles
    BY KnobTypes, DecodedIs, ObserveIs
  <2> QED
    BY <1>5, <1>8, <1>9, <2>1, <2>4, <2>5 DEF KnobOK, CycleTrue
<1> QED
  BY <1>10, <1>11

(* Every step keeps it.                                                      *)
LEMMA KnobGoes ==
  ASSUME KnobInv, InputNext
  PROVE  KnobInv'
<1>1. /\ {DebounceSamples, AccMax, Reach} \subseteq Nat \ {0}
  BY InputAssumption
<1>2. DebounceSamples \in Nat \ {0} /\ AccMax \in Nat \ {0} /\ Reach \in Nat \ {0}
  BY <1>1
<1>3. KnobOK /\ InputTypeOK /\ LogTrue(acc, last, log)
  BY DEF KnobInv, KnobOK
<1>4. /\ pos \in -Reach..Reach /\ moved \in -2..2 /\ switch \in BOOLEAN /\ state \in 0..3
      /\ count \in -3..3 /\ frozen \in BOOLEAN /\ polled \in BOOLEAN
  BY <1>3 DEF InputTypeOK
<1>5. acc \in [Knobs -> 0..AccMax] /\ last \in Knobs /\ log \in Seq(Knobs)
  BY <1>3 DEF InputTypeOK, Knobs
<1>6. deb \in [stable : BOOLEAN, pending : BOOLEAN, same : 0..DebounceSamples - 1]
  BY <1>3 DEF InputTypeOK
<1>7. cycle \in Cycles /\ state = Lines(pos - moved) /\ CycleTrue(cycle, count, pos - moved)
  BY <1>3 DEF KnobOK
<1>8. pos \in Int /\ moved \in Int
  BY <1>2, <1>4
<1>9. ASSUME NEW q \in {-1, 1}, TurnKnob(q)
      PROVE  KnobInv'
  <2>1. /\ pos' \in -Reach..Reach /\ moved' \in -2..2 /\ pos' = pos + q /\ moved' = moved + q
        /\ UNCHANGED <<switch, state, count, acc, last, frozen, deb, polled, cycle, log>>
    BY <1>9 DEF TurnKnob
  <2>2. pos' - moved' = pos - moved
    BY <1>8, <2>1
  <2>3. InputTypeOK'
    BY <1>3, <2>1 DEF InputTypeOK
  <2>4. (state = Lines(pos - moved))' /\ (cycle \in Cycles)'
    BY <1>7, <2>1, <2>2
  <2>5. CycleTrue(cycle', count', pos' - moved')
    BY <1>7, <2>1, <2>2
  <2>6. LogTrue(acc', last', log')
    BY <1>3, <2>1
  <2> QED
    BY <2>3, <2>4, <2>5, <2>6 DEF KnobInv, KnobOK, CycleTrue, LogTrue, InTurn, Reversals
<1>10. CASE Switch
  <2>1. InputTypeOK'
    BY <1>3, <1>10 DEF InputTypeOK, Switch
  <2> QED
    BY <1>3, <1>10, <2>1 DEF Switch, KnobInv, KnobOK, CycleTrue, LogTrue, InTurn, Reversals, Lines
<1>11. CASE PollSwitch
  <2>1. deb' = Debounce(deb, switch) /\ frozen' = deb'.stable /\ polled' = TRUE
        /\ UNCHANGED <<pos, moved, switch, state, count, acc, last, cycle, log>>
    BY <1>11 DEF PollSwitch
  <2>2. deb' \in [stable : BOOLEAN, pending : BOOLEAN, same : 0..DebounceSamples - 1]
    BY <1>2, <1>4, <1>6, <2>1, DebounceIs
  <2>3. frozen' \in BOOLEAN
    BY <2>1, <2>2
  <2>4. InputTypeOK'
    BY <1>3, <2>1, <2>2, <2>3 DEF InputTypeOK
  <2> QED
    BY <1>3, <2>1, <2>4 DEF KnobInv, KnobOK, CycleTrue, LogTrue, InTurn, Reversals, Lines
<1>12. CASE Take
  <2>1. acc' = [d \in Knobs |-> 0] /\ log' = <<>> /\ polled' = FALSE
        /\ UNCHANGED <<pos, moved, switch, state, count, last, frozen, deb, cycle>>
    BY <1>12 DEF Take, Knobs
  <2>2. acc' \in [Knobs -> 0..AccMax] /\ log' \in Seq(Knobs) /\ Len(log') = 0
    BY <1>2, <2>1
  <2>3. InputTypeOK'
    BY <1>3, <2>1, <2>2 DEF InputTypeOK, Knobs
  <2>4. LogTrue(acc', last', log')
    <3>1. last' \in Knobs /\ Other(last') \in Knobs
      BY <1>5, <2>1 DEF Other, Knobs
    <3>2. acc'[last'] = 0 /\ acc'[Other(last')] = 0
      BY <2>1, <3>1
    <3> QED
      BY <2>1, <2>2, <3>2 DEF LogTrue, InTurn
  <2> QED
    BY <1>3, <2>1, <2>3, <2>4 DEF KnobInv, KnobOK, CycleTrue, LogTrue, InTurn, Reversals, Lines
<1>13. CASE Isr
  BY <1>3, <1>5, <1>13, IsrGoes DEF KnobInv
<1> QED
  BY <1>9, <1>10, <1>11, <1>12, <1>13 DEF InputNext

(* So the knob says what it was turned, and takes it in that order.          *)
LEMMA KnobTells == KnobInv => RestIsExact /\ OlderFirst
<1>1. SUFFICES ASSUME KnobInv PROVE RestIsExact /\ OlderFirst
  OBVIOUS
<1>2. KnobOK /\ LogTrue(acc, last, log)
  BY <1>1 DEF KnobInv
<1>3. ASSUME Isr, state # AtRest, state' = AtRest, Decodable(Observe(Decoded))
      PROVE  4 * Observe(Decoded).net = pos - cycle.from
  <2>1. Lines(pos) = AtRest /\ Lines(pos) # state
    BY <1>3 DEF Isr
  <2>2. ~Observe(Decoded).lost
    BY <1>3 DEF Decodable
  <2> QED
    BY <1>2, <2>1, <2>2, RestTells
<1>4. RestIsExact
  BY <1>3 DEF RestIsExact
<1>5. ASSUME \A i, j \in Reversals(log) : i = j
      PROVE  Taken = log
  <2>1. acc \in [Knobs -> 0..AccMax] /\ last \in Knobs /\ log \in Seq(Knobs)
    BY <1>2 DEF KnobOK, InputTypeOK, Knobs
  <2>2. InTurn(acc, last, log)
    BY <1>2, <1>5 DEF LogTrue
  <2> QED
    BY <2>1, <2>2, TakenIsLog
<1> QED
  BY <1>4, <1>5 DEF OlderFirst

(* And so does a step in which nothing happens.                              *)
LEMMA KnobStep ==
  ASSUME KnobInv, [InputNext]_inputVars
  PROVE  KnobInv'
<1>1. CASE UNCHANGED inputVars
  BY <1>1 DEF inputVars, KnobInv, KnobOK, InputTypeOK, CycleTrue, LogTrue, InTurn, Reversals, Lines
<1> QED
  BY <1>1, KnobGoes

(* The type invariant of a knob (PAD_encoderIsr, PAD_encoderTake).           *)
THEOREM KnobTypeCorrect == InputSpec => []InputTypeOK
<1>1. KnobInv => InputTypeOK
  BY DEF KnobInv, KnobOK
<1> QED
  BY <1>1, KnobStarts, KnobStep, PTL DEF InputSpec

(* A knob says what it was turned: back at rest, and if it was not turned to *)
(* and fro too fast to be followed, it has sent one detent for every four    *)
(* quarters, and a press that moved its lines none (PAD_encoderIsr); and     *)
(* what is taken of it is in the order it was turned in if that changed once *)
(* (encLastCw, PAD_encoderTake).                                             *)
THEOREM KnobIsExact == InputSpec => [][RestIsExact /\ OlderFirst]_inputVars
<1>1. KnobInv /\ [InputNext]_inputVars => [RestIsExact /\ OlderFirst]_inputVars
  BY KnobTells
<1> QED
  BY <1>1, KnobStarts, KnobStep, PTL DEF InputSpec

(* The same of a knob among the parts of the pad.                            *)
LEMMA PadKnob == PadSpec => []KnobInv
<1>1. PadInit => KnobInv
  BY KnobStarts DEF PadInit
<1>2. PadNext => InputNext \/ UNCHANGED inputVars
  BY DEF PadNext
<1>3. UNCHANGED padVariables => UNCHANGED inputVars
  BY DEF padVariables
<1>4. KnobInv /\ [PadNext]_padVariables => KnobInv'
  BY <1>2, <1>3, KnobStep
<1> QED
  BY <1>1, <1>4, PTL DEF PadSpec

(* The property the run checks of a knob: it sends what it was turned, in    *)
(* that order.                                                               *)
THEOREM PadKnobIsTrue == PadSpec => KnobIsTrue
<1>1. KnobInv => (part = "input" => RestIsExact /\ OlderFirst)
  BY KnobTells
<1> QED
  BY <1>1, PadKnob, PTL DEF PadSpec, KnobIsTrue

-----------------------------------------------------------------------------
-----------------------------------------------------------------------------
(* The run's other instances of the firmware: the core with its queue at its *)
(* limits, and the session of a pad with a knob.  What is proved of the core *)
(* and of the session for any constants is proved of them.                   *)
QueueProved == INSTANCE PadCore_proofs WITH
        TmKeys <- {}, Defaults <- QueueMap, CountWrap <- 4, MaxTake <- 3, EditActions <- {},
        QueueRuns <- 2, RunMax <- 3, MaxEdits <- 0
DetentsProved == INSTANCE RawSession_proofs WITH
        GpioLevels <- {FALSE}, TmKeys <- {}, Dirs <- {cw}, Timeout <- 1, EpochWrap <- 3,
        SeqWrap <- 2, CountWrap <- 4, MaxTake <- 1, ChanCap <- 2, MaxLoss <- 2,
        MaxTurned <- 5, MaxRestarts <- 0

(* The definitions of the instance that is checked are those of the instance *)
(* that is proved, one by one.                                               *)
LEMMA QueueIsCore ==
  /\ Queue!Init <=> QueueProved!Init
  /\ Queue!Next <=> QueueProved!Next
  /\ Queue!vars = QueueProved!vars
  /\ Queue!TapsInOrder <=> QueueProved!TapsInOrder
  /\ Queue!TypeOK <=> QueueProved!TypeOK
<1>1. Queue!Raw!PadTypeOK <=> QueueProved!Raw!PadTypeOK
  BY DEF Queue!Raw!PadTypeOK, QueueProved!Raw!PadTypeOK, Queue!Raw!Keys, QueueProved!Raw!Keys
<1>2. Queue!Raw!PadInit <=> QueueProved!Raw!PadInit
  BY DEF Queue!Raw!PadInit, QueueProved!Raw!PadInit
<1>3. \A lv : Queue!Raw!GpioKind(lv) = QueueProved!Raw!GpioKind(lv)
  BY DEF Queue!Raw!GpioKind, QueueProved!Raw!GpioKind
<1>4. \A d, n : Queue!Raw!TurnRaw(d, n) <=> QueueProved!Raw!TurnRaw(d, n)
  BY DEF Queue!Raw!TurnRaw, QueueProved!Raw!TurnRaw, Queue!Raw!PadActive, QueueProved!Raw!PadActive
<1>5. Queue!Raw!TickRaw <=> QueueProved!Raw!TickRaw
  BY DEF Queue!Raw!TickRaw, QueueProved!Raw!TickRaw, Queue!Raw!PadActive, QueueProved!Raw!PadActive
<1>6. Queue!Raw!ResetPad <=> QueueProved!Raw!ResetPad
  BY DEF Queue!Raw!ResetPad, QueueProved!Raw!ResetPad
<1>7. Queue!vars = QueueProved!vars
  BY DEF Queue!vars, QueueProved!vars, Queue!rawVars, QueueProved!rawVars, Queue!keyVars, QueueProved!keyVars, Queue!tapVars, QueueProved!tapVars
<1>8. Queue!ActiveLayer = QueueProved!ActiveLayer
  BY DEF Queue!ActiveLayer, QueueProved!ActiveLayer
<1>9. Queue!TypeOK <=> QueueProved!TypeOK
  <2>1. Queue!Slots = QueueProved!Slots
    BY DEF Queue!Slots, QueueProved!Slots
  <2>2. Queue!Actions = QueueProved!Actions
    BY <2>1 DEF Queue!Actions, QueueProved!Actions
  <2>3. Queue!Usages = QueueProved!Usages
    BY <2>2 DEF Queue!Usages, QueueProved!Usages, Queue!IsKey, QueueProved!IsKey
  <2> QED
    BY <1>1, <2>1, <2>2, <2>3 DEF Queue!TypeOK, QueueProved!TypeOK
<1>10. Queue!KeymapInit <=> QueueProved!KeymapInit
  BY DEF Queue!KeymapInit, QueueProved!KeymapInit, Queue!Slots, QueueProved!Slots, Queue!NoTap, QueueProved!NoTap
<1>11. Queue!Init <=> QueueProved!Init
  BY <1>2, <1>10 DEF Queue!Init, QueueProved!Init
<1>12. Queue!Side = QueueProved!Side
  BY DEF Queue!Side, QueueProved!Side
<1>13. \A k, a : Queue!HwPress(k, a) = QueueProved!HwPress(k, a)
  BY DEF Queue!HwPress, QueueProved!HwPress, Queue!IsKey, QueueProved!IsKey
<1>14. \A k : Queue!Needed(k) = QueueProved!Needed(k)
  BY DEF Queue!Needed, QueueProved!Needed, Queue!ModsOf, QueueProved!ModsOf, Queue!IsKey, QueueProved!IsKey, Queue!Slots, QueueProved!Slots
<1>15. \A k, a : Queue!HwRelease(k, a) = QueueProved!HwRelease(k, a)
  BY <1>14 DEF Queue!HwRelease, QueueProved!HwRelease, Queue!IsKey, QueueProved!IsKey
<1>16. \A k, a, s : Queue!LayerDown(k, a, s) = QueueProved!LayerDown(k, a, s)
  BY DEF Queue!LayerDown, QueueProved!LayerDown
<1>17. \A k, a, s : Queue!LayerUp(k, a, s) = QueueProved!LayerUp(k, a, s)
  BY DEF Queue!LayerUp, QueueProved!LayerUp
<1>18. \A k, s : Queue!ActionUp(k, s) = QueueProved!ActionUp(k, s)
  BY <1>15, <1>17 DEF Queue!ActionUp, QueueProved!ActionUp, Queue!IsLayer, QueueProved!IsLayer
<1>19. \A k : Queue!LayerOf(k) = QueueProved!LayerOf(k)
  BY DEF Queue!LayerOf, QueueProved!LayerOf
<1>20. \A k, e : Queue!RawEvent(k, e) = QueueProved!RawEvent(k, e)
  BY DEF Queue!RawEvent, QueueProved!RawEvent
<1>21. \A k, e : Queue!KeymapEvent(k, e) = QueueProved!KeymapEvent(k, e)
  BY <1>13, <1>16, <1>18, <1>19 DEF Queue!KeymapEvent, QueueProved!KeymapEvent, Queue!IsLayer, QueueProved!IsLayer
<1>22. \A k, e : Queue!PadEvent(k, e) = QueueProved!PadEvent(k, e)
  BY <1>20, <1>21 DEF Queue!PadEvent, QueueProved!PadEvent, Queue!PadActive, QueueProved!PadActive
<1>23. \A k : Queue!SetSide(k) <=> QueueProved!SetSide(k)
  BY DEF Queue!SetSide, QueueProved!SetSide
<1>24. \A k : Queue!DropTap(k) = QueueProved!DropTap(k)
  BY <1>15 DEF Queue!DropTap, QueueProved!DropTap, Queue!NoTap, QueueProved!NoTap
<1>25. \A k, as : Queue!Released(k, as) = QueueProved!Released(k, as)
  BY DEF Queue!Released, QueueProved!Released, Queue!IsKey, QueueProved!IsKey
<1>26. \A k : Queue!ReleaseAll(k) = QueueProved!ReleaseAll(k)
  BY <1>25 DEF Queue!ReleaseAll, QueueProved!ReleaseAll, Queue!NoTap, QueueProved!NoTap, Queue!Slots, QueueProved!Slots, Queue!IsLayer, QueueProved!IsLayer
<1>27. \A p, q : Queue!At(p, q) <=> QueueProved!At(p, q)
  BY DEF Queue!At, QueueProved!At
<1>28. Queue!NoCommand <=> QueueProved!NoCommand
  BY <1>27 DEF Queue!NoCommand, QueueProved!NoCommand, Queue!rawVars, QueueProved!rawVars, Queue!keyVars, QueueProved!keyVars, Queue!tapVars, QueueProved!tapVars
<1>29. Queue!RawOn <=> QueueProved!RawOn
  BY <1>12, <1>23, <1>26, <1>27 DEF Queue!RawOn, QueueProved!RawOn, Queue!PadActive, QueueProved!PadActive, Queue!keyVars, QueueProved!keyVars, Queue!tapVars, QueueProved!tapVars
<1>30. Queue!RawOff <=> QueueProved!RawOff
  BY <1>27 DEF Queue!RawOff, QueueProved!RawOff, Queue!PadActive, QueueProved!PadActive, Queue!keyVars, QueueProved!keyVars, Queue!tapVars, QueueProved!tapVars
<1>31. \A l, s, a : Queue!SetAction(l, s, a) <=> QueueProved!SetAction(l, s, a)
  BY <1>27 DEF Queue!SetAction, QueueProved!SetAction, Queue!rawVars, QueueProved!rawVars, Queue!keyVars, QueueProved!keyVars, Queue!tapVars, QueueProved!tapVars
<1>32. \A l : Queue!GoToLayer(l) <=> QueueProved!GoToLayer(l)
  BY DEF Queue!GoToLayer, QueueProved!GoToLayer, Queue!rawVars, QueueProved!rawVars, Queue!tapVars, QueueProved!tapVars
<1>33. \A l : Queue!SetLayer(l) <=> QueueProved!SetLayer(l)
  BY <1>27, <1>32 DEF Queue!SetLayer, QueueProved!SetLayer
<1>34. Queue!Reset <=> QueueProved!Reset
  BY <1>27, <1>32 DEF Queue!Reset, QueueProved!Reset
<1>35. Queue!Restart <=> QueueProved!Restart
  BY <1>6, <1>27 DEF Queue!Restart, QueueProved!Restart, Queue!Slots, QueueProved!Slots, Queue!NoTap, QueueProved!NoTap
<1>36. \A ms : Queue!Clock(ms) <=> QueueProved!Clock(ms)
  BY <1>5, <1>27 DEF Queue!Clock, QueueProved!Clock, Queue!rawVars, QueueProved!rawVars, Queue!PadActive, QueueProved!PadActive, Queue!keyVars, QueueProved!keyVars
<1>37. \A on, k, kind, slot : Queue!Event(on, k, kind, slot) = QueueProved!Event(on, k, kind, slot)
  BY <1>22 DEF Queue!Event, QueueProved!Event
<1>38. \A lv, t : Queue!KeyScan(lv, t) <=> QueueProved!KeyScan(lv, t)
  BY <1>3, <1>12, <1>23, <1>27, <1>37 DEF Queue!KeyScan, QueueProved!KeyScan
<1>39. \A d : Queue!Room(d) = QueueProved!Room(d)
  BY DEF Queue!Room, QueueProved!Room, Queue!Last, QueueProved!Last
<1>40. \A d, n : Queue!NewRun(d, n) = QueueProved!NewRun(d, n)
  BY <1>39 DEF Queue!NewRun, QueueProved!NewRun
<1>41. \A d, n : Queue!Joined(d, n) = QueueProved!Joined(d, n)
  BY <1>39 DEF Queue!Joined, QueueProved!Joined, Queue!Least, QueueProved!Least, Queue!Last, QueueProved!Last
<1>42. \A d, n : Queue!Accepted(d, n) = QueueProved!Accepted(d, n)
  BY <1>39 DEF Queue!Accepted, QueueProved!Accepted
<1>43. \A d, n : Queue!Turn(d, n) <=> QueueProved!Turn(d, n)
  BY <1>4, <1>40, <1>41, <1>42 DEF Queue!Turn, QueueProved!Turn, Queue!PadActive, QueueProved!PadActive, Queue!tapVars, QueueProved!tapVars, Queue!rawVars, QueueProved!rawVars, Queue!keyVars, QueueProved!keyVars
<1>44. Queue!EndTurns <=> QueueProved!EndTurns
  BY <1>27 DEF Queue!EndTurns, QueueProved!EndTurns, Queue!rawVars, QueueProved!rawVars, Queue!keyVars, QueueProved!keyVars, Queue!tapVars, QueueProved!tapVars
<1>45. Queue!TapRelease <=> QueueProved!TapRelease
  BY <1>12, <1>23, <1>24 DEF Queue!TapRelease, QueueProved!TapRelease, Queue!keyVars, QueueProved!keyVars
<1>46. Queue!TapPress <=> QueueProved!TapPress
  BY <1>8, <1>12, <1>13, <1>16, <1>17, <1>23 DEF Queue!TapPress, QueueProved!TapPress, Queue!IsLayer, QueueProved!IsLayer, Queue!IsKey, QueueProved!IsKey
<1>47. Queue!Taps <=> QueueProved!Taps
  BY <1>27, <1>45, <1>46 DEF Queue!Taps, QueueProved!Taps, Queue!PadActive, QueueProved!PadActive, Queue!keyVars, QueueProved!keyVars, Queue!tapVars, QueueProved!tapVars
<1>48. Queue!Next <=> QueueProved!Next
  BY <1>28, <1>29, <1>30, <1>31, <1>33, <1>34, <1>35, <1>36, <1>38, <1>43, <1>44, <1>47 DEF Queue!Next, QueueProved!Next, Queue!Slots, QueueProved!Slots
<1>49. \A rs, ds : Queue!InOrder(rs, ds) <=> QueueProved!InOrder(rs, ds)
  BY DEF Queue!InOrder, QueueProved!InOrder
<1>50. Queue!TapsInOrder <=> QueueProved!TapsInOrder
  BY <1>49 DEF Queue!TapsInOrder, QueueProved!TapsInOrder
<1> QED
  BY <1>11, <1>48, <1>7, <1>50, <1>9

(* The same of the session.                                                  *)
LEMMA DetentsAreSession ==
  /\ Detents!Init <=> DetentsProved!Init
  /\ Detents!Next <=> DetentsProved!Next
  /\ Detents!vars = DetentsProved!vars
  /\ Detents!TypeOK <=> DetentsProved!TypeOK
  /\ Detents!NoDetentTwice <=> DetentsProved!NoDetentTwice
  /\ Detents!AnswerRestoresDetents <=> DetentsProved!AnswerRestoresDetents
<1>1. Detents!PadTypeOK <=> DetentsProved!PadTypeOK
  BY DEF Detents!PadTypeOK, DetentsProved!PadTypeOK, Detents!Keys, DetentsProved!Keys
<1>2. Detents!PadInit <=> DetentsProved!PadInit
  BY DEF Detents!PadInit, DetentsProved!PadInit
<1>3. \A on, kind, slot : Detents!Edge(on, kind, slot) = DetentsProved!Edge(on, kind, slot)
  BY DEF Detents!Edge, DetentsProved!Edge
<1>4. \A lv : Detents!GpioKind(lv) = DetentsProved!GpioKind(lv)
  BY DEF Detents!GpioKind, DetentsProved!GpioKind
<1>5. \A lv, t : Detents!RawKeyEvents(lv, t) = DetentsProved!RawKeyEvents(lv, t)
  BY <1>3, <1>4 DEF Detents!RawKeyEvents, DetentsProved!RawKeyEvents, Detents!PadActive, DetentsProved!PadActive
<1>6. \A lv, t : Detents!ScanKeys(lv, t) <=> DetentsProved!ScanKeys(lv, t)
  BY <1>5 DEF Detents!ScanKeys, DetentsProved!ScanKeys, Detents!PadActive, DetentsProved!PadActive, Detents!PadDown, DetentsProved!PadDown
<1>7. \A d, n : Detents!TurnRaw(d, n) <=> DetentsProved!TurnRaw(d, n)
  BY DEF Detents!TurnRaw, DetentsProved!TurnRaw, Detents!PadActive, DetentsProved!PadActive
<1>8. Detents!SetRawOn <=> DetentsProved!SetRawOn
  BY DEF Detents!SetRawOn, DetentsProved!SetRawOn, Detents!PadActive, DetentsProved!PadActive
<1>9. Detents!SetRawOff <=> DetentsProved!SetRawOff
  BY DEF Detents!SetRawOff, DetentsProved!SetRawOff, Detents!PadActive, DetentsProved!PadActive
<1>10. Detents!TickRaw <=> DetentsProved!TickRaw
  BY DEF Detents!TickRaw, DetentsProved!TickRaw, Detents!PadActive, DetentsProved!PadActive
<1>11. Detents!ResetPad <=> DetentsProved!ResetPad
  BY DEF Detents!ResetPad, DetentsProved!ResetPad
<1>12. Detents!vars = DetentsProved!vars
  BY DEF Detents!vars, DetentsProved!vars, Detents!padVars, DetentsProved!padVars, Detents!daemonVars, DetentsProved!daemonVars, Detents!histVars, DetentsProved!histVars
<1>13. Detents!Requests = DetentsProved!Requests
  BY DEF Detents!Requests, DetentsProved!Requests
<1>14. Detents!EventMsg = DetentsProved!EventMsg
  BY DEF Detents!EventMsg, DetentsProved!EventMsg, Detents!Keys, DetentsProved!Keys
<1>15. Detents!SnapshotMsg = DetentsProved!SnapshotMsg
  BY DEF Detents!SnapshotMsg, DetentsProved!SnapshotMsg, Detents!Keys, DetentsProved!Keys
<1>16. Detents!Message = DetentsProved!Message
  BY <1>14, <1>15 DEF Detents!Message, DetentsProved!Message
<1>17. Detents!TypeOK <=> DetentsProved!TypeOK
  BY <1>1, <1>13, <1>16 DEF Detents!TypeOK, DetentsProved!TypeOK, Detents!Keys, DetentsProved!Keys
<1>18. Detents!Init <=> DetentsProved!Init
  BY <1>2 DEF Detents!Init, DetentsProved!Init, Detents!ZeroCounts, DetentsProved!ZeroCounts
<1>19. \A msgs : Detents!Report(msgs) <=> DetentsProved!Report(msgs)
  BY DEF Detents!Report, DetentsProved!Report
<1>20. \A n : Detents!HasRoom(n) <=> DetentsProved!HasRoom(n)
  BY DEF Detents!HasRoom, DetentsProved!HasRoom
<1>21. \A lv, t : Detents!PadKeys(lv, t) <=> DetentsProved!PadKeys(lv, t)
  BY <1>5, <1>6, <1>19, <1>20 DEF Detents!PadKeys, DetentsProved!PadKeys, Detents!daemonVars, DetentsProved!daemonVars, Detents!histVars, DetentsProved!histVars
<1>22. \A d, n : Detents!PadTurn(d, n) <=> DetentsProved!PadTurn(d, n)
  BY <1>7, <1>19, <1>20 DEF Detents!PadTurn, DetentsProved!PadTurn, Detents!daemonVars, DetentsProved!daemonVars
<1>23. \A type : Detents!SnapshotOf(type) = DetentsProved!SnapshotOf(type)
  BY DEF Detents!SnapshotOf, DetentsProved!SnapshotOf
<1>24. Detents!PadAnswer <=> DetentsProved!PadAnswer
  BY <1>8, <1>9, <1>19, <1>23 DEF Detents!PadAnswer, DetentsProved!PadAnswer, Detents!padVars, DetentsProved!padVars, Detents!PadActive, DetentsProved!PadActive, Detents!daemonVars, DetentsProved!daemonVars
<1>25. Detents!Tick <=> DetentsProved!Tick
  BY <1>10 DEF Detents!Tick, DetentsProved!Tick
<1>26. Detents!LoseReport <=> DetentsProved!LoseReport
  BY DEF Detents!LoseReport, DetentsProved!LoseReport, Detents!Restores, DetentsProved!Restores, Detents!padVars, DetentsProved!padVars, Detents!daemonVars, DetentsProved!daemonVars, Detents!RemoveAt, DetentsProved!RemoveAt
<1>27. Detents!LoseRequest <=> DetentsProved!LoseRequest
  BY DEF Detents!LoseRequest, DetentsProved!LoseRequest, Detents!padVars, DetentsProved!padVars, Detents!daemonVars, DetentsProved!daemonVars
<1>28. Detents!Replug <=> DetentsProved!Replug
  BY <1>11 DEF Detents!Replug, DetentsProved!Replug, Detents!daemonVars, DetentsProved!daemonVars
<1>29. \A c : Detents!SendRequest(c) <=> DetentsProved!SendRequest(c)
  BY DEF Detents!SendRequest, DetentsProved!SendRequest
<1>30. Detents!Forget <=> DetentsProved!Forget
  BY DEF Detents!Forget, DetentsProved!Forget, Detents!ZeroCounts, DetentsProved!ZeroCounts
<1>31. Detents!CloseDevice <=> DetentsProved!CloseDevice
  BY <1>30 DEF Detents!CloseDevice, DetentsProved!CloseDevice
<1>32. Detents!Start <=> DetentsProved!Start
  BY DEF Detents!Start, DetentsProved!Start, Detents!padVars, DetentsProved!padVars, Detents!histVars, DetentsProved!histVars
<1>33. Detents!AskInfo <=> DetentsProved!AskInfo
  BY <1>29 DEF Detents!AskInfo, DetentsProved!AskInfo, Detents!padVars, DetentsProved!padVars, Detents!histVars, DetentsProved!histVars
<1>34. Detents!Stop <=> DetentsProved!Stop
  BY <1>29, <1>31 DEF Detents!Stop, DetentsProved!Stop, Detents!padVars, DetentsProved!padVars
<1>35. Detents!InfoTimeout <=> DetentsProved!InfoTimeout
  BY <1>31 DEF Detents!InfoTimeout, DetentsProved!InfoTimeout, Detents!padVars, DetentsProved!padVars
<1>36. Detents!Crash <=> DetentsProved!Crash
  BY <1>30 DEF Detents!Crash, DetentsProved!Crash, Detents!padVars, DetentsProved!padVars
<1>37. Detents!GivesUp <=> DetentsProved!GivesUp
  BY DEF Detents!GivesUp, DetentsProved!GivesUp
<1>38. Detents!Heartbeat <=> DetentsProved!Heartbeat
  BY <1>20, <1>29, <1>37 DEF Detents!Heartbeat, DetentsProved!Heartbeat, Detents!padVars, DetentsProved!padVars
<1>39. \A m, d : Detents!Missing(m, d) = DetentsProved!Missing(m, d)
  BY DEF Detents!Missing, DetentsProved!Missing
<1>40. Detents!Half = DetentsProved!Half
  BY DEF Detents!Half, DetentsProved!Half
<1>41. \A m : Detents!TakeSnapshot(m) <=> DetentsProved!TakeSnapshot(m)
  BY <1>39, <1>40 DEF Detents!TakeSnapshot, DetentsProved!TakeSnapshot, Detents!ZeroCounts, DetentsProved!ZeroCounts
<1>42. \A m : Detents!ReadInfo(m) <=> DetentsProved!ReadInfo(m)
  BY <1>29 DEF Detents!ReadInfo, DetentsProved!ReadInfo
<1>43. \A m : Detents!RefuseInfo(m) <=> DetentsProved!RefuseInfo(m)
  BY <1>31 DEF Detents!RefuseInfo, DetentsProved!RefuseInfo
<1>44. \A m : Detents!ReadRawMode(m) <=> DetentsProved!ReadRawMode(m)
  BY <1>41 DEF Detents!ReadRawMode, DetentsProved!ReadRawMode
<1>45. \A m : Detents!ReadRefusal(m) <=> DetentsProved!ReadRefusal(m)
  BY <1>31 DEF Detents!ReadRefusal, DetentsProved!ReadRefusal
<1>46. \A m : Detents!ReadKeys(m) <=> DetentsProved!ReadKeys(m)
  BY <1>41 DEF Detents!ReadKeys, DetentsProved!ReadKeys
<1>47. \A m : Detents!IsGap(m) <=> DetentsProved!IsGap(m)
  BY DEF Detents!IsGap, DetentsProved!IsGap
<1>48. \A m : Detents!ReadKeyEvent(m) <=> DetentsProved!ReadKeyEvent(m)
  BY <1>29, <1>47 DEF Detents!ReadKeyEvent, DetentsProved!ReadKeyEvent
<1>49. \A m : Detents!ReadTap(m) <=> DetentsProved!ReadTap(m)
  BY <1>29, <1>47 DEF Detents!ReadTap, DetentsProved!ReadTap
<1>50. \A m : Detents!ReadGone(m) <=> DetentsProved!ReadGone(m)
  BY <1>31 DEF Detents!ReadGone, DetentsProved!ReadGone
<1>51. \A m : Detents!Skips(m) <=> DetentsProved!Skips(m)
  BY DEF Detents!Skips, DetentsProved!Skips
<1>52. \A m : Detents!ReadSkipped(m) <=> DetentsProved!ReadSkipped(m)
  BY <1>51 DEF Detents!ReadSkipped, DetentsProved!ReadSkipped, Detents!daemonVars, DetentsProved!daemonVars
<1>53. Detents!ReadReport <=> DetentsProved!ReadReport
  BY <1>42, <1>43, <1>44, <1>45, <1>46, <1>48, <1>49, <1>50, <1>52 DEF Detents!ReadReport, DetentsProved!ReadReport, Detents!padVars, DetentsProved!padVars
<1>54. Detents!Next <=> DetentsProved!Next
  BY <1>21, <1>22, <1>24, <1>25, <1>26, <1>27, <1>28, <1>32, <1>33, <1>34, <1>35, <1>36, <1>38, <1>53 DEF Detents!Next, DetentsProved!Next
<1>55. \A f, n : Detents!SumUpTo(f, n) = DetentsProved!SumUpTo(f, n)
  BY DEF Detents!SumUpTo, DetentsProved!SumUpTo
<1>56. \A m, d : Detents!TapOf(m, d) = DetentsProved!TapOf(m, d)
  BY DEF Detents!TapOf, DetentsProved!TapOf
<1>57. \A s, d : Detents!Tapped(s, d) = DetentsProved!Tapped(s, d)
  BY <1>55, <1>56 DEF Detents!Tapped, DetentsProved!Tapped
<1>58. \A d : Detents!Queued(d) = DetentsProved!Queued(d)
  BY <1>57 DEF Detents!Queued, DetentsProved!Queued
<1>59. Detents!NoDetentTwice <=> DetentsProved!NoDetentTwice
  BY <1>58 DEF Detents!NoDetentTwice, DetentsProved!NoDetentTwice
<1>60. Detents!AnswerRestoresDetents <=> DetentsProved!AnswerRestoresDetents
  BY <1>40, <1>53 DEF Detents!AnswerRestoresDetents, DetentsProved!AnswerRestoresDetents, Detents!Restores, DetentsProved!Restores
<1> QED
  BY <1>18, <1>54, <1>12, <1>17, <1>59, <1>60

(* The queue's instance keeps what the core assumes of its constants.        *)
LEMMA QueueIsInstance == QueueProved!CoreAssumption /\ QueueProved!ActionAssumption
<1>1. QueueProved!CoreAssumption
  <2>1. TapGap \in Nat \ {0} /\ Timeout \in Nat \ {0}
    BY CoreAssumption
  <2>2. EpochWrap \in Nat \ {0} /\ SeqWrap \in Nat \ {0}
    BY CoreAssumption
  <2>3. {2, 3, TapGap} \subseteq Nat \ {0} /\ 3 <= 3 /\ 0 \in Nat
    BY <2>1
  <2>4. {Timeout, EpochWrap, SeqWrap, 4, 3} \subseteq Nat \ {0}
    BY <2>1, <2>2
  <2>5. /\ {0, 1} \subseteq Layers /\ NoLayer \notin Layers
        /\ FALSE \in GpioLevels /\ GpioLevels \subseteq BOOLEAN
    BY CoreAssumption
  <2>6. /\ GpioKey \notin {} /\ Dirs \cap ({GpioKey} \cup {}) = {}
        /\ NoKey \notin {GpioKey} \cup {} \cup Dirs
    BY CoreAssumption
  <2> QED
    BY <2>3, <2>4, <2>5, <2>6 DEF QueueProved!CoreAssumption
<1>2. QueueProved!Slots = {g, cw, ccw}
  BY PadAssumption DEF QueueProved!Slots
<1>3. g # t1 /\ g # t2 /\ g # cw /\ g # ccw /\ t1 # cw /\ t1 # ccw /\ t2 # cw /\ t2 # ccw /\ cw # ccw
  BY PadAssumption, CoreAssumption
<1>4. ASSUME NEW l \in Layers, NEW s \in {g, cw, ccw}
      PROVE  /\ QueueMap[l][s] \in {Key("a", {Ctrl}), Key("b", {Ctrl, Shift}), Key("d", {Shift}),
                                     Wheel, LayerKey("SET", 1), LayerKey("MOMENTARY", 0)}
             /\ QueueMap[l][s] \in QueueProved!Actions
  <2>1. QueueMap[l][s] = ChordMap[l][s]
    BY PadAssumption DEF QueueMap
  <2>2. ChordMap[l][s] \in {Key("a", {Ctrl}), Key("b", {Ctrl, Shift}), Key("d", {Shift}),
                            Wheel, LayerKey("SET", 1), LayerKey("MOMENTARY", 0)}
    <3>1. CASE s = g
      BY <1>3, <3>1, PadAssumption DEF ChordMap
    <3>2. CASE s = cw
      BY <1>3, <3>2, PadAssumption DEF ChordMap
    <3>3. CASE s = ccw
      BY <1>3, <3>3, PadAssumption DEF ChordMap
    <3> QED
      BY <3>1, <3>2, <3>3
  <2> QED
    BY <1>2, <2>1, <2>2 DEF QueueProved!Actions
<1>5. QueueMap \in [Layers -> [QueueProved!Slots -> QueueProved!Actions]]
  <2>1. QueueMap = [l \in Layers |-> [s \in QueueProved!Slots |-> QueueMap[l][s]]]
    BY <1>2, PadAssumption DEF QueueMap
  <2> QED
    BY <1>2, <1>4, <2>1
<1>6. ASSUME NEW a \in QueueProved!Actions
      PROVE  /\ QueueProved!IsKey(a) => a.mods \subseteq Mods
             /\ QueueProved!IsLayer(a) => a.op \in {"TOGGLE", "SET", "MOMENTARY"} /\ a.target \in Layers
  <2>1. \/ a = NoAction
        \/ a \in {Key("a", {Ctrl}), Key("b", {Ctrl, Shift}), Key("d", {Shift})}
        \/ a = Wheel
        \/ a \in {LayerKey("SET", 1), LayerKey("MOMENTARY", 0)}
    <3>1. CASE a = NoAction
      BY <3>1
    <3>2. CASE a # NoAction
      <4>1. PICK l \in Layers, s \in {g, cw, ccw} : a = QueueMap[l][s]
        BY <1>2, <3>2 DEF QueueProved!Actions
      <4> QED
        BY <1>4, <4>1
    <3> QED
      BY <3>1, <3>2
  <2>2. CASE a = NoAction
    BY <2>2 DEF QueueProved!IsKey, QueueProved!IsLayer
  <2>3. CASE a \in {Key("a", {Ctrl}), Key("b", {Ctrl, Shift}), Key("d", {Shift})}
    BY <2>3, PadAssumption DEF QueueProved!IsKey, QueueProved!IsLayer, Key
  <2>4. CASE a = Wheel
    BY <2>4 DEF QueueProved!IsKey, QueueProved!IsLayer, Wheel
  <2>5. CASE a \in {LayerKey("SET", 1), LayerKey("MOMENTARY", 0)}
    BY <2>5, PadAssumption DEF QueueProved!IsKey, QueueProved!IsLayer, LayerKey
  <2> QED
    BY <2>1, <2>2, <2>3, <2>4, <2>5
<1> QED
  BY <1>1, <1>5, <1>6 DEF QueueProved!ActionAssumption

(* And the session's instance what the session assumes.                      *)
LEMMA DetentsIsInstance ==
  DetentsProved!KeysAssumption /\ DetentsProved!ModAssumption /\ DetentsProved!SessionAssumption
<1>1. DetentsProved!KeysAssumption
  BY CoreAssumption DEF DetentsProved!KeysAssumption
<1>2. DetentsProved!ModAssumption
  BY DEF DetentsProved!ModAssumption
<1>3. DetentsProved!SessionAssumption
  BY PadAssumption DEF DetentsProved!SessionAssumption
<1> QED
  BY <1>1, <1>2, <1>3

(* A behaviour of the run that is of one of these parts is a behaviour of    *)
(* the instance it is of, and stays of its part.                             *)
OfQueue == part = "queue"
OfDetents == part = "detents"

(* The part of the queue.                                                   *)
LEMMA PartOfQueue ==
  /\ PadInit /\ OfQueue => QueueProved!Init
  /\ [PadNext]_padVariables /\ OfQueue => [QueueProved!Next]_QueueProved!vars
  /\ [PadNext]_padVariables => (OfQueue' <=> OfQueue)
<1>1. PadInit /\ OfQueue => Queue!Init
  BY DEF PadInit, OfQueue
<1>2. PadNext /\ OfQueue => Queue!Next
  BY DEF PadNext, OfQueue
<1>3. UNCHANGED padVariables => UNCHANGED QueueProved!vars
  BY DEF padVariables, vars, rawVars, keyVars, tapVars, QueueProved!vars, QueueProved!rawVars,
         QueueProved!keyVars, QueueProved!tapVars
<1>4. [PadNext]_padVariables => (OfQueue' <=> OfQueue)
  BY DEF PadNext, padVariables, OfQueue
<1> QED
  BY <1>1, <1>2, <1>3, <1>4, QueueIsCore

(* The same of the session.                                                  *)
LEMMA PartOfDetents ==
  /\ PadInit /\ OfDetents => DetentsProved!Init
  /\ [PadNext]_padVariables /\ OfDetents => [DetentsProved!Next]_DetentsProved!vars
  /\ [PadNext]_padVariables => (OfDetents' <=> OfDetents)
<1>1. PadInit /\ OfDetents => Detents!Init
  BY DEF PadInit, OfDetents
<1>2. PadNext /\ OfDetents => Detents!Next
  BY DEF PadNext, OfDetents
<1>3. UNCHANGED padVariables => UNCHANGED DetentsProved!vars
  BY DEF padVariables, vars, rawVars, sessionVars, DetentsProved!vars, DetentsProved!padVars,
         DetentsProved!daemonVars, DetentsProved!histVars
<1>4. [PadNext]_padVariables => (OfDetents' <=> OfDetents)
  BY DEF PadNext, padVariables, OfDetents
<1> QED
  BY <1>1, <1>2, <1>3, <1>4, DetentsAreSession

(* The property the run checks of the detent queue (PAD_turn, runTaps): with *)
(* two runs of three, full and overfull, detents are typed in the order they *)
(* were turned, each once.                                                   *)
THEOREM PadQueueInOrder == PadSpec => []QueueInOrder
<1>1. QueueProved!Spec => []QueueProved!TapsInOrder
  BY QueueIsInstance, QueueProved!CoreTapsInOrder
<1>2. (OfQueue => QueueProved!TapsInOrder) => QueueInOrder
  BY QueueIsCore DEF QueueInOrder, OfQueue
<1> QED
  BY <1>1, <1>2, PartOfQueue, PTL DEF PadSpec, QueueProved!Spec

(* The property the run checks of a session whose taps are lost: the engine  *)
(* gets no detent twice (handleTap, handleSnapshot).                         *)
THEOREM PadNoDetentTwice == PadSpec => []NoDetentTwice
<1>1. DetentsProved!Spec => []DetentsProved!NoDetentTwice
  BY DetentsIsInstance, DetentsProved!NoDetentComesTwice
<1>2. (OfDetents => DetentsProved!NoDetentTwice) => NoDetentTwice
  BY DetentsAreSession DEF NoDetentTwice, OfDetents
<1> QED
  BY <1>1, <1>2, PartOfDetents, PTL DEF PadSpec, DetentsProved!Spec

(* And an answer of the session followed restores the detents lost before it *)
(* if they are fewer than half the counter's range (restoreDetents).         *)
THEOREM PadDetentsRestored == PadSpec => DetentsRestored
<1>1. DetentsProved!Spec =>
        [][DetentsProved!AnswerRestoresDetents]_DetentsProved!vars /\ []DetentsProved!TypeOK
  BY DetentsIsInstance, DetentsProved!AnswersRestoreDetents, DetentsProved!TypeCorrect
<1>2. DetentsProved!TypeOK /\ UNCHANGED DetentsProved!vars => ~DetentsProved!ReadReport
  <2>1. SUFFICES ASSUME DetentsProved!TypeOK, UNCHANGED DetentsProved!vars, DetentsProved!ReadReport
                 PROVE  FALSE
    OBVIOUS
  <2>2. chan' = chan /\ chan # <<>> /\ (chan' = Tail(chan) \/ chan' = <<>>)
    BY <2>1 DEF DetentsProved!vars, DetentsProved!ReadReport, DetentsProved!ReadInfo,
       DetentsProved!RefuseInfo, DetentsProved!ReadRawMode, DetentsProved!ReadRefusal,
       DetentsProved!ReadKeys, DetentsProved!ReadKeyEvent, DetentsProved!ReadTap,
       DetentsProved!ReadGone, DetentsProved!ReadSkipped, DetentsProved!CloseDevice,
       DetentsProved!Forget
  <2>3. chan \in Seq(DetentsProved!Message)
    BY <2>1 DEF DetentsProved!TypeOK
  <2> QED
    BY <2>2, <2>3, HeadTailProperties
<1>3. DetentsProved!TypeOK /\ [DetentsProved!AnswerRestoresDetents]_DetentsProved!vars =>
        DetentsProved!AnswerRestoresDetents
  BY <1>2 DEF DetentsProved!AnswerRestoresDetents
<1>4. (OfDetents => DetentsProved!AnswerRestoresDetents) =>
        (part = "detents" => Detents!AnswerRestoresDetents)
  BY DetentsAreSession DEF OfDetents
<1> QED
  BY <1>1, <1>3, <1>4, PartOfDetents, PTL DEF PadSpec, DetentsProved!Spec, DetentsRestored

(* The parts that have the core as it is.                                    *)
OfCore == part \notin {"queue", "detents"}

(* Such a part keeps the invariant of the whole core.                         *)
LEMMA PartOfCore ==
  /\ PadInit /\ OfCore => WholeInv
  /\ [PadNext]_padVariables /\ OfCore /\ WholeInv => WholeInv'
  /\ [PadNext]_padVariables => (OfCore' <=> OfCore)
<1>1. PadInit /\ OfCore => Init
  BY DEF PadInit, OfCore
<1>2. PadNext /\ OfCore => Next \/ UNCHANGED vars
  BY DEF PadNext, OfCore
<1>3. UNCHANGED padVariables => UNCHANGED vars
  BY DEF padVariables
<1>4. [PadNext]_padVariables => (OfCore' <=> OfCore)
  BY DEF PadNext, padVariables, OfCore
<1> QED
  BY <1>1, <1>2, <1>3, <1>4, WholeStart, WholeStep

(* The type invariant of the run: of the core in each of its instances, of   *)
(* the session, of the stored keymap and of the knob.                        *)
THEOREM PadTypesCorrect == PadSpec => []PadTypeOK
<1>1. QueueProved!Spec => []QueueProved!TypeOK
  BY QueueIsInstance, QueueProved!CoreTypeCorrect
<1>2. DetentsProved!Spec => []DetentsProved!TypeOK
  BY DetentsIsInstance, DetentsProved!TypeCorrect
<1>3. PadSpec => []StoreInv
  <2>1. PadInit => StoreInv
    BY StoreInvHolds DEF PadInit
  <2>2. PadNext => StoreNext \/ UNCHANGED storeVars
    BY DEF PadNext
  <2>3. UNCHANGED padVariables => UNCHANGED storeVars
    BY DEF padVariables
  <2>4. StoreInv /\ [PadNext]_padVariables => StoreInv'
    BY <2>2, <2>3, StoreInvHolds
  <2> QED
    BY <2>1, <2>4, PTL DEF PadSpec
<1>4. ASSUME OfQueue => QueueProved!TypeOK, OfDetents => DetentsProved!TypeOK, OfCore => WholeInv,
             StoreInv, KnobInv
      PROVE  PadTypeOK
  <2>1. StoreTypeOK /\ InputTypeOK
    BY <1>4, StoreTypesGiven DEF KnobInv, KnobOK
  <2>2. OfQueue => Queue!TypeOK
    BY <1>4, QueueIsCore
  <2>3. OfDetents => Detents!TypeOK
    BY <1>4, DetentsAreSession
  <2>4. OfCore => TypeOK
    BY <1>4, WholeTypes
  <2> QED
    BY <2>1, <2>2, <2>3, <2>4 DEF PadTypeOK, OfQueue, OfDetents, OfCore
<1> QED
  BY <1>1, <1>2, <1>3, <1>4, PadKnob, PartOfQueue, PartOfDetents, PartOfCore, PTL
     DEF PadSpec, QueueProved!Spec, DetentsProved!Spec
=============================================================================
