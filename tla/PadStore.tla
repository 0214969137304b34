------------------------------ MODULE PadStore ------------------------------
(***************************************************************************)
(* The pad's keymap in data flash (control-surface/firmware/src/padstore.c *)
(* over eeprom.c): every EEPROM_write is a step of its own, power may go   *)
(* between any two, and a write may fail to take.  A command is handled to *)
(* its end before the next one, so one list of pending writes is enough.   *)
(***************************************************************************)
EXTENDS Integers, Sequences, SequencesExt

CONSTANTS
  Places,        (* the (layer, slot) pairs                                   *)
  CellOrder,    (* their low and high bytes, in the order saveAll writes them *)
  Bytes,        (* 0..255 in the code                                        *)
  ValidActions, (* PAD_validPacked: pairs of a low and a high byte           *)
  DefaultMap,   (* PAD_defaultAction                                         *)
  StartLayers,       (* the start layers: 0 and 1                                 *)
  Crc(_),       (* PAD_crc8 over the action bytes                            *)
  Flip(_),      (* a byte with all bits inverted, b ^ 0xFF                   *)
  Good, Bad,    (* a header byte that counts, and one written so as not to   *)
  Erased,       (* what a header byte reads that was never written           *)
  Computed,     (* stands for storedCrc() at the time of the write           *)
  MaxFails,     (* bound: writes that do not take, in one behaviour          *)
  MaxCommands   (* bound: commands that write, in one behaviour              *)

Cells == Places \X {"lo", "hi"}
Maps == [Places -> ValidActions]

(* The header.  Rest stands for count, version and the second magic, which   *)
(* are only ever written one after the other.                                *)
Magic == <<"header", "magic">>
Rest == <<"header", "rest">>
CrcByte == <<"header", "crc">>
StartByte == <<"header", "start">>
Header == {Magic, Rest, CrcByte, StartByte}

ASSUME StoreAssumption ==
  /\ CellOrder \in Seq(Cells)
  /\ \A c \in Cells : \E i \in 1..Len(CellOrder) : CellOrder[i] = c
  /\ ValidActions \subseteq Bytes \X Bytes
  /\ DefaultMap \in Maps
  /\ 0 \in StartLayers
  /\ Good \notin {Bad, Erased} /\ Erased \notin StartLayers
  /\ Computed \notin Bytes \cup StartLayers \cup {Good, Bad}
  /\ \A b \in Bytes : Flip(b) \in Bytes \ {b} /\ Flip(Flip(b)) = b
  /\ Cells \cap Header = {}
  /\ {MaxFails, MaxCommands} \subseteq Nat
(* A CRC-8 is a byte, any byte, and notices every change of a single byte.   *)
ASSUME CrcAssumption ==
  \A m \in [Cells -> Bytes] :
    /\ Crc(m) \in Bytes
    /\ \A c \in Cells, b \in Bytes : b # m[c] => Crc([m EXCEPT ![c] = b]) # Crc(m)

VARIABLES
  flash,      (* data flash, by address                                      *)
  ram,     (* Keymap in RAM; kept over a power cut as history             *)
  power,      (* off | boot (the save of PADSTORE_init runs) | up            *)
  todo,       (* EEPROM_writes the running save still has to make            *)
  ok,         (* every write of the command so far took                      *)
  was,        (* history: the keymap of the last command answered ST_OK      *)
  flipped,    (* history: the stored CRC is the inverse of the right one     *)
  fails, commands

storeVars == <<flash, ram, power, todo, ok, was, flipped, fails, commands>>

ActionBytes == [c \in Cells |-> flash[c]]
Write(at, val) == [at |-> at, val |-> val]

StoreTypeOK ==
  /\ ActionBytes \in [Cells -> Bytes]
  /\ flash[Magic] \in {Good, Bad, Erased}
  /\ flash[Rest] \in {Good, Erased}
  /\ flash[CrcByte] \in Bytes
  /\ flash[StartByte] \in StartLayers \cup {Erased}
  /\ ram \in Maps
  /\ power \in {"off", "boot", "up"}
  /\ \A i \in 1..Len(todo) : todo[i].at \in Cells \cup Header
  /\ ok \in BOOLEAN
  /\ was \in Maps
  /\ flipped \in BOOLEAN
  /\ fails \in 0..MaxFails
  /\ commands \in 0..MaxCommands

(* A chip that was never written: every byte reads 0xFF.                     *)
StoreInit ==
  /\ \E b \in Bytes :
       flash = [a \in Cells \cup Header |-> IF a \in Cells \cup {CrcByte} THEN b ELSE Erased]
  /\ ram = DefaultMap /\ was = DefaultMap
  /\ power = "off" /\ todo = <<>> /\ ok = TRUE
  /\ flipped = FALSE /\ fails = 0 /\ commands = 0

-----------------------------------------------------------------------------
SaveByte(map, c) == Write(c, IF c[2] = "lo" THEN map[c[1]][1] ELSE map[c[1]][2])

(* saveSlot                                                                  *)
SaveSlot(map, s) == <<SaveByte(map, <<s, "lo">>), SaveByte(map, <<s, "hi">>)>>

(* Mutant: saveAll does not invalidate the magic first.                      *)
SaveAllInPlace(map, start) ==
  [i \in 1..Len(CellOrder) |-> SaveByte(map, CellOrder[i])]
    \o <<Write(StartByte, start), Write(CrcByte, Computed), Write(Rest, Good),
         Write(Magic, Good)>>

(* saveAll: the magic is invalid until everything else is written.           *)
SaveAll(map, start) ==
  <<Write(Magic, Bad)>>
    \o [i \in 1..Len(CellOrder) |-> SaveByte(map, CellOrder[i])]
    \o <<Write(StartByte, start), Write(CrcByte, Computed), Write(Rest, Good),
         Write(Magic, Good)>>

(* loadStored: the checks, and what it loads.                                *)
Stored == [s \in Places |-> <<flash[<<s, "lo">>], flash[<<s, "hi">>]>>]

(* Mutant: the CRC is all that is checked.                                   *)
LoadsUnchecked ==
  /\ flash[Magic] = Good
  /\ flash[Rest] = Good
  /\ flash[StartByte] \in StartLayers
  /\ flash[CrcByte] = Crc(ActionBytes)

Loads ==
  /\ flash[Magic] = Good
  /\ flash[Rest] = Good
  /\ flash[StartByte] \in StartLayers
  /\ flash[CrcByte] = Crc(ActionBytes)
  /\ \A s \in Places : Stored[s] \in ValidActions

(* PADSTORE_init: what loads has the CRC that is stored, whoever wrote it.   *)
Boot ==
  /\ power = "off"
  /\ IF Loads
     THEN /\ power' = "up" /\ ram' = Stored /\ was' = Stored
          /\ todo' = <<>> /\ flipped' = FALSE
     ELSE /\ power' = "boot" /\ ram' = DefaultMap /\ was' = DefaultMap
          /\ todo' = SaveAll(DefaultMap, 0) /\ flipped' = flipped
  /\ ok' = TRUE
  /\ UNCHANGED <<flash, fails, commands>>

PowerCut ==
  /\ power # "off"
  /\ power' = "off"
  /\ UNCHANGED <<flash, ram, todo, ok, was, flipped, fails, commands>>

-----------------------------------------------------------------------------
(* EEPROM_write: the byte takes the value, or it reads back as another one.  *)
Value(w) == IF w.val = Computed THEN Crc(ActionBytes) ELSE w.val

GoOn(rest) ==
  /\ todo' = rest
  /\ power' = IF rest = <<>> THEN "up" ELSE power

Takes ==
  /\ power # "off" /\ todo # <<>>
  /\ flash' = [flash EXCEPT ![Head(todo).at] = Value(Head(todo))]
  /\ GoOn(Tail(todo))
  /\ was' = IF Len(todo) = 1 /\ ok THEN ram ELSE was
  /\ flipped' = IF Head(todo).at = CrcByte THEN Head(todo).val # Computed /\ ~flipped
                                           ELSE flipped
  /\ UNCHANGED <<ram, ok, fails, commands>>

(* What a byte that does not take its value may read.                        *)
Misread(at) == IF at \in Cells \cup {CrcByte} THEN Bytes ELSE {flash[at], Erased}

(* A save goes on whatever failed before (ok &= ...), but SET_ACTION leaves  *)
(* the CRC alone after a failed byte (&&).                                   *)
AfterFailure ==
  IF Last(todo).at = CrcByte /\ Len(todo) > 1 THEN Front(Tail(todo)) ELSE Tail(todo)

DoesNotTake ==
  /\ power # "off" /\ todo # <<>>
  /\ fails < MaxFails /\ fails' = fails + 1
  /\ LET w == Head(todo) IN
       /\ flash[w.at] # Value(w)
       /\ \E v \in Misread(w.at) \ {Value(w)} : flash' = [flash EXCEPT ![w.at] = v]
  /\ GoOn(AfterFailure)
  /\ ok' = FALSE
  /\ UNCHANGED <<ram, was, flipped, commands>>

(* The commands of PADSTORE_handle that write.                               *)
Command(map, writes) ==
  /\ power = "up" /\ todo = <<>>
  /\ commands < MaxCommands /\ commands' = commands + 1
  /\ ram' = map
  /\ todo' = writes
  /\ ok' = TRUE
  /\ UNCHANGED <<flash, power, was, flipped, fails>>

(* Mutant: SET_ACTION leaves the CRC for later.                              *)
PutActionNoCrc(s, a) ==
  LET map == [ram EXCEPT ![s] = a]
  IN Command(map, SaveSlot(map, s))

PutAction(s, a) ==
  LET map == [ram EXCEPT ![s] = a]
  IN Command(map, Append(SaveSlot(map, s), Write(CrcByte, Computed)))

ResetAll == Command(DefaultMap, SaveAll(DefaultMap, 0))

SetStartLayer(l) == Command(ram, <<Write(StartByte, l)>>)

(* CMD_CORRUPT inverts the stored CRC; a second one puts it right again.     *)
Corrupt == Command(ram, <<Write(CrcByte, Flip(flash[CrcByte]))>>)

StoreNext ==
  \/ Boot
  \/ PowerCut
  \/ Takes
  \/ DoesNotTake
  \/ \E s \in Places, a \in ValidActions : PutAction(s, a)
  \/ ResetAll
  \/ \E l \in StartLayers : SetStartLayer(l)
  \/ Corrupt

StoreSpec == StoreInit /\ [][StoreNext]_storeVars

-----------------------------------------------------------------------------
(* While every write takes, the pad never runs a keymap nobody asked for:    *)
(* after power came back it has the keymap of the last command that was      *)
(* answered, the one the interrupted command asked for, or the defaults,     *)
(* never a mixture (saveAll, loadStored).  There is one exception: an edit   *)
(* made while the recovery test has the CRC inverted, cut off between its    *)
(* two bytes (PADSTORE_handle, CMD_CORRUPT: an inverted CRC is the right one *)
(* of some other keymap, and one changed byte may make it that keymap).      *)
AskedFor == {was, ram, DefaultMap}
HalfAnEdit == Len(todo) = 2 /\ todo[2] = Write(CrcByte, Computed)
BootFindsWhole == Boot /\ fails = 0 => ram' \in AskedFor \/ (flipped /\ HalfAnEdit)

(* A change that was completed is there after the next power cut, unless the *)
(* recovery test inverted the CRC (SET_ACTION, RESET, CORRUPT).              *)
Durable == Boot /\ fails = 0 /\ todo = <<>> /\ ~flipped => ram' = ram
=============================================================================
