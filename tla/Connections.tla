----------------------------- MODULE Connections -----------------------------
(***************************************************************************)
(* The Connections page (settings/src/connections): the radios as they are *)
(* and as they are shown, the reads and switches that run on threads of    *)
(* their own, and what airplane mode remembers of the radios it turns off. *)
(***************************************************************************)
EXTENDS Integers, Sequences, FiniteSets

CONSTANTS
    MaxSwitches,  \* bound: switching actions begun
    MaxOutside,   \* bound: switches flipped elsewhere
    MaxToolFaults \* bound: failures of nmcli, bluetoothctl and of the memory file

ASSUME ConnectionsAssumption == MaxSwitches \in Nat /\ MaxOutside \in Nat /\ MaxToolFaults \in Nat

Radios == <<"wifi", "bluetooth">>      \* the order in which they are read and switched
Radio == {Radios[i] : i \in 1..2}

VARIABLES
    real,      \* the radios
    shown,     \* State::shown
    plane,     \* State::airplane, the switch as it was last shown
    epoch,     \* State::epoch
    reads,     \* State::reading, with the epoch of the read and its answer
    switch,    \* the switching action on its thread; State::busy
    memory,    \* airplane-mode.json
    outside, toolFaults, switches, \* counters of the bounds
    grounded,  \* history: the radios that airplane mode turned off, and nobody has switched since
    again,     \* history: airplane mode was turned on again while some radio was still off from before,
               \* or with the memory of an earlier time
    since      \* history: what each radio has been since the last switch began to read it back

connVars == <<real, shown, plane, epoch, reads, switch, memory, outside, toolFaults, switches, grounded, again, since>>

NoSwitch == [kind |-> "none"]
NotReading == [epoch |-> 0, saw |-> "nothing"]
NoMemory == [r \in Radio |-> "unknown"]
Known == {"on", "off"}
Present(snapshot, r) == snapshot[r] # "missing"

(* Snapshot::airplane: it is on when there is a radio and all there are are off;
   what was shown before stays when a radio that is not on could not be read. *)
Airplane(snapshot, before) ==
    LET there == {r \in Radio : Present(snapshot, r)} IN
    IF there = {} \/ \E r \in there : snapshot[r] = "on" THEN FALSE
    ELSE IF \E r \in there : snapshot[r] # "off" THEN before
    ELSE TRUE

ConnInit ==
    /\ real \in [Radio -> Known \cup {"missing"}]
    /\ shown = [r \in Radio |-> "unread"] /\ plane = FALSE
    /\ epoch = 1 /\ reads = [r \in Radio |-> [epoch |-> 1, saw |-> "nothing"]]
    /\ switch = NoSwitch /\ memory = NoMemory
    /\ outside = 0 /\ toolFaults = 0 /\ switches = 0
    /\ grounded = {} /\ again = FALSE /\ since = [r \in Radio |-> {real[r]}]

Becomes(r, state) ==
    /\ real' = [real EXCEPT ![r] = state]
    /\ since' = [since EXCEPT ![r] = @ \cup {state}]

(* A key of the keyboard, rfkill or another program switches a radio, or its
   service comes and goes. *)
SwitchedElsewhere(r, state) ==
    /\ outside < MaxOutside /\ outside' = outside + 1
    /\ real[r] # state /\ Becomes(r, state)
    /\ grounded' = grounded \ {r}
    /\ UNCHANGED <<shown, plane, epoch, reads, switch, memory, toolFaults, switches, again>>

(* radio::read: the radio, or that it could not be read; a bluetoothd that does
   not answer is a missing radio. *)
Fault == toolFaults < MaxToolFaults /\ toolFaults' = toolFaults + 1
Sees(r, answer) ==
    \/ answer = real[r] /\ UNCHANGED toolFaults
    \/ Fault /\ answer \in (IF r = "wifi" THEN {"failed"} ELSE {"failed", "missing"})
Answers == Known \cup {"missing", "failed"}

-----------------------------------------------------------------------------
(***************************************************************************)
(* Reads: opening the page, "Check again" and the poll of an open page.    *)
(***************************************************************************)
BeginReads(all) ==
    /\ switch = NoSwitch
    /\ LET starts == {r \in Radio : reads[r] = NotReading /\ (all \/ Present(shown, r))} IN
       /\ starts # {}
       /\ reads' = [r \in Radio |-> IF r \in starts THEN [epoch |-> epoch, saw |-> "nothing"] ELSE reads[r]]
    /\ UNCHANGED <<real, shown, plane, epoch, switch, memory, outside, toolFaults, switches, grounded, again, since>>

ReadRadio(r, answer) ==
    /\ reads[r] # NotReading /\ reads[r].saw = "nothing"
    /\ Sees(r, answer)
    /\ reads' = [reads EXCEPT ![r].saw = answer]
    /\ UNCHANGED <<real, shown, plane, epoch, switch, memory, outside, switches, grounded, again, since>>

Show(snapshot) == shown' = snapshot /\ plane' = Airplane(snapshot, plane)

(* view::with_reading: a failure does not replace a state that was seen. *)
WithReading(r, answer) ==
    IF answer = "failed" /\ shown[r] \in Known THEN shown ELSE [shown EXCEPT ![r] = answer]

(* Mutant: a result is taken whenever no switch is under way. *)
CurrentBetweenSwitches(r) == switch = NoSwitch

IsCurrent(r) == switch = NoSwitch /\ reads[r].epoch = epoch

FinishRead(r) ==
    /\ reads[r].saw # "nothing"
    /\ reads' = [reads EXCEPT ![r] = NotReading]
    /\ IF IsCurrent(r) THEN Show(WithReading(r, reads[r].saw)) ELSE UNCHANGED <<shown, plane>>
    /\ UNCHANGED <<real, epoch, switch, memory, outside, toolFaults, switches, grounded, again, since>>

-----------------------------------------------------------------------------
(***************************************************************************)
(* A switching action: a snapshot, the memory, the radios one by one, and  *)
(* a snapshot again.                                                       *)
(***************************************************************************)
BeginAction(kind, radios) ==
    /\ switch = NoSwitch /\ switches < MaxSwitches /\ switches' = switches + 1
    /\ epoch' = epoch + 1
    /\ switch' = [kind |-> kind, stage |-> IF kind \in {"enable", "disable"} THEN "before" ELSE "switch",
                  seen |-> <<>>, missing |-> {r \in Radio : ~Present(shown, r)}, left |-> radios, failed |-> FALSE]
    /\ UNCHANGED <<real, shown, plane, reads, memory, outside, toolFaults, grounded, again, since>>

SetAirplane == BeginAction(IF plane THEN "disable" ELSE "enable", <<>>)
SetRadio(r) == shown[r] \in Known /\ BeginAction(IF shown[r] = "on" THEN "off" ELSE "on", <<r>>)

(* radio::snapshot: a radio that was missing is not asked for again. *)
TakesSnapshot == switch.kind # "none" /\ switch.stage \in {"before", "after"} /\ Len(switch.seen) < 2
Snap(answer) ==
    LET r == Radios[Len(switch.seen) + 1] IN
    /\ TakesSnapshot
    /\ IF r \in switch.missing THEN answer = "missing" /\ UNCHANGED toolFaults ELSE Sees(r, answer)
    /\ switch' = [switch EXCEPT !.seen = Append(@, answer)]
    /\ since' = IF switch.stage = "after" THEN [since EXCEPT ![r] = {real[r]}] ELSE since
    /\ UNCHANGED <<real, shown, plane, epoch, reads, memory, outside, switches, grounded, again>>

Snapshot == [r \in Radio |-> switch.seen[IF r = Radios[1] THEN 1 ELSE 2]]
InOrder(some) == LET Only(r) == IF r \in some THEN <<r>> ELSE <<>> IN Only(Radios[1]) \o Only(Radios[2])

Remembers(before) == \E r \in Radio : before[r] = "on"
MemoryOf(before) == [r \in Radio |-> IF before[r] \in Known THEN before[r] ELSE "unknown"]

Remember(before) ==
    IF ~Remembers(before) THEN UNCHANGED <<memory, toolFaults>>
    ELSE \/ memory' = MemoryOf(before) /\ UNCHANGED toolFaults
         \/ Fault /\ UNCHANGED memory

(* enable: every radio that is on or cannot be read is to be off. *)
PlanEnable ==
    /\ switch.kind = "enable" /\ switch.stage = "before" /\ Len(switch.seen) = 2
    /\ Remember(Snapshot)
    /\ again' = \/ again
                \/ Remembers(Snapshot) /\ \E r \in grounded : Snapshot[r] = "off"
                \/ memory' \notin {NoMemory, MemoryOf(Snapshot)}
    /\ LET on == {r \in Radio : Snapshot[r] # "off" /\ Present(Snapshot, r)} IN
       switch' = [switch EXCEPT !.stage = "switch", !.left = InOrder(on), !.seen = <<>>,
                                !.missing = {r \in Radio : ~Present(Snapshot, r)}]
    /\ UNCHANGED <<real, shown, plane, epoch, reads, outside, switches, grounded, since>>

(* Mutant: what is not known to have been on is left alone. *)
WasSeenOn(r) == memory[r] = "on"

WasOn(r) == memory[r] # "off"

(* disable: what was on before, or all there is when none of it is there. *)
PlanDisable ==
    /\ switch.kind = "disable" /\ switch.stage = "before" /\ Len(switch.seen) = 2
    /\ LET there == {r \in Radio : Present(Snapshot, r)}
           back == IF \A r \in there : ~WasOn(r) THEN there ELSE {r \in there : WasOn(r)}
           off == {r \in back : Snapshot[r] # "on"}
       IN  switch' = [switch EXCEPT !.stage = "switch", !.left = InOrder(off), !.seen = <<>>,
                                    !.missing = {r \in Radio : ~Present(Snapshot, r)}]
    /\ UNCHANGED <<real, shown, plane, epoch, reads, memory, outside, toolFaults, switches, grounded, again, since>>

Goal == IF switch.kind \in {"disable", "on"} THEN "on" ELSE "off"
Switching == switch.kind # "none" /\ switch.stage = "switch" /\ switch.left # <<>>

(* radio::set: it is switched and was read back so; or it failed: the command was
   refused, or the radio was never seen to follow, though it may have. *)
SwitchNext ==
    /\ Switching
    /\ LET r == Head(switch.left) IN
       \/ /\ real[r] # "missing" /\ Becomes(r, Goal)
          /\ grounded' = IF switch.kind = "enable" THEN (IF real[r] = "on" THEN grounded \cup {r} ELSE grounded)
                         ELSE grounded \ {r}
          /\ \/ switch' = [switch EXCEPT !.left = Tail(@)] /\ UNCHANGED toolFaults
             \/ Fault /\ switch' = [switch EXCEPT !.left = Tail(@), !.failed = TRUE]
       \/ /\ (Fault \/ (real[r] = "missing" /\ UNCHANGED toolFaults))
          /\ switch' = [switch EXCEPT !.left = Tail(@), !.failed = TRUE]
          /\ UNCHANGED <<real, since, grounded>>
    /\ UNCHANGED <<shown, plane, epoch, reads, memory, outside, switches, again>>

(* All radios were attempted; a disable without errors forgets. *)
Switched ==
    /\ switch.kind # "none" /\ switch.stage = "switch" /\ switch.left = <<>>
    /\ switch' = [switch EXCEPT !.stage = "after"]
    /\ IF switch.kind = "disable" /\ ~switch.failed
       THEN \/ memory' = NoMemory /\ UNCHANGED toolFaults
            \/ Fault /\ UNCHANGED memory
       ELSE UNCHANGED <<memory, toolFaults>>
    /\ UNCHANGED <<real, shown, plane, epoch, reads, outside, switches, grounded, again, since>>

FinishAction ==
    /\ switch.kind # "none" /\ switch.stage = "after" /\ Len(switch.seen) = 2
    /\ epoch' = epoch + 1
    /\ Show(Snapshot)
    /\ switch' = NoSwitch
    /\ UNCHANGED <<real, reads, memory, outside, toolFaults, switches, grounded, again, since>>

(* Settings is closed and opened again: only the memory file stays. *)
RestartSettings ==
    /\ outside < MaxOutside /\ outside' = outside + 1
    /\ shown' = [r \in Radio |-> "unread"] /\ plane' = FALSE /\ switch' = NoSwitch
    /\ epoch' = 1 /\ reads' = [r \in Radio |-> [epoch |-> 1, saw |-> "nothing"]]
    /\ since' = [r \in Radio |-> {real[r]}]
    /\ UNCHANGED <<real, memory, toolFaults, switches, grounded, again>>

ConnNext ==
    \/ \E r \in Radio : \/ \E state \in Known \cup {"missing"} : SwitchedElsewhere(r, state)
                        \/ \E answer \in Answers : ReadRadio(r, answer)
                        \/ FinishRead(r) \/ SetRadio(r)
    \/ \E all \in BOOLEAN : BeginReads(all)
    \/ \E answer \in Answers : Snap(answer)
    \/ SetAirplane \/ PlanEnable \/ PlanDisable \/ SwitchNext \/ Switched \/ FinishAction \/ RestartSettings

(* The switches of the radios alone. *)
ConnSpec == ConnInit /\ [][ConnNext]_connVars

-----------------------------------------------------------------------------
ConnTypeOK ==
    /\ real \in [Radio -> Known \cup {"missing"}] /\ shown \in [Radio -> Answers \cup {"unread"}]
    /\ plane \in BOOLEAN /\ memory \in [Radio -> Known \cup {"unknown"}] /\ grounded \subseteq Radio
    /\ \A r \in Radio : reads[r].epoch <= epoch

(* A switch of the page shows nothing older than the last switching action: what
   is shown of a radio it has been since that action read it back, however late a
   read that was begun before, or during it, ends. *)
ShowsNoOldReading ==
    switch = NoSwitch => \A r \in Radio : shown[r] \in Known => shown[r] \in since[r]

(* "airplane mode must never come back with a radio stuck off that nobody asked to
   be off" (the comment on Memory): once a disable has succeeded, no radio is shown
   off that airplane mode turned off. *)
DisableEnds == switch.kind = "disable" /\ switch.stage = "after" /\ Len(switch.seen) = 2 /\ ~switch.failed
StuckOff == {r \in grounded : real[r] = "off" /\ Snapshot[r] = "off"}
NoRadioStuck == DisableEnds => StuckOff = {}

(* The same, as long as airplane mode is not turned on a second time while one of
   the radios it turned off is still off (the memory then says that it was off), nor
   with what was remembered the first time, as nothing else could be written. *)
NoRadioStuckAfterOne == ~again => NoRadioStuck
=============================================================================
