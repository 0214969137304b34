------------------------------- MODULE OneResident -------------------------------
(* What start-menu/src/instance.rs promises the smplOS scripts and later        *)
(* launches: one process at a time holds the residency, and while it serves,    *)
(* the pidfile names it, whatever other processes start, end or crash. A        *)
(* process that dies leaves its name behind, so `advertised' may name the dead. *)
(* The promise has two holes. A process that could not use the lock file        *)
(* disturbs all of this. And one that left the residency while a thread of it   *)
(* was between reading its name and removing it may still remove the name of    *)
(* who came next: nobody else may, and no removal begins after leaving.         *)
CONSTANTS Pids, Nobody

VARIABLES resident, advertised, phase,
          removing \* who left with a removal under way and has not ended

residentVars == <<resident, advertised, phase, removing>>

Init == resident = Nobody /\ advertised = Nobody /\ phase = "free" /\ removing = {}

Take(p) ==
    /\ phase = "free" /\ resident' = p /\ phase' = "private"
    /\ UNCHANGED <<advertised, removing>>

Serve ==
    /\ phase = "private" /\ phase' = "serving" /\ advertised' = resident
    /\ UNCHANGED <<resident, removing>>

Retire ==
    /\ phase = "serving" /\ phase' = "private"
    /\ UNCHANGED <<resident, advertised, removing>>

(* A name is published or taken back by the holder itself, and not in service.  *)
Withdraw ==
    /\ phase = "private"
    /\ \/ advertised = resident /\ advertised' = Nobody
       \/ advertised' = resident
    /\ UNCHANGED <<resident, phase, removing>>

Leave ==
    /\ phase # "disturbed" /\ phase' = "free" /\ resident' = Nobody
    /\ removing' \in {removing, removing \cup {resident}}
    /\ UNCHANGED advertised

(* A removal that was under way is carried out, or its process ends.            *)
RemoveLate(p) ==
    /\ p \in removing /\ removing' \in {removing, removing \ {p}}
    /\ advertised' \in {advertised, Nobody}
    /\ UNCHANGED <<resident, phase>>

Disturb == phase' = "disturbed"

Next ==
    \/ \E p \in Pids : Take(p) \/ RemoveLate(p)
    \/ Serve \/ Retire \/ Withdraw \/ Leave \/ Disturb

Spec == Init /\ [][Next]_residentVars
=============================================================================
