------------------------------ MODULE MCServices ------------------------------
(* Daemons that a window follows: the sync daemon, and the identify mode of the *)
(* keypad's daemon.  They share no state, so a behaviour is one of one of them; *)
(* the variables of the other keep their first value, where nothing that is     *)
(* fair is enabled.  The sync daemon is met twice: with MaxJobs jobs that race  *)
(* and no window ("jobs"), and with a window and one job at a time ("sync").    *)
EXTENDS SyncCenter, KeypadIdentify

VARIABLE part

vars == <<part, syncVars, identifyVars>>

MCOrder == [p \in {"p", "q"} |-> IF p = "p" THEN 1 ELSE 2]
Init ==
    /\ part \in {"jobs", "sync", "identify"}
    /\ SyncInit /\ IdentifyInit

Next ==
    /\ UNCHANGED part
    /\ \/ part = "jobs" /\ JobsNext /\ UNCHANGED identifyVars
       \/ part = "sync" /\ SyncNext /\ (\A j \in 2..MaxJobs : rsyncJob'[j] = NoRsync) /\ UNCHANGED identifyVars
       \/ part = "identify" /\ IdentifyNext /\ UNCHANGED syncVars

Spec == Init /\ [][Next]_vars /\ SyncFairness /\ IdentifyFairness

TypeOK == SyncTypeOK /\ IdentifyTypeOK

(* One rsync at a time, which the daemon knows of, and the window shows what the *)
(* daemon knows.                                                                 *)
SyncIsKnown == part # "identify" => OneRsync /\ WindowFollows
=============================================================================
