--------------------------------- MODULE MCMenu ---------------------------------
(* The programs of which one instance runs: the resident start menu and the     *)
(* settings. They share no state, so a behaviour is one of either of them:      *)
(* interleaving them would add nothing.                                         *)
EXTENDS MenuResident, SettingsInstance

VARIABLE part

vars == <<part, menuVars, instanceVars>>

Init ==
    /\ part \in {"menu", "settings"}
    /\ MenuInit /\ InstanceInit

Next ==
    /\ UNCHANGED part
    /\ \/ part = "menu" /\ MenuNext /\ UNCHANGED instanceVars
       \/ part = "settings" /\ InstanceNext /\ UNCHANGED menuVars

Spec == Init /\ [][Next]_vars /\ MenuFair

(* The type invariants of both.                                            *)
TypeOK == MenuTypeOK /\ InstanceTypeOK

(* A process told to quit withdraws itself, and no launch's request is lost.   *)
NothingIsLost ==
    /\ part = "menu" => QuitWithdraws
    /\ part = "settings" => NoRequestLost
=============================================================================
