---------------------------- MODULE SettingsInstance ----------------------------
(* The launches of `settings' (settings/src/instance.rs). The one that takes    *)
(* the lock runs the window and polls for requests; a later one leaves its      *)
(* request in the one request file, waits for it to be picked up, raises the    *)
(* window and exits. A request is named by the launch that made it.             *)
EXTENDS Naturals, FiniteSets

CONSTANTS Runs,      \* launches of the program
          Bare,      \* those of them that ask for no tab and no label
          None

ASSUME InstanceAssumption == None \notin Runs /\ Bare \subseteq Runs

VARIABLES stage,     \* per launch
          holder,    \* of settings.lock
          reqFile,   \* settings-deeplink
          claimed,   \* the request the window's timer has renamed away
          shown,     \* whose request the window navigated to last
          applied, replaced,  \* requests navigated to, requests written over
          after      \* the launches that had ended when each was made, for LaterLaunchesOnly

instanceVars == <<stage, holder, reqFile, claimed, shown, applied, replaced, after>>

InstanceStages == {"off", "lock", "send", "wait", "raise", "start", "run", "done"}

InstanceInit ==
    /\ stage = [a \in Runs |-> "off"]
    /\ holder = None /\ reqFile = None /\ claimed = None /\ shown = None
    /\ applied = {} /\ replaced = {}
    /\ after = [a \in Runs |-> {}]

Step(a, from, to) == stage[a] = from /\ stage' = [stage EXCEPT ![a] = to]
SameRequests == UNCHANGED <<reqFile, claimed, shown, applied, replaced>>

RunProgram(a) ==
    /\ Step(a, "off", "lock")
    /\ after' = [after EXCEPT ![a] = {b \in Runs : stage[b] = "done"}]
    /\ UNCHANGED holder /\ SameRequests

AcquireOrHandOff(a) ==
    /\ IF holder = None THEN Step(a, "lock", "start") /\ holder' = a
       ELSE Step(a, "lock", IF a \in Bare THEN "raise" ELSE "send") /\ UNCHANGED holder
    /\ SameRequests /\ UNCHANGED after

(* send_in renames the request into place, over any that is there.              *)
SendRequest(a) ==
    /\ Step(a, "send", "wait")
    /\ reqFile' = a /\ replaced' = replaced \cup ({reqFile} \ {None})
    /\ UNCHANGED <<holder, claimed, shown, applied, after>>

(* The write fails: the window is raised all the same.                          *)
SendFails(a) == Step(a, "send", "raise") /\ SameRequests /\ UNCHANGED <<holder, after>>

(* wait_for_pickup ends when there is no request file, or after a while.        *)
PickedUp(a) ==
    Step(a, "wait", "raise") /\ reqFile = None /\ SameRequests /\ UNCHANGED <<holder, after>>
PickupTimesOut(a) ==
    Step(a, "wait", "raise") /\ reqFile # None /\ SameRequests /\ UNCHANGED <<holder, after>>

RaiseWindow(a) == Step(a, "raise", "done") /\ SameRequests /\ UNCHANGED <<holder, after>>

(* The window is built, navigates to its own launch's request, and polls.       *)
Navigate(r) == shown' = r /\ applied' = applied \cup {r}
StartWindow(a) ==
    /\ Step(a, "start", "run")
    /\ IF a \in Bare THEN UNCHANGED <<shown, applied>> ELSE Navigate(a)
    /\ UNCHANGED <<holder, reqFile, claimed, replaced, after>>

(* Mutant: the request is read first and the file is removed when it is done.   *)
ApplyAndRemove(a) ==
    /\ stage[a] = "run" /\ claimed # None
    /\ Navigate(claimed) /\ claimed' = None /\ reqFile' = None
    /\ UNCHANGED <<stage, holder, replaced, after>>

(* take_from: the file is renamed away before it is read.                       *)
ClaimRequest(a) ==
    /\ stage[a] = "run" /\ claimed = None /\ reqFile # None
    /\ claimed' = reqFile /\ reqFile' = None
    /\ UNCHANGED <<stage, holder, shown, applied, replaced, after>>

ApplyRequest(a) ==
    /\ stage[a] = "run" /\ claimed # None
    /\ Navigate(claimed) /\ claimed' = None
    /\ UNCHANGED <<stage, holder, reqFile, replaced, after>>

CloseWindow(a) ==
    /\ Step(a, "run", "done") /\ claimed = None /\ holder' = None
    /\ shown' = None /\ UNCHANGED <<reqFile, claimed, applied, replaced, after>>

InstanceNext ==
    \E a \in Runs :
        \/ RunProgram(a) \/ AcquireOrHandOff(a) \/ SendRequest(a) \/ SendFails(a)
        \/ PickedUp(a) \/ PickupTimesOut(a) \/ RaiseWindow(a) \/ StartWindow(a)
        \/ ClaimRequest(a) \/ ApplyRequest(a) \/ CloseWindow(a)

InstanceSpec == InstanceInit /\ [][InstanceNext]_instanceVars

-----------------------------------------------------------------------------
InstanceTypeOK ==
    /\ stage \in [Runs -> InstanceStages]
    /\ {holder, reqFile, claimed, shown} \subseteq Runs \cup {None}
    /\ \A a \in Runs : stage[a] \in {"start", "run"} <=> holder = a

(* "A request arriving meanwhile is never lost": a request that was sent is in  *)
(* the file, claimed, or was navigated to, unless a later one was written over  *)
(* it, whenever the sends fall into take_from.                                  *)
NoRequestLost ==
    \A a \in Runs : stage[a] = "wait" =>
        a \in {reqFile, claimed} \cup applied \cup replaced

(* "the first instance does this for its own command line, a running one for    *)
(* each later launch" (instance.rs:323): a window never navigates to what a     *)
(* launch asked for that had ended before the window's own launch was made.     *)
LaterLaunchesOnly ==
    [][\A a \in Runs : stage[a] = "run" /\ applied' # applied
            => \A r \in applied' \ applied : r \notin after[a]]_instanceVars
=============================================================================
