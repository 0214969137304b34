--------------------------- MODULE Display_proofs ---------------------------
(* Proofs about the Display tab's page with its worker, and about the        *)
(* pointer card, for any layouts, displays, clock, faults and changes from   *)
(* outside.                                                                  *)
EXTENDS MCDisplay, TLAPS

(* A record that says where the worker is.                                   *)
HasPlace(r) == r = [f \in DOMAIN r |-> r[f]] /\ "at" \in DOMAIN r

(* Jobs that are asked for only while there are no edits.                    *)
WithoutEdits == {"KeepCurrent", "UseSaved"}

(* From the read of the file on, a worker knows what it found, and from its  *)
(* backup on, that this is among the backups it made.                        *)
BackedUp ==
  /\ worker.at = "backup" => "previous" \in DOMAIN worker
  /\ worker.at \in {"recheck", "rename"} =>
       /\ {"previous", "created"} \subseteq DOMAIN worker
       /\ worker.previous = NoFile \/ \E b \in Created : b.text = worker.previous

(* From the reload on a worker knows how it went, and then how the start did.*)
StartKnown ==
  /\ worker.at \in {"start", "after"} => "reloaded" \in DOMAIN worker /\ worker.reloaded \in BOOLEAN
  /\ worker.at = "after" =>
       "start" \in DOMAIN worker /\ (bar = "failed" => worker.start \in {"refused", "lost"})

PageInv ==
  /\ HasPlace(worker)
  /\ running \in Jobs \cup {"None"} /\ queued.kind \in UserJobs \cup {"None"}
  /\ queued.kind # "None" => running = "Poll"
  /\ running = "None" <=> worker.at = "idle"
  /\ BarIsRestarted
  /\ BackedUp /\ StartKnown
  /\ ~loaded => ~HasChanges
  /\ running \in WithoutEdits \/ queued.kind \in WithoutEdits => ~HasChanges

(* What the worker knows after a step, and what it keeps.                    *)
LEMMA NextIs ==
  ASSUME HasPlace(worker), NEW place, NEW more, "at" \notin DOMAIN more, NextAt(place, more)
  PROVE  /\ HasPlace(worker') /\ worker'.at = place
         /\ DOMAIN worker \cup DOMAIN more \subseteq DOMAIN worker'
         /\ \A f \in DOMAIN more : worker'[f] = more[f]
         /\ \A f \in DOMAIN worker \ (DOMAIN more \cup {"at"}) : worker'[f] = worker[f]
  BY DEF HasPlace, NextAt, Over

(* A worker that starts a job is at its first place.                         *)
LEMMA SpawnIs ==
  ASSUME NEW wish, wish.kind \in Jobs, Spawn(wish)
  PROVE  HasPlace(worker') /\ worker'.at \in {"snapshot", "check", "saved", "dispatch", "identify"}
<1>1. HasPlace(worker') /\ worker'.at = FirstPlace[wish.kind]
  BY DEF Spawn, Over, HasPlace
<1> QED
  BY <1>1 DEF FirstPlace, Jobs, UserJobs

(* A page without edits may ask for any job, and one with edits for any but  *)
(* the two.                                                                  *)
LEMMA RequestKeeps ==
  ASSUME PageInv, NEW wish, wish.kind \in Jobs, RequestJob(wish), SamePage,
         loaded' = loaded, ~HasChanges => ~HasChanges', wish.kind \in WithoutEdits => ~HasChanges
  PROVE  PageInv'
<1>1. bar' = bar
  BY DEF SamePage, systemVars
<1>2. CASE running = "None" /\ running' = wish.kind /\ Spawn(wish) /\ UNCHANGED queued
  <2>1. HasPlace(worker') /\ worker'.at \in {"snapshot", "check", "saved", "dispatch", "identify"}
    BY <1>2, SpawnIs
  <2>2. bar # "down" /\ wish.kind # "None"
    BY <1>2 DEF PageInv, BarIsRestarted, Jobs, UserJobs
  <2>3. queued.kind = "None"
    BY <1>2 DEF PageInv
  <2> QED
    BY <1>1, <1>2, <2>1, <2>2, <2>3 DEF PageInv, BarIsRestarted, BackedUp, StartKnown
<1>3. CASE running = "Poll" /\ wish.kind # "Poll" /\ queued' = wish /\ UNCHANGED <<running, worker>>
  <2>1. wish.kind \in UserJobs
    BY <1>3 DEF Jobs
  <2>2. running \notin WithoutEdits
    BY <1>3 DEF WithoutEdits
  <2> QED
    BY <1>1, <1>3, <2>1, <2>2 DEF PageInv, BarIsRestarted, BackedUp, StartKnown, Created
<1>4. CASE UNCHANGED <<running, queued, worker>>
  BY <1>1, <1>4 DEF PageInv, BarIsRestarted, BackedUp, StartKnown, Created
<1> QED
  BY <1>2, <1>3, <1>4 DEF RequestJob

(* What a worker's step must not do to keep the invariant.                   *)
LEMMA WorkerKeeps ==
  ASSUME PageInv, SameController, HasPlace(worker'), running # "None",
         worker'.at # "idle", BarIsRestarted', BackedUp', StartKnown'
  PROVE  PageInv'
  BY DEF PageInv, SameController, modelVars, HasChanges

(* A step to a place where the invariant asks nothing of the worker.         *)
LEMMA PlainStep ==
  ASSUME PageInv, SameController, running # "None", NEW place, NEW more,
         "at" \notin DOMAIN more, NextAt(place, more),
         place \in {"deliver", "snapshot", "read", "stop", "reload"},
         place = "deliver" => "result" \in DOMAIN more /\ more["result"] # "finished",
         bar' # "down" \/ place = "reload"
  PROVE  PageInv'
<1>1. /\ HasPlace(worker') /\ worker'.at = place
      /\ place = "deliver" => worker'.result # "finished"
  BY NextIs DEF PageInv
<1>2. BarIsRestarted' /\ BackedUp' /\ StartKnown'
  BY <1>1 DEF BarIsRestarted, BackedUp, StartKnown
<1> QED
  BY <1>1, <1>2, WorkerKeeps

(* A worker that fails says so.                                              *)
LEMMA FailedStep ==
  ASSUME PageInv, SameController, running # "None", NEW result, result # "finished",
         Deliver(result), bar' # "down"
  PROVE  PageInv'
<1> DEFINE more == [result |-> result]
<1>1. "at" \notin DOMAIN more /\ "result" \in DOMAIN more /\ more["result"] # "finished"
  OBVIOUS
<1>2. NextAt("deliver", more)
  BY DEF Deliver
<1> HIDE DEF more
<1> QED
  BY <1>1, <1>2, PlainStep

(* The read of the file knows what it found, or fails.                       *)
LEMMA ReadPreviousKeeps ==
  ASSUME PageInv, running # "None", ReadPrevious
  PROVE  PageInv'
<1>1. SameController /\ bar' = bar /\ bar # "down"
  BY DEF ReadPrevious, At, systemVars, PageInv, BarIsRestarted
<1>2. ASSUME NEW place \in {"stop", "backup"}, NextAt(place, [previous |-> file])
      PROVE  PageInv'
  <2>1. HasPlace(worker') /\ worker'.at = place /\ "previous" \in DOMAIN worker'
    BY <1>2, NextIs DEF PageInv
  <2>2. BarIsRestarted' /\ BackedUp' /\ StartKnown'
    BY <1>1, <2>1 DEF BarIsRestarted, BackedUp, StartKnown
  <2> QED
    BY <1>1, <2>1, <2>2, WorkerKeeps
<1>3. CASE Deliver("failed")
  BY <1>1, <1>3, FailedStep
<1> QED
  BY <1>2, <1>3 DEF ReadPrevious

(* The backup is made of what was read, or there was nothing to back up.     *)
LEMMA BackUpKeeps ==
  ASSUME PageInv, running # "None", BackUp
  PROVE  PageInv'
<1>1. SameController /\ bar' = bar /\ bar # "down" /\ worker.at = "backup" /\ HasPlace(worker) /\ "previous" \in DOMAIN worker
  BY DEF BackUp, At, systemVars, PageInv, BarIsRestarted, BackedUp
<1>2. CASE Deliver("failed")
  BY <1>1, <1>2, FailedStep
<1>3. ASSUME NEW made, NextAt("recheck", [created |-> made]),
             file = worker.previous,
             file = NoFile \/ \E i \in DOMAIN made : made[i].text = file
      PROVE  PageInv'
  <2>1. /\ HasPlace(worker') /\ worker'.at = "recheck" /\ {"previous", "created"} \subseteq DOMAIN worker'
        /\ worker'.created = made /\ worker'.previous = worker.previous
    BY <1>1, <1>3, NextIs
  <2>2. worker'.previous = NoFile \/ \E b \in Created' : b.text = worker'.previous
    BY <1>3, <2>1 DEF Created
  <2>3. BarIsRestarted' /\ BackedUp' /\ StartKnown'
    BY <1>1, <2>1, <2>2 DEF BarIsRestarted, BackedUp, StartKnown
  <2> QED
    BY <1>1, <2>1, <2>3, WorkerKeeps
<1>4. CASE /\ file = worker.previous
           /\ IF file = NoFile THEN NextAt("recheck", [created |-> <<>>]) /\ UNCHANGED backups
              ELSE \E stamp \in Clock :
                 LET new == [stamp |-> stamp, number |-> FreeNumber(stamp), text |-> file] IN
                     NextAt("recheck", [created |-> <<new>>]) /\ backups' = backups \cup {new}
  <2>1. CASE file = NoFile
    BY <1>3, <1>4, <2>1
  <2>2. CASE file # NoFile
    <3>1. PICK stamp \in Clock :
            NextAt("recheck", [created |-> <<[stamp |-> stamp, number |-> FreeNumber(stamp), text |-> file]>>])
      BY <1>4, <2>2
    <3> DEFINE made == <<[stamp |-> stamp, number |-> FreeNumber(stamp), text |-> file]>>
    <3>2. 1 \in DOMAIN made /\ made[1].text = file
      OBVIOUS
    <3> HIDE DEF made
    <3>3. NextAt("recheck", [created |-> made])
      BY <3>1 DEF made
    <3> QED
      BY <1>3, <1>4, <3>2, <3>3
  <2> QED
    BY <2>1, <2>2
<1> QED
  BY <1>2, <1>4 DEF BackUp

(* The second look keeps what the worker knows of its backup.                *)
LEMMA RecheckKeeps ==
  ASSUME PageInv, running # "None", Recheck
  PROVE  PageInv'
<1>1. /\ SameController /\ bar' = bar /\ bar # "down" /\ worker.at = "recheck" /\ HasPlace(worker)
      /\ {"previous", "created"} \subseteq DOMAIN worker
      /\ worker.previous = NoFile \/ \E b \in Created : b.text = worker.previous
  BY DEF Recheck, At, systemVars, PageInv, BarIsRestarted, BackedUp
<1>2. CASE Deliver("failed")
  BY <1>1, <1>2, FailedStep
<1>3. CASE NextAt("rename", <<>>)
  <2>1. /\ HasPlace(worker') /\ worker'.at = "rename" /\ {"previous", "created"} \subseteq DOMAIN worker'
        /\ worker'.created = worker.created /\ worker'.previous = worker.previous
    BY <1>1, <1>3, NextIs
  <2>2. Created' = Created
    BY <2>1 DEF Created
  <2>3. BarIsRestarted' /\ BackedUp' /\ StartKnown'
    BY <1>1, <2>1, <2>2 DEF BarIsRestarted, BackedUp, StartKnown
  <2> QED
    BY <1>1, <2>1, <2>3, WorkerKeeps
<1> QED
  BY <1>2, <1>3 DEF Recheck

(* A snapshot after the reload delivers what is known of the start.          *)
LEMMA SnapshotAfterKeeps ==
  ASSUME PageInv, running # "None", SnapshotAfter
  PROVE  PageInv'
<1>1. /\ SameController /\ bar' = bar /\ bar # "down" /\ worker.at = "after" /\ HasPlace(worker)
      /\ {"start", "reloaded"} \subseteq DOMAIN worker /\ worker.reloaded \in BOOLEAN
      /\ bar = "failed" => worker.start \in {"refused", "lost"}
  BY DEF SnapshotAfter, At, systemVars, PageInv, BarIsRestarted, StartKnown
<1>2. CASE Deliver("failed")
  BY <1>1, <1>2, FailedStep
<1>3. ASSUME NEW seen \in Text,
             NextAt("deliver", [result |-> "finished", print |-> Fingerprint(seen), holder |-> holds,
                                warned |-> worker.reloaded /\ worker.start = "refused"])
      PROVE  PageInv'
  <2> DEFINE more == [result |-> "finished", print |-> Fingerprint(seen), holder |-> holds,
                      warned |-> worker.reloaded /\ worker.start = "refused"]
  <2>1. "at" \notin DOMAIN more /\ DOMAIN more = {"result", "print", "holder", "warned"}
        /\ more["warned"] = (worker.reloaded /\ worker.start = "refused")
    OBVIOUS
  <2> HIDE DEF more
  <2>2. NextAt("deliver", more)
    BY <1>3 DEF more
  <2>3. /\ HasPlace(worker') /\ worker'.at = "deliver" /\ worker'["warned"] = more["warned"]
        /\ worker'["start"] = worker["start"] /\ worker'["reloaded"] = worker["reloaded"]
    BY <1>1, <2>1, <2>2, NextIs
  <2>4. bar' = "failed" => worker'.warned \/ worker'.start = "lost" \/ ~worker'.reloaded
    BY <1>1, <2>1, <2>3
  <2>5. BarIsRestarted' /\ BackedUp' /\ StartKnown'
    BY <1>1, <2>3, <2>4 DEF BarIsRestarted, BackedUp, StartKnown
  <2> QED
    BY <1>1, <2>3, <2>5, WorkerKeeps
<1> QED
  BY <1>2, <1>3 DEF SnapshotAfter

(* The reload says how it went.                                              *)
LEMMA ReloadKeeps ==
  ASSUME PageInv, running # "None", Reload
  PROVE  PageInv'
<1>1. SameController /\ HasPlace(worker)
  BY DEF Reload, At, PageInv
<1>2. PICK went \in BOOLEAN : NextAt("start", [reloaded |-> went])
  BY DEF Reload
<1>3. /\ HasPlace(worker') /\ worker'.at = "start"
      /\ "reloaded" \in DOMAIN worker' /\ worker'.reloaded = went
  BY <1>1, <1>2, NextIs
<1>4. BarIsRestarted' /\ BackedUp' /\ StartKnown'
  BY <1>2, <1>3 DEF BarIsRestarted, BackedUp, StartKnown
<1> QED
  BY <1>1, <1>3, <1>4, WorkerKeeps

(* The start says how it went, and leaves the bar up or failed.              *)
LEMMA StartBarKeeps ==
  ASSUME PageInv, running # "None", StartBar
  PROVE  PageInv'
<1>1. /\ SameController /\ HasPlace(worker)
      /\ "reloaded" \in DOMAIN worker /\ worker.reloaded \in BOOLEAN
  BY DEF StartBar, At, PageInv, StartKnown
<1>2. PICK how \in {"ok", "refused", "lost"} :
        /\ NextAt("after", [start |-> how])
        /\ bar' # "down" /\ (bar' = "failed" => how \in {"refused", "lost"})
  BY DEF StartBar
<1>3. /\ HasPlace(worker') /\ worker'.at = "after" /\ "start" \in DOMAIN worker' /\ worker'.start = how
      /\ "reloaded" \in DOMAIN worker' /\ worker'.reloaded = worker.reloaded
  BY <1>1, <1>2, NextIs
<1>4. BarIsRestarted' /\ BackedUp' /\ StartKnown'
  BY <1>1, <1>2, <1>3 DEF BarIsRestarted, BackedUp, StartKnown
<1> QED
  BY <1>1, <1>3, <1>4, WorkerKeeps

(* Every step of the worker keeps the invariant.                             *)
LEMMA WorkerStepKeeps ==
  ASSUME PageInv, WorkerStep
  PROVE  PageInv'
<1>1. SameController /\ worker.at # "idle"
  BY DEF WorkerStep, TakeSnapshot, Dispatch, ShowLabels, CheckBaseline, ReadPrevious, BackUp,
         Recheck, RenameOver, ReadSaved, StopBar, Reload, StartBar, SnapshotAfter, At
<1>2. running # "None"
  BY <1>1 DEF PageInv
<1>3. ASSUME TakeSnapshot \/ Dispatch \/ ShowLabels \/ CheckBaseline \/ RenameOver \/ ReadSaved
      PROVE  bar # "down" /\ bar' = bar
  BY <1>3 DEF TakeSnapshot, Dispatch, ShowLabels, CheckBaseline, RenameOver, ReadSaved,
              At, systemVars, PageInv, BarIsRestarted
<1>4. ASSUME TakeSnapshot \/ Dispatch \/ ShowLabels \/ CheckBaseline \/ RenameOver \/ ReadSaved
      PROVE  PageInv'
  <2>1. \/ \E place \in {"snapshot", "read", "stop"} : NextAt(place, <<>>)
        \/ \E result \in {"failed", "stale", "shown"} : Deliver(result)
        \/ \E seen \in Text :
             NextAt("deliver", [result |-> "ok", print |-> Fingerprint(seen), holder |-> holds])
    BY <1>4 DEF TakeSnapshot, Dispatch, ShowLabels, CheckBaseline, RenameOver, ReadSaved
  <2>2. ASSUME NEW place \in {"snapshot", "read", "stop"}, NextAt(place, <<>>) PROVE PageInv'
    BY <1>1, <1>2, <1>3, <1>4, <2>2, PlainStep
  <2>3. ASSUME NEW result \in {"failed", "stale", "shown"}, Deliver(result) PROVE PageInv'
    BY <1>1, <1>2, <1>3, <1>4, <2>3, FailedStep
  <2>4. ASSUME NEW seen \in Text,
               NextAt("deliver", [result |-> "ok", print |-> Fingerprint(seen), holder |-> holds])
        PROVE  PageInv'
    <3> DEFINE more == [result |-> "ok", print |-> Fingerprint(seen), holder |-> holds]
    <3>1. "at" \notin DOMAIN more /\ "result" \in DOMAIN more /\ more["result"] # "finished"
      OBVIOUS
    <3> HIDE DEF more
    <3>2. NextAt("deliver", more)
      BY <2>4 DEF more
    <3> QED
      BY <1>1, <1>2, <1>3, <1>4, <3>1, <3>2, PlainStep
  <2> QED
    BY <2>1, <2>2, <2>3, <2>4
<1>5. CASE ReadPrevious
  BY <1>2, <1>5, ReadPreviousKeeps
<1>6. CASE BackUp
  BY <1>2, <1>6, BackUpKeeps
<1>7. CASE Recheck
  BY <1>2, <1>7, RecheckKeeps
<1>8. CASE StopBar
  BY <1>1, <1>2, <1>8, PlainStep DEF StopBar
<1>9. CASE Reload
  BY <1>2, <1>9, ReloadKeeps
<1>10. CASE StartBar
  BY <1>2, <1>10, StartBarKeeps
<1>11. CASE SnapshotAfter
  BY <1>2, <1>11, SnapshotAfterKeeps
<1> QED
  BY <1>4, <1>5, <1>6, <1>7, <1>8, <1>9, <1>10, <1>11 DEF WorkerStep

-----------------------------------------------------------------------------
(* What the page takes over of a result: a model it loads has no edits, and  *)
(* none of its edits are replaced except by a load or an apply.              *)
LEMMA Absorbs ==
  ASSUME PageInv, worker.at = "deliver",
         IF running = "Poll" /\ queued.kind # "None" THEN UNCHANGED modelVars ELSE Absorb
  PROVE  /\ (loaded' /\ ~HasChanges') \/ UNCHANGED <<loaded, monitors, original>>
         /\ HasChanges /\ monitors' # monitors => running \in {"Load", "Apply"}
<1>1. running \in Jobs
  BY DEF PageInv
<1>2. CASE UNCHANGED modelVars
  BY <1>2 DEF modelVars
<1>3. CASE Absorb
  <2> USE DEF AbsorbLoad, AbsorbPoll, AbsorbSnapshot, AbsorbOutcome, LoadModel, RefreshDetails, BecomeStale,
              modelVars, HasChanges
  <2>1. CASE running = "Load"
    BY <1>3, <2>1 DEF Absorb
  <2>2. CASE running = "Poll"
    BY <1>3, <2>2 DEF Absorb, PageInv
  <2>3. CASE running = "SetPrimary"
    BY <1>3, <2>3 DEF Absorb, PageInv
  <2>4. CASE running = "Identify"
    BY <1>3, <2>4 DEF Absorb
  <2>5. CASE running = "Apply"
    BY <1>3, <2>5 DEF Absorb
  <2>6. CASE running \in {"KeepCurrent", "UseSaved"}
    BY <1>3, <2>6 DEF Absorb, PageInv, WithoutEdits
  <2> QED
    BY <1>1, <2>1, <2>2, <2>3, <2>4, <2>5, <2>6 DEF Jobs, UserJobs
<1> QED
  BY <1>2, <1>3

(* The result is delivered: the page absorbs it and starts what waits.       *)
LEMMA FinishKeeps ==
  ASSUME PageInv, Finish
  PROVE  PageInv'
<1>1. bar' = bar /\ bar # "down" /\ running \in Jobs
  BY DEF Finish, systemVars, PageInv, BarIsRestarted
<1>2. (loaded' /\ ~HasChanges') \/ UNCHANGED <<loaded, monitors, original>>
  BY Absorbs DEF Finish
<1>3. ~HasChanges => ~HasChanges'
  BY <1>2 DEF HasChanges
<1>4. queued' = NoJob /\ queued'.kind = "None" /\ running' = queued.kind
  BY DEF Finish, NoJob
<1>5. CASE queued.kind = "None"
  <2>1. worker' = Idle /\ HasPlace(worker') /\ worker'.at = "idle"
    BY <1>5 DEF Finish, Idle, HasPlace
  <2> QED
    BY <1>1, <1>2, <1>3, <1>4, <1>5, <2>1 DEF PageInv, BarIsRestarted, BackedUp, StartKnown, WithoutEdits, HasChanges
<1>6. CASE queued.kind # "None"
  <2>1. queued.kind \in UserJobs /\ queued.kind \in Jobs
    BY <1>6 DEF PageInv, Jobs
  <2>2. HasPlace(worker') /\ worker'.at \in {"snapshot", "check", "saved", "dispatch", "identify"}
    BY <1>6, <2>1, SpawnIs DEF Finish
  <2>3. "None" \notin WithoutEdits
    BY DEF WithoutEdits
  <2> QED
    BY <1>1, <1>2, <1>3, <1>4, <1>6, <2>1, <2>2, <2>3 DEF PageInv, BarIsRestarted, BackedUp, StartKnown, HasChanges
<1> QED
  BY <1>5, <1>6

(* A worker that could not be started leaves the page as it was.             *)
LEMMA SpawnFailsKeeps ==
  ASSUME PageInv, SpawnFails
  PROVE  PageInv'
<1>1. worker.at \in {"snapshot", "check", "saved", "dispatch", "identify"}
  BY DEF SpawnFails, FirstPlace, PageInv, Jobs, UserJobs
<1>2. bar # "down" /\ bar' = bar
  BY <1>1 DEF PageInv, BarIsRestarted, SpawnFails, systemVars
<1>3. worker' = Idle /\ HasPlace(worker') /\ worker'.at = "idle" /\ running' = "None" /\ queued'.kind = "None"
  BY DEF SpawnFails, Idle, HasPlace, NoJob
<1> QED
  BY <1>2, <1>3 DEF PageInv, BarIsRestarted, BackedUp, StartKnown, SpawnFails, modelVars, HasChanges, WithoutEdits

(* Edits are made while nothing the user asked for runs or waits.            *)
LEMMA EditKeeps ==
  ASSUME PageInv, Edit
  PROVE  PageInv'
<1>1. running \notin WithoutEdits /\ queued.kind \notin WithoutEdits
  BY DEF Edit, Busy, BusyKind, WithoutEdits
<1> QED
  BY <1>1 DEF PageInv, Edit, SamePage, systemVars, BarIsRestarted, BackedUp, StartKnown, Created

(* Reverting leaves no edits, whether or not it loads again.                 *)
LEMMA RevertKeeps ==
  ASSUME PageInv, Revert
  PROVE  PageInv'
<1>1. SamePage /\ loaded' = loaded /\ ~HasChanges'
  BY DEF Revert, HasChanges
<1>2. CASE RequestJob([kind |-> "Load"])
  BY <1>1, <1>2, RequestKeeps DEF Jobs, UserJobs, WithoutEdits
<1>3. CASE UNCHANGED <<running, queued, worker>>
  BY <1>1, <1>3 DEF PageInv, SamePage, systemVars, BarIsRestarted, BackedUp, StartKnown, Created
<1> QED
  BY <1>2, <1>3 DEF Revert

(* Another program changes nothing of the page and its worker.               *)
LEMMA RestKeeps ==
  ASSUME PageInv, bar' = bar, UNCHANGED <<modelVars, running, queued, worker>>
  PROVE  PageInv'
  BY DEF PageInv, BarIsRestarted, BackedUp, StartKnown, Created, modelVars, HasChanges

(* The jobs the page asks for.                                               *)
LEMMA AsksKeep ==
  ASSUME PageInv, Timer \/ Refresh \/ Identify \/ ApplyChanges \/ KeepCurrent \/ UseSaved \/ ChoosePrimary
  PROVE  PageInv'
<1>1. PICK wish : /\ RequestJob(wish) /\ wish.kind \in Jobs /\ (wish.kind \in WithoutEdits => ~HasChanges)
  <2> USE DEF Jobs, UserJobs, WithoutEdits
  <2>1. CASE Timer \/ Refresh \/ Identify
    BY <2>1 DEF Timer, Refresh, Identify
  <2>2. CASE ApplyChanges \/ KeepCurrent \/ UseSaved
    BY <2>2 DEF ApplyChanges, KeepCurrent, UseSaved
  <2>3. CASE ChoosePrimary
    BY <2>3 DEF ChoosePrimary
  <2> QED
    BY <2>1, <2>2, <2>3
<1>2. UNCHANGED modelVars /\ SamePage
  BY DEF Timer, Refresh, Identify, ApplyChanges, KeepCurrent, UseSaved, ChoosePrimary
<1> QED
  BY <1>1, <1>2, RequestKeeps DEF modelVars, HasChanges

(* Every step of the page, its worker and other programs keeps it.           *)
LEMMA PageInvHolds ==
  PageInv /\ [DisplayNext]_displayVars => PageInv'
<1> SUFFICES ASSUME PageInv, [DisplayNext]_displayVars PROVE PageInv'
  OBVIOUS
<1>1. CASE Timer \/ Refresh \/ Identify \/ ApplyChanges \/ KeepCurrent \/ UseSaved \/ ChoosePrimary
  BY <1>1, AsksKeep
<1>2. CASE Edit
  BY <1>2, EditKeeps
<1>3. CASE Revert
  BY <1>3, RevertKeeps
<1>4. CASE WorkerStep
  BY <1>4, WorkerStepKeeps
<1>5. CASE Finish
  BY <1>5, FinishKeeps
<1>6. CASE SpawnFails
  BY <1>6, SpawnFailsKeeps
<1>7. CASE Outside
  BY <1>7, RestKeeps DEF Outside
<1>8. CASE UNCHANGED displayVars
  BY <1>8, RestKeeps DEF displayVars, systemVars
<1> QED
  BY <1>1, <1>2, <1>3, <1>4, <1>5, <1>6, <1>7, <1>8 DEF DisplayNext

-----------------------------------------------------------------------------
(* Who replaces edits.                                                       *)
LEMMA EditsStep ==
  ASSUME PageInv, DisplayNext, HasChanges, monitors' # monitors
  PROVE  \/ worker' = worker /\ running' = running
         \/ Revert
         \/ worker.at = "deliver" /\ running \in {"Load", "Apply"}
<1>1. CASE Edit
  BY <1>1 DEF Edit
<1>2. CASE Finish
  BY <1>2, Absorbs DEF Finish
<1>3. ~(\/ Timer \/ Refresh \/ Identify \/ ApplyChanges \/ KeepCurrent \/ UseSaved \/ ChoosePrimary
        \/ SpawnFails \/ Outside)
  BY DEF Timer, Refresh, Identify, ApplyChanges, KeepCurrent, UseSaved, ChoosePrimary, SpawnFails, Outside, modelVars
<1>4. ~WorkerStep
  BY DEF WorkerStep, TakeSnapshot, Dispatch, ShowLabels, CheckBaseline, ReadPrevious, BackUp,
         Recheck, RenameOver, ReadSaved, StopBar, Reload, StartBar, SnapshotAfter, At, SameController, modelVars
<1> QED
  BY <1>1, <1>2, <1>3, <1>4 DEF DisplayNext

(* Where what was replaced is.                                               *)
LEMMA BackupStep ==
  ASSUME PageInv, DisplayNext, worker.at = "rename", file' # file, worker'.at = "stop",
         file = worker.previous, file # NoFile
  PROVE  \E b \in backups' : b.text = file
<1>1. CASE RenameOver
  <2>1. PruneBackups
    BY <1>1 DEF RenameOver
  <2>2. Created \subseteq backups'
    BY <2>1 DEF PruneBackups
  <2> QED
    BY <2>2 DEF PageInv, BackedUp
<1>2. ~Outside
  BY DEF Outside
<1>3. ~(\/ Timer \/ Refresh \/ Identify \/ ApplyChanges \/ KeepCurrent \/ UseSaved \/ ChoosePrimary
        \/ Edit \/ Revert \/ Finish \/ SpawnFails)
  BY DEF Timer, Refresh, Identify, ApplyChanges, KeepCurrent, UseSaved, ChoosePrimary, Edit, Revert,
         Finish, SpawnFails, SamePage, systemVars
<1>4. ~(\/ TakeSnapshot \/ Dispatch \/ ShowLabels \/ CheckBaseline \/ ReadPrevious \/ BackUp
        \/ Recheck \/ ReadSaved \/ StopBar \/ Reload \/ StartBar \/ SnapshotAfter)
  BY DEF TakeSnapshot, Dispatch, ShowLabels, CheckBaseline, ReadPrevious, BackUp,
         Recheck, ReadSaved, StopBar, Reload, StartBar, SnapshotAfter, At, systemVars
<1> QED
  BY <1>1, <1>2, <1>3, <1>4 DEF DisplayNext, WorkerStep

(* It holds when the page is shown first.                                    *)
LEMMA PageInvStarts ==
  /\ DisplayInit => PageInv
  /\ Init => PageInv
<1>1. ASSUME DisplayInit PROVE PageInv
  <2>1. HasPlace(worker) /\ worker.at = "snapshot"
    BY <1>1 DEF DisplayInit, HasPlace, FirstPlace
  <2> QED
    BY <1>1, <2>1 DEF DisplayInit, PageInv, BarIsRestarted, BackedUp, StartKnown, HasChanges, WithoutEdits, Jobs, UserJobs, NoJob
<1>2. ASSUME Init, ~DisplayInit PROVE PageInv
  <2>1. /\ worker = Idle /\ running = "None" /\ queued = NoJob /\ bar = "up" /\ loaded = FALSE
        /\ original = 0 /\ monitors = 0
    BY <1>2 DEF Init, PartInit
  <2>2. HasPlace(worker) /\ worker.at = "idle"
    BY <2>1 DEF HasPlace, Idle
  <2> QED
    BY <2>1, <2>2 DEF PageInv, BarIsRestarted, BackedUp, StartKnown, HasChanges, WithoutEdits, Jobs, UserJobs, NoJob
<1> QED
  BY <1>1, <1>2

(* A worker that stops the taskbar asks for it again before it delivers,     *)
(* whichever of its steps fail and whatever changes outside; a job that      *)
(* finished leaves it down only after a start that failed, and says so       *)
(* unless bar-ctl gave no answer or the reload failed too (reload_and_settle).*)
THEOREM BarComesBack == DisplaySpec => []BarIsRestarted
<1>1. PageInv => BarIsRestarted
  BY DEF PageInv
<1> QED
  BY <1>1, PageInvStarts, PageInvHolds, PTL DEF DisplaySpec

(* Edits are given up by the user only, whatever polls and jobs answer, and  *)
(* what a save replaces is among the backups, whatever the clock says        *)
(* (absorb, replace, prune_backups).                                         *)
THEOREM EditsStay == Spec => EditsAreSafe
<1>1. [Next]_vars => [DisplayNext]_displayVars
  BY DEF Next, vars
<1>2. PageInv /\ [DisplayNext]_displayVars
        => [HasChanges /\ monitors' # monitors
              => \/ worker' = worker /\ running' = running
                 \/ Revert
                 \/ worker.at = "deliver" /\ running \in {"Load", "Apply"}]_displayVars
  BY EditsStep
<1>3. PageInv /\ [DisplayNext]_displayVars
        => [worker.at = "rename" /\ file' # file /\ worker'.at = "stop"
              /\ file = worker.previous /\ file # NoFile
            => \E b \in backups' : b.text = file]_displayVars
  BY BackupStep
<1> QED
  BY <1>1, <1>2, <1>3, PageInvStarts, PageInvHolds, PTL DEF Spec, EditsAreSafe, EditsAreTheUsers, ReplacedIsBackedUp

-----------------------------------------------------------------------------
(* The pointer card. The newest job, the one of the newest generation, has   *)
(* the options that are shown.                                               *)
Whole(r) == r = [speed |-> r.speed, accel |-> r.accel]
CardInv ==
  /\ Whole(cardShown) /\ Whole(liveOptions) /\ Whole(job.options)
  /\ job = [options |-> job.options, at |-> job.at] /\ job.at \in {"idle", "sent", "ok", "failed"}
  /\ asked = [reply |-> asked.reply, at |-> asked.at] /\ (asked.reply = NothingSet \/ Whole(asked.reply))
  /\ generation \in Nat /\ sent \in Nat /\ sent <= generation
  /\ cardRunning <=> job.at # "idle"
  /\ waiting => cardRunning
  /\ cardRunning \/ delay \/ cardApplied # "no" => touched
  /\ cardRunning /\ sent = generation => job.options = cardShown
  /\ job.at = "ok" => liveOptions = job.options
  /\ cardApplied = "ok" => sent = generation /\ liveOptions = cardShown

(* Every step of the pointer card keeps the card's invariant.                *)
LEMMA CardInvHolds ==
  /\ CardInit => CardInv
  /\ CardInv /\ [CardNext]_cardVars => CardInv'
<1>1. ASSUME CardInit PROVE CardInv
  <2>1. Whole(DefaultPointer) /\ Whole(Parse(conf)) /\ \A p \in Pointers : Whole(p)
    BY DEF Whole, DefaultPointer, Parse, NothingSet, Pointers
  <2> QED
    BY <1>1, <2>1 DEF CardInit, CardInv, NoCardJob, NotAsked
<1>2. ASSUME CardInv, NEW p \in Pointers, ChangeOption(p) PROVE CardInv'
  <2>1. Whole(p)
    BY DEF Whole, Pointers
  <2> QED
    BY <1>2, <2>1 DEF ChangeOption, CardInv, Whole
<1>3. ASSUME CardInv, StartApply PROVE CardInv'
  BY <1>3 DEF StartApply, CardInv, Whole
<1>4. ASSUME CardInv, WorkerApplies PROVE CardInv'
  BY <1>4 DEF WorkerApplies, CardInv, Whole
<1>5. ASSUME CardInv, FinishApply PROVE CardInv'
  BY <1>5 DEF FinishApply, CardInv, Whole, NoCardJob, DefaultPointer
<1>6. ASSUME CardInv, HyprlandAnswers PROVE CardInv'
  BY <1>6 DEF HyprlandAnswers, CardInv, Whole
<1>7. ASSUME CardInv, AdoptLive PROVE CardInv'
  BY <1>7 DEF AdoptLive, CardInv, Whole, NotAsked
<1>8. ASSUME CardInv, StrangerEdits \/ UNCHANGED cardVars PROVE CardInv'
  BY <1>8 DEF StrangerEdits, CardInv, Whole, cardVars
<1> QED
  BY <1>1, <1>2, <1>3, <1>4, <1>5, <1>6, <1>7, <1>8 DEF CardNext

(* The card says "Applied" only when Hyprland has exactly what it shows,     *)
(* whatever changes came while a worker ran (begin_apply, finish_apply).     *)
THEOREM AppliedIsLive ==
  CardInit /\ [][CardNext]_cardVars => [](touched /\ cardApplied = "ok" => liveOptions = cardShown)
<1>1. CardInv => (touched /\ cardApplied = "ok" => liveOptions = cardShown)
  BY DEF CardInv
<1> QED
  BY <1>1, CardInvHolds, PTL
=============================================================================
