---------------------------- MODULE PointerCard ----------------------------
(***************************************************************************)
(* The Pointer card of the Mouse tab: a change is written to pointer.conf  *)
(* at once and reaches the running Hyprland a moment later on a worker     *)
(* thread.  Changes that come while an apply runs make one more apply.     *)
(*                                                                         *)
(* pointer.conf is a hyprlang file of which Settings manages the options   *)
(* of the top-level `input` block and keeps every other line.  A line is   *)
(* one of Lines, as `classify` tells them apart.  Two of the four managed  *)
(* options stand for all: one that is always written and the acceleration  *)
(* profile, which is left out at its default.                              *)
(***************************************************************************)
EXTENDS Integers, SequencesExt, FiniteSets

CONSTANTS Texts,        \* what the file may hold
          Edits,        \* what somebody else may write into it
          MaxChanges    \* controls the user moves

Speeds == {"0", "1"}                    \* the first is the default
Accels == {"default", "flat"}
Pointers == [speed : Speeds, accel : Accels]
DefaultPointer == [speed |-> "0", accel |-> "default"]

Open(name) == [kind |-> "open", name |-> name, value |-> ""]
CloseLine == [kind |-> "close", name |-> "", value |-> ""]
Option(name, value) == [kind |-> "option", name |-> name, value |-> value]
OtherLine == [kind |-> "other", name |-> "", value |-> ""]

Managed == {"speed", "accel"}
Lines == {Open("input"), Open("touchpad"), CloseLine, OtherLine, Option("follow", "1")}
           \cup {Option("speed", s) : s \in Speeds \cup {"odd"}}
           \cup {Option("accel", a) : a \in Accels}

(* The names of the blocks that are open before line n.                    *)
PathBefore(text, n) ==
  LET step(path, line) == CASE line.kind = "open" -> Append(path, line.name)
                            [] line.kind = "close" /\ path # <<>> -> Front(path)
                            [] OTHER -> path
  IN FoldLeft(step, <<>>, SubSeq(text, 1, n - 1))

InInput(text, n) == PathBefore(text, n) = <<"input">>
IsManaged(text, n) ==
  text[n].kind = "option" /\ text[n].name \in Managed /\ InInput(text, n)

(* parse: the last value that can be read counts; none is None.            *)
LastOf(text, name, readable, default) ==
  LET at == {n \in DOMAIN text : IsManaged(text, n) /\ text[n].name = name /\ text[n].value \in readable}
  IN IF at = {} THEN default ELSE text[Max(at)].value

NothingSet == [speed |-> "none", accel |-> "none"]
Parse(text) ==
  IF ~\E n \in DOMAIN text : IsManaged(text, n) THEN NothingSet
  ELSE [speed |-> LastOf(text, "speed", Speeds, "0"),
        accel |-> LastOf(text, "accel", Accels, "default")]

ManagedLines(pointer) ==
  <<Option("speed", pointer.speed)>>
    \o (IF pointer.accel = "default" THEN <<>> ELSE <<Option("accel", pointer.accel)>>)

(* The ends of the top-level `input` blocks.                               *)
Closes(text) == {n \in DOMAIN text : text[n] = CloseLine /\ InInput(text, n)}

(* Mutant: only the managed lines of the first block are dropped.          *)
KeptFirst(text) ==
  {n \in DOMAIN text : ~(IsManaged(text, n) /\ \A c \in Closes(text) : n < c)}

(* render: managed lines are dropped, the new ones go in front of the      *)
(* close of the first `input` block, or into a block of their own.         *)
Kept(text) == {n \in DOMAIN text : ~IsManaged(text, n)}

LinesOf(text, ns) == FoldLeft(LAMBDA out, n : IF n \in ns THEN Append(out, text[n]) ELSE out,
                              <<>>, [n \in DOMAIN text |-> n])

Render(text, pointer) ==
  IF Closes(text) = {}
    THEN LinesOf(text, Kept(text)) \o <<Open("input")>> \o ManagedLines(pointer) \o <<CloseLine>>
    ELSE LET first == Min(Closes(text))
         IN LinesOf(text, {n \in Kept(text) : n < first}) \o ManagedLines(pointer)
              \o LinesOf(text, {n \in Kept(text) : n >= first})

(* Every block that is opened is closed: what Hyprland itself accepts.     *)
Balanced(text) == PathBefore(text, Len(text) + 1) = <<>>

(* The text with the managed options taken out, and blocks named `input`   *)
(* that hold nothing else.                                                 *)
Others(text) == LinesOf(text, Kept(text))

-----------------------------------------------------------------------------
VARIABLES conf,         \* the file
          cardShown,    \* current: the options on the card
          fromFile, touched, saved, cardApplied,
          generation, sent, cardRunning, waiting,
          delay,        \* APPLY_TIMER runs
          job,          \* the options a worker is applying, and its result
          asked,        \* read_live on its thread: no, asked, or Hyprland's answer
          liveOptions,  \* the running Hyprland's options
          strangers     \* edits of the file by somebody else

cardVars == <<conf, cardShown, fromFile, touched, saved, cardApplied, generation, sent, cardRunning, waiting,
              delay, job, asked, liveOptions, strangers>>

NoCardJob == [options |-> DefaultPointer, at |-> "idle"]
Answers == Pointers \cup {NothingSet}
NotAsked == [reply |-> NothingSet, at |-> "no"]
MaxStrangers == 1

CardTypeOK ==
  /\ {cardShown, liveOptions} \subseteq Pointers
  /\ {fromFile, touched, saved, cardRunning, waiting, delay} \subseteq BOOLEAN
  /\ cardApplied \in {"no", "ok", "failed"}
  /\ generation \in 0..MaxChanges /\ sent \in 0..generation
  /\ job \in [options : Pointers, at : {"idle", "sent", "ok", "failed"}]
  /\ asked \in [reply : Answers, at : {"no", "asked", "answered"}]
  /\ cardRunning <=> job.at # "idle"
  /\ waiting => cardRunning

(* load, and read_live when nothing saved gave the values.                 *)
CardInit ==
  /\ conf \in Texts /\ liveOptions \in Pointers
  /\ fromFile = (Parse(conf) # NothingSet)
  /\ cardShown = (IF fromFile THEN Parse(conf) ELSE DefaultPointer)
  /\ touched = FALSE /\ saved = TRUE /\ cardApplied = "no"
  /\ generation = 0 /\ sent = 0 /\ cardRunning = FALSE /\ waiting = FALSE
  /\ delay = FALSE /\ job = NoCardJob
  /\ asked = (IF fromFile THEN NotAsked ELSE [reply |-> NothingSet, at |-> "asked"])
  /\ strangers = 0

(* persist: the file's other lines are read again at each save.  The file  *)
(* cannot be read or written: it stays as it is, and the card says so.     *)
Persist(pointer) ==
  \/ conf' = Render(conf, pointer) /\ saved' = TRUE
  \/ UNCHANGED conf /\ saved' = FALSE

(* A control moved to a new value: set_*, reset.                           *)
ChangeOption(pointer) ==
  /\ pointer # cardShown /\ generation < MaxChanges
  /\ cardShown' = pointer /\ touched' = TRUE
  /\ generation' = generation + 1 /\ cardApplied' = "no"
  /\ Persist(pointer)
  /\ delay' = TRUE
  /\ UNCHANGED <<fromFile, sent, cardRunning, waiting, job, asked, liveOptions, strangers>>

(* The controls have rested: begin_apply.                                  *)
StartApply ==
  /\ delay /\ delay' = FALSE
  /\ IF cardRunning THEN waiting' = TRUE /\ UNCHANGED <<sent, cardRunning, job>>
     ELSE /\ cardRunning' = TRUE /\ sent' = generation
          /\ job' = [options |-> cardShown, at |-> "sent"]
          /\ UNCHANGED waiting
  /\ UNCHANGED <<conf, cardShown, fromFile, touched, saved, cardApplied, generation, asked, liveOptions, strangers>>

(* The worker: under Lua all the options or none; with keywords it may     *)
(* stop after some of them.                                                *)
WorkerApplies ==
  /\ job.at = "sent"
  /\ \/ liveOptions' = job.options /\ job' = [job EXCEPT !.at = "ok"]
     \/ /\ liveOptions' \in {liveOptions, [liveOptions EXCEPT !.speed = job.options.speed]}
        /\ job' = [job EXCEPT !.at = "failed"]
  /\ UNCHANGED <<conf, cardShown, fromFile, touched, saved, cardApplied, generation, sent, cardRunning, waiting,
                 delay, asked, strangers>>

(* Mutant: a result counts for the card although a control moved since.    *)
FinishApplyAnyway ==
  /\ job.at \in {"ok", "failed"}
  /\ IF waiting
       THEN /\ waiting' = FALSE /\ sent' = generation /\ cardApplied' = "no"
            /\ job' = [options |-> cardShown, at |-> "sent"] /\ UNCHANGED cardRunning
       ELSE /\ cardRunning' = FALSE /\ job' = NoCardJob /\ cardApplied' = job.at /\ UNCHANGED <<waiting, sent>>
  /\ UNCHANGED <<conf, cardShown, fromFile, touched, saved, generation, delay, asked, liveOptions, strangers>>

(* Mutant: the change that waited is forgotten.                            *)
FinishApplyForget ==
  /\ job.at \in {"ok", "failed"}
  /\ cardRunning' = FALSE /\ waiting' = FALSE /\ job' = NoCardJob
  /\ cardApplied' = IF sent = generation THEN job.at ELSE cardApplied
  /\ UNCHANGED <<conf, cardShown, fromFile, touched, saved, generation, sent, delay, asked, liveOptions, strangers>>

(* finish_apply: a change that waited is applied next; the result is shown *)
(* only when it is the result of the newest values.                        *)
FinishApply ==
  /\ job.at \in {"ok", "failed"}
  /\ IF waiting
       THEN /\ waiting' = FALSE /\ sent' = generation /\ cardApplied' = "no"
            /\ job' = [options |-> cardShown, at |-> "sent"] /\ UNCHANGED cardRunning
       ELSE /\ cardRunning' = FALSE /\ job' = NoCardJob
            /\ cardApplied' = IF sent = generation THEN job.at ELSE cardApplied
            /\ UNCHANGED <<waiting, sent>>
  /\ UNCHANGED <<conf, cardShown, fromFile, touched, saved, generation, delay, asked, liveOptions, strangers>>

(* read_live's worker, which may fail.                                     *)
HyprlandAnswers ==
  /\ asked.at = "asked"
  /\ asked' \in [reply : {liveOptions, NothingSet}, at : {"answered"}]
  /\ UNCHANGED <<conf, cardShown, fromFile, touched, saved, cardApplied, generation, sent, cardRunning, waiting,
                 delay, job, liveOptions, strangers>>

(* Mutant: Hyprland's late answer undoes what was chosen meanwhile.        *)
AdoptLiveAlways ==
  /\ asked.at = "answered" /\ asked' = NotAsked
  /\ cardShown' = IF asked.reply = NothingSet THEN cardShown ELSE asked.reply
  /\ UNCHANGED <<conf, fromFile, touched, saved, cardApplied, generation, sent, cardRunning, waiting, delay,
                 job, liveOptions, strangers>>

(* adopt_live: a control used meanwhile wins.                              *)
AdoptLive ==
  /\ asked.at = "answered" /\ asked' = NotAsked
  /\ cardShown' = IF touched \/ asked.reply = NothingSet THEN cardShown ELSE asked.reply
  /\ UNCHANGED <<conf, fromFile, touched, saved, cardApplied, generation, sent, cardRunning, waiting, delay,
                 job, liveOptions, strangers>>

(* Somebody else edits the file.                                           *)
StrangerEdits ==
  /\ strangers < MaxStrangers /\ strangers' = strangers + 1
  /\ conf' \in Edits
  /\ UNCHANGED <<cardShown, fromFile, touched, saved, cardApplied, generation, sent, cardRunning, waiting, delay,
                 job, asked, liveOptions>>

CardNext ==
  \/ \E p \in Pointers : ChangeOption(p)
  \/ StartApply \/ WorkerApplies \/ FinishApply
  \/ HyprlandAnswers \/ AdoptLive \/ StrangerEdits

(* Timers fire, threads run, results are delivered.                        *)
CardFairness == WF_cardVars(StartApply) /\ WF_cardVars(WorkerApplies) /\ WF_cardVars(FinishApply)

(* What the card says is so: "Applied" only when Hyprland has exactly the  *)
(* options shown, "saved" only when the file reads back as them (until     *)
(* somebody else edits it).                                                *)
CardTellsTheTruth ==
  /\ touched /\ cardApplied = "ok" => liveOptions = cardShown
  /\ touched /\ saved /\ strangers = 0 => Parse(conf) = cardShown

(* A save by the card keeps every line that is not one of its options, is  *)
(* read back as what the card shows, whatever other blocks said before, and *)
(* a second save puts nothing more into the file.                          *)
CardKeepsOtherLines ==
  [][generation' # generation /\ conf' # conf /\ Balanced(conf) =>
       /\ IsPrefix(Others(conf), Others(conf'))
       /\ Others(conf') \in {Others(conf), Others(conf) \o <<Open("input"), CloseLine>>}
       /\ Parse(conf') = cardShown' /\ Render(conf', cardShown') = conf']_cardVars

(* A change that was made gets a result: the user sees "applied" or why    *)
(* not, for the values that are shown then.                                *)
ChangesGetAnswered == touched ~> cardApplied # "no"
=============================================================================
