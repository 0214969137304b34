--------------------------- MODULE KeypadPreview ---------------------------
(***************************************************************************)
(* The Keypad page's two questions to the keypad app about the config as   *)
(* edited: its warnings (lint) and the cheatsheet preview.  Each asks on a *)
(* thread of its own, once per text, and threads end in any order.         *)
(***************************************************************************)
EXTENDS Integers, FiniteSets

CONSTANTS Drafts,       \* texts of the config, with the profile and context shown
          MaxDrafts     \* times the text changes

VARIABLES draft,        \* the text now
          asking,       \* for each question: [key, generation, shown]
          jobs,         \* threads: [of, generation, about]
          drafts

previewVars == <<draft, asking, jobs, drafts>>

Questions == {"lint", "sheet"}
Nothing == "nothing"

PreviewTypeOK ==
  /\ draft \in Drafts /\ drafts \in 0..MaxDrafts
  /\ asking \in [Questions -> [key : Drafts \cup {Nothing}, generation : 0..MaxDrafts + 1,
                               shown : Drafts \cup {Nothing}]]
  /\ jobs \subseteq [of : Questions, generation : 1..MaxDrafts + 1, about : Drafts]

PreviewInit ==
  /\ draft \in Drafts /\ jobs = {} /\ drafts = 0
  /\ asking = [q \in Questions |-> [key |-> Nothing, generation |-> 0, shown |-> Nothing]]

NewDraft ==
  /\ drafts < MaxDrafts /\ drafts' = drafts + 1
  /\ draft' \in Drafts \ {draft}
  /\ UNCHANGED <<asking, jobs>>

(* refresh_lint, refresh_sheet_preview: at every drawing of the page.      *)
Ask(q) ==
  /\ asking[q].key # draft
  /\ asking' = [asking EXCEPT ![q].key = draft, ![q].generation = @ + 1]
  /\ jobs' = jobs \cup {[of |-> q, generation |-> asking[q].generation + 1, about |-> draft]}
  /\ UNCHANGED <<draft, drafts>>

(* Mutant: an answer counts whatever was asked since.                      *)
AnswerAnyway(job) ==
  /\ jobs' = jobs \ {job}
  /\ asking' = [asking EXCEPT ![job.of].shown = job.about]
  /\ UNCHANGED <<draft, drafts>>

(* An answer is shown only when it is the one to the last question.        *)
Answer(job) ==
  /\ jobs' = jobs \ {job}
  /\ asking' = [asking EXCEPT ![job.of].shown =
                  IF asking[job.of].generation = job.generation THEN job.about ELSE @]
  /\ UNCHANGED <<draft, drafts>>

PreviewNext ==
  \/ NewDraft
  \/ \E q \in Questions : Ask(q)
  \/ \E job \in jobs : Answer(job)

(* Once the last question is answered, what is shown is about the text     *)
(* that was asked about last, in whatever order the threads end.           *)
PreviewIsOfTheLastDraft ==
  \A q \in Questions :
    (\A job \in jobs : job.of # q \/ job.generation # asking[q].generation) =>
      asking[q].shown = asking[q].key
=============================================================================
