--------------------------- MODULE AssignProfiles ---------------------------
(***************************************************************************)
(* The profile list that the Keypad and Mouse tabs share: one profile for  *)
(* every app plus a global one, and the editing rules of that list.        *)
(*                                                                         *)
(* A profile is [name, class, title, falls, bound]; "" in class and title  *)
(* is a match field it lacks, and a profile that lacks both is a global    *)
(* one.  `bound` gives each control its action, Unset when there is none.  *)
(* An edit that is refused gives Refused, a list no edit leaves: the last  *)
(* global profile can't be removed.                                        *)
(***************************************************************************)
EXTENDS Integers, SequencesExt

CONSTANTS Controls,             \* buttons, or the slots of a keypad
          Actions,              \* what a control can be set to
          Covers(_, _),         \* pattern_covers: a class pattern and a window class
          PatternOf(_),         \* class_regex of a window class
          NameOf(_)             \* default_profile_name of a window class

Unset == "unset"
Refused == <<>>
NoBindings == [c \in Controls |-> Unset]
GlobalProfile == [name |-> "global", class |-> "", title |-> "", falls |-> TRUE, bound |-> NoBindings]

IsGlobal(profile) == profile.class = "" /\ profile.title = ""
Globals(list) == {i \in DOMAIN list : IsGlobal(list[i])}

(* ensure_global: the index of the first global profile, made if needed.   *)
WithGlobal(list) == IF Globals(list) = {} THEN Append(list, GlobalProfile) ELSE list
GlobalIndex(list) == Min(Globals(WithGlobal(list)))

Has(list, i) == i \in DOMAIN list

SetBinding(list, i, control, action) == [list EXCEPT ![i].bound[control] = action]

SetName(list, i, name) ==
  IF name = "" \/ \E j \in DOMAIN list \ {i} : list[j].name = name THEN Refused
  ELSE [list EXCEPT ![i].name = name]

SetTitle(list, i, title) == IF IsGlobal(list[i]) THEN Refused ELSE [list EXCEPT ![i].title = title]

SetClass(list, i, class) ==
  IF IsGlobal(list[i]) \/ class = "" THEN Refused ELSE [list EXCEPT ![i].class = class]

SetFallthrough(list, i, on) == [list EXCEPT ![i].falls = on]

(* Mutant: a profile is added behind the global one.                       *)
AddAppLast(list, class) ==
  IF class = "" \/ \E i \in DOMAIN list : list[i].class = PatternOf(class) THEN Refused
  ELSE Append(WithGlobal(list),
         [GlobalProfile EXCEPT !.name = NameOf(class), !.class = PatternOf(class)])

(* add_app_profile: in front of the global one, unless a profile already   *)
(* matches that window class.                                              *)
AddApp(list, class) ==
  IF class = "" \/ \E i \in DOMAIN list : list[i].class = PatternOf(class) \/ Covers(list[i].class, class)
    THEN Refused
  ELSE InsertAt(WithGlobal(list), GlobalIndex(list),
         [GlobalProfile EXCEPT !.name = NameOf(class), !.class = PatternOf(class)])

(* remove_profile                                                          *)
Removed(list, i) == IF IsGlobal(list[i]) THEN Refused ELSE RemoveAt(list, i)

(* flow::apply_details: only what differs is written; a step that is       *)
(* refused refuses all of them.                                            *)
ApplyDetails(list, i, name, class, title) ==
  LET Step1 == IF name = list[i].name THEN list ELSE SetName(list, i, name)
      Step2 == IF Step1 = Refused \/ IsGlobal(list[i]) \/ class = list[i].class
                 THEN Step1 ELSE SetClass(Step1, i, class)
  IN IF Step2 = Refused \/ IsGlobal(list[i]) \/ title = list[i].title
       THEN Step2 ELSE SetTitle(Step2, i, title)
=============================================================================
