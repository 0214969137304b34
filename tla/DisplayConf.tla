------------------------------ MODULE DisplayConf ------------------------------
(* monitors.conf (settings/src/display/conf.rs): the rules its lines make, and  *)
(* merge, which rewrites it for the displays that are being saved. A line is a  *)
(* record of its selector, its form and one value that stands for the fields.   *)
EXTENDS Naturals, Sequences, FiniteSets, SequencesExt

CONSTANTS Connectors,      \* the outputs, by the name that selects exactly one
          Descriptions,    \* `desc:' selectors
          Describes,       \* [Descriptions -> SUBSET Connectors], by prefix
          Gone,            \* selectors of displays that are not connected
          Values,          \* what an addreserved line may set
          MaxLines,        \* bound
          Comment          \* a line that is no monitor rule

ASSUME ConfAssumption == Describes \in [Descriptions -> SUBSET Connectors]

VARIABLES text, written    \* the file, and the outputs the last save wrote with their targets
confVars == <<text, written>>

Forms == {"full", "disable", "transform", "addreserved"}
Selectors == Connectors \cup Descriptions \cup Gone
Line(sel, form, value) == [sel |-> sel, form |-> form, value |-> value]
RuleLines == {Line(sel, "addreserved", v) : sel \in Selectors, v \in Values}
             \cup {Line(sel, form, 1) : sel \in Selectors, form \in Forms \ {"addreserved"}}
MatchesSelector(output, sel) ==
    \/ sel = output
    \/ sel \in Descriptions /\ output \in Describes[sel]

(* The rules Hyprland builds of the lines in order. A rule has its transform    *)
(* apart, and what its carried options say is part of `keeps'.                  *)
Fresh(sel) == [sel |-> sel, disabled |-> FALSE, sets |-> 0, transform |-> 0, keeps |-> 0]
Without(rules, sel) == SelectSeq(rules, LAMBDA r : r.sel # sel)
RuleOf(rules, sel) == SelectSeq(rules, LAMBDA r : r.sel = sel)
AddLine(rules, line) ==
    CASE line = Comment -> rules
      [] line.form = "full" -> Append(Without(rules, line.sel),
            [Fresh(line.sel) EXCEPT !.sets = line.value, !.keeps = IF "keeps" \in DOMAIN line THEN line.keeps ELSE line.value])
      [] line.form = "disable" -> Append(Without(rules, line.sel), [Fresh(line.sel) EXCEPT !.disabled = TRUE])
      [] line.form = "transform" ->
            Without(rules, line.sel) \o [i \in DOMAIN RuleOf(rules, line.sel) |->
                [RuleOf(rules, line.sel)[i] EXCEPT !.transform = line.value]]
      [] OTHER -> IF RuleOf(rules, line.sel) # <<>> THEN rules ELSE Append(rules, Fresh(line.sel))
Rules(lines) == FoldLeft(AddLine, <<>>, lines)

(* The last rule that matches, if any does.                                     *)
Effective(rules, output) ==
    LET hits == SelectSeq(rules, LAMBDA r : MatchesSelector(output, r.sel))
    IN IF hits = <<>> THEN <<>> ELSE <<Last(hits)>>

(* A description that can only match this output, else the connector.           *)
OwnDescriptions(output) == {d \in Descriptions : Describes[d] = {output}}
ChooseSelector(output) ==
    IF OwnDescriptions(output) = {} THEN output ELSE CHOOSE d \in OwnDescriptions(output) : TRUE

(* A line goes when it is about a written output and no other one present.      *)
HitsOf(line, planned) == {o \in DOMAIN planned : MatchesSelector(o, line.sel)}
(* Mutant: a line about another display too is replaced.                        *)
ReplacedIfShared(line, planned) == line # Comment /\ HitsOf(line, planned) # {}

Replaced(line, planned) ==
    /\ line # Comment
    /\ HitsOf(line, planned) # {}
    /\ \A o \in Connectors \ DOMAIN planned : ~MatchesSelector(o, line.sel)

KeptLines(lines, planned) == SelectSeq(lines, LAMBDA line : ~Replaced(line, planned))

(* The values of the addreserved lines that are replaced, the last of equal     *)
(* ones, follow the output's own line.                                          *)
Reserved(lines, planned, output) ==
    LET values == [i \in DOMAIN lines |->
            IF /\ Replaced(lines[i], planned) /\ lines[i].form = "addreserved"
               /\ MatchesSelector(output, lines[i].sel) THEN <<lines[i].value>> ELSE <<>>]
        all == FlattenSeq(values)
        kept == {i \in DOMAIN all : \A j \in DOMAIN all : j > i => all[j] # all[i]}
    IN [i \in 1..Cardinality(kept) |-> all[CHOOSE k \in kept : Cardinality({j \in kept : j <= k}) = i]]
Carried(rules, output) ==
    LET rule == Effective(rules, output)
    IN IF rule = <<>> THEN 0 ELSE IF rule[1].disabled THEN 0 ELSE rule[1].keeps
FormatLine(output, target, rules) ==
    [sel |-> ChooseSelector(output), form |-> "full", value |-> target, keeps |-> Carried(rules, output)]

(* The planned outputs are written in an order of their targets.                *)
InTargetOrder(planned) ==
    SetToSortSeq(DOMAIN planned, LAMBDA a, b : planned[a] < planned[b])
MergeLines(lines, planned) ==
    LET rules == Rules(lines)
        own(output) == <<FormatLine(output, planned[output], rules)>> \o
            [i \in DOMAIN Reserved(lines, planned, output) |->
                Line(ChooseSelector(output), "addreserved", Reserved(lines, planned, output)[i])]
        order == InTargetOrder(planned)
    IN KeptLines(lines, planned) \o FlattenSeq([i \in DOMAIN order |-> own(order[i])])

-----------------------------------------------------------------------------
(* The file is any the user wrote; the displays that are on are saved, each at  *)
(* a position of its own.                                                       *)
HandWritten == UNION {[1..n -> RuleLines \cup {Comment}] : n \in 0..MaxLines}
Plans == UNION {{p \in [on -> 1..Cardinality(Connectors)] : IsInjective(p)} : on \in SUBSET Connectors \ {{}}}

ConfInit == text \in HandWritten /\ written = <<>>
SaveDisplays ==
    \E plan \in Plans : text' = MergeLines(text, plan) /\ written' = plan
ConfNext == written = <<>> /\ SaveDisplays

-----------------------------------------------------------------------------
(* After a save the rule of each written display is its target with the options *)
(* it had, the rules that apply to every other display are what they were, no   *)
(* line about a display that is not connected is lost, and to save the same     *)
(* again changes nothing (conf.rs:426-433, and replace's "byte-identical").     *)
SavedRuleApplies(output) ==
    LET now == Effective(Rules(text'), output)
    IN /\ now # <<>> /\ ~now[1].disabled /\ now[1].sets = written'[output] /\ now[1].transform = 0
       /\ now[1].keeps = Carried(Rules(text), output)
OtherRuleStays(output) == Effective(Rules(text'), output) = Effective(Rules(text), output)
SaveChangesOnlyItsDisplays ==
    [][written' # written =>
        /\ \A o \in DOMAIN written' : SavedRuleApplies(o)
        /\ \A o \in Connectors \ DOMAIN written' : OtherRuleStays(o)
        /\ SelectSeq(text', LAMBDA line : line = Comment \/ line.sel \in Gone)
            = SelectSeq(text, LAMBDA line : line = Comment \/ line.sel \in Gone)
        /\ MergeLines(text', written') = text']_confVars
=============================================================================
