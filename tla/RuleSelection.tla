---------------------------- MODULE RuleSelection ----------------------------
(***************************************************************************)
(* Which candidate rules a run keeps: rules/discovery.py,                  *)
(* discover_with_metrics.  Conditions on one feature are ranked; a beam    *)
(* takes from every feature in turn; the pairs over the beam are ranked    *)
(* and chosen in two passes, the first of which takes one of every pair of *)
(* features.                                                               *)
(*                                                                         *)
(* A column maps the rows that have a value to it; features are numbers,   *)
(* for the order of their names.  Where thresholds come from (quantiles,   *)
(* trees, boosting, binning) is left open: any set of cuts.                *)
(***************************************************************************)
EXTENDS Integers, SequencesExt

CONSTANTS
  Feature,      \* the features, as integers
  Row,          \* the rows of the training partition
  Targets,      \* which of them may be those with target 1
  Column,       \* what a feature may look like: values of some of the rows
  Cut,          \* the thresholds there may be, as integers below Base
  Thresholds,   \* the sets of them a feature may be given
  Base,         \* bound on cuts and features, for the order of expressions
  Support,      \* the minimum supports tried, in rows
  Width,        \* the beam widths tried
  MaxPairRules  \* the bounds on selected pairs tried

ASSUME SelectionAssumption ==
  /\ Base \in Nat /\ IsFiniteSet(Row)
  /\ Feature \subseteq 1..(Base - 1) /\ Cut \subseteq 0..(Base - 1)
  /\ Thresholds \subseteq SUBSET Cut
  /\ Targets \subseteq SUBSET Row /\ Support \subseteq 1..Cardinality(Row)
  /\ Width \subseteq Nat \ {0} /\ MaxPairRules \subseteq Nat

VARIABLES
  bad,        \* the rows with target 1
  columns,    \* the column of each feature
  thresholds, \* the thresholds found for each feature
  least,      \* rows a rule must match: its minimum support
  width,      \* beam_width
  maximum,    \* max_pair_rules
  grouped,    \* the candidates of one condition on each feature, ranked
  beam,       \* the beam, as far as it is built
  position,   \* candidates of each feature the beam has gone through
  pairs,      \* the candidates of two conditions, ranked
  left,       \* those the current pass has not looked at
  selected,   \* the pairs selected
  selecting   \* where the call is

selectionVars == <<bad, columns, thresholds, least, width, maximum, grouped, beam,
                 position, pairs, left, selected, selecting>>

SelectionInit ==
  /\ bad \in Targets
  /\ columns \in [Feature -> Column]
  /\ thresholds \in [Feature -> Thresholds]
  /\ least \in Support
  /\ width \in Width /\ maximum \in MaxPairRules
  /\ grouped = [f \in Feature |-> <<>>]
  /\ beam = <<>> /\ position = 0 /\ pairs = <<>> /\ left = <<>> /\ selected = <<>>
  /\ selecting = "begun"

-----------------------------------------------------------------------------
(* Conditions, rules and their rank *)

Condition == [feature : Feature, operator : {0, 1}, value : Cut]  \* 0: <=, 1: >

\* evaluate_rule: a row without a value matches no condition on it.
Matches(c) ==
  LET column == columns[c.feature] IN
  {r \in DOMAIN column :
     IF c.operator = 0 THEN column[r] <= c.value ELSE column[r] > c.value}
Mask(rule) == {r \in Row : \A c \in rule : r \in Matches(c)}

\* _condition_key and _canonical_expression: an order on the texts of conditions
\* and, from it, of rules.
Ordinal(c) == (2 * c.feature + c.operator) * Base + c.value
Expression(rule) ==
  LET keys == {Ordinal(c) : c \in rule}
      low  == CHOOSE k \in keys : \A l \in keys : k <= l
      high == CHOOSE k \in keys : \A l \in keys : l <= k
  IN  low * 2 * Base * Base + high

\* _ranking_key, in reverse order: lift, support, expression.
RanksAbove(a, b) ==
  LET na == Cardinality(Mask(a))         nb == Cardinality(Mask(b))
      ha == Cardinality(Mask(a) \cap bad)  hb == Cardinality(Mask(b) \cap bad)
  IN  \/ ha * nb > hb * na
      \/ ha * nb = hb * na /\ na > nb
      \/ ha * nb = hb * na /\ na = nb /\ Expression(a) > Expression(b)
Ranked(rules) ==
  [i \in 1..Cardinality(rules) |->
     CHOOSE r \in rules : Cardinality({s \in rules : RanksAbove(s, r)}) = i - 1]

\* _support_bounds: the most is as far from all rows as the least is from none.
Supported(rule) == Cardinality(Mask(rule)) >= least
NotTooWide(rule) == Cardinality(Mask(rule)) <= Cardinality(Row) - least

\* _single_candidates
Singles ==
  {rule \in {{c} : c \in {c \in Condition : c.value \in thresholds[c.feature]}} :
     Supported(rule) /\ NotTooWide(rule)}
Features(rule) == {c.feature : c \in rule}
SinglesOf(f) == {rule \in Singles : Features(rule) = {f}}

-----------------------------------------------------------------------------
\* Without rows of both targets there are no candidates.
Begin ==
  /\ selecting = "begun"
  /\ \/ /\ bad \in {{}, Row} /\ selecting' = "selected"
        /\ UNCHANGED grouped
     \/ /\ bad \notin {{}, Row} /\ selecting' = "beam"
        /\ grouped' = [f \in Feature |-> Ranked(SinglesOf(f))]
  /\ UNCHANGED <<bad, columns, thresholds, least, width, maximum, beam, position,
                 pairs, left, selected>>

(***************************************************************************)
(* _pair_beam, a round: the next candidate of every feature that has one,  *)
(* in the order of the features, until the beam is full.                   *)
(***************************************************************************)
HasNext == {f \in Feature : position < Len(grouped[f])}
Round == [i \in 1..Cardinality(HasNext) |->
            LET f == CHOOSE f \in HasNext : Cardinality({g \in HasNext : g < f}) = i - 1
            IN  grouped[f][position + 1]]

ExtendBeam ==
  /\ selecting = "beam"
  /\ Len(beam) < width /\ HasNext # {}
  /\ beam' = SubSeq(beam \o Round, 1,
                    IF Len(beam \o Round) < width THEN Len(beam \o Round) ELSE width)
  /\ position' = position + 1
  /\ UNCHANGED <<bad, columns, thresholds, least, width, maximum, grouped, pairs,
                 left, selected, selecting>>

\* _pair_candidates: both conditions of a pair leave rows out.
Narrows(a, b) == Mask(a \cup b) # Mask(a) /\ Mask(a \cup b) # Mask(b)
PairsOf(rules) ==
  {two[1] \cup two[2] : two \in {t \in rules \X rules :
     /\ Features(t[1]) # Features(t[2])
     /\ Supported(t[1] \cup t[2])
     /\ Narrows(t[1], t[2])}}

PairUp ==
  /\ selecting = "beam"
  /\ Len(beam) = width \/ HasNext = {}
  /\ pairs' = Ranked(PairsOf(ToSet(beam)))
  /\ left' = pairs'
  /\ selecting' = IF maximum = 0 THEN "selected" ELSE "first pass"
  /\ UNCHANGED <<bad, columns, thresholds, least, width, maximum, grouped, beam,
                 position, selected>>

-----------------------------------------------------------------------------
(* _diverse_pair_selection *)

\* Mutant: a pair counts as represented once either feature is.
RepresentedByOne(rule) == \E s \in ToSet(selected) : Features(s) \cap Features(rule) # {}
Represented(rule) == \E s \in ToSet(selected) : Features(s) = Features(rule)

\* The end of either pass ranks what is selected.
Select(rule, pass) ==
  LET s == Append(selected, rule) IN
  IF Len(s) = maximum
  THEN selected' = Ranked(ToSet(s)) /\ selecting' = "selected"
  ELSE selected' = s /\ selecting' = pass

FirstPass ==
  /\ selecting = "first pass" /\ left # <<>>
  /\ \/ ~ Represented(Head(left)) /\ Select(Head(left), "first pass")
     \/ Represented(Head(left)) /\ UNCHANGED <<selected, selecting>>
  /\ left' = Tail(left)
  /\ UNCHANGED <<bad, columns, thresholds, least, width, maximum, grouped, beam,
                 position, pairs>>

StartSecondPass ==
  /\ selecting = "first pass" /\ left = <<>>
  /\ left' = pairs
  /\ selecting' = "second pass"
  /\ UNCHANGED <<bad, columns, thresholds, least, width, maximum, grouped, beam,
                 position, pairs, selected>>

SecondPass ==
  /\ selecting = "second pass" /\ left # <<>>
  /\ \/ Head(left) \notin ToSet(selected) /\ Select(Head(left), "second pass")
     \/ Head(left) \in ToSet(selected) /\ UNCHANGED <<selected, selecting>>
  /\ left' = Tail(left)
  /\ UNCHANGED <<bad, columns, thresholds, least, width, maximum, grouped, beam,
                 position, pairs>>

FinishSelection ==
  /\ selecting = "second pass" /\ left = <<>>
  /\ selected' = Ranked(ToSet(selected))
  /\ selecting' = "selected"
  /\ UNCHANGED <<bad, columns, thresholds, least, width, maximum, grouped, beam,
                 position, pairs, left>>

SelectionNext ==
  \/ Begin \/ ExtendBeam \/ PairUp
  \/ FirstPass \/ StartSecondPass \/ SecondPass \/ FinishSelection

SelectionSpec == SelectionInit /\ [][SelectionNext]_selectionVars

-----------------------------------------------------------------------------
(* Properties *)

InBeam(f) == {rule \in ToSet(beam) : Features(rule) = {f}}
BestOf(f, n) == {grouped[f][i] : i \in 1..n}

(***************************************************************************)
(* No feature crowds out another.  The beam holds the best conditions of   *)
(* every feature, as many as of any other feature or one fewer, unless a   *)
(* feature has no more.  What is selected is as many pairs as the bound    *)
(* and the candidates allow, none twice, ranked; a pair of features comes  *)
(* twice only after each that has a candidate has come, is represented by  *)
(* its best, and gives way only to pairs of features that rank higher.     *)
(***************************************************************************)
SelectionIsDiverse ==
  /\ \A f \in Feature :
       /\ InBeam(f) = BestOf(f, Cardinality(InBeam(f)))
       /\ \A g \in Feature :
            \/ Cardinality(InBeam(g)) <= Cardinality(InBeam(f)) + 1
            \/ Cardinality(InBeam(f)) = Len(grouped[f])
  /\ selecting = "selected" =>
       LET chosen == ToSet(selected)
           Kinds(rules) == {Features(rule) : rule \in rules}
       IN
       /\ Len(selected) = Cardinality(chosen)
       /\ Len(selected) = IF Len(pairs) < maximum THEN Len(pairs) ELSE maximum
       /\ chosen \subseteq PairsOf(ToSet(beam))
       /\ \A i, j \in DOMAIN selected : i < j => RanksAbove(selected[i], selected[j])
       /\ Kinds(chosen) # Kinds(ToSet(pairs)) => Cardinality(Kinds(chosen)) = maximum
       /\ \A i \in DOMAIN pairs : pairs[i] \notin chosen =>
            LET above == {pairs[j] : j \in 1..(i - 1)} IN
            /\ Features(pairs[i]) \in Kinds(chosen) =>
                 \E s \in chosen \cap above : Features(s) = Features(pairs[i])
            /\ Features(pairs[i]) \notin Kinds(chosen) =>
                 Kinds(chosen) \subseteq Kinds(above)
=============================================================================
