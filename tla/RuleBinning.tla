----------------------------- MODULE RuleBinning -----------------------------
(***************************************************************************)
(* Supervised binning of one numeric feature: rules/scorecard.py,          *)
(* fit_woe_binning, whose edges become the thresholds of candidate rules.  *)
(* Bins are merged with a neighbour, first while one holds too few rows,   *)
(* then while the bad rates break the direction asked for; every merge     *)
(* takes an entry out of three parallel lists, at indices that differ.     *)
(*                                                                         *)
(* A bin is its rows and the bad ones among them.  An edge is the number   *)
(* of initial bins to its left.  Rates are compared as fractions; the      *)
(* floats of the code agree except when two distances between rates are    *)
(* equal, where rounding may prefer either.                                *)
(***************************************************************************)
EXTENDS Integers, SequencesExt

CONSTANTS
  MaxBins,     \* bound on the initial bins
  MaxRows,     \* bound on the rows of an initial bin
  MaxMinimum   \* bound on the rows a bin must have

ASSUME BinningAssumption == MaxBins \in Nat /\ MaxRows \in Nat /\ MaxMinimum \in Nat

VARIABLES
  origin,    \* the initial bins
  bins,      \* the bins now: counts and bads
  edges,     \* the edges between them
  minimum,   \* rows a bin must have
  monotonic, \* the direction asked for, resolved once the small bins are gone
  binning    \* the loop that runs: "small", "monotonic" or "fitted"

binningVars == <<origin, bins, edges, minimum, monotonic, binning>>

Bin == {b \in [count : 0..MaxRows, bad : 0..MaxRows] : b.bad <= b.count}
Direction == {"increasing", "decreasing", "none"}

\* The sum of the first n numbers, for every n.
Sums(numbers) ==
  LET sum[n \in 0..Len(numbers)] == IF n = 0 THEN 0 ELSE sum[n - 1] + numbers[n]
  IN  sum

\* The rows of the first initial bins, and the bad ones among them.
RowsTo == Sums([i \in DOMAIN origin |-> origin[i].count])
BadTo  == Sums([i \in DOMAIN origin |-> origin[i].bad])

(***************************************************************************)
(* _initial_edges: an edge lies strictly between the smallest and the      *)
(* largest value, so the outer bins have rows; a quantile may fall in a    *)
(* gap, so an inner bin may have none.                                     *)
(***************************************************************************)
InitialBins ==
  {bs \in UNION {[1..k -> Bin] : k \in 1..MaxBins} :
     bs[1].count > 0 /\ bs[Len(bs)].count > 0}

BinningInit ==
  /\ origin \in InitialBins
  /\ bins = origin
  /\ edges = [i \in 1..(Len(origin) - 1) |-> i]
  /\ minimum \in 1..MaxMinimum /\ minimum <= RowsTo[Len(origin)]
  /\ monotonic \in Direction \cup {"auto"}
  /\ binning = "small"

-----------------------------------------------------------------------------
\* _rate; a bin without rows has rate 0.
Rows(b) == IF b.count = 0 THEN 1 ELSE b.count
Higher(b, c) == b.bad * Rows(c) > c.bad * Rows(b)
Gap(b, c) ==
  LET d == b.bad * Rows(c) - c.bad * Rows(b)
  IN  [over |-> IF d < 0 THEN -d ELSE d, under |-> Rows(b) * Rows(c)]
NoFurther(g, h) == g.over * h.under <= h.over * g.under

Joined(i) ==
  [bins[i] EXCEPT !.count = @ + bins[i + 1].count, !.bad = @ + bins[i + 1].bad]

\* Mutant: the edge on the far side of the merged bins goes.
MergeWrongEdge(i) ==
  /\ bins' = RemoveAt(ReplaceAt(bins, i, Joined(i)), i + 1)
  /\ edges' = RemoveAt(edges, IF i < Len(edges) THEN i + 1 ELSE i)
  /\ UNCHANGED <<origin, minimum>>

\* Bin i takes its right neighbour in, and the edge between them goes.
Merge(i) ==
  /\ bins' = RemoveAt(ReplaceAt(bins, i, Joined(i)), i + 1)
  /\ edges' = RemoveAt(edges, i)
  /\ UNCHANGED <<origin, minimum>>

\* The smallest of the bins with too few rows, the leftmost of these.
Small == {i \in DOMAIN bins : bins[i].count < minimum}
Smallest(i) ==
  /\ i \in Small
  /\ \A j \in Small : bins[i].count <= bins[j].count
  /\ \A j \in Small : bins[i].count = bins[j].count => i <= j

\* _merge_small_bins, an iteration
MergeSmall ==
  /\ binning = "small" /\ Len(bins) > 1
  /\ \E i \in DOMAIN bins :
       /\ Smallest(i)
       /\ \/ /\ i > 1
             /\ i < Len(bins) => NoFurther(Gap(bins[i - 1], bins[i]), Gap(bins[i], bins[i + 1]))
             /\ Merge(i - 1)
          \/ /\ i < Len(bins)
             /\ i > 1 => NoFurther(Gap(bins[i], bins[i + 1]), Gap(bins[i - 1], bins[i]))
             /\ Merge(i)
  /\ UNCHANGED <<monotonic, binning>>

\* _infer_direction
Inferred ==
  LET first == bins[1]  last == bins[Len(bins)] IN
  IF Higher(last, first) THEN "increasing"
  ELSE IF Higher(first, last) THEN "decreasing" ELSE "none"

ResolveDirection ==
  /\ binning = "small"
  /\ Small = {} \/ Len(bins) = 1
  /\ monotonic' = IF monotonic = "auto" THEN Inferred ELSE monotonic
  /\ binning' = IF monotonic' = "none" THEN "fitted" ELSE "monotonic"
  /\ UNCHANGED <<origin, bins, edges, minimum>>

Violation(i) ==
  \/ monotonic = "increasing" /\ Higher(bins[i], bins[i + 1])
  \/ monotonic = "decreasing" /\ Higher(bins[i + 1], bins[i])

\* _merge_monotonic_bins, an iteration: the first violation.
MergeViolation ==
  /\ binning = "monotonic"
  /\ \E i \in 1..(Len(bins) - 1) :
       /\ Violation(i)
       /\ \A j \in 1..(i - 1) : ~ Violation(j)
       /\ Merge(i)
  /\ UNCHANGED <<monotonic, binning>>

Fit ==
  /\ binning = "monotonic"
  /\ \A i \in 1..(Len(bins) - 1) : ~ Violation(i)
  /\ binning' = "fitted"
  /\ UNCHANGED <<origin, bins, edges, minimum, monotonic>>

BinningNext == MergeSmall \/ ResolveDirection \/ MergeViolation \/ Fit

BinningSpec == BinningInit /\ [][BinningNext]_binningVars

-----------------------------------------------------------------------------
(* Properties *)

\* Where bin i begins and ends, and what a model that is given the edges would
\* count there.
LeftOf(i)  == IF i = 1 THEN 0 ELSE edges[i - 1]
RightOf(i) == IF i = Len(bins) THEN Len(origin) ELSE edges[i]
Between(i) == [count |-> RowsTo[RightOf(i)] - RowsTo[LeftOf(i)],
               bad   |-> BadTo[RightOf(i)] - BadTo[LeftOf(i)]]

(***************************************************************************)
(* The three lists stay in step through every merge: what a bin reports is *)
(* what lies between its edges.  A fitted feature has no bin below the     *)
(* minimum, although the second loop merges without looking at counts, and *)
(* its rates have the resolved direction over all bins, although a merge   *)
(* changes the rate both neighbours are compared with.                     *)
(***************************************************************************)
BinsAreSound ==
  /\ Len(edges) = Len(bins) - 1
  /\ \A i \in 2..Len(edges) : edges[i - 1] < edges[i]
  /\ \A i \in DOMAIN bins : bins[i] = Between(i)
  /\ binning = "fitted" =>
       /\ \A b \in ToSet(bins) : b.count >= minimum
       /\ \A i, j \in DOMAIN bins :
            i < j => /\ monotonic = "increasing" => ~ Higher(bins[i], bins[j])
                     /\ monotonic = "decreasing" => ~ Higher(bins[j], bins[i])
=============================================================================
