------------------------------ MODULE DataSplit ------------------------------
(***************************************************************************)
(* How a run divides its rows: service.py, _partitions.  In time order     *)
(* when the mode of time validation and the dates allow it, otherwise at   *)
(* random, so that each segment has rows of each target on both sides.     *)
(*                                                                         *)
(* The rows matter as counts, by date and target and by segment and        *)
(* target.  Which rows of a group train_test_split draws is left out; how  *)
(* many of each target it draws is taken from its documented apportioning. *)
(***************************************************************************)
EXTENDS Integers, Sequences, FiniteSets

CONSTANTS
  Segments,   \* how many segments there are; they are numbers, for the order of
              \* the group keys
  DateRows,   \* what the rows of one date may be: [Target -> Nat]
  Undated,    \* what the rows without a date may be
  MaxDates    \* bound on the dates

Segment == 1..Segments
Target  == {0, 1}

ASSUME SplitAssumption ==
  /\ Segments \in Nat /\ MaxDates \in Nat
  /\ DateRows \subseteq [Target -> Nat] /\ Undated \subseteq [Target -> Nat]

VARIABLES
  dates,       \* the rows of each date, in order of date
  groups,      \* the rows of each segment, by target
  mode,        \* resolved_time_validation_mode
  cut,         \* the last date of training and the last of test
  desired,     \* rows of each target to train on
  allocations, \* rows of each group to train on
  turn,        \* the target and the segments left in the pass over its groups
  splitting    \* where the call is

splitVars == <<dates, groups, mode, cut, desired, allocations, turn, splitting>>

NoRows == [t \in Target |-> 0]

\* The sum of the first n numbers.
SumTo(numbers, n) ==
  LET sum[k \in 0..n] == IF k = 0 THEN 0 ELSE sum[k - 1] + numbers[k]
  IN  sum[n]

\* The rows of a target in all segments.
InAll(rows, t) == SumTo([s \in Segment |-> rows[s][t]], Segments)

Total(t) == InAll(groups, t)
Height(i) == dates[i][0] + dates[i][1]
Upto(i) == SumTo([j \in DOMAIN dates |-> Height(j)], i)

\* The segments that have rows of a target.
GroupsOf(t) == {s \in Segment : groups[s][t] > 0}

\* The rows of a target, divided among the segments in any way.
Division(n) == {d \in [Segment -> 0..n] : SumTo(d, Segments) = n}

SplitInit ==
  /\ \E k \in 0..MaxDates : dates \in [1..k -> DateRows]
  /\ \E u \in Undated :
       LET Rows(t) == u[t] + SumTo([i \in DOMAIN dates |-> dates[i][t]], Len(dates)) IN
       /\ Rows(0) + Rows(1) > 0
       /\ \E d0 \in Division(Rows(0)), d1 \in Division(Rows(1)) :
            groups = [s \in Segment |-> [t \in Target |-> IF t = 0 THEN d0[s] ELSE d1[s]]]
  /\ mode \in {"disabled", "strict", "auto"}
  /\ cut = <<0, 0>>
  /\ desired = NoRows
  /\ allocations = [s \in Segment |-> NoRows]
  /\ turn = [target |-> 0, left |-> {}]
  /\ splitting = "begun"

-----------------------------------------------------------------------------
(***************************************************************************)
(* By time                                                                 *)
(***************************************************************************)
\* closest_boundary: the first of the boundaries nearest to a share of the rows.
Off(i, fifths) ==
  LET d == 5 * Upto(i) - fifths * Upto(Len(dates)) IN IF d < 0 THEN -d ELSE d
ClosestBoundary(fifths, low, high) ==
  CHOOSE i \in low..high : \A j \in low..high :
    Off(i, fifths) <= Off(j, fifths) /\ (Off(i, fifths) = Off(j, fifths) => i <= j)

\* _time_split
TimeSplit ==
  LET n == Len(dates) IN
  IF n >= 3
  THEN LET a == ClosestBoundary(3, 1, n - 2) IN <<a, ClosestBoundary(4, a + 1, n - 1)>>
  ELSE IF n = 2 THEN <<1, 2>> ELSE <<n, n>>

Slice(c, k) == IF k = 1 THEN 1..c[1] ELSE IF k = 2 THEN (c[1] + 1)..c[2]
              ELSE (c[2] + 1)..Len(dates)

\* _time_split_is_usable
Usable(c) ==
  \A k \in 1..3, t \in Target : \E i \in Slice(c, k) : dates[i][t] > 0

SplitByTime ==
  /\ splitting = "begun" /\ mode # "disabled"
  /\ mode = "strict" \/ Usable(TimeSplit)
  /\ cut' = TimeSplit
  /\ splitting' = "time"
  /\ UNCHANGED <<dates, groups, mode, desired, allocations, turn>>

-----------------------------------------------------------------------------
(***************************************************************************)
(* By segment and target                                                   *)
(***************************************************************************)
\* train_test_split with stratify: 7 rows of 10 in all, and of each target its
\* share, rounded up for the largest remainders.
TrainSize == (7 * (Total(0) + Total(1))) \div 10
Share(t)  == (Total(t) * TrainSize) \div (Total(0) + Total(1))
Excess(t) == (Total(t) * TrainSize) % (Total(0) + Total(1))
Rounded(t) == IF Excess(t) > 0 THEN {Share(t), Share(t) + 1} ELSE {Share(t)}
Draw ==
  {d \in [Target -> 0..TrainSize] :
     /\ \A t \in Target : d[t] \in Rounded(t)
     /\ d[0] + d[1] = TrainSize
     /\ \A t, u \in Target : d[t] > Share(t) /\ d[u] = Share(u) => Excess(t) >= Excess(u)}

\* It raises for a target with one row.
DrawRaises == \E t \in Target : Total(t) = 1

\* Mutant: a group may be trained on to its last row.
WholeGroup(s, t) == groups[s][t]

Capacity(s, t) == groups[s][t] - 1

\* The bounds _constrained_composite_split puts on a target.
Least(t) == Cardinality(GroupsOf(t))
Most(t)  == SumTo([s \in Segment |-> IF s \in GroupsOf(t) THEN Capacity(s, t) ELSE 0], Segments)
Remaining(t) == desired[t] - InAll(allocations, t)

StartStratified ==
  /\ splitting = "begun"
  /\ mode # "strict"
  /\ mode = "auto" => ~ Usable(TimeSplit)
  /\ \/ /\ DrawRaises
        /\ splitting' = "raised"
        /\ UNCHANGED desired
     \/ /\ ~ DrawRaises
        /\ desired' \in Draw
        /\ splitting' = IF \A s \in Segment, t \in Target : groups[s][t] # 1
                        THEN "target" ELSE "fallback"
  /\ UNCHANGED <<dates, groups, mode, cut, allocations, turn>>

\* The next target: one row of each of its groups, or no allocation at all.
Unallocated == {t \in Target : desired[t] > 0 /\ \A s \in GroupsOf(t) : allocations[s][t] = 0}

StartTarget ==
  /\ splitting = "target"
  /\ \E t \in Unallocated :
       /\ \A u \in Unallocated : t <= u
       /\ \/ /\ desired[t] < Least(t) \/ desired[t] > Most(t)
             /\ splitting' = "fallback"
             /\ UNCHANGED <<allocations, turn>>
          \/ /\ desired[t] >= Least(t) /\ desired[t] <= Most(t)
             /\ allocations' = [s \in Segment |->
                  [allocations[s] EXCEPT ![t] = IF s \in GroupsOf(t) THEN 1 ELSE 0]]
             /\ turn' = [target |-> t, left |-> {}]
             /\ splitting' = "pass"
  /\ UNCHANGED <<dates, groups, mode, cut, desired>>

\* A pass over the groups in their order; a row for each that has room, while
\* rows remain.  A pass that could place none gives up.
StartPass ==
  LET t == turn.target IN
  /\ splitting = "pass" /\ turn.left = {}
  /\ \/ Remaining(t) = 0 /\ splitting' = "target" /\ UNCHANGED turn
     \/ /\ Remaining(t) > 0
        /\ \E s \in GroupsOf(t) : allocations[s][t] < Capacity(s, t)
        /\ turn' = [turn EXCEPT !.left = GroupsOf(t)]
        /\ UNCHANGED splitting
     \/ /\ Remaining(t) > 0
        /\ \A s \in GroupsOf(t) : allocations[s][t] >= Capacity(s, t)
        /\ splitting' = "fallback" /\ UNCHANGED turn
  /\ UNCHANGED <<dates, groups, mode, cut, desired, allocations>>

VisitGroup ==
  LET t == turn.target IN
  /\ splitting = "pass"
  /\ \E s \in turn.left :
       /\ \A r \in turn.left : s <= r
       /\ allocations' = IF allocations[s][t] < Capacity(s, t)
                         THEN [allocations EXCEPT ![s][t] = @ + 1] ELSE allocations
       /\ turn' = [turn EXCEPT !.left =
            IF InAll(allocations', t) = desired[t] THEN {} ELSE @ \ {s}]
  /\ UNCHANGED <<dates, groups, mode, cut, desired, splitting>>

FinishComposite ==
  /\ splitting = "target" /\ Unallocated = {}
  /\ splitting' = "composite"
  /\ UNCHANGED <<dates, groups, mode, cut, desired, allocations, turn>>

SplitNext ==
  \/ SplitByTime \/ StartStratified
  \/ StartTarget \/ StartPass \/ VisitGroup \/ FinishComposite

SplitSpec == SplitInit /\ [][SplitNext]_splitVars

-----------------------------------------------------------------------------
(* Properties *)

\* Allocations with rows of each group on both sides and the rows drawn of each target.
Fair(a) ==
  /\ \A s \in Segment, t \in Target :
       groups[s][t] > 0 => a[s][t] >= 1 /\ a[s][t] < groups[s][t]
  /\ \A t \in Target : InAll(a, t) = desired[t]

FairExists ==
  \A t \in Target : \E a \in Division(desired[t]) :
    \A s \in Segment : IF groups[s][t] > 0 THEN a[s] >= 1 /\ a[s] < groups[s][t]
                       ELSE a[s] = 0

(***************************************************************************)
(* A composite split leaves no group without rows to train or to test on   *)
(* and keeps the share of each target, and the run settles for less, and   *)
(* reports the limitation, only where no such split exists: the allocation *)
(* never gives up on the way.  A split by time has rows in all its parts   *)
(* as soon as there are three dates, however unlike their sizes, and in    *)
(* the mode that may choose has both targets in each.                      *)
(***************************************************************************)
SplitsAreSound ==
  /\ splitting = "composite" => Fair(allocations)
  /\ splitting = "fallback" => ~ FairExists
  /\ splitting = "time" =>
       /\ Len(dates) >= 3 => 1 <= cut[1] /\ cut[1] < cut[2] /\ cut[2] < Len(dates)
       /\ mode = "auto" => Usable(cut)
=============================================================================
