------------------------------- MODULE MCStores -------------------------------
(* The parts of the system that share neither state nor calls, each with a  *)
(* few participants of its own.  A behaviour is one of one part; the others *)
(* stay where they are.                                                     *)
EXTENDS ExecutionStore, EvolutionRegistry, DatasetSnapshot, CitationIndex,
        TerminalReports, DeliveryTelemetry, RuleBinning, RuleSelection, DataSplit,
        Monitoring

CONSTANTS a1, c1, d1, d2, e1, f1, f2, k1, p, q, r, r1, s1, s2, x

VARIABLE part

Parts == {"store", "registry", "snapshot", "index", "report", "telemetry",
          "binning", "selection", "split", "monitoring"}

MCNode == {"discover", "finalize"}

\* Two suites, a report that fails, and two registry objects, one of which
\* trusts only the first suite and only the first approver.
MCReport ==
  {[suite |-> "s1", version |-> "a", score |-> 1],
   [suite |-> "s1", version |-> "b", score |-> 1],
   [suite |-> "s1", version |-> "c", score |-> 0],
   [suite |-> "s2", version |-> "d", score |-> 1]}
MCRegistry ==
  {[suites |-> {"s1"}, approvers |-> {"alice"}],
   [suites |-> {"s1", "s2"}, approvers |-> {"alice", "bob"}]}
MCApprover == {"alice", "bob"}

MCDateRows == {(0 :> 1) @@ (1 :> 0), (0 :> 1) @@ (1 :> 1), (0 :> 3) @@ (1 :> 1)}
MCUndated  == {(0 :> 0) @@ (1 :> 0), (0 :> 2) @@ (1 :> 0)}

\* Ties and opposites: columns that order the rows differently, one without a value.
MCColumn ==
  {(1 :> 0) @@ (2 :> 1) @@ (3 :> 2) @@ (4 :> 0) @@ (5 :> 2),
   (1 :> 2) @@ (2 :> 0) @@ (3 :> 1) @@ (5 :> 1),
   (1 :> 1) @@ (2 :> 2) @@ (3 :> 0) @@ (4 :> 1) @@ (5 :> 0)}

\* Twenty rows as the reference has them, and snapshots in which one thing changed.
MCReference == [height |-> 20, target |-> TRUE, bad |-> 5, segment |-> TRUE,
  segments |-> ("a" :> 10) @@ ("b" :> 9) @@ ("c" :> 1) @@ ("d" :> 0),
  column |-> [f \in Monitored |-> [is |-> "kept", missing |-> 1, psi |-> 0]],
  lift |-> [i \in Rule |-> 10]]
ColumnNow(is, missing, psi) == [is |-> is, missing |-> missing, psi |-> psi]
MCSnapshot ==
  {[MCReference EXCEPT !.column["x"] = c, !.column["y"] = d] :
     c \in {ColumnNow("gone", 0, 0), ColumnNow("retyped", 0, 0),
            ColumnNow("kept", 5, 25), ColumnNow("kept", 9, 40)},
     d \in {ColumnNow("kept", 1, 0), ColumnNow("kept", 4, 25), ColumnNow("kept", 8, 22)}}
  \cup {[MCReference EXCEPT !.bad = n] : n \in {1, 3, 5, 7, 8}}
  \cup {[MCReference EXCEPT !.segments = s] : s \in
        {("a" :> 6) @@ ("b" :> 10) @@ ("c" :> 4) @@ ("d" :> 0),
         ("a" :> 3) @@ ("b" :> 9) @@ ("c" :> 1) @@ ("d" :> 7),
         ("a" :> 2) @@ ("b" :> 15) @@ ("c" :> 0) @@ ("d" :> 3)}}
  \cup {[MCReference EXCEPT !.lift[r] = l] : l \in {NotEvaluated, 3, 7}}
  \cup {[MCReference EXCEPT !.target = FALSE], [MCReference EXCEPT !.segment = FALSE],
        [MCReference EXCEPT !.height = 0, !.bad = 0,
                      !.segments = [g \in {"a", "b", "c", "d"} |-> 0],
                      !.column = [f \in Monitored |-> ColumnNow("kept", 0, 0)]]}
MCFamily == [f \in Monitored |-> "loan"]

\* Where a part stays that begins in many ways and is not the one that moves.
RegistryRests == InitNew /\ audit = <<>>
IndexRests ==
  /\ directory = [key |-> NoKey, index |-> NoIndex]
  /\ durable = {directory} /\ holder = {} /\ keys = 0
  /\ call = [i \in Indexer |-> Done]
  /\ promised = [s \in Scope |-> {Unbuilt}]
BinningRests ==
  /\ origin = <<[count |-> 1, bad |-> 0]>> /\ bins = origin /\ edges = <<>>
  /\ minimum = 1 /\ monotonic = "none" /\ binning = "fitted"
SelectionRests ==
  /\ bad = {} /\ columns \in [Feature -> {<<>>}] /\ thresholds = [f \in Feature |-> {}]
  /\ least = 1 /\ width = 1 /\ maximum = 0
  /\ grouped = [f \in Feature |-> <<>>]
  /\ beam = <<>> /\ position = 0 /\ pairs = <<>> /\ left = <<>> /\ selected = <<>>
  /\ selecting = "selected"
SplitRests ==
  /\ dates = <<>> /\ groups = [s \in Segment |-> NoRows] /\ mode = "disabled"
  /\ cut = <<0, 0>> /\ desired = NoRows
  /\ allocations = [s \in Segment |-> NoRows]
  /\ turn = [target |-> 0, left |-> {}] /\ splitting = "raised"

MCInit ==
  /\ part \in Parts
  /\ StoreInit /\ SnapshotInit /\ ReportInit /\ TelemetryInit /\ MonitoringInit
  /\ IF part = "registry" THEN Init ELSE RegistryRests
  /\ IF part = "index" THEN IndexInit ELSE IndexRests
  /\ IF part = "binning" THEN BinningInit ELSE BinningRests
  /\ IF part = "selection" THEN SelectionInit ELSE SelectionRests
  /\ IF part = "split" THEN SplitInit ELSE SplitRests

Stays(m) ==
  /\ UNCHANGED part
  /\ m # "store" => UNCHANGED storeVars
  /\ m # "registry" => UNCHANGED vars
  /\ m # "snapshot" => UNCHANGED snapshotVars
  /\ m # "index" => UNCHANGED indexVars
  /\ m # "report" => UNCHANGED reportVars
  /\ m # "telemetry" => UNCHANGED telemetryVars
  /\ m # "binning" => UNCHANGED binningVars
  /\ m # "selection" => UNCHANGED selectionVars
  /\ m # "monitoring" => UNCHANGED monitoringVars
  /\ m # "split" => UNCHANGED splitVars

MCNext ==
  \/ part = "store" /\ StoreNext /\ Stays("store")
  \/ part = "registry" /\ Next /\ Stays("registry")
  \/ part = "snapshot" /\ SnapshotNext /\ Stays("snapshot")
  \/ part = "index" /\ IndexNext /\ Stays("index")
  \/ part = "report" /\ ReportNext /\ Stays("report")
  \/ part = "telemetry" /\ TelemetryNext /\ Stays("telemetry")
  \/ part = "binning" /\ BinningNext /\ Stays("binning")
  \/ part = "selection" /\ SelectionNext /\ Stays("selection")
  \/ part = "monitoring" /\ MonitoringNext /\ Stays("monitoring")
  \/ part = "split" /\ SplitNext /\ Stays("split")

MCSpec == MCInit /\ [][MCNext]_<<part, storeVars, vars, snapshotVars, indexVars,
                                  reportVars, telemetryVars, binningVars, selectionVars,
                                  splitVars, monitoringVars>>
=============================================================================
