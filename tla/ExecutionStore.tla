---------------------------- MODULE ExecutionStore ----------------------------
(***************************************************************************)
(* The node database of one run: riskprobe.execution.store, class          *)
(* ExecutionStore, behind the facade RunRuntime.                           *)
(*                                                                         *)
(* Every operation is one BEGIN IMMEDIATE transaction, hence one step, and *)
(* any process may hold a store open on the file: the callers here are     *)
(* unrestricted, so what is shown holds for every order of calls, stale    *)
(* ones included.  A refused call changes nothing and is not a step: the   *)
(* run deadline, which only refuses start_node, is therefore left out.     *)
(***************************************************************************)
EXTENDS Integers, Sequences, FiniteSets
LOCAL INSTANCE Functions

CONSTANTS
  Node,          \* node ids
  Fingerprint,   \* input fingerprints
  Artifact,      \* artifact references: a file of the run with its digest
  MaxAttempts,   \* RetryPolicy.max_attempts
  MaxNodes,      \* RunBudget.max_nodes
  MaxTotal,      \* RunBudget.max_attempts, over all nodes
  MaxTrace,      \* bound on the events of one node that the model reaches
  Nothing        \* no fingerprint: the node has no row

ASSUME StoreAssumption ==
  /\ IsFiniteSet(Node) /\ "finalize" \in Node
  /\ Nothing \notin Fingerprint
  /\ {MaxAttempts, MaxNodes, MaxTotal} \subseteq Nat \ {0}
  /\ MaxTrace \in Nat

VARIABLES
  nodes,   \* the nodes table with its checkpoint_artifacts rows
  run,     \* the status of the run
  trace    \* the events table, node by node, in order of their sequence

storeVars == <<nodes, run, trace>>

NodeStatus == {"pending", "running", "succeeded", "failed",
               "interrupted", "cancelled", "invalidated"}
RunStatus  == {"pending", "running", "succeeded", "failed",
               "interrupted", "cancelled"}

\* A node without a row reads as pending.
NodeRow == [status : NodeStatus, attempt : Nat,
            fingerprint : Fingerprint \cup {Nothing}, artifacts : SUBSET Artifact]
NoRow   == [status |-> "pending", attempt |-> 0,
            fingerprint |-> Nothing, artifacts |-> {}]

EventType == {"node_started", "node_succeeded", "node_failed",
              "node_interrupted", "node_invalidated", "node_cancelled",
              "run_reconciled"}
Event == [type : EventType, attempt : Nat, fingerprint : Fingerprint]

\* The status an event of each type records in the same transaction.
StatusAfter == [node_started |-> "running",   node_succeeded |-> "succeeded",
                node_failed |-> "failed",     node_interrupted |-> "interrupted",
                node_cancelled |-> "cancelled",
                node_invalidated |-> "invalidated",
                run_reconciled |-> "succeeded"]

-----------------------------------------------------------------------------
StoreInit ==
  /\ nodes = [n \in Node |-> NoRow]
  /\ run = "pending"
  /\ trace = [n \in Node |-> <<>>]

HasRow(n)    == nodes[n].status # "pending"
IsRunning(n) == nodes[n].status = "running"
Running      == {n \in Node : IsRunning(n)}

TotalAttempts ==
  FoldFunction(LAMBDA a, b : a + b, 0, [n \in Node |-> nodes[n].attempt])

\* _append_event: the event repeats the attempt and the fingerprint of the row.
Record(n, type, row) ==
  Append(trace[n], [type |-> type, attempt |-> row.attempt,
                    fingerprint |-> row.fingerprint])

\* The nodes of S take the rows given and get one event each.
Write(S, type, row(_)) ==
  /\ nodes' = [n \in Node |-> IF n \in S THEN row(n) ELSE nodes[n]]
  /\ trace' = [n \in Node |-> IF n \in S THEN Record(n, type, row(n))
                                         ELSE trace[n]]

(***************************************************************************)
(* Opening a store on an existing database (_recover_stale_running_nodes): *)
(* every running node is taken to be the remains of a dead process.        *)
(***************************************************************************)
Interrupt(n) == [nodes[n] EXCEPT !.status = "interrupted"]

Reopen ==
  IF Running = {} THEN UNCHANGED storeVars
  ELSE /\ Write(Running, "node_interrupted", Interrupt)
       /\ run' = "interrupted"

(***************************************************************************)
(* start_node: refused when the run is cancelled, when a new row or one    *)
(* more attempt would exceed the budget, when the node is running, and     *)
(* when it has used up its attempts.  The old checkpoint is dropped.       *)
(***************************************************************************)
WithinBudget(n) ==
  /\ HasRow(n) \/ Cardinality({m \in Node : HasRow(m)}) < MaxNodes
  /\ TotalAttempts < MaxTotal

\* Mutant: the retry limit is compared with the previous attempt.
CanStartOnceMore(n) ==
  /\ run # "cancelled"
  /\ WithinBudget(n)
  /\ ~ IsRunning(n)
  /\ nodes[n].attempt <= MaxAttempts

CanStart(n) ==
  /\ run # "cancelled"
  /\ WithinBudget(n)
  /\ ~ IsRunning(n)
  /\ nodes[n].attempt + 1 <= MaxAttempts

Start(n, f) ==
  /\ CanStart(n)
  /\ Write({n}, "node_started",
           LAMBDA m : [status |-> "running", attempt |-> nodes[n].attempt + 1,
                       fingerprint |-> f, artifacts |-> {}])
  /\ run' = "running"

\* Mutant: only the inputs are compared.
RequireInputs(n, f) == nodes[n].fingerprint = f

\* _require_running, common to succeed_node and fail_node.
RequireRunning(n, f) == IsRunning(n) /\ nodes[n].fingerprint = f

Succeed(n, f, arts) ==
  /\ RequireRunning(n, f)
  /\ Write({n}, "node_succeeded",
           LAMBDA m : [nodes[n] EXCEPT !.status = "succeeded",
                                       !.artifacts = arts])
  /\ run' = IF n = "finalize" THEN "succeeded" ELSE "running"

Fail(n, f) ==
  /\ RequireRunning(n, f)
  /\ Write({n}, "node_failed",
           LAMBDA m : [nodes[n] EXCEPT !.status = "failed"])
  /\ run' = "failed"

(***************************************************************************)
(* checkpoint: only a succeeded node with the same inputs has one.         *)
(***************************************************************************)
HasCheckpoint(n, f) ==
  nodes[n].status = "succeeded" /\ nodes[n].fingerprint = f

(***************************************************************************)
(* invalidate_from: the node and its downstream nodes, whatever their      *)
(* status, as far as they have a row.  The run is pending again, even if   *)
(* it was cancelled or if another of its nodes is running.                 *)
(***************************************************************************)
Invalidate(S) ==
  /\ Write({n \in S : HasRow(n)}, "node_invalidated",
           LAMBDA n : [nodes[n] EXCEPT !.status = "invalidated",
                                       !.artifacts = {}])
  /\ run' = "pending"

(***************************************************************************)
(* cancel: the whole run with its running nodes, or one node whatever its  *)
(* status, which leaves the status of the run alone.                       *)
(***************************************************************************)
\* Mutant: the artifact rows are left behind.
CancelledWithArtifacts(n) == [nodes[n] EXCEPT !.status = "cancelled"]

Cancelled(n) == [nodes[n] EXCEPT !.status = "cancelled", !.artifacts = {}]

CancelRun ==
  /\ Write(Running, "node_cancelled", Cancelled)
  /\ run' = "cancelled"

CancelNode(n) ==
  /\ HasRow(n)
  /\ Write({n}, "node_cancelled", Cancelled)
  /\ UNCHANGED run

(***************************************************************************)
(* reconcile_published: the artifacts are already public, so the node is   *)
(* recorded as succeeded, past budget, retry limit and cancellation.       *)
(***************************************************************************)
Reconcile(n, f, arts) ==
  /\ IF nodes[n].status = "succeeded" THEN UNCHANGED <<nodes, trace>>
     ELSE Write({n}, "run_reconciled",
            LAMBDA m : [status |-> "succeeded",
                        attempt |-> IF HasRow(n) THEN nodes[n].attempt ELSE 1,
                        fingerprint |-> f, artifacts |-> arts])
  /\ run' = "succeeded"

-----------------------------------------------------------------------------
Transaction ==
  \/ Running # {} /\ Reopen
  \/ \E n \in Node, f \in Fingerprint : Start(n, f)
  \/ \E n \in Node, f \in Fingerprint, arts \in SUBSET Artifact :
       Succeed(n, f, arts)
  \/ \E n \in Node, f \in Fingerprint : Fail(n, f)
  \/ \E S \in SUBSET Node : S # {} /\ Invalidate(S)
  \/ CancelRun
  \/ \E n \in Node : CancelNode(n)
  \/ \E n \in Node, f \in Fingerprint, arts \in SUBSET Artifact :
       Reconcile(n, f, arts)

Room == \A n \in Node : Len(trace[n]) < MaxTrace

StoreNext == Room /\ Transaction

StoreSpec == StoreInit /\ [][StoreNext]_storeVars

-----------------------------------------------------------------------------
\* The tables keep their types and the constraints of the schema.
StoreTypeOK ==
  /\ nodes \in [Node -> NodeRow]
  /\ run \in RunStatus
  /\ trace \in [Node -> Seq(Event)]

(***************************************************************************)
(* The trace alone tells the state: whatever the order of opens, stale     *)
(* finishes, cancellations and repairs, the last event of a node carries   *)
(* the status, attempt and inputs its row shows, and only a node that      *)
(* succeeded offers artifacts.  An event and its row share a transaction.  *)
(***************************************************************************)
TraceTellsState ==
  \A n \in Node :
    LET last == trace[n][Len(trace[n])] IN
    /\ trace[n] = <<>> <=> ~ HasRow(n)
    /\ trace[n] # <<>> =>
         /\ nodes[n].status = StatusAfter[last.type]
         /\ nodes[n].attempt = last.attempt
         /\ nodes[n].fingerprint = last.fingerprint
    /\ nodes[n].artifacts # {} => nodes[n].status = "succeeded"

(***************************************************************************)
(* An attempt has one outcome: a node is recorded as succeeded, failed or  *)
(* interrupted only right after its start with that attempt and inputs.    *)
(* In particular an attempt that was interrupted, invalidated or cancelled *)
(* is never turned into a success by a process that finishes it too late.  *)
(***************************************************************************)
Outcome == {"node_succeeded", "node_failed", "node_interrupted"}

OneOutcome ==
  \A n \in Node : \A i \in 1..Len(trace[n]) :
    trace[n][i].type \in Outcome =>
      /\ i > 1
      /\ trace[n][i-1] = [trace[n][i] EXCEPT !.type = "node_started"]

(***************************************************************************)
(* Retries are finite across restarts: no attempt number of a node is ever *)
(* started twice and none exceeds the retry limit, although rows are       *)
(* rewritten by invalidation, cancellation and reconciliation.             *)
(***************************************************************************)
StartsOf(n) == {i \in 1..Len(trace[n]) : trace[n][i].type = "node_started"}

FreshAttempts ==
  \A n \in Node : \A i \in StartsOf(n) :
    /\ trace[n][i].attempt <= MaxAttempts
    /\ \A j \in StartsOf(n) : i < j => trace[n][i].attempt < trace[n][j].attempt

(***************************************************************************)
(* A run shown as cancelled or interrupted is doing nothing: cancel and    *)
(* recovery sweep up every running node, and starting one shows again.     *)
(***************************************************************************)
StoppedIsQuiet == run \in {"cancelled", "interrupted"} => Running = {}

=============================================================================
