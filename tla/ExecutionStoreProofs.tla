------------------------- MODULE ExecutionStoreProofs -------------------------
(***************************************************************************)
(* Theorems about ExecutionStore, for every set of nodes, every budget and *)
(* every retry limit, whatever the callers do.                             *)
(*                                                                         *)
(* All transactions have one shape: each node keeps its row and its trace, *)
(* or gets one event and the row that event describes (StepShape).  The    *)
(* invariants are proved from that shape.                                  *)
(***************************************************************************)
EXTENDS ExecutionStore, SequenceTheorems, TLAPS

\* No start recorded so far is ahead of the row.
StartsBehindRow ==
  \A n \in Node : \A i \in StartsOf(n) : trace[n][i].attempt <= nodes[n].attempt

\* Attempts are counted from the first row on.
RowlessIsFresh == \A n \in Node : ~ HasRow(n) => nodes[n].attempt = 0

\* The inductive invariant.
StoreInv == /\ StoreTypeOK /\ TraceTellsState /\ OneOutcome
            /\ FreshAttempts /\ StartsBehindRow /\ RowlessIsFresh

-----------------------------------------------------------------------------
\* What an event appended to the trace of n, in the present state, may say.
MayRecord(n, e) ==
  /\ e.type = "node_started" =>
       e.attempt = nodes[n].attempt + 1 /\ e.attempt <= MaxAttempts
  /\ e.type \in Outcome =>
       /\ nodes[n].status = "running"
       /\ e.attempt = nodes[n].attempt
       /\ e.fingerprint = nodes[n].fingerprint
  /\ e.attempt >= nodes[n].attempt

\* The row r is the one that event e describes.
Describes(e, r) ==
  /\ r \in NodeRow
  /\ r.status = StatusAfter[e.type]
  /\ r.attempt = e.attempt
  /\ r.fingerprint = e.fingerprint
  /\ r.artifacts # {} => r.status = "succeeded"

Kept(n)     == nodes'[n] = nodes[n] /\ trace'[n] = trace[n]
Recorded(n) == \E e \in Event : /\ MayRecord(n, e)
                                /\ trace'[n] = Append(trace[n], e)
                                /\ Describes(e, nodes'[n])

Shape == /\ nodes' \in [Node -> NodeRow]
         /\ run' \in RunStatus
         /\ trace' \in [Node -> Seq(Event)]
         /\ \A n \in Node : Kept(n) \/ Recorded(n)

\* A row that exists has inputs, and artifacts only if its node succeeded.
LEMMA RowFacts ==
  ASSUME StoreTypeOK, TraceTellsState, NEW n \in Node
  PROVE  /\ nodes[n] \in NodeRow
         /\ HasRow(n) => nodes[n].fingerprint \in Fingerprint
         /\ nodes[n].artifacts # {} => nodes[n].status = "succeeded"
<1>1. nodes[n] \in NodeRow /\ trace[n] \in Seq(Event)
  BY DEF StoreTypeOK
<1>2. nodes[n].artifacts # {} => nodes[n].status = "succeeded"
  BY DEF TraceTellsState
<1>3. ASSUME HasRow(n) PROVE nodes[n].fingerprint \in Fingerprint
  <2>1. trace[n] # <<>>
    BY <1>3 DEF TraceTellsState
  <2>2. trace[n][Len(trace[n])] \in Event
    BY <1>1, <2>1, LenProperties, EmptySeq, ElementOfSeq
  <2>3. nodes[n].fingerprint = trace[n][Len(trace[n])].fingerprint
    BY <2>1 DEF TraceTellsState
  <2> QED BY <2>2, <2>3 DEF Event
<1> QED BY <1>1, <1>2, <1>3

\* Writing rows that their events describe gives a step its shape.
LEMMA WriteShape ==
  ASSUME StoreTypeOK, TraceTellsState, NEW S, NEW type \in EventType,
         NEW r \in [Node -> NodeRow], run' \in RunStatus,
         nodes' = [n \in Node |-> IF n \in S THEN r[n] ELSE nodes[n]],
         trace' = [n \in Node |-> IF n \in S THEN Record(n, type, r[n])
                                             ELSE trace[n]],
         \A n \in Node : n \in S =>
           LET e == [type |-> type, attempt |-> r[n].attempt,
                     fingerprint |-> r[n].fingerprint]
           IN  /\ r[n].fingerprint \in Fingerprint
               /\ MayRecord(n, e)
               /\ Describes(e, r[n])
  PROVE  Shape
<1>1. nodes \in [Node -> NodeRow] /\ trace \in [Node -> Seq(Event)]
  BY DEF StoreTypeOK
<1>2. nodes' \in [Node -> NodeRow]
  BY <1>1
<1>3. ASSUME NEW n \in Node, n \in S
      PROVE  Recorded(n) /\ trace'[n] \in Seq(Event)
  <2> DEFINE e == [type |-> type, attempt |-> r[n].attempt,
                   fingerprint |-> r[n].fingerprint]
  <2>1. r[n] \in NodeRow
    OBVIOUS
  <2>2. e \in Event
    BY <1>3, <2>1 DEF Event, NodeRow
  <2>3. trace'[n] = Append(trace[n], e) /\ nodes'[n] = r[n]
    BY <1>3 DEF Record
  <2>4. MayRecord(n, e) /\ Describes(e, r[n])
    BY <1>3
  <2>5. Append(trace[n], e) \in Seq(Event)
    BY <1>1, <2>2, AppendProperties
  <2> HIDE DEF e
  <2> QED BY <2>2, <2>3, <2>4, <2>5 DEF Recorded
<1>4. ASSUME NEW n \in Node, n \notin S
      PROVE  Kept(n) /\ trace'[n] \in Seq(Event)
  BY <1>1, <1>4 DEF Kept
<1>5. trace' \in [Node -> Seq(Event)]
  BY <1>3, <1>4
<1> QED BY <1>2, <1>3, <1>4, <1>5 DEF Shape

-----------------------------------------------------------------------------
\* Each transaction has the shape.
LEMMA ReopenShape ==
  ASSUME StoreTypeOK, TraceTellsState, Running # {}, Reopen  PROVE Shape
<1> DEFINE r == [n \in Node |-> Interrupt(n)]
<1>1. ASSUME NEW n \in Node PROVE r[n] \in NodeRow
  BY RowFacts DEF Interrupt, NodeRow, NodeStatus
<1>2. run' \in RunStatus
  BY DEF Reopen, RunStatus
<1>3. /\ nodes' = [n \in Node |-> IF n \in Running THEN r[n] ELSE nodes[n]]
      /\ trace' = [n \in Node |-> IF n \in Running
                    THEN Record(n, "node_interrupted", r[n]) ELSE trace[n]]
  BY DEF Reopen, Write
<1>4. ASSUME NEW n \in Node, n \in Running
      PROVE LET e == [type |-> "node_interrupted", attempt |-> r[n].attempt,
                      fingerprint |-> r[n].fingerprint]
            IN  /\ r[n].fingerprint \in Fingerprint
                /\ MayRecord(n, e)
                /\ Describes(e, r[n])
  <2>1. nodes[n].status = "running"
    BY <1>4 DEF Running, IsRunning
  <2>2. nodes[n] \in NodeRow /\ nodes[n].fingerprint \in Fingerprint
        /\ nodes[n].artifacts = {}
    BY <2>1, RowFacts DEF HasRow
  <2>3. r[n] = [nodes[n] EXCEPT !.status = "interrupted"]
    BY DEF Interrupt
  <2> HIDE DEF r
  <2> QED BY <1>1, <2>1, <2>2, <2>3
          DEF MayRecord, Describes, Outcome, StatusAfter, NodeRow
<1>5. r \in [Node -> NodeRow]
  BY <1>1
<1> HIDE DEF r
<1> QED BY <1>2, <1>3, <1>4, <1>5, WriteShape DEF EventType

LEMMA StartShape ==
  ASSUME StoreAssumption, StoreTypeOK, TraceTellsState,
         NEW n \in Node, NEW f \in Fingerprint, Start(n, f)
  PROVE  Shape
<1> DEFINE new == [status |-> "running", attempt |-> nodes[n].attempt + 1,
                   fingerprint |-> f, artifacts |-> {}]
           r == [m \in Node |-> new]
<1>1. nodes[n] \in NodeRow
  BY RowFacts
<1>2. new \in NodeRow
  BY <1>1 DEF NodeRow, NodeStatus
<1>3. run' \in RunStatus
  BY DEF Start, RunStatus
<1>4. /\ nodes' = [m \in Node |-> IF m \in {n} THEN r[m] ELSE nodes[m]]
      /\ trace' = [m \in Node |-> IF m \in {n}
                    THEN Record(m, "node_started", r[m]) ELSE trace[m]]
  BY DEF Start, Write
<1>5. ASSUME NEW m \in Node, m \in {n}
      PROVE LET e == [type |-> "node_started", attempt |-> r[m].attempt,
                      fingerprint |-> r[m].fingerprint]
            IN  /\ r[m].fingerprint \in Fingerprint
                /\ MayRecord(m, e)
                /\ Describes(e, r[m])
  <2>1. m = n /\ r[m] = new
    BY <1>5
  <2>2. /\ new.status = "running" /\ new.attempt = nodes[n].attempt + 1
        /\ new.fingerprint = f /\ new.artifacts = {}
    OBVIOUS
  <2>3. new.attempt <= MaxAttempts /\ nodes[n].attempt \in Nat
    BY <1>1 DEF Start, CanStart, NodeRow
  <2> HIDE DEF new, r
  <2> QED BY <1>2, <2>1, <2>2, <2>3
          DEF MayRecord, Describes, Outcome, StatusAfter
<1>6. r \in [Node -> NodeRow]
  BY <1>2
<1> HIDE DEF r
<1> QED BY <1>3, <1>4, <1>5, <1>6, WriteShape DEF EventType

LEMMA SucceedShape ==
  ASSUME StoreTypeOK, TraceTellsState, NEW n \in Node, NEW f \in Fingerprint,
         NEW arts \in SUBSET Artifact, Succeed(n, f, arts)
  PROVE  Shape
<1> DEFINE new == [nodes[n] EXCEPT !.status = "succeeded", !.artifacts = arts]
           r == [m \in Node |-> new]
<1>1. nodes[n] \in NodeRow /\ nodes[n].status = "running"
      /\ nodes[n].fingerprint \in Fingerprint
  BY RowFacts DEF Succeed, RequireRunning, IsRunning, HasRow
<1>2. new \in NodeRow
  BY <1>1 DEF NodeRow, NodeStatus
<1>3. run' \in RunStatus
  BY DEF Succeed, RunStatus
<1>4. /\ nodes' = [m \in Node |-> IF m \in {n} THEN r[m] ELSE nodes[m]]
      /\ trace' = [m \in Node |-> IF m \in {n}
                    THEN Record(m, "node_succeeded", r[m]) ELSE trace[m]]
  BY DEF Succeed, Write
<1>5. ASSUME NEW m \in Node, m \in {n}
      PROVE LET e == [type |-> "node_succeeded", attempt |-> r[m].attempt,
                      fingerprint |-> r[m].fingerprint]
            IN  /\ r[m].fingerprint \in Fingerprint
                /\ MayRecord(m, e)
                /\ Describes(e, r[m])
  <2>1. m = n /\ r[m] = new
    BY <1>5
  <2>2. /\ new.status = "succeeded" /\ new.attempt = nodes[n].attempt
        /\ new.fingerprint = nodes[n].fingerprint
    BY <1>1 DEF NodeRow
  <2>3. nodes[n].attempt \in Nat
    BY <1>1 DEF NodeRow
  <2> HIDE DEF new, r
  <2> QED BY <1>1, <1>2, <2>1, <2>2, <2>3
          DEF MayRecord, Describes, Outcome, StatusAfter
<1>6. r \in [Node -> NodeRow]
  BY <1>2
<1> HIDE DEF r
<1> QED BY <1>3, <1>4, <1>5, <1>6, WriteShape DEF EventType

LEMMA FailShape ==
  ASSUME StoreTypeOK, TraceTellsState, NEW n \in Node, NEW f \in Fingerprint,
         Fail(n, f)
  PROVE  Shape
<1> DEFINE new == [nodes[n] EXCEPT !.status = "failed"]
           r == [m \in Node |-> new]
<1>1. nodes[n] \in NodeRow /\ nodes[n].status = "running"
      /\ nodes[n].fingerprint \in Fingerprint /\ nodes[n].artifacts = {}
  BY RowFacts DEF Fail, RequireRunning, IsRunning, HasRow
<1>2. new \in NodeRow
  BY <1>1 DEF NodeRow, NodeStatus
<1>3. run' \in RunStatus
  BY DEF Fail, RunStatus
<1>4. /\ nodes' = [m \in Node |-> IF m \in {n} THEN r[m] ELSE nodes[m]]
      /\ trace' = [m \in Node |-> IF m \in {n}
                    THEN Record(m, "node_failed", r[m]) ELSE trace[m]]
  BY DEF Fail, Write
<1>5. ASSUME NEW m \in Node, m \in {n}
      PROVE LET e == [type |-> "node_failed", attempt |-> r[m].attempt,
                      fingerprint |-> r[m].fingerprint]
            IN  /\ r[m].fingerprint \in Fingerprint
                /\ MayRecord(m, e)
                /\ Describes(e, r[m])
  BY <1>1, <1>2, <1>5
     DEF MayRecord, Describes, Outcome, StatusAfter, NodeRow
<1>6. r \in [Node -> NodeRow]
  BY <1>2
<1> HIDE DEF r
<1> QED BY <1>3, <1>4, <1>5, <1>6, WriteShape DEF EventType

LEMMA InvalidateShape ==
  ASSUME StoreTypeOK, TraceTellsState, NEW S \in SUBSET Node, Invalidate(S)
  PROVE  Shape
<1> DEFINE r == [n \in Node |-> [nodes[n] EXCEPT !.status = "invalidated",
                                                 !.artifacts = {}]]
           T == {n \in S : HasRow(n)}
<1>1. ASSUME NEW n \in Node
      PROVE  /\ r[n] \in NodeRow
             /\ r[n].status = "invalidated" /\ r[n].artifacts = {}
             /\ r[n].attempt = nodes[n].attempt /\ nodes[n].attempt \in Nat
             /\ r[n].fingerprint = nodes[n].fingerprint
             /\ HasRow(n) => nodes[n].fingerprint \in Fingerprint
  BY RowFacts DEF NodeRow, NodeStatus
<1>2. run' \in RunStatus
  BY DEF Invalidate, RunStatus
<1>3. /\ nodes' = [n \in Node |-> IF n \in T THEN r[n] ELSE nodes[n]]
      /\ trace' = [n \in Node |-> IF n \in T
                    THEN Record(n, "node_invalidated", r[n]) ELSE trace[n]]
  BY DEF Invalidate, Write
<1>4. r \in [Node -> NodeRow] /\ \A n \in T : HasRow(n)
  BY <1>1
<1> HIDE DEF r, T
<1>5. ASSUME NEW n \in Node, n \in T
      PROVE LET e == [type |-> "node_invalidated", attempt |-> r[n].attempt,
                      fingerprint |-> r[n].fingerprint]
            IN  /\ r[n].fingerprint \in Fingerprint
                /\ MayRecord(n, e)
                /\ Describes(e, r[n])
  BY <1>1, <1>4, <1>5 DEF MayRecord, Describes, Outcome, StatusAfter
<1> QED BY <1>2, <1>3, <1>4, <1>5, WriteShape DEF EventType

\* Cancelling the nodes of S, as both forms of cancel do.
LEMMA CancelShape ==
  ASSUME StoreTypeOK, TraceTellsState, NEW S \in SUBSET Node,
         \A n \in S : HasRow(n), run' \in RunStatus,
         Write(S, "node_cancelled", Cancelled)
  PROVE  Shape
<1> DEFINE r == [n \in Node |-> Cancelled(n)]
<1>1. ASSUME NEW n \in Node
      PROVE  /\ r[n] \in NodeRow
             /\ r[n].status = "cancelled" /\ r[n].artifacts = {}
             /\ r[n].attempt = nodes[n].attempt /\ nodes[n].attempt \in Nat
             /\ r[n].fingerprint = nodes[n].fingerprint
             /\ HasRow(n) => nodes[n].fingerprint \in Fingerprint
  BY RowFacts DEF Cancelled, NodeRow, NodeStatus
<1>2. /\ nodes' = [n \in Node |-> IF n \in S THEN r[n] ELSE nodes[n]]
      /\ trace' = [n \in Node |-> IF n \in S
                    THEN Record(n, "node_cancelled", r[n]) ELSE trace[n]]
  BY DEF Write
<1>3. r \in [Node -> NodeRow]
  BY <1>1
<1> HIDE DEF r
<1>4. ASSUME NEW n \in Node, n \in S
      PROVE LET e == [type |-> "node_cancelled", attempt |-> r[n].attempt,
                      fingerprint |-> r[n].fingerprint]
            IN  /\ r[n].fingerprint \in Fingerprint
                /\ MayRecord(n, e)
                /\ Describes(e, r[n])
  BY <1>1, <1>4 DEF MayRecord, Describes, Outcome, StatusAfter
<1> QED BY <1>2, <1>3, <1>4, WriteShape DEF EventType

LEMMA ReconcileShape ==
  ASSUME StoreTypeOK, TraceTellsState, RowlessIsFresh, NEW n \in Node, NEW f \in Fingerprint,
         NEW arts \in SUBSET Artifact, Reconcile(n, f, arts)
  PROVE  Shape
<1>1. run' \in RunStatus
  BY DEF Reconcile, RunStatus
<1>2. CASE nodes[n].status = "succeeded"
  BY <1>1, <1>2 DEF Reconcile, Shape, Kept, StoreTypeOK
<1>3. CASE nodes[n].status # "succeeded"
  <2> DEFINE new == [status |-> "succeeded",
                     attempt |-> IF HasRow(n) THEN nodes[n].attempt ELSE 1,
                     fingerprint |-> f, artifacts |-> arts]
             r == [m \in Node |-> new]
  <2>1. nodes[n] \in NodeRow /\ nodes[n].attempt \in Nat
    BY RowFacts DEF NodeRow
  <2>2. ~ HasRow(n) => nodes[n].attempt = 0
    BY DEF RowlessIsFresh
  <2>3. new \in NodeRow
    BY <2>1 DEF NodeRow, NodeStatus
  <2>4. /\ nodes' = [m \in Node |-> IF m \in {n} THEN r[m] ELSE nodes[m]]
        /\ trace' = [m \in Node |-> IF m \in {n}
                      THEN Record(m, "run_reconciled", r[m]) ELSE trace[m]]
    BY <1>3 DEF Reconcile, Write
  <2>5. ASSUME NEW m \in Node, m \in {n}
        PROVE LET e == [type |-> "run_reconciled", attempt |-> r[m].attempt,
                        fingerprint |-> r[m].fingerprint]
              IN  /\ r[m].fingerprint \in Fingerprint
                  /\ MayRecord(m, e)
                  /\ Describes(e, r[m])
    <3>1. m = n /\ r[m] = new
      BY <2>5
    <3>2. /\ new.status = "succeeded" /\ new.fingerprint = f
          /\ new.attempt >= nodes[n].attempt
      BY <2>1, <2>2
    <3> HIDE DEF new, r
    <3> QED BY <2>3, <3>1, <3>2 DEF MayRecord, Describes, Outcome, StatusAfter
  <2>6. r \in [Node -> NodeRow]
    BY <2>3
  <2> HIDE DEF new, r
  <2> QED BY <1>1, <2>4, <2>5, <2>6, WriteShape DEF EventType
<1> QED BY <1>2, <1>3

LEMMA StepShape ==
  ASSUME StoreAssumption, StoreInv, Transaction
  PROVE  Shape
<1> USE DEF StoreInv
<1>1. CASE Running # {} /\ Reopen
  BY <1>1, ReopenShape
<1>2. CASE \E n \in Node, f \in Fingerprint : Start(n, f)
  BY <1>2, StartShape
<1>3. CASE \E n \in Node, f \in Fingerprint, arts \in SUBSET Artifact :
             Succeed(n, f, arts)
  BY <1>3, SucceedShape
<1>4. CASE \E n \in Node, f \in Fingerprint : Fail(n, f)
  BY <1>4, FailShape
<1>5. CASE \E S \in SUBSET Node : S # {} /\ Invalidate(S)
  BY <1>5, InvalidateShape
<1>6. CASE CancelRun
  <2>1. /\ Running \in SUBSET Node /\ run' \in RunStatus
        /\ \A n \in Running : HasRow(n)
        /\ Write(Running, "node_cancelled", Cancelled)
    BY <1>6 DEF CancelRun, RunStatus, Running, IsRunning, HasRow
  <2> QED BY <2>1, CancelShape
<1>7. CASE \E n \in Node : CancelNode(n)
  <2>1. PICK n \in Node : CancelNode(n)
    BY <1>7
  <2>2. /\ {n} \in SUBSET Node /\ run' \in RunStatus
        /\ \A m \in {n} : HasRow(m)
        /\ Write({n}, "node_cancelled", Cancelled)
    BY <2>1 DEF CancelNode, StoreTypeOK
  <2> QED BY <2>2, CancelShape
<1>8. CASE \E n \in Node, f \in Fingerprint, arts \in SUBSET Artifact :
             Reconcile(n, f, arts)
  BY <1>8, ReconcileShape
<1> QED BY <1>1, <1>2, <1>3, <1>4, <1>5, <1>6, <1>7, <1>8 DEF Transaction

-----------------------------------------------------------------------------
\* What appending an event does to a trace.
LEMMA AppendFacts ==
  ASSUME NEW s \in Seq(Event), NEW e \in Event
  PROVE  /\ Len(s) \in Nat /\ Len(Append(s, e)) = Len(s) + 1
         /\ \A i \in 1..Len(s) : s[i] \in Event /\ Append(s, e)[i] = s[i]
         /\ Append(s, e)[Len(s) + 1] = e
         /\ Append(s, e) # <<>>
         /\ s # <<>> => Len(s) >= 1
  BY AppendProperties, ElementOfSeq, LenProperties, EmptySeq

LEMMA TraceTellsStateStep ==
  ASSUME StoreInv, Shape  PROVE TraceTellsState'
<1> SUFFICES ASSUME NEW n \in Node
    PROVE  /\ trace'[n] = <<>> <=> ~ HasRow(n)'
           /\ trace'[n] # <<>> =>
                /\ nodes'[n].status = StatusAfter[trace'[n][Len(trace'[n])].type]
                /\ nodes'[n].attempt = trace'[n][Len(trace'[n])].attempt
                /\ nodes'[n].fingerprint = trace'[n][Len(trace'[n])].fingerprint
           /\ nodes'[n].artifacts # {} => nodes'[n].status = "succeeded"
  BY DEF TraceTellsState
<1>1. CASE Kept(n)
  BY <1>1 DEF Kept, StoreInv, TraceTellsState, HasRow
<1>2. CASE Recorded(n)
  <2>1. PICK e \in Event : /\ trace'[n] = Append(trace[n], e)
                           /\ Describes(e, nodes'[n])
    BY <1>2 DEF Recorded
  <2>2. trace[n] \in Seq(Event)
    BY DEF StoreInv, StoreTypeOK
  <2>3. trace'[n] # <<>> /\ trace'[n][Len(trace'[n])] = e
    BY <2>1, <2>2, AppendFacts
  <2>4. StatusAfter[e.type] # "pending"
    BY DEF Event, EventType, StatusAfter
  <2> QED BY <2>1, <2>3, <2>4 DEF Describes, HasRow
<1> QED BY <1>1, <1>2 DEF Shape

\* A running node has its start as last event.
LEMMA RunningFacts ==
  ASSUME StoreInv, NEW n \in Node, nodes[n].status = "running"
  PROVE  /\ trace[n] \in Seq(Event) /\ Len(trace[n]) >= 1
         /\ trace[n][Len(trace[n])] =
              [type |-> "node_started", attempt |-> nodes[n].attempt,
               fingerprint |-> nodes[n].fingerprint]
<1>1. trace[n] \in Seq(Event)
  BY DEF StoreInv, StoreTypeOK
<1>2. trace[n] # <<>>
  BY DEF StoreInv, TraceTellsState, HasRow
<1>3. Len(trace[n]) >= 1 /\ trace[n][Len(trace[n])] \in Event
  BY <1>1, <1>2, LenProperties, EmptySeq, ElementOfSeq
<1> DEFINE last == trace[n][Len(trace[n])]
<1>4. /\ StatusAfter[last.type] = "running" /\ last.attempt = nodes[n].attempt
      /\ last.fingerprint = nodes[n].fingerprint
  BY <1>2 DEF StoreInv, TraceTellsState
<1>5. last \in Event
  BY <1>3
<1> HIDE DEF last
<1>6. last.type = "node_started"
  BY <1>4, <1>5 DEF Event, EventType, StatusAfter
<1>7. last = [type |-> "node_started", attempt |-> nodes[n].attempt,
              fingerprint |-> nodes[n].fingerprint]
  BY <1>4, <1>5, <1>6 DEF Event
<1> QED BY <1>1, <1>3, <1>7 DEF last

LEMMA OneOutcomeStep ==
  ASSUME StoreInv, Shape  PROVE OneOutcome'
<1> SUFFICES ASSUME NEW n \in Node, NEW i \in 1..Len(trace'[n]),
                    trace'[n][i].type \in Outcome
    PROVE  /\ i > 1
           /\ trace'[n][i-1] = [trace'[n][i] EXCEPT !.type = "node_started"]
  BY DEF OneOutcome
<1>1. CASE Kept(n)
  BY <1>1 DEF Kept, StoreInv, OneOutcome
<1>2. CASE Recorded(n)
  <2>1. PICK e \in Event : MayRecord(n, e) /\ trace'[n] = Append(trace[n], e)
    BY <1>2 DEF Recorded
  <2>2. trace[n] \in Seq(Event)
    BY DEF StoreInv, StoreTypeOK
  <2>3. CASE i <= Len(trace[n])
    <3>1. i \in 1..Len(trace[n]) /\ trace'[n][i] = trace[n][i]
      BY <2>1, <2>2, <2>3, AppendFacts
    <3>2. i > 1 /\ trace[n][i-1] = [trace[n][i] EXCEPT !.type = "node_started"]
      BY <3>1 DEF StoreInv, OneOutcome
    <3>3. trace'[n][i-1] = trace[n][i-1]
      BY <2>1, <2>2, <3>1, <3>2, AppendFacts
    <3> QED BY <3>1, <3>2, <3>3
  <2>4. CASE i > Len(trace[n])
    <3>1. i = Len(trace[n]) + 1 /\ trace'[n][i] = e
      BY <2>1, <2>2, <2>4, AppendFacts
    <3>2. /\ nodes[n].status = "running" /\ e.attempt = nodes[n].attempt
          /\ e.fingerprint = nodes[n].fingerprint
      BY <2>1, <3>1 DEF MayRecord
    <3>3. Len(trace[n]) >= 1 /\ Len(trace[n]) \in Nat
      BY <2>2, <3>2, RunningFacts, LenProperties
    <3>4. trace'[n][i-1] = trace[n][Len(trace[n])]
      BY <2>1, <2>2, <3>1, <3>3, AppendFacts
    <3>5. [e EXCEPT !.type = "node_started"] =
            [type |-> "node_started", attempt |-> nodes[n].attempt,
             fingerprint |-> nodes[n].fingerprint]
      BY <3>2 DEF Event
    <3> QED BY <3>1, <3>2, <3>3, <3>4, <3>5, RunningFacts
  <2> QED BY <2>2, <2>3, <2>4, LenProperties
<1> QED BY <1>1, <1>2 DEF Shape

LEMMA FreshAttemptsStep ==
  ASSUME StoreInv, Shape
  PROVE  FreshAttempts' /\ StartsBehindRow' /\ RowlessIsFresh'
<1>1. ASSUME NEW n \in Node
      PROVE  /\ \A i \in StartsOf(n)' :
                  /\ trace'[n][i].attempt <= MaxAttempts
                  /\ trace'[n][i].attempt <= nodes'[n].attempt
                  /\ \A j \in StartsOf(n)' :
                       i < j => trace'[n][i].attempt < trace'[n][j].attempt
             /\ ~ HasRow(n)' => nodes'[n].attempt = 0
  <2>1. CASE Kept(n)
    BY <2>1 DEF Kept, StoreInv, FreshAttempts, StartsBehindRow,
                RowlessIsFresh, StartsOf, HasRow
  <2>2. CASE Recorded(n)
    <3>1. PICK e \in Event : /\ MayRecord(n, e)
                             /\ trace'[n] = Append(trace[n], e)
                             /\ Describes(e, nodes'[n])
      BY <2>2 DEF Recorded
    <3>2. trace[n] \in Seq(Event) /\ Len(trace[n]) \in Nat
          /\ nodes[n].attempt \in Nat /\ e.attempt \in Nat
      BY LenProperties DEF StoreInv, StoreTypeOK, NodeRow, Event
    <3>3. ASSUME NEW i \in StartsOf(n)'
          PROVE  \/ /\ i \in StartsOf(n) /\ i <= Len(trace[n])
                    /\ trace'[n][i] = trace[n][i]
                    /\ trace[n][i].attempt \in Nat
                 \/ /\ i = Len(trace[n]) + 1 /\ trace'[n][i] = e
                    /\ e.type = "node_started"
      <4>1. i \in 1..Len(trace'[n]) /\ trace'[n][i].type = "node_started"
        BY DEF StartsOf
      <4>2. Len(trace'[n]) = Len(trace[n]) + 1 /\ trace'[n][Len(trace[n]) + 1] = e
        BY <3>1, <3>2, AppendFacts
      <4>3. CASE i = Len(trace[n]) + 1
        BY <4>1, <4>2, <4>3
      <4>4. CASE i \in 1..Len(trace[n])
        <5>1. trace'[n][i] = trace[n][i] /\ trace[n][i] \in Event
          BY <3>1, <3>2, <4>4, AppendFacts
        <5> QED BY <3>2, <4>1, <4>4, <5>1 DEF StartsOf, Event
      <4>5. i \in Nat /\ 1 <= i /\ i <= Len(trace[n]) + 1
        BY <3>2, <4>1, <4>2
      <4> QED BY <3>2, <4>3, <4>4, <4>5
    <3>4. ASSUME NEW i \in StartsOf(n)
          PROVE  /\ trace[n][i].attempt <= MaxAttempts
                 /\ trace[n][i].attempt <= nodes[n].attempt
      BY DEF StoreInv, FreshAttempts, StartsBehindRow
    <3>5. ASSUME NEW i \in StartsOf(n), NEW j \in StartsOf(n), i < j
          PROVE  trace[n][i].attempt < trace[n][j].attempt
      BY <3>5 DEF StoreInv, FreshAttempts
    <3>6. /\ nodes'[n].attempt = e.attempt /\ e.attempt >= nodes[n].attempt
          /\ e.type = "node_started" =>
               e.attempt = nodes[n].attempt + 1 /\ e.attempt <= MaxAttempts
      BY <3>1 DEF Describes, MayRecord
    <3>7. ASSUME NEW i \in StartsOf(n)'
          PROVE  /\ trace'[n][i].attempt <= MaxAttempts
                 /\ trace'[n][i].attempt <= nodes'[n].attempt
      BY <3>2, <3>3, <3>4, <3>6
    <3>8. ASSUME NEW i \in StartsOf(n)', NEW j \in StartsOf(n)', i < j
          PROVE  trace'[n][i].attempt < trace'[n][j].attempt
      <4>1. CASE i \in StartsOf(n) /\ j \in StartsOf(n)
        BY <3>2, <3>3, <3>5, <3>8, <4>1
           DEF StartsOf
      <4>2. CASE i \in StartsOf(n) /\ j = Len(trace[n]) + 1
        <5>1. trace'[n][i] = trace[n][i] /\ trace[n][i].attempt \in Nat
          BY <3>2, <3>3, <4>2 DEF StartsOf
        <5>2. trace'[n][j] = e /\ e.type = "node_started"
          BY <3>2, <3>3, <4>2
        <5> QED BY <3>2, <3>4, <3>6, <4>2, <5>1, <5>2
      <4>3. /\ \/ i \in StartsOf(n) /\ i \in Nat /\ i <= Len(trace[n])
               \/ i = Len(trace[n]) + 1
            /\ \/ j \in StartsOf(n) /\ j \in Nat /\ j <= Len(trace[n])
               \/ j = Len(trace[n]) + 1
        BY <3>3 DEF StartsOf
      <4> QED BY <3>2, <3>8, <4>1, <4>2, <4>3
    <3>9. HasRow(n)'
      <4>1. StatusAfter[e.type] # "pending"
        BY DEF Event, EventType, StatusAfter
      <4> QED BY <3>1, <4>1 DEF Describes, HasRow
    <3> QED BY <3>7, <3>8, <3>9
  <2> QED BY <2>1, <2>2 DEF Shape
<1> QED BY <1>1 DEF FreshAttempts, StartsBehindRow, RowlessIsFresh

-----------------------------------------------------------------------------
LEMMA InitInv == StoreAssumption /\ StoreInit => StoreInv
<1> SUFFICES ASSUME StoreAssumption, StoreInit PROVE StoreInv
  OBVIOUS
<1>1. \A n \in Node : nodes[n] = NoRow /\ trace[n] = <<>>
  BY DEF StoreInit
<1>2. StoreTypeOK
  BY DEF StoreInit, StoreTypeOK, NodeRow, NodeStatus, NoRow, RunStatus
<1>3. TraceTellsState
  BY <1>1 DEF TraceTellsState, HasRow, NoRow
<1>4. \A n \in Node : 1..Len(trace[n]) = {}
  BY <1>1
<1> QED BY <1>1, <1>2, <1>3, <1>4
        DEF StoreInv, OneOutcome, FreshAttempts, StartsBehindRow, StartsOf,
            RowlessIsFresh, NoRow

\* No transaction of whatever caller leaves the invariant.
LEMMA TransactionInv ==
  StoreAssumption /\ StoreInv /\ [Transaction]_storeVars => StoreInv'
<1> SUFFICES ASSUME StoreAssumption, StoreInv, [Transaction]_storeVars
             PROVE  StoreInv'
  OBVIOUS
<1>1. CASE Transaction
  <2>1. Shape
    BY <1>1, StepShape
  <2>2. StoreTypeOK'
    BY <2>1 DEF Shape, StoreTypeOK
  <2> QED BY <2>1, <2>2, TraceTellsStateStep, OneOutcomeStep,
             FreshAttemptsStep DEF StoreInv
<1>2. CASE UNCHANGED storeVars
  BY <1>2 DEF storeVars, StoreInv, StoreTypeOK, TraceTellsState, OneOutcome,
              FreshAttempts, StartsBehindRow, RowlessIsFresh, StartsOf, HasRow
<1> QED BY <1>1, <1>2

LEMMA NextInv ==
  StoreAssumption /\ StoreInv /\ [StoreNext]_storeVars => StoreInv'
  BY TransactionInv DEF StoreNext

(***************************************************************************)
(* The inductive invariant holds in every reachable state of the store.    *)
(***************************************************************************)
THEOREM StoreInvariance == StoreSpec => []StoreInv
<1>1. StoreAssumption
  BY StoreAssumption
<1> QED BY <1>1, InitInv, NextInv, PTL DEF StoreSpec

(***************************************************************************)
(* The tables keep their types, whatever the callers do.                   *)
(***************************************************************************)
THEOREM StoreTypeCorrect == StoreSpec => []StoreTypeOK
  BY StoreInvariance, PTL DEF StoreInv

(***************************************************************************)
(* The last event of every node tells the status, attempt and inputs in    *)
(* its row, after any sequence of opens, finishes, repairs and cancels.    *)
(***************************************************************************)
THEOREM TraceIsTruthful == StoreSpec => []TraceTellsState
  BY StoreInvariance, PTL DEF StoreInv

(***************************************************************************)
(* A late finish never turns an interrupted, cancelled or invalidated      *)
(* attempt into a success: outcomes directly follow their own start.       *)
(***************************************************************************)
THEOREM OutcomeOnce == StoreSpec => []OneOutcome
  BY StoreInvariance, PTL DEF StoreInv

(***************************************************************************)
(* Retries are finite and attempt numbers are never started twice.         *)
(***************************************************************************)
THEOREM FiniteRetries == StoreSpec => []FreshAttempts
  BY StoreInvariance, PTL DEF StoreInv

LEMMA QuietStep ==
  StoreTypeOK /\ StoppedIsQuiet /\ [StoreNext]_storeVars => StoppedIsQuiet'
<1> SUFFICES ASSUME StoreTypeOK, StoppedIsQuiet, [StoreNext]_storeVars,
                    run' \in {"cancelled", "interrupted"}
             PROVE  Running' = {}
  BY DEF StoppedIsQuiet
<1>1. CASE Running # {} /\ Reopen
  <2>1. \A n \in Node : nodes'[n] =
          IF n \in Running THEN Interrupt(n) ELSE nodes[n]
    BY <1>1 DEF Reopen, Write
  <2>2. \A n \in Node : nodes'[n].status # "running"
    BY <2>1 DEF Interrupt, Running, IsRunning, StoreTypeOK, NodeRow
  <2> QED BY <2>2 DEF Running, IsRunning
<1>2. CASE CancelRun
  <2>1. \A n \in Node : nodes'[n] =
          IF n \in Running THEN Cancelled(n) ELSE nodes[n]
    BY <1>2 DEF CancelRun, Write
  <2>2. \A n \in Node : nodes'[n].status # "running"
    BY <2>1 DEF Cancelled, Running, IsRunning, StoreTypeOK, NodeRow
  <2> QED BY <2>2 DEF Running, IsRunning
<1>3. CASE \E n \in Node : CancelNode(n)
  <2>1. PICK n \in Node : CancelNode(n)
    BY <1>3
  <2>2. Running = {}
    BY <2>1 DEF CancelNode, StoppedIsQuiet
  <2>3. \A m \in Node : nodes'[m] = IF m = n THEN Cancelled(n) ELSE nodes[m]
    BY <2>1 DEF CancelNode, Write
  <2>4. \A m \in Node : nodes'[m].status # "running"
    BY <2>2, <2>3 DEF Cancelled, Running, IsRunning, StoreTypeOK, NodeRow
  <2> QED BY <2>4 DEF Running, IsRunning
<1>4. CASE UNCHANGED storeVars
  BY <1>4 DEF storeVars, StoppedIsQuiet, Running, IsRunning
<1>5. \/ run' \in {"running", "succeeded", "failed", "pending"}
      \/ Running # {} /\ Reopen
      \/ CancelRun
      \/ \E n \in Node : CancelNode(n)
      \/ UNCHANGED storeVars
  BY DEF StoreNext, Transaction, Start, Succeed, Fail, Invalidate, Reconcile
<1> QED BY <1>1, <1>2, <1>3, <1>4, <1>5

(***************************************************************************)
(* A run shown as cancelled or interrupted has no running node.            *)
(***************************************************************************)
THEOREM StoppedRunsAreQuiet == StoreSpec => []StoppedIsQuiet
<1>1. StoreInit => StoppedIsQuiet
  BY DEF StoreInit, StoppedIsQuiet
<1> QED BY <1>1, QuietStep, StoreTypeCorrect, PTL DEF StoreSpec
=============================================================================
