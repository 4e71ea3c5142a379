-------------------------- MODULE RunPipelineProofs --------------------------
(***************************************************************************)
(* Theorems about RunPipeline, for any number of processes, any stages of  *)
(* the five, any budgets and any number of faults.                         *)
(*                                                                         *)
(* What a call has in hand is tied to the rows, the files and the lock by  *)
(* PipelineInv.  While the run is unpublished at most one process is not   *)
(* idle (Regimes), so a step has to keep the conditions of its own process *)
(* only (OneMoves); once it is published nothing moves but the row of      *)
(* finalize (PublicFrame).                                                 *)
(***************************************************************************)
EXTENDS RunPipeline, ExecutionStoreProofs, FiniteSetTheorems

Last == Len(Order)

\* Where a process holds the lock, where it has the database open for its nodes,
\* and where it works on a run that is public.
Holding == {"marking", "open", "look", "work", "wrote", "seal", "anchor", "unmark"}
Resumed == Holding \ {"marking", "open"}
Public  == {"settle", "reopen", "reconcile"}

Succeeded(n) == HasCheckpoint(n, Input)

AttemptsAreBounded == \A n \in Node : nodes[n].attempt \in 0..MaxAttempts

PipelineWellTyped ==
  /\ dir \in {"absent", "bare", "marked"}
  /\ files \in [StageSet -> Artifact \cup {Nothing}]
  /\ lock \in Process \cup {Nothing}
  /\ pc \in [Process -> Place] /\ at \in [Process -> 1..Last]
  /\ mem \in [Process -> [StageSet -> 0..MaxAttempts]]
  /\ held \in [Process -> 0..MaxAttempts]

\* The lock is held by the process at work, and by nobody else.
RunIsLocked ==
  /\ \A p \in Process : pc[p] \in Holding => lock = p
  /\ lock # Nothing => pc[lock] \in Holding

\* The directory is marked while a process works in it, and public after it.
Marked(p) ==
  /\ pc[p] = "marking" => dir = "bare" /\ manifest = Nothing
  /\ pc[p] \in Holding \ {"marking"} => dir = "marked"
  /\ pc[p] \in Public => Published

OneSettles == \A p, q \in Process : pc[p] = "settle" /\ pc[q] = "settle" => p = q

AbsentIsEmpty == dir = "absent" => manifest = Nothing

\* A process works on the attempt it started, of the node at its position.
AtItsNode(p) ==
  /\ pc[p] = "work" => Its(p) \in StageSet
  /\ pc[p] = "wrote" => Its(p) # "finalize"
  /\ pc[p] \in {"seal", "anchor", "unmark", "settle"} => at[p] = Last
  /\ pc[p] \in Working =>
       HasRow(Its(p)) /\ held[p] > 0 /\ nodes[Its(p)].attempt = held[p]

\* The nodes that have succeeded are the first ones.
InSequence ==
  \A k \in 1..Last : \A j \in 1..k : Succeeded(Order[k]) => Succeeded(Order[j])

\* The artifact a was computed by the present attempts of s and of what s uses.
Computed(s, a) ==
  /\ a.attempt = nodes[s].attempt
  /\ \A u \in Uses(s) : a.from[u] = nodes[u].attempt

\* A checkpoint refers to one artifact, computed from what succeeded with it.
Vouched ==
  \A s \in StageSet : Succeeded(s) =>
    \E a \in Artifact : nodes[s].artifacts = {a} /\ Computed(s, a)

\* The node n has succeeded, its file is its own and p has its result.
HasDone(p, n) ==
  /\ Succeeded(n)
  /\ n \in StageSet => Verified(n) /\ mem[p][n] = nodes[n].attempt

Remembers(p) ==
  /\ pc[p] \in Resumed => \A j \in 1..(at[p] - 1) : HasDone(p, Order[j])
  /\ pc[p] = "wrote" /\ Its(p) \in StageSet =>
       files[Its(p)] \in Artifact /\ Computed(Its(p), files[Its(p)])

AllIsPublished ==
  Published => \A j \in 1..(Last - 1) :
    Succeeded(Order[j]) /\ (Order[j] \in StageSet => Verified(Order[j]))

Fine(p) == Marked(p) /\ AtItsNode(p) /\ Remembers(p)

\* The inductive invariant.
PipelineInv ==
  /\ StoreInv /\ AttemptsAreBounded /\ PipelineWellTyped
  /\ RunIsLocked /\ OneSettles /\ AbsentIsEmpty
  /\ \A p \in Process : Fine(p)
  /\ InSequence /\ Vouched /\ AllIsPublished

-----------------------------------------------------------------------------
LEMMA NodeOrderFacts ==
  /\ DOMAIN NodeOrder = 1..5
  /\ \A a, b \in 1..5 : NodeOrder[a] = NodeOrder[b] => a = b
  /\ \A a \in 1..5 : NodeOrder[a] \notin {"profile", "finalize"}
<1>1. DOMAIN NodeOrder = 1..5
  BY DEF NodeOrder
<1>2. \A a \in 1..5 : a \in {1, 2, 3, 4, 5}
  OBVIOUS
<1>3. /\ NodeOrder[1] = "partition" /\ NodeOrder[2] = "discover"
      /\ NodeOrder[3] = "scorecard" /\ NodeOrder[4] = "validate"
      /\ NodeOrder[5] = "report"
  BY DEF NodeOrder
<1>4. \A a, b \in 1..5 : NodeOrder[a] = NodeOrder[b] => a = b
  BY <1>2, <1>3
<1>5. \A a \in 1..5 : NodeOrder[a] \notin {"profile", "finalize"}
  BY <1>2, <1>3
<1> QED BY <1>1, <1>4, <1>5

\* Of two stages, the one that is used comes first in the order of the nodes.
LEMMA UsesEarlier ==
  ASSUME NEW s \in StageSet, NEW u \in Uses(s)
  PROVE  /\ u \in StageSet
         /\ \E a, b \in DOMAIN NodeOrder :
              a < b /\ u = NodeOrder[a] /\ s = NodeOrder[b]
<1>1. u \in StageSet
  BY DEF Uses
<1>2. DOMAIN Stages = 1..Len(Stages)
      /\ \A k \in DOMAIN Stages : Stages[k] \in {NodeOrder[a] : a \in DOMAIN NodeOrder}
  BY PipelineAssumption, LenProperties, ElementOfSeq
<1>3. PICK b \in DOMAIN NodeOrder : s = NodeOrder[b]
  BY <1>2 DEF StageSet
<1>4. DOMAIN NodeOrder = 1..5
  BY DEF NodeOrder
<1>5. CASE s = "scorecard" \/ s = "validate"
  <2>1. u = "discover"
    BY <1>5 DEF Uses, ScorecardUses, ValidateUses
  <2>2. u = NodeOrder[2]
    BY <2>1 DEF NodeOrder
  <2>3. b > 2
    BY <1>3, <1>4, <1>5 DEF NodeOrder
  <2> QED BY <1>1, <1>3, <1>4, <2>2, <2>3
<1>6. CASE s = "report"
  <2>1. u \in {"discover", "scorecard", "validate"}
    BY <1>6 DEF Uses, ReportUses
  <2>2. \E a \in {2, 3, 4} : u = NodeOrder[a]
    BY <2>1 DEF NodeOrder
  <2>3. b = 5
    <3>1. NodeOrder[5] = "report"
      BY DEF NodeOrder
    <3>2. b \in 1..5 /\ 5 \in 1..5 /\ NodeOrder[b] = NodeOrder[5]
      BY <1>3, <1>4, <1>6, <3>1
    <3> QED BY <3>2, NodeOrderFacts
  <2>4. PICK a \in {2, 3, 4} : u = NodeOrder[a]
    BY <2>2
  <2>5. a \in 1..5 /\ b \in 1..5 /\ a < b
    BY <2>3
  <2> QED BY <1>1, <1>3, <1>4, <2>4, <2>5
<1>7. CASE s \in {"partition", "discover"}
  <2>1. s = "partition" => Uses(s) = {}
    BY DEF Uses, PartitionUses
  <2>2. s = "discover" => Uses(s) = {}
    BY DEF Uses, DiscoverUses
  <2> QED BY <1>7, <2>1, <2>2
<1>8. s \in {"partition", "discover", "scorecard", "validate", "report"}
  BY <1>3, <1>4 DEF NodeOrder
<1> QED BY <1>5, <1>6, <1>7, <1>8

LEMMA OrderIsLaidOut ==
  /\ Len(Stages) \in Nat /\ Last = Len(Stages) + 2
  /\ Order[1] = "profile" /\ Order[Last] = "finalize"
  /\ \A k \in 2..(Last - 1) : k - 1 \in DOMAIN Stages /\ Order[k] = Stages[k - 1]
  /\ DOMAIN Stages = 1..Len(Stages)
<1> DEFINE All == StageSet \cup {"profile", "finalize"}
<1>1. Stages \in Seq(All) /\ Len(Stages) \in Nat /\ DOMAIN Stages = 1..Len(Stages)
  <2>1. Stages \in Seq({NodeOrder[a] : a \in DOMAIN NodeOrder})
    BY PipelineAssumption
  <2>2. Len(Stages) \in Nat /\ DOMAIN Stages = 1..Len(Stages)
        /\ Stages \in [1..Len(Stages) -> {NodeOrder[a] : a \in DOMAIN NodeOrder}]
    BY <2>1, LenProperties
  <2>3. Stages \in [1..Len(Stages) -> All]
    BY <2>2 DEF StageSet
  <2> QED BY <2>2, <2>3
<1>2. <<"profile">> \in Seq(All) /\ <<"finalize">> \in Seq(All)
  OBVIOUS
<1>2a. /\ Len(<<"profile">>) = 1 /\ Len(<<"finalize">>) = 1
       /\ <<"profile">>[1] = "profile" /\ <<"finalize">>[1] = "finalize"
  OBVIOUS
<1> DEFINE front == <<"profile">> \o Stages
<1> HIDE DEF All
<1>3. /\ front \in Seq(All) /\ Len(front) = 1 + Len(Stages)
      /\ \A i \in 1..1 + Len(Stages) :
           front[i] = IF i <= 1 THEN <<"profile">>[i] ELSE Stages[i - 1]
  BY <1>1, <1>2, <1>2a, ConcatProperties
<1> HIDE DEF front
<1>4. Order = front \o <<"finalize">>
  BY DEF Order, front
<1>5. /\ Len(Order) = Len(front) + 1
      /\ \A i \in 1..Len(front) + 1 :
           Order[i] = IF i <= Len(front) THEN front[i] ELSE <<"finalize">>[i - Len(front)]
  BY <1>2, <1>2a, <1>3, <1>4, ConcatProperties
<1>6. Last = Len(Stages) + 2
  BY <1>1, <1>3, <1>5 DEF Last
<1>7. Order[1] = "profile" /\ Order[Last] = "finalize"
  BY <1>1, <1>2a, <1>3, <1>5, <1>6
<1>8. ASSUME NEW k \in 2..(Last - 1)
      PROVE  k - 1 \in DOMAIN Stages /\ Order[k] = Stages[k - 1]
  BY <1>1, <1>3, <1>5, <1>6
<1> QED BY <1>1, <1>6, <1>7, <1>8

LEMMA OrderFacts ==
  /\ Last \in Nat /\ Last >= 2
  /\ "profile" \in Node \ StageSet /\ "finalize" \in Node \ StageSet
  /\ Order[1] = "profile" /\ Order[Last] = "finalize"
  /\ \A k \in 1..Last : /\ Order[k] \in Node
                        /\ Order[k] = "profile" <=> k = 1
                        /\ Order[k] = "finalize" <=> k = Last
                        /\ Order[k] \in StageSet <=> k # 1 /\ k # Last
  /\ \A j, k \in 1..Last : Order[j] = Order[k] => j = k
  /\ \A s \in StageSet : \E k \in 2..(Last - 1) : Order[k] = s
  /\ Node = {"profile", "finalize"} \cup StageSet
<1>1. Len(Stages) \in Nat /\ Last = Len(Stages) + 2 /\ DOMAIN Stages = 1..Len(Stages)
  BY OrderIsLaidOut
<1>2. Order[1] = "profile" /\ Order[Last] = "finalize"
  BY OrderIsLaidOut
<1>3. \A k \in 2..(Last - 1) : k - 1 \in DOMAIN Stages /\ Order[k] = Stages[k - 1]
  BY OrderIsLaidOut
<1>4. \A j \in DOMAIN Stages : Stages[j] \in {NodeOrder[a] : a \in 1..5}
  BY PipelineAssumption, NodeOrderFacts, ElementOfSeq, <1>1
<1>5. "profile" \notin StageSet /\ "finalize" \notin StageSet
  BY <1>4, NodeOrderFacts DEF StageSet
<1>6. \A j, k \in DOMAIN Stages : j < k => Stages[j] # Stages[k]
  <2> SUFFICES ASSUME NEW j \in DOMAIN Stages, NEW k \in DOMAIN Stages, j < k
               PROVE  Stages[j] # Stages[k]
    OBVIOUS
  <2>1. PICK a \in DOMAIN NodeOrder, b \in DOMAIN NodeOrder :
          a < b /\ Stages[j] = NodeOrder[a] /\ Stages[k] = NodeOrder[b]
    BY PipelineAssumption
  <2> QED BY <2>1, NodeOrderFacts
<1>7. \A k \in 2..(Last - 1) : Order[k] \in StageSet
  BY <1>3 DEF StageSet
<1>8. \A k \in 1..Last : k = 1 \/ k = Last \/ k \in 2..(Last - 1)
  BY <1>1
<1>9. \A s \in StageSet : \E k \in 2..(Last - 1) : Order[k] = s
  <2> SUFFICES ASSUME NEW j \in DOMAIN Stages
               PROVE  \E k \in 2..(Last - 1) : Order[k] = Stages[j]
    BY DEF StageSet
  <2>1. j + 1 \in 2..(Last - 1) /\ (j + 1) - 1 = j
    BY <1>1
  <2>2. Order[j + 1] = Stages[(j + 1) - 1]
    BY <1>3, <2>1
  <2> QED BY <2>1, <2>2
<1>10. Node = {"profile", "finalize"} \cup StageSet
  BY PipelineAssumption
<1>11. \A j, k \in 2..(Last - 1) : Order[j] = Order[k] => j = k
  <2> SUFFICES ASSUME NEW j \in 2..(Last - 1), NEW k \in 2..(Last - 1), j # k
               PROVE  Order[j] # Order[k]
    OBVIOUS
  <2>1. /\ j - 1 \in DOMAIN Stages /\ Order[j] = Stages[j - 1]
        /\ k - 1 \in DOMAIN Stages /\ Order[k] = Stages[k - 1]
    BY <1>3
  <2>2. j - 1 < k - 1 \/ k - 1 < j - 1
    BY <1>1
  <2> QED BY <1>6, <2>1, <2>2
<1>12. Last \in Nat /\ Last >= 2 /\ Last # 1
  BY <1>1
<1>13. \A k \in 1..Last : /\ Order[k] \in Node
                          /\ Order[k] = "profile" <=> k = 1
                          /\ Order[k] = "finalize" <=> k = Last
                          /\ Order[k] \in StageSet <=> k # 1 /\ k # Last
  <2> SUFFICES ASSUME NEW k \in 1..Last
               PROVE  /\ Order[k] \in Node
                      /\ Order[k] = "profile" <=> k = 1
                      /\ Order[k] = "finalize" <=> k = Last
                      /\ Order[k] \in StageSet <=> k # 1 /\ k # Last
    OBVIOUS
  <2>1. CASE k = 1
    BY <1>2, <1>5, <1>10, <1>12, <2>1
  <2>2. CASE k = Last
    BY <1>2, <1>5, <1>10, <1>12, <2>2
  <2>3. CASE k \in 2..(Last - 1)
    <3>1. Order[k] \in StageSet /\ k # 1 /\ k # Last
      BY <1>7, <1>12, <2>3
    <3>2. Order[k] # "profile" /\ Order[k] # "finalize"
      BY <1>5, <3>1
    <3> QED BY <1>10, <3>1, <3>2
  <2> QED BY <1>8, <2>1, <2>2, <2>3
<1>14. \A j, k \in 1..Last : Order[j] = Order[k] => j = k
  <2> SUFFICES ASSUME NEW j \in 1..Last, NEW k \in 1..Last, Order[j] = Order[k]
               PROVE  j = k
    OBVIOUS
  <2>1. CASE k \in {1, Last}
    BY <1>13, <2>1
  <2>2. CASE j \in {1, Last}
    BY <1>13, <2>2
  <2> QED BY <1>8, <1>11, <2>1, <2>2
<1> QED BY <1>2, <1>5, <1>9, <1>10, <1>12, <1>13, <1>14

\* A stage uses the stages before it only.
LEMMA UsesFacts ==
  ASSUME NEW k \in 2..(Last - 1), NEW u \in Uses(Order[k])
  PROVE  \E j \in 2..(Last - 1) : j < k /\ u = Order[j]
<1>1. k \in 1..Last /\ Order[k] \in StageSet /\ Last \in Nat
  BY OrderFacts
<1>2. u \in StageSet
  BY <1>1, UsesEarlier
<1>3. PICK a \in 1..5, b \in 1..5 : a < b /\ u = NodeOrder[a] /\ Order[k] = NodeOrder[b]
  BY <1>1, UsesEarlier, NodeOrderFacts
<1>4. PICK j \in 2..(Last - 1) : Order[j] = u
  BY <1>2, OrderFacts
<1>5. j # k
  BY <1>3, <1>4, NodeOrderFacts
<1>6. ~ k < j
  <2> SUFFICES ASSUME k < j PROVE FALSE
    OBVIOUS
  <2>1. /\ j - 1 \in DOMAIN Stages /\ Order[j] = Stages[j - 1]
        /\ k - 1 \in DOMAIN Stages /\ Order[k] = Stages[k - 1]
        /\ k - 1 < j - 1
    BY <1>1, OrderIsLaidOut
  <2>2. PICK c \in 1..5, d \in 1..5 :
          c < d /\ Order[k] = NodeOrder[c] /\ Order[j] = NodeOrder[d]
    BY <2>1, PipelineAssumption, NodeOrderFacts
  <2>3. c = b /\ d = a
    BY <1>3, <1>4, <2>2, NodeOrderFacts
  <2> QED BY <1>3, <2>2, <2>3
<1> QED BY <1>1, <1>4, <1>5, <1>6

LEMMA InputIsFingerprint == Input \in Fingerprint
<1>1. ASSUME Fingerprint = {} PROVE FALSE
  <2>1. Cardinality(Fingerprint) = Cardinality({})
    BY <1>1
  <2> QED BY <2>1, PipelineAssumption, FS_EmptySet
<1> QED BY <1>1 DEF Input

-----------------------------------------------------------------------------
\* What a step may leave of the row of n.
SameRow(n) ==
  /\ nodes'[n].attempt = nodes[n].attempt /\ nodes'[n].artifacts = nodes[n].artifacts
  /\ Succeeded(n)' <=> Succeeded(n)
  /\ HasRow(n)' <=> HasRow(n)

Mild == \A n \in Node : SameRow(n)

LEMMA UnchangedIsMild == ASSUME UNCHANGED storeVars PROVE Mild
  BY DEF storeVars, Mild, SameRow, Succeeded, HasCheckpoint, HasRow

LEMMA ReopenIsMild ==
  ASSUME StoreTypeOK, Reopen  PROVE Mild
<1>1. CASE Running = {}
  BY <1>1, UnchangedIsMild DEF Reopen
<1>2. CASE Running # {}
  <2> SUFFICES ASSUME NEW n \in Node PROVE SameRow(n)
    BY DEF Mild
  <2>1. nodes[n] \in NodeRow
    BY DEF StoreTypeOK
  <2>2. nodes'[n] = IF n \in Running THEN Interrupt(n) ELSE nodes[n]
    BY <1>2 DEF Reopen, Write
  <2>3. CASE n \notin Running
    BY <2>2, <2>3 DEF SameRow, Succeeded, HasCheckpoint, HasRow
  <2>4. CASE n \in Running
    <3>1. nodes[n].status = "running"
      BY <2>4 DEF Running, IsRunning
    <3>2. /\ nodes'[n].status = "interrupted" /\ nodes'[n].attempt = nodes[n].attempt
          /\ nodes'[n].artifacts = nodes[n].artifacts
      BY <2>1, <2>2, <2>4 DEF Interrupt, NodeRow
    <3> QED BY <3>1, <3>2 DEF SameRow, Succeeded, HasCheckpoint, HasRow
  <2> QED BY <2>3, <2>4
<1> QED BY <1>1, <1>2

LEMMA MarkFailedIsMild ==
  ASSUME StoreTypeOK, NEW n \in Node, MarkFailed(n)  PROVE Mild
<1>1. CASE ~ RequireRunning(n, Input)
  BY <1>1, UnchangedIsMild DEF MarkFailed
<1>2. CASE RequireRunning(n, Input)
  <2> SUFFICES ASSUME NEW m \in Node PROVE SameRow(m)
    BY DEF Mild
  <2>1. nodes[m] \in NodeRow
    BY DEF StoreTypeOK
  <2>2. nodes'[m] = IF m \in {n} THEN [nodes[n] EXCEPT !.status = "failed"] ELSE nodes[m]
    BY <1>2 DEF MarkFailed, Fail, Write
  <2>3. CASE m # n
    BY <2>2, <2>3 DEF SameRow, Succeeded, HasCheckpoint, HasRow
  <2>4. CASE m = n
    <3>1. nodes[m].status = "running"
      BY <1>2, <2>4 DEF RequireRunning, IsRunning
    <3>2. /\ nodes'[m].status = "failed" /\ nodes'[m].attempt = nodes[m].attempt
          /\ nodes'[m].artifacts = nodes[m].artifacts
      BY <2>1, <2>2, <2>4 DEF NodeRow
    <3> QED BY <3>1, <3>2 DEF SameRow, Succeeded, HasCheckpoint, HasRow
  <2> QED BY <2>3, <2>4
<1> QED BY <1>1, <1>2

LEMMA StartRows ==
  ASSUME StoreTypeOK, NEW n \in Node, Start(n, Input)
  PROVE  /\ \A m \in Node \ {n} : SameRow(m)
         /\ HasRow(n)' /\ ~ Succeeded(n)'
         /\ nodes'[n].attempt = nodes[n].attempt + 1 /\ nodes'[n].attempt <= MaxAttempts
<1>1. \A m \in Node : nodes'[m] =
        IF m \in {n} THEN [status |-> "running", attempt |-> nodes[n].attempt + 1,
                           fingerprint |-> Input, artifacts |-> {}]
        ELSE nodes[m]
  BY DEF Start, Write
<1>2. nodes[n].attempt + 1 <= MaxAttempts
  BY DEF Start, CanStart
<1>3. \A m \in Node \ {n} : nodes'[m] = nodes[m]
  BY <1>1
<1> QED BY <1>1, <1>2, <1>3 DEF SameRow, Succeeded, HasCheckpoint, HasRow

LEMMA SucceedRows ==
  ASSUME StoreTypeOK, NEW n \in Node, NEW arts, Succeed(n, Input, arts)
  PROVE  /\ \A m \in Node \ {n} : SameRow(m)
         /\ HasRow(n)' /\ Succeeded(n)' /\ ~ Succeeded(n)
         /\ nodes'[n].attempt = nodes[n].attempt /\ nodes'[n].artifacts = arts
<1>1. \A m \in Node : nodes'[m] =
        IF m \in {n} THEN [nodes[n] EXCEPT !.status = "succeeded", !.artifacts = arts]
        ELSE nodes[m]
  BY DEF Succeed, Write
<1>2. nodes[n].status = "running" /\ nodes[n].fingerprint = Input
  BY DEF Succeed, RequireRunning, IsRunning
<1>3. \A m \in Node \ {n} : nodes'[m] = nodes[m]
  BY <1>1
<1>4. nodes[n] \in NodeRow
  BY DEF StoreTypeOK
<1>5. /\ nodes'[n].status = "succeeded" /\ nodes'[n].fingerprint = Input
      /\ nodes'[n].attempt = nodes[n].attempt /\ nodes'[n].artifacts = arts
  BY <1>1, <1>2, <1>4 DEF NodeRow
<1> QED BY <1>2, <1>3, <1>5 DEF SameRow, Succeeded, HasCheckpoint, HasRow

LEMMA InvalidateRows ==
  ASSUME StoreTypeOK, NEW S, Invalidate(S)
  PROVE  \A m \in Node :
           /\ m \notin S => SameRow(m)
           /\ m \in S => ~ Succeeded(m)'
           /\ nodes'[m].attempt = nodes[m].attempt
<1> SUFFICES ASSUME NEW m \in Node
             PROVE  /\ m \notin S => SameRow(m)
                    /\ m \in S => ~ Succeeded(m)'
                    /\ nodes'[m].attempt = nodes[m].attempt
  OBVIOUS
<1>1. nodes'[m] = IF m \in {n \in S : HasRow(n)}
                  THEN [nodes[m] EXCEPT !.status = "invalidated", !.artifacts = {}]
                  ELSE nodes[m]
  BY DEF Invalidate, Write
<1>2. nodes[m] \in NodeRow
  BY DEF StoreTypeOK
<1>3. CASE m \in S /\ HasRow(m)
  <2>1. nodes'[m].status = "invalidated" /\ nodes'[m].attempt = nodes[m].attempt
    BY <1>1, <1>2, <1>3 DEF NodeRow
  <2> QED BY <1>3, <2>1 DEF Succeeded, HasCheckpoint
<1>4. CASE ~ (m \in S /\ HasRow(m))
  <2>1. nodes'[m] = nodes[m]
    BY <1>1, <1>4
  <2> QED BY <1>4, <2>1 DEF SameRow, Succeeded, HasCheckpoint, HasRow
<1> QED BY <1>3, <1>4

LEMMA ReconcileRows ==
  ASSUME StoreTypeOK, StoreAssumption, AttemptsAreBounded, Reconcile("finalize", Input, {})
  PROVE  /\ \A m \in Node \ {"finalize"} : SameRow(m)
         /\ HasRow("finalize") =>
              HasRow("finalize")' /\ nodes'["finalize"].attempt = nodes["finalize"].attempt
         /\ nodes'["finalize"].attempt \in 0..MaxAttempts
<1>0. "finalize" \in Node /\ MaxAttempts \in Nat \ {0}
  BY DEF StoreAssumption
<1>1. CASE nodes["finalize"].status = "succeeded"
  <2>1. nodes' = nodes
    BY <1>1 DEF Reconcile
  <2> QED BY <1>0, <2>1 DEF SameRow, Succeeded, HasCheckpoint, HasRow, AttemptsAreBounded
<1>2. CASE nodes["finalize"].status # "succeeded"
  <2>1. \A m \in Node : nodes'[m] =
          IF m \in {"finalize"}
          THEN [status |-> "succeeded",
                attempt |-> IF HasRow("finalize") THEN nodes["finalize"].attempt ELSE 1,
                fingerprint |-> Input, artifacts |-> {}]
          ELSE nodes[m]
    BY <1>2 DEF Reconcile, Write
  <2>2. \A m \in Node \ {"finalize"} : nodes'[m] = nodes[m]
    BY <2>1
  <2>3. /\ nodes'["finalize"].status = "succeeded"
        /\ nodes'["finalize"].attempt =
             IF HasRow("finalize") THEN nodes["finalize"].attempt ELSE 1
    BY <1>0, <2>1
  <2> QED BY <1>0, <2>2, <2>3
          DEF SameRow, Succeeded, HasCheckpoint, HasRow, AttemptsAreBounded
<1> QED BY <1>1, <1>2

-----------------------------------------------------------------------------
\* What was computed from rows whose attempts stay the same.
LEMMA ComputedStays ==
  ASSUME NEW s \in StageSet, NEW a, nodes'[s].attempt = nodes[s].attempt,
         \A u \in Uses(s) : nodes'[u].attempt = nodes[u].attempt
  PROVE  Computed(s, a)' <=> Computed(s, a)
  BY DEF Computed

LEMMA MildFrame ==
  ASSUME InSequence, Vouched, AttemptsAreBounded, Mild
  PROVE  InSequence' /\ Vouched' /\ AttemptsAreBounded'
<1>1. AttemptsAreBounded'
  BY DEF AttemptsAreBounded, Mild, SameRow
<1>2. InSequence'
  <2> SUFFICES ASSUME NEW k \in 1..Last, NEW j \in 1..k, Succeeded(Order[k])'
               PROVE  Succeeded(Order[j])'
    BY DEF InSequence
  <2>1. Order[k] \in Node /\ Order[j] \in Node
    BY OrderFacts
  <2> QED BY <2>1 DEF InSequence, Mild, SameRow
<1>3. ASSUME NEW s \in StageSet, Succeeded(s)'
      PROVE  \E a \in Artifact : nodes'[s].artifacts = {a} /\ Computed(s, a)'
  <2>1. s \in Node /\ \A u \in Uses(s) : u \in Node
    BY OrderFacts, UsesEarlier
  <2>2. /\ Succeeded(s) /\ nodes'[s].artifacts = nodes[s].artifacts
        /\ nodes'[s].attempt = nodes[s].attempt
        /\ \A u \in Uses(s) : nodes'[u].attempt = nodes[u].attempt
    BY <1>3, <2>1 DEF Mild, SameRow
  <2>3. PICK a \in Artifact : nodes[s].artifacts = {a} /\ Computed(s, a)
    BY <2>2 DEF Vouched
  <2>4. Computed(s, a)'
    BY <2>2, <2>3, ComputedStays
  <2> QED BY <2>2, <2>3, <2>4
<1> QED BY <1>1, <1>2, <1>3 DEF Vouched

\* From position k on nothing has succeeded; before it nothing changes.
LEMMA CutFrame ==
  ASSUME InSequence, Vouched, NEW k \in 1..Last,
         \A j \in 1..Last : /\ j < k => SameRow(Order[j])
                            /\ j >= k => ~ Succeeded(Order[j])'
  PROVE  InSequence' /\ Vouched'
<1>0. Last \in Nat
  BY OrderFacts
<1>1. ASSUME NEW i \in 1..Last, NEW j \in 1..i, Succeeded(Order[i])'
      PROVE  Succeeded(Order[j])'
  <2>1. i < k /\ j < k /\ j \in 1..Last
    BY <1>0, <1>1
  <2>2. SameRow(Order[i]) /\ SameRow(Order[j])
    BY <2>1
  <2> QED BY <1>1, <2>2 DEF InSequence, SameRow
<1>2. ASSUME NEW s \in StageSet, Succeeded(s)'
      PROVE  \E a \in Artifact : nodes'[s].artifacts = {a} /\ Computed(s, a)'
  <2>1. PICK i \in 2..(Last - 1) : Order[i] = s
    BY OrderFacts
  <2>2. i \in 1..Last /\ i < k
    BY <1>0, <1>2, <2>1
  <2>3. SameRow(s)
    BY <2>1, <2>2
  <2>4. ASSUME NEW u \in Uses(s) PROVE nodes'[u].attempt = nodes[u].attempt
    <3>1. PICK j \in 2..(Last - 1) : j < i /\ u = Order[j]
      BY <2>1, UsesFacts
    <3>2. SameRow(Order[j])
      BY <1>0, <2>2, <3>1
    <3> QED BY <3>1, <3>2 DEF SameRow
  <2>5. PICK a \in Artifact : nodes[s].artifacts = {a} /\ Computed(s, a)
    BY <1>2, <2>3 DEF Vouched, SameRow
  <2>6. Computed(s, a)'
    BY <2>3, <2>4, <2>5, ComputedStays DEF SameRow
  <2> QED BY <2>3, <2>5, <2>6 DEF SameRow
<1> QED BY <1>1, <1>2 DEF InSequence, Vouched

\* Only the row at position k changes, all before it having succeeded.
LEMMA ExtendFrame ==
  ASSUME InSequence, Vouched, NEW k \in 1..Last,
         \A m \in Node \ {Order[k]} : SameRow(m),
         \A j \in 1..(k - 1) : Succeeded(Order[j]),
         k # Last => Succeeded(Order[k])',
         Order[k] \in StageSet =>
           /\ nodes'[Order[k]].attempt = nodes[Order[k]].attempt
           /\ \E a \in Artifact :
                nodes'[Order[k]].artifacts = {a} /\ Computed(Order[k], a)
  PROVE  InSequence' /\ Vouched'
<1>0. Last \in Nat /\ k \in Nat
  BY OrderFacts
<1>1. \A j \in 1..Last : j # k => SameRow(Order[j])
  BY OrderFacts
<1>2. ASSUME NEW i \in 1..Last, NEW j \in 1..i, Succeeded(Order[i])'
      PROVE  Succeeded(Order[j])'
  <2>0. j \in 1..Last
    BY <1>0
  <2>1. CASE j = i
    BY <1>2, <2>1
  <2>2. CASE j # i /\ j = k
    BY <1>0, <2>2
  <2>3. CASE j # i /\ j < k
    <3>1. j \in 1..(k - 1)
      BY <1>0, <2>3
    <3> QED BY <1>1, <2>0, <2>3, <3>1 DEF SameRow
  <2>4. CASE j # i /\ j > k
    <3>1. i # k
      BY <1>0, <2>4
    <3>2. Succeeded(Order[i])
      BY <1>1, <1>2, <3>1 DEF SameRow
    <3> QED BY <1>1, <2>0, <2>4, <3>2 DEF InSequence, SameRow
  <2> QED BY <1>0, <2>1, <2>2, <2>3, <2>4
<1>3. ASSUME NEW s \in StageSet, Succeeded(s)'
      PROVE  \E a \in Artifact : nodes'[s].artifacts = {a} /\ Computed(s, a)'
  <2>1. \A u \in StageSet : nodes'[u].attempt = nodes[u].attempt
    <3> SUFFICES ASSUME NEW u \in StageSet PROVE nodes'[u].attempt = nodes[u].attempt
      OBVIOUS
    <3>1. u \in Node
      BY OrderFacts
    <3> QED BY <3>1 DEF SameRow
  <2>2. \A u \in Uses(s) : nodes'[u].attempt = nodes[u].attempt
    BY <2>1, UsesEarlier
  <2>3. \A a : Computed(s, a)' <=> Computed(s, a)
    BY <2>1, <2>2, ComputedStays
  <2>4. CASE s = Order[k]
    BY <2>3, <2>4
  <2>5. CASE s # Order[k]
    <3>1. SameRow(s)
      BY <2>5, OrderFacts
    <3>2. PICK a \in Artifact : nodes[s].artifacts = {a} /\ Computed(s, a)
      BY <1>3, <3>1 DEF SameRow, Vouched
    <3> QED BY <2>3, <3>1, <3>2 DEF SameRow
  <2> QED BY <2>4, <2>5
<1> QED BY <1>2, <1>3 DEF InSequence, Vouched

LEMMA DoneStays ==
  ASSUME NEW p \in Process, NEW n \in Node, HasDone(p, n), SameRow(n),
         n \in StageSet => files'[n] = files[n] /\ mem'[p][n] = mem[p][n]
  PROVE  HasDone(p, n)'
  BY DEF HasDone, SameRow, Verified

LEMMA IdleIsFine ==
  ASSUME NEW p \in Process, pc[p] = "idle"  PROVE Fine(p)
  BY DEF Fine, Marked, AtItsNode, Remembers, Holding, Resumed, Public, Working

\* While nothing is published there is one call that has the lock, or none.
LEMMA Regimes ==
  ASSUME PipelineInv, PipelineAssumption
  PROVE  /\ Published => /\ lock = Nothing
                         /\ \A p \in Process : pc[p] \in {"idle"} \cup Public
         /\ \A p \in Process : pc[p] \in Public => Published
         /\ \A p \in Process : pc[p] \in Holding =>
              /\ ~ Published /\ lock = p /\ dir # "absent"
              /\ \A q \in Process \ {p} : pc[q] = "idle"
         /\ lock = Nothing /\ ~ Published => \A p \in Process : pc[p] = "idle"
         /\ dir = "marked" \/ dir = "absent" => ~ Published
<1>1. \A p \in Process : pc[p] \in {"idle"} \cup Public \cup Holding
  BY DEF PipelineInv, PipelineWellTyped, Place, Public, Holding
<1>2. \A p \in Process : pc[p] \in Public => Published
  BY DEF PipelineInv, Fine, Marked
<1>3. \A p \in Process : pc[p] \in Holding => ~ Published /\ dir # "absent"
  BY DEF PipelineInv, Fine, Marked, Holding, Published, Complete, Intact
<1>4. \A p \in Process : pc[p] \in Holding => lock = p
  BY DEF PipelineInv, RunIsLocked
<1>5. lock # Nothing => lock \in Process /\ pc[lock] \in Holding
  BY DEF PipelineInv, RunIsLocked, PipelineWellTyped
<1>6. Nothing \notin Process
  BY DEF PipelineAssumption
<1>7. Published => lock = Nothing
  BY <1>3, <1>5
<1>8. dir = "marked" \/ dir = "absent" => ~ Published
  BY DEF Published
<1>9. ASSUME NEW p \in Process, pc[p] \in Holding, NEW q \in Process \ {p}
      PROVE  pc[q] = "idle"
  BY <1>1, <1>2, <1>3, <1>4, <1>9
<1>10. ASSUME lock = Nothing, ~ Published, NEW p \in Process
       PROVE  pc[p] = "idle"
  BY <1>1, <1>2, <1>4, <1>6, <1>10
<1>11. ASSUME Published, NEW p \in Process PROVE pc[p] \in {"idle"} \cup Public
  BY <1>1, <1>3, <1>11
<1> QED BY <1>2, <1>3, <1>4, <1>7, <1>8, <1>9, <1>10, <1>11

\* One call moves while all others are idle: its own conditions suffice.
LEMMA OneMoves ==
  ASSUME PipelineAssumption, NEW p \in Process, NEW c \in Place \ {"reopen", "reconcile"},
         pc \in [Process -> Place], pc' = [pc EXCEPT ![p] = c],
         \A q \in Process \ {p} : pc[q] = "idle",
         lock' = IF c \in Holding THEN p ELSE Nothing, dir' # "absent",
         StoreInv', AttemptsAreBounded', PipelineWellTyped', Fine(p)',
         InSequence', Vouched', AllIsPublished'
  PROVE  PipelineInv'
<1>1. pc'[p] = c /\ \A q \in Process \ {p} : pc'[q] = "idle"
  OBVIOUS
<1>2. ASSUME NEW q \in Process \ {p} PROVE Fine(q)'
  <2>1. (pc[q] = "idle")'
    BY <1>1
  <2> QED BY <2>1 DEF Fine, Marked, AtItsNode, Remembers, Holding, Resumed, Public, Working
<1>3. \A q \in Process : Fine(q)'
  BY <1>2
<1>4. RunIsLocked'
  <2>1. \A q \in Process \ {p} : pc'[q] \notin Holding
    BY <1>1 DEF Holding
  <2>2. Nothing \notin Process
    BY DEF PipelineAssumption
  <2> QED BY <1>1, <2>1, <2>2 DEF RunIsLocked
<1>5. OneSettles'
  BY <1>1 DEF OneSettles
<1>6. AbsentIsEmpty'
  BY DEF AbsentIsEmpty
<1> QED BY <1>3, <1>4, <1>5, <1>6 DEF PipelineInv

-----------------------------------------------------------------------------
\* Steps that leave every row as good as it was.
Harmless == StoreInv' /\ Mild /\ InSequence' /\ Vouched' /\ AttemptsAreBounded'

LEMMA QuietStore ==
  ASSUME StoreAssumption, PipelineInv, UNCHANGED storeVars  PROVE Harmless
<1>1. StoreInv'
  BY TransactionInv DEF PipelineInv
<1> QED BY <1>1, UnchangedIsMild, MildFrame DEF PipelineInv, Harmless

LEMMA ReopenStore ==
  ASSUME StoreAssumption, PipelineInv, Reopen  PROVE Harmless
<1>1. Running = {} => UNCHANGED storeVars
  BY DEF Reopen
<1>2. Running # {} => Transaction
  BY DEF Transaction
<1>3. StoreInv'
  BY <1>1, <1>2, TransactionInv DEF PipelineInv
<1>4. Mild
  BY ReopenIsMild DEF PipelineInv, StoreInv
<1> QED BY <1>3, <1>4, MildFrame DEF PipelineInv, Harmless

LEMMA MarkFailedStore ==
  ASSUME StoreAssumption, PipelineInv, PipelineAssumption,
         NEW n \in Node, MarkFailed(n)
  PROVE  Harmless
<1>1. ~ RequireRunning(n, Input) => UNCHANGED storeVars
  BY DEF MarkFailed
<1>2. RequireRunning(n, Input) => Transaction
  BY InputIsFingerprint DEF Transaction, MarkFailed
<1>3. StoreInv'
  BY <1>1, <1>2, TransactionInv DEF PipelineInv
<1>4. Mild
  BY MarkFailedIsMild DEF PipelineInv, StoreInv
<1> QED BY <1>3, <1>4, MildFrame DEF PipelineInv, Harmless

-----------------------------------------------------------------------------
\* The call ends: nothing is asked of it any more.
LEMMA EndOfCall ==
  ASSUME PipelineAssumption, PipelineInv, NEW p \in Process, pc[p] \in Holding, Harmless,
         Release(p), UNCHANGED <<dir, files, manifest, anchor, at, mem, held>>,
         Intact' => Intact
  PROVE  PipelineInv'
<1>1. ~ Published /\ dir # "absent" /\ \A q \in Process \ {p} : pc[q] = "idle"
  BY Regimes
<1>2. pc' = [pc EXCEPT ![p] = "idle"] /\ lock' = Nothing
  BY DEF Release, Goto
<1>3. pc \in [Process -> Place]
  BY DEF PipelineInv, PipelineWellTyped
<1>4. PipelineWellTyped'
  BY <1>2 DEF PipelineInv, PipelineWellTyped, Place
<1>5. (pc[p] = "idle")'
  BY <1>2, <1>3
<1>6. Fine(p)'
  BY <1>5 DEF Fine, Marked, AtItsNode, Remembers, Holding, Resumed, Public, Working
<1>7. ~ Published'
  BY <1>1 DEF Published, Complete
<1>8. AllIsPublished'
  BY <1>7 DEF AllIsPublished
<1> QED BY <1>1, <1>2, <1>3, <1>4, <1>6, <1>8, OneMoves DEF Harmless, Place, Holding

LEMMA GiveUpStep ==
  ASSUME StoreAssumption, PipelineAssumption, PipelineInv,
         NEW p \in Process, GiveUp(p)
  PROVE  PipelineInv'
<1>1. /\ pc[p] \in Holding /\ Release(p) /\ UNCHANGED storeVars
      /\ UNCHANGED <<dir, files, manifest, anchor, at, mem, held>>
      /\ Intact' => Intact
  BY DEF GiveUp, Holding, dirVars, Intact
<1> QED BY <1>1, QuietStore, EndOfCall

LEMMA FinishRefusedStep ==
  ASSUME StoreAssumption, PipelineAssumption, PipelineInv,
         NEW p \in Process, FinishRefused(p)
  PROVE  PipelineInv'
<1>1. /\ pc[p] \in Holding /\ Release(p) /\ UNCHANGED storeVars
      /\ UNCHANGED <<dir, files, manifest, anchor, at, mem, held>>
      /\ Intact' => Intact
  BY DEF FinishRefused, Holding, dirVars, Intact
<1> QED BY <1>1, QuietStore, EndOfCall

LEMMA FinalizeRefusedStep ==
  ASSUME StoreAssumption, PipelineAssumption, PipelineInv,
         NEW p \in Process, FinalizeRefused(p)
  PROVE  PipelineInv'
<1>1. /\ pc[p] \in Holding /\ Release(p) /\ MarkFailed("finalize")
      /\ UNCHANGED <<dir, files, manifest, anchor, at, mem, held>>
      /\ Intact' => Intact
  BY DEF FinalizeRefused, Holding, dirVars, Intact
<1>2. "finalize" \in Node
  BY OrderFacts
<1> QED BY <1>1, <1>2, MarkFailedStore, EndOfCall

LEMMA ErrorStep ==
  ASSUME StoreAssumption, PipelineAssumption, PipelineInv,
         NEW p \in Process, Error(p)
  PROVE  PipelineInv'
<1>1. /\ pc[p] \in Holding /\ Release(p) /\ MarkFailed(Its(p))
      /\ UNCHANGED <<dir, files, manifest, anchor, at, mem, held>>
  BY DEF Error, Holding
<1>2. temps' = temps \/ temps' = TRUE
  BY DEF Error, MayLeaveTemp
<1>3. Intact' => Intact
  BY <1>1, <1>2 DEF Intact
<1>4. Its(p) \in Node
  BY OrderFacts DEF Its, PipelineInv, PipelineWellTyped
<1> QED BY <1>1, <1>3, <1>4, MarkFailedStore, EndOfCall

LEMMA HolderCrashStep ==
  ASSUME StoreAssumption, PipelineAssumption, PipelineInv,
         NEW p \in Process, Crash(p),
         ~ Published
  PROVE  PipelineInv'
<1>1. pc[p] \in Holding /\ lock = p
  BY Regimes DEF Crash, PipelineInv, PipelineWellTyped, Place, Holding, Public
<1>2. Release(p) /\ UNCHANGED <<dir, files, manifest, anchor, at, mem, held>>
      /\ UNCHANGED storeVars
  BY <1>1 DEF Crash
<1>3. temps' = temps \/ temps' = TRUE
  BY DEF Crash, MayLeaveTemp
<1>4. Intact' => Intact
  BY <1>2, <1>3 DEF Intact
<1> QED BY <1>1, <1>2, <1>4, QuietStore, EndOfCall

-----------------------------------------------------------------------------
\* A call begins.
LEMMA CreateStep ==
  ASSUME StoreAssumption, PipelineAssumption, PipelineInv, NEW p \in Process,
         Create(p) \/ Recreate(p) \/ Resume(p)
  PROVE  PipelineInv'
<1> DEFINE c == IF Resume(p) THEN "open" ELSE "marking"
<1>1. lock = Nothing /\ dir \in {"absent", "marked"}
  BY DEF Create, Recreate, Resume
<1>2. ~ Published /\ \A q \in Process : pc[q] = "idle"
  BY <1>1, Regimes
<1>3. Harmless
  BY QuietStore DEF Create, Recreate, Resume, storeVars
<1>4. pc \in [Process -> Place] /\ p \in DOMAIN pc
  BY DEF PipelineInv, PipelineWellTyped
<1>5. CASE Resume(p)
  <2>1. /\ pc' = [pc EXCEPT ![p] = "open"] /\ lock' = p
        /\ UNCHANGED <<dirVars, at, mem, held>> /\ dir = "marked"
    BY <1>5 DEF Resume, Goto
  <2>2. PipelineWellTyped'
    BY <2>1 DEF PipelineInv, PipelineWellTyped, Place, dirVars
  <2>3. pc'[p] = "open" /\ dir' = "marked"
    BY <1>4, <2>1 DEF dirVars
  <2>4. Fine(p)'
    BY <2>3 DEF Fine, Marked, AtItsNode, Remembers, Holding, Resumed, Public, Working
  <2>5. AllIsPublished'
    BY <2>3 DEF AllIsPublished, Published
  <2> QED BY <1>2, <1>3, <1>4, <2>1, <2>2, <2>3, <2>4, <2>5, OneMoves
          DEF Harmless, Place, Holding
<1>6. CASE Create(p) \/ Recreate(p)
  <2>1. /\ pc' = [pc EXCEPT ![p] = "marking"] /\ lock' = p /\ dir' = "bare"
        /\ UNCHANGED <<at, mem, held>>
    BY <1>6 DEF Create, Recreate, Goto
  <2>2. manifest' = Nothing
    BY <1>6 DEF Create, Recreate, PipelineInv, AbsentIsEmpty
  <2>3. PipelineWellTyped'
    BY <1>6, <2>1 DEF Create, Recreate, PipelineInv, PipelineWellTyped, Place
  <2>4. pc'[p] = "marking"
    BY <1>4, <2>1
  <2>5. Fine(p)'
    BY <2>1, <2>2, <2>4
       DEF Fine, Marked, AtItsNode, Remembers, Holding, Resumed, Public, Working
  <2>6. AllIsPublished'
    BY <2>2 DEF AllIsPublished, Published, Complete, Intact
  <2> QED BY <1>2, <1>3, <1>4, <2>1, <2>3, <2>5, <2>6, OneMoves
          DEF Harmless, Place, Holding
<1> QED BY <1>5, <1>6

LEMMA MarkStep ==
  ASSUME StoreAssumption, PipelineAssumption, PipelineInv,
         NEW p \in Process, Mark(p)
  PROVE  PipelineInv'
<1>1. pc[p] = "marking" /\ pc[p] \in Holding
  BY DEF Mark, Holding
<1>2. lock = p /\ \A q \in Process \ {p} : pc[q] = "idle"
  BY <1>1, Regimes
<1>3. Harmless
  BY QuietStore DEF Mark
<1>4. pc \in [Process -> Place] /\ p \in DOMAIN pc
  BY DEF PipelineInv, PipelineWellTyped
<1>5. /\ pc' = [pc EXCEPT ![p] = "open"] /\ lock' = p /\ dir' = "marked"
      /\ UNCHANGED <<files, at, mem, held>>
  BY <1>2 DEF Mark, Goto
<1>6. PipelineWellTyped'
  BY <1>5 DEF PipelineInv, PipelineWellTyped, Place
<1>7. pc'[p] = "open"
  BY <1>4, <1>5
<1>8. Fine(p)'
  BY <1>5, <1>7 DEF Fine, Marked, AtItsNode, Remembers, Holding, Resumed, Public, Working
<1>9. AllIsPublished'
  BY <1>5 DEF AllIsPublished, Published
<1> QED BY <1>2, <1>3, <1>4, <1>5, <1>6, <1>8, <1>9, OneMoves DEF Harmless, Place, Holding

LEMMA OpenStep ==
  ASSUME StoreAssumption, PipelineAssumption, PipelineInv,
         NEW p \in Process, Open(p)
  PROVE  PipelineInv'
<1>1. pc[p] = "open" /\ pc[p] \in Holding
  BY DEF Open, Holding
<1>2. lock = p /\ \A q \in Process \ {p} : pc[q] = "idle"
  BY <1>1, Regimes
<1>3. Harmless
  BY ReopenStore DEF Open
<1>4. pc \in [Process -> Place] /\ p \in DOMAIN pc /\ at \in [Process -> 1..Last]
      /\ MaxAttempts \in Nat /\ 1 \in 1..Last
  BY OrderFacts DEF PipelineInv, PipelineWellTyped, StoreAssumption
<1>5. /\ pc' = [pc EXCEPT ![p] = "look"] /\ lock' = p
      /\ at' = [at EXCEPT ![p] = 1] /\ mem' = [mem EXCEPT ![p] = NoResults]
      /\ UNCHANGED <<dirVars, held>>
  BY <1>2 DEF Open, Goto
<1>6. dir' = "marked"
  BY <1>1, <1>5 DEF PipelineInv, Fine, Marked, Holding, dirVars
<1>7. NoResults \in [StageSet -> 0..MaxAttempts]
  BY <1>4 DEF NoResults
<1>8. PipelineWellTyped'
  BY <1>4, <1>5, <1>7 DEF PipelineInv, PipelineWellTyped, Place, dirVars
<1>9. pc'[p] = "look" /\ at'[p] = 1
  BY <1>4, <1>5
<1>10. Remembers(p)'
  <2>1. 1..(at'[p] - 1) = {}
    BY <1>9
  <2> QED BY <1>9, <2>1 DEF Remembers, Resumed
<1>11. Fine(p)'
  BY <1>6, <1>9, <1>10 DEF Fine, Marked, AtItsNode, Holding, Public, Working
<1>12. AllIsPublished'
  BY <1>6 DEF AllIsPublished, Published
<1> QED BY <1>2, <1>3, <1>4, <1>5, <1>6, <1>8, <1>11, <1>12, OneMoves
        DEF Harmless, Place, Holding

-----------------------------------------------------------------------------
\* What holds of the call that looks at its next node or works on it.
LEMMA AtWork ==
  ASSUME PipelineAssumption, StoreAssumption, PipelineInv,
         NEW p \in Process, pc[p] \in Resumed
  PROVE  /\ pc \in [Process -> Place] /\ at \in [Process -> 1..Last]
         /\ mem \in [Process -> [StageSet -> 0..MaxAttempts]]
         /\ held \in [Process -> 0..MaxAttempts]
         /\ MaxAttempts \in Nat /\ Last \in Nat
         /\ lock = p /\ dir = "marked" /\ \A q \in Process \ {p} : pc[q] = "idle"
         /\ Its(p) = Order[at[p]] /\ at[p] \in 1..Last /\ Its(p) \in Node
         /\ Its(p) \in StageSet => at[p] \in 2..(Last - 1)
         /\ Its(p) \notin {"profile", "finalize"} => Its(p) \in StageSet
         /\ Its(p) # "finalize" => at[p] + 1 \in 1..Last
         /\ \A j \in 1..(at[p] - 1) : /\ HasDone(p, Order[j]) /\ Order[j] \in Node
                                      /\ Order[j] # Its(p)
<1>1. pc \in [Process -> Place] /\ at \in [Process -> 1..Last]
      /\ mem \in [Process -> [StageSet -> 0..MaxAttempts]]
      /\ held \in [Process -> 0..MaxAttempts] /\ MaxAttempts \in Nat
  BY DEF PipelineInv, PipelineWellTyped, StoreAssumption
<1>2. pc[p] \in Holding /\ pc[p] \in Holding \ {"marking"}
  BY DEF Resumed, Holding
<1>3. lock = p /\ dir = "marked" /\ \A q \in Process \ {p} : pc[q] = "idle"
  BY <1>2, Regimes DEF PipelineInv, Fine, Marked
<1>4. at[p] \in 1..Last /\ Last \in Nat /\ Its(p) = Order[at[p]]
  BY <1>1, OrderFacts DEF Its
<1>5. /\ Its(p) \in Node
      /\ Its(p) \in StageSet => at[p] \in 2..(Last - 1)
      /\ Its(p) \notin {"profile", "finalize"} => Its(p) \in StageSet
      /\ Its(p) # "finalize" => at[p] + 1 \in 1..Last
  <2>1. /\ Order[at[p]] \in Node
        /\ Order[at[p]] = "finalize" <=> at[p] = Last
        /\ Order[at[p]] \in StageSet <=> at[p] # 1 /\ at[p] # Last
    BY <1>4, OrderFacts
  <2>2. Node = {"profile", "finalize"} \cup StageSet
    BY OrderFacts
  <2> QED BY <1>4, <2>1, <2>2
<1>6. ASSUME NEW j \in 1..(at[p] - 1)
      PROVE  HasDone(p, Order[j]) /\ Order[j] \in Node /\ Order[j] # Its(p)
  <2>1. HasDone(p, Order[j])
    BY DEF PipelineInv, Fine, Remembers
  <2>2. j \in 1..Last /\ j # at[p]
    BY <1>4
  <2> QED BY <1>4, <2>1, <2>2, OrderFacts
<1> QED BY <1>1, <1>3, <1>4, <1>5, <1>6

\* The rows stay as good as they were and the node at hand is the same.
LEMMA SameNodeStep ==
  ASSUME PipelineAssumption, StoreAssumption, PipelineInv, NEW p \in Process,
         pc[p] \in {"seal", "anchor"}, NEW c \in {"anchor", "unmark"},
         Goto(p, c), UNCHANGED <<storeVars, dir, files, lock, at, mem, held>>
  PROVE  PipelineInv'
<1>1. pc[p] \in Resumed /\ pc[p] \in Holding
  BY DEF Resumed, Holding
<1>2. Harmless
  BY QuietStore
<1>3. /\ lock' = p /\ dir' = "marked" /\ pc' = [pc EXCEPT ![p] = c]
      /\ \A q \in Process \ {p} : pc[q] = "idle"
      /\ pc \in [Process -> Place]
  BY <1>1, AtWork DEF Goto
<1>4. pc'[p] = c
  BY <1>3
<1>5. PipelineWellTyped'
  BY <1>3 DEF PipelineInv, PipelineWellTyped, Place
<1>6. AtItsNode(p)'
  <2>1. /\ at[p] = Last /\ HasRow(Its(p)) /\ held[p] > 0
        /\ nodes[Its(p)].attempt = held[p]
    BY DEF PipelineInv, Fine, AtItsNode, Working
  <2> QED BY <1>4, <2>1 DEF AtItsNode, Working, Its, storeVars, HasRow
<1>7. Remembers(p)'
  <2>1. \A j \in 1..(at[p] - 1) : HasDone(p, Order[j])
    BY <1>1, AtWork
  <2> QED BY <1>4, <2>1 DEF Remembers, Resumed, HasDone, Succeeded, HasCheckpoint,
             Verified, storeVars
<1>8. Fine(p)'
  BY <1>3, <1>4, <1>6, <1>7 DEF Fine, Marked, Public
<1>9. AllIsPublished'
  BY <1>3 DEF AllIsPublished, Published
<1> QED BY <1>2, <1>3, <1>5, <1>8, <1>9, OneMoves DEF Harmless, Place, Holding

LEMMA SealStep ==
  ASSUME StoreAssumption, PipelineAssumption, PipelineInv,
         NEW p \in Process, Seal(p)
  PROVE  PipelineInv'
  BY SameNodeStep DEF Seal

LEMMA AnchorStep ==
  ASSUME StoreAssumption, PipelineAssumption, PipelineInv,
         NEW p \in Process, Anchor(p)
  PROVE  PipelineInv'
  BY SameNodeStep DEF Anchor

LEMMA UnmarkStep ==
  ASSUME StoreAssumption, PipelineAssumption, PipelineInv,
         NEW p \in Process, Unmark(p)
  PROVE  PipelineInv'
<1>1. pc[p] = "unmark" /\ pc[p] \in Resumed
  BY DEF Unmark, Resumed, Holding
<1>2. Harmless
  BY QuietStore DEF Unmark
<1>3. /\ lock' = Nothing /\ dir' = "bare" /\ pc' = [pc EXCEPT ![p] = "settle"]
      /\ \A q \in Process \ {p} : pc[q] = "idle"
      /\ pc \in [Process -> Place]
      /\ UNCHANGED <<storeVars, files, temps, manifest, anchor, at, mem, held>>
  BY <1>1, AtWork DEF Unmark, Goto
<1>4. pc'[p] = "settle"
  BY <1>3
<1>5. PipelineWellTyped'
  BY <1>3 DEF PipelineInv, PipelineWellTyped, Place
<1>6. at[p] = Last /\ HasRow(Its(p)) /\ held[p] > 0 /\ nodes[Its(p)].attempt = held[p]
  BY <1>1 DEF PipelineInv, Fine, AtItsNode, Working
<1>7. AtItsNode(p)'
  BY <1>3, <1>4, <1>6 DEF AtItsNode, Its, storeVars, HasRow
<1>8. Published'
  BY <1>3 DEF Unmark, Published, Complete, Intact
<1>9. Fine(p)'
  BY <1>4, <1>7, <1>8 DEF Fine, Marked, Public, Remembers, Resumed, Holding
<1>10. AllIsPublished'
  <2>1. \A j \in 1..(Last - 1) : HasDone(p, Order[j])
    BY <1>1, <1>6, AtWork
  <2>2. \A j \in 1..(Last - 1) :
          Succeeded(Order[j]) /\ (Order[j] \in StageSet => Verified(Order[j]))
    BY <2>1 DEF HasDone
  <2> QED BY <1>3, <2>2 DEF AllIsPublished, Succeeded, HasCheckpoint, Verified, storeVars
<1> QED BY <1>2, <1>3, <1>5, <1>9, <1>10, OneMoves DEF Harmless, Place, Holding

LEMMA WriteFileStep ==
  ASSUME StoreAssumption, PipelineAssumption, PipelineInv,
         NEW p \in Process, WriteFile(p)
  PROVE  PipelineInv'
<1>a. PICK n : n = Its(p)
  OBVIOUS
<1>b. PICK a : a = [attempt |-> held[p],
                    from |-> [s \in StageSet |->
                               IF s \in Uses(n) THEN mem[p][s] ELSE 0]]
  OBVIOUS
<1>1. pc[p] = "work" /\ pc[p] \in Resumed
  BY DEF WriteFile, Resumed, Holding
<1>2. Harmless
  BY QuietStore DEF WriteFile
<1>3. /\ lock' = p /\ dir' = "marked" /\ pc' = [pc EXCEPT ![p] = "wrote"]
      /\ \A q \in Process \ {p} : pc[q] = "idle"
      /\ pc \in [Process -> Place]
      /\ files' = [files EXCEPT ![n] = a]
      /\ UNCHANGED <<storeVars, at, mem, held>>
  BY <1>a, <1>b, <1>1, AtWork DEF WriteFile, Goto
<1>4. pc'[p] = "wrote"
  BY <1>3
<1>5. /\ n \in StageSet /\ HasRow(n) /\ held[p] > 0 /\ nodes[n].attempt = held[p]
  BY <1>a, <1>1 DEF PipelineInv, Fine, AtItsNode, Working
<1>6. /\ n = Order[at[p]] /\ at[p] \in 2..(Last - 1)
      /\ mem[p] \in [StageSet -> 0..MaxAttempts] /\ held[p] \in 0..MaxAttempts
      /\ MaxAttempts \in Nat /\ Last \in Nat
      /\ \A j \in 1..(at[p] - 1) : /\ HasDone(p, Order[j]) /\ Order[j] \in Node
                                   /\ Order[j] # n
  BY <1>a, <1>1, <1>5, AtWork
<1>7. a \in Artifact
  <2>1. held[p] \in 1..MaxAttempts
    BY <1>5, <1>6
  <2>2. [s \in StageSet |-> IF s \in Uses(n) THEN mem[p][s] ELSE 0]
          \in [StageSet -> 0..MaxAttempts]
    BY <1>6
  <2>3. Artifact = [attempt : 1..MaxAttempts, from : [StageSet -> 0..MaxAttempts]]
    BY PipelineAssumption
  <2> QED BY <1>b, <2>1, <2>2, <2>3
<1>8. Computed(n, a)
  <2>1. ASSUME NEW u \in Uses(n) PROVE mem[p][u] = nodes[u].attempt /\ u \in StageSet
    <3>1. PICK j \in 2..(Last - 1) : j < at[p] /\ u = Order[j]
      <4>1. at[p] \in 2..(Last - 1) /\ u \in Uses(Order[at[p]])
        BY <1>6
      <4>2. \A k \in 2..(Last - 1) : \A v \in Uses(Order[k]) :
              \E j \in 2..(Last - 1) : j < k /\ v = Order[j]
        BY UsesFacts
      <4> QED BY <4>1, <4>2
    <3>2. HasDone(p, u) /\ u \in StageSet
      BY <1>6, <3>1, OrderFacts
    <3> QED BY <3>2 DEF HasDone
  <2> QED BY <1>b, <1>5, <2>1 DEF Computed
<1>9. files \in [StageSet -> Artifact \cup {Nothing}]
  BY DEF PipelineInv, PipelineWellTyped
<1>10. PipelineWellTyped'
  BY <1>3, <1>5, <1>7, <1>9 DEF PipelineInv, PipelineWellTyped, Place
<1>11. AtItsNode(p)'
  <2>1. Its(p)' = n
    BY <1>a, <1>3 DEF Its
  <2>2. n # "finalize"
    BY <1>5, OrderFacts
  <2> QED BY <1>3, <1>4, <1>5, <2>1, <2>2 DEF AtItsNode, storeVars, HasRow
<1>12. Remembers(p)'
  <2>1. Its(p)' = n /\ files'[n] = a
    BY <1>a, <1>3, <1>5, <1>9 DEF Its
  <2>2. nodes' = nodes
    BY <1>3 DEF storeVars
  <2>3. Computed(n, a)'
    BY <1>8, <2>2 DEF Computed
  <2>4. ASSUME NEW j \in 1..(at[p] - 1) PROVE HasDone(p, Order[j])'
    <3>1. HasDone(p, Order[j]) /\ Order[j] # n
      BY <1>6
    <3>2. Order[j] \in StageSet => files'[Order[j]] = files[Order[j]]
      BY <1>3, <1>9, <3>1
    <3> QED BY <1>3, <2>2, <3>1, <3>2 DEF HasDone, Succeeded, HasCheckpoint, Verified
  <2>5. at' = at
    BY <1>3
  <2>6. \A j \in 1..(at'[p] - 1) : HasDone(p, Order[j])'
    BY <2>4, <2>5
  <2>7. files'[n] \in Artifact /\ Computed(n, files[n])'
    BY <1>7, <2>1, <2>3, <2>2 DEF Computed
  <2> QED BY <2>1, <2>6, <2>7, <2>2 DEF Remembers, Computed
<1>13. Fine(p)'
  BY <1>3, <1>4, <1>11, <1>12 DEF Fine, Marked, Public
<1>14. AllIsPublished'
  BY <1>3 DEF AllIsPublished, Published
<1> QED BY <1>2, <1>3, <1>10, <1>13, <1>14, OneMoves DEF Harmless, Place, Holding

-----------------------------------------------------------------------------
\* What a call has done so far stays done while other rows and files change.
LEMMA KeepsDone ==
  ASSUME PipelineAssumption, StoreAssumption, PipelineInv,
         NEW p \in Process, pc[p] \in Resumed,
         files' = files, NEW n, n = Its(p),
         \A j \in 1..(at[p] - 1) : SameRow(Order[j]),
         \A s \in StageSet : s # n => mem'[p][s] = mem[p][s]
  PROVE  \A j \in 1..(at[p] - 1) : HasDone(p, Order[j])'
<1> SUFFICES ASSUME NEW j \in 1..(at[p] - 1) PROVE HasDone(p, Order[j])'
  OBVIOUS
<1>1. HasDone(p, Order[j]) /\ Order[j] \in Node /\ Order[j] # n /\ SameRow(Order[j])
  BY AtWork
<1> QED BY <1>1, DoneStays

\* A call notes the attempt of one stage.
LEMMA Noted ==
  ASSUME NEW f \in [Process -> [StageSet -> 0..MaxAttempts]],
         NEW p \in Process, NEW n \in StageSet, NEW v \in 0..MaxAttempts,
         NEW g, g = [f EXCEPT ![p][n] = v]
  PROVE  /\ g \in [Process -> [StageSet -> 0..MaxAttempts]] /\ g[p][n] = v
         /\ \A s \in StageSet : s # n => g[p][s] = f[p][s]
<1>1. f[p] \in [StageSet -> 0..MaxAttempts]
  OBVIOUS
<1>2. [f[p] EXCEPT ![n] = v] \in [StageSet -> 0..MaxAttempts]
  BY <1>1
<1>3. g = [f EXCEPT ![p] = [f[p] EXCEPT ![n] = v]]
  OBVIOUS
<1>4. g \in [Process -> [StageSet -> 0..MaxAttempts]]
  BY <1>2, <1>3
<1>5. g[p] = [f[p] EXCEPT ![n] = v]
  BY <1>3
<1> QED BY <1>1, <1>4, <1>5

LEMMA RestoreStep ==
  ASSUME StoreAssumption, PipelineAssumption, PipelineInv,
         NEW p \in Process, Restore(p)
  PROVE  PipelineInv'
<1>a. PICK n : n = Its(p)
  OBVIOUS
<1>b. PICK k : k = at[p]
  OBVIOUS
<1>1. pc[p] = "look" /\ pc[p] \in Resumed
  BY DEF Restore, Resumed, Holding
<1>2. Harmless
  BY QuietStore DEF Restore
<1>3. /\ pc \in [Process -> Place] /\ at \in [Process -> 1..Last]
      /\ mem \in [Process -> [StageSet -> 0..MaxAttempts]]
      /\ lock' = p /\ dir' = "marked" /\ \A q \in Process \ {p} : pc[q] = "idle"
      /\ n = Order[k] /\ k \in 1..Last /\ n \in Node /\ Last \in Nat
      /\ n \notin {"profile", "finalize"} => n \in StageSet
      /\ n # "finalize" => k + 1 \in 1..Last
  BY <1>a, <1>b, <1>1, AtWork DEF Restore, dirVars
<1>4. /\ UNCHANGED <<storeVars, dirVars, lock, pc, held>>
      /\ at' = [at EXCEPT ![p] = @ + 1] /\ n # "finalize" /\ Succeeded(n)
      /\ IF n = "profile" THEN UNCHANGED mem
         ELSE Verified(n) /\ mem' = [mem EXCEPT ![p][n] = nodes[n].attempt]
  BY <1>a DEF Restore, Succeeded
<1>5. pc'[p] = "look" /\ pc' = [pc EXCEPT ![p] = "look"]
  BY <1>1, <1>3, <1>4
<1>6. at'[p] = k + 1 /\ at' \in [Process -> 1..Last]
  BY <1>b, <1>3, <1>4
<1>7. mem' \in [Process -> [StageSet -> 0..MaxAttempts]]
  <2>1. nodes[n].attempt \in 0..MaxAttempts
    BY <1>3 DEF PipelineInv, AttemptsAreBounded
  <2>2. CASE n = "profile"
    BY <1>3, <1>4, <2>2
  <2>3. CASE n # "profile"
    <3>1. n \in StageSet /\ mem' = [mem EXCEPT ![p][n] = nodes[n].attempt]
      BY <1>3, <1>4, <2>3
    <3> QED BY <1>3, <2>1, <3>1, Noted
  <2> QED BY <2>2, <2>3
<1>8. PipelineWellTyped'
  BY <1>3, <1>4, <1>6, <1>7 DEF PipelineInv, PipelineWellTyped, dirVars
<1>9. \A s \in StageSet : s # n => mem'[p][s] = mem[p][s]
  BY <1>3, <1>4
<1>10. \A j \in 1..(k - 1) : HasDone(p, Order[j])'
  <2>1. \A j \in 1..(at[p] - 1) : SameRow(Order[j])
    BY <1>1, <1>2, AtWork DEF Harmless, Mild
  <2> QED BY <1>a, <1>b, <1>1, <1>4, <1>9, <2>1, KeepsDone DEF dirVars
<1>11. HasDone(p, n)'
  <2>1. nodes' = nodes /\ files' = files
    BY <1>4 DEF storeVars, dirVars
  <2>2. n \in StageSet => n # "profile"
    BY OrderFacts
  <2>3. n \in StageSet => Verified(n) /\ mem'[p][n] = nodes[n].attempt
    BY <1>3, <1>4, <2>2
  <2> QED BY <1>4, <2>1, <2>3 DEF HasDone, Succeeded, HasCheckpoint, Verified
<1>12. Remembers(p)'
  <2>1. \A j \in 1..(at'[p] - 1) : j = k \/ j \in 1..(k - 1)
    BY <1>3, <1>6
  <2>2. \A j \in 1..(at'[p] - 1) : HasDone(p, Order[j])'
    BY <1>3, <1>10, <1>11, <2>1
  <2> QED BY <1>5, <2>2 DEF Remembers
<1>13. Fine(p)'
  BY <1>3, <1>5, <1>12 DEF Fine, Marked, AtItsNode, Public, Working
<1>14. AllIsPublished'
  BY <1>3 DEF AllIsPublished, Published
<1> QED BY <1>2, <1>3, <1>5, <1>8, <1>13, <1>14, OneMoves DEF Harmless, Place, Holding

LEMMA DistrustStep ==
  ASSUME StoreAssumption, PipelineAssumption, PipelineInv,
         NEW p \in Process, Distrust(p)
  PROVE  PipelineInv'
<1>a. PICK n : n = Its(p)
  OBVIOUS
<1>b. PICK k : k = at[p]
  OBVIOUS
<1>c. PICK S : S = AndDownstream(p)
  OBVIOUS
<1>1. pc[p] = "look" /\ pc[p] \in Resumed
  BY DEF Distrust, Resumed, Holding
<1>2. Invalidate(S) /\ UNCHANGED <<dirVars, lock, pc, at, mem, held>>
  BY <1>c DEF Distrust, procVars
<1>3. /\ pc \in [Process -> Place]
      /\ lock' = p /\ dir' = "marked" /\ \A q \in Process \ {p} : pc[q] = "idle"
      /\ n = Order[k] /\ k \in 1..Last /\ Last \in Nat /\ MaxAttempts \in Nat
  BY <1>a, <1>b, <1>1, <1>2, AtWork DEF dirVars
<1>4. S = {Order[j] : j \in k..Last}
  BY <1>b, <1>c DEF AndDownstream, Last
<1>5. \A j \in 1..Last : Order[j] \in Node /\ (Order[j] \in S <=> j >= k)
  BY <1>3, <1>4, OrderFacts
<1>6. S \in SUBSET Node /\ S # {}
  BY <1>3, <1>4, OrderFacts
<1>7. StoreInv'
  <2>1. Transaction
    BY <1>2, <1>6 DEF Transaction
  <2> QED BY <2>1, TransactionInv DEF PipelineInv
<1>8. \A m \in Node : /\ m \notin S => SameRow(m)
                      /\ m \in S => ~ Succeeded(m)'
                      /\ nodes'[m].attempt = nodes[m].attempt
  BY <1>2, InvalidateRows DEF PipelineInv, StoreInv
<1>9. AttemptsAreBounded'
  BY <1>8 DEF PipelineInv, AttemptsAreBounded
<1>10. \A j \in 1..Last : /\ j < k => SameRow(Order[j])
                          /\ j >= k => ~ Succeeded(Order[j])'
  <2> SUFFICES ASSUME NEW j \in 1..Last
               PROVE  /\ j < k => SameRow(Order[j])
                      /\ j >= k => ~ Succeeded(Order[j])'
    OBVIOUS
  <2>1. Order[j] \in Node /\ (Order[j] \in S <=> j >= k)
    BY <1>5
  <2>2. j < k => ~ j >= k
    BY <1>3
  <2> QED BY <1>8, <2>1, <2>2
<1>11. InSequence' /\ Vouched'
  BY <1>3, <1>10, CutFrame DEF PipelineInv
<1>12. PipelineWellTyped'
  BY <1>2 DEF PipelineInv, PipelineWellTyped, dirVars
<1>13. pc'[p] = "look" /\ pc' = [pc EXCEPT ![p] = "look"]
  BY <1>1, <1>2, <1>3
<1>14. \A j \in 1..(k - 1) : HasDone(p, Order[j])'
  <2>1. \A j \in 1..(k - 1) : j \in 1..Last /\ j < k
    BY <1>3
  <2>2. \A j \in 1..(at[p] - 1) : SameRow(Order[j])
    BY <1>b, <1>10, <2>1
  <2> QED BY <1>a, <1>b, <1>1, <1>2, <2>2, KeepsDone DEF dirVars
<1>15. Remembers(p)'
  <2>1. at'[p] = k
    BY <1>b, <1>2
  <2>2. \A j \in 1..(at'[p] - 1) : HasDone(p, Order[j])'
    BY <1>14, <2>1
  <2> QED BY <1>13, <2>2 DEF Remembers
<1>16. Fine(p)'
  BY <1>3, <1>13, <1>15 DEF Fine, Marked, AtItsNode, Public, Working
<1>17. AllIsPublished'
  BY <1>3 DEF AllIsPublished, Published
<1> QED BY <1>3, <1>7, <1>9, <1>11, <1>12, <1>13, <1>16, <1>17, OneMoves DEF Place, Holding

LEMMA BeginStep ==
  ASSUME StoreAssumption, PipelineAssumption, PipelineInv,
         NEW p \in Process, Begin(p)
  PROVE  PipelineInv'
<1>a. PICK n : n = Its(p)
  OBVIOUS
<1>b. PICK k : k = at[p]
  OBVIOUS
<1>c. PICK c : c = CASE n = "profile"  -> "wrote"
                     [] n = "finalize" -> "seal"
                     [] OTHER          -> "work"
  OBVIOUS
<1>1. pc[p] = "look" /\ pc[p] \in Resumed
  BY DEF Begin, Resumed, Holding
<1>2. /\ Start(n, Input) /\ ~ Succeeded(n) /\ pc' = [pc EXCEPT ![p] = c]
      /\ held' = [held EXCEPT ![p] = nodes[n].attempt + 1]
      /\ UNCHANGED <<dirVars, lock, at, mem>>
  BY <1>a, <1>c DEF Begin, Goto, Succeeded
<1>3. /\ pc \in [Process -> Place] /\ held \in [Process -> 0..MaxAttempts]
      /\ lock' = p /\ dir' = "marked" /\ \A q \in Process \ {p} : pc[q] = "idle"
      /\ n = Order[k] /\ k \in 1..Last /\ Last \in Nat /\ MaxAttempts \in Nat
      /\ n \in Node
      /\ n \notin {"profile", "finalize"} => n \in StageSet
  BY <1>a, <1>b, <1>1, <1>2, AtWork DEF dirVars
<1>4. StoreInv'
  <2>1. Transaction
    BY <1>2, <1>3, InputIsFingerprint DEF Transaction
  <2> QED BY <2>1, TransactionInv DEF PipelineInv
<1>5. /\ \A m \in Node \ {n} : SameRow(m)
      /\ HasRow(n)' /\ ~ Succeeded(n)'
      /\ nodes'[n].attempt = nodes[n].attempt + 1 /\ nodes'[n].attempt <= MaxAttempts
  BY <1>2, <1>3, StartRows DEF PipelineInv, StoreInv
<1>6. \A m \in Node : nodes[m].attempt \in 0..MaxAttempts
  BY DEF PipelineInv, AttemptsAreBounded
<1>7. AttemptsAreBounded'
  <2> SUFFICES ASSUME NEW m \in Node PROVE nodes'[m].attempt \in 0..MaxAttempts
    BY DEF AttemptsAreBounded
  <2>1. CASE m = n
    BY <1>3, <1>5, <1>6, <2>1
  <2>2. CASE m # n
    BY <1>5, <1>6, <2>2 DEF SameRow
  <2> QED BY <2>1, <2>2
<1>8. \A j \in 1..Last : /\ Order[j] \in Node
                         /\ j # k => Order[j] # n /\ SameRow(Order[j])
  BY <1>3, <1>5, OrderFacts
<1>9. ASSUME NEW j \in 1..Last, j >= k PROVE ~ Succeeded(Order[j])'
  <2>1. CASE j = k
    BY <1>3, <1>5, <2>1
  <2>2. CASE j # k
    <3>1. k \in 1..j
      BY <1>3, <1>9
    <3>2. ~ Succeeded(Order[j])
      BY <1>2, <1>3, <3>1 DEF PipelineInv, InSequence
    <3> QED BY <1>8, <2>2, <3>2 DEF SameRow
  <2> QED BY <2>1, <2>2
<1>10. InSequence' /\ Vouched'
  <2>1. \A j \in 1..Last : /\ j < k => SameRow(Order[j])
                           /\ j >= k => ~ Succeeded(Order[j])'
    BY <1>3, <1>8, <1>9
  <2> QED BY <1>3, <2>1, CutFrame DEF PipelineInv
<1>11. c \in {"wrote", "seal", "work"} /\ pc'[p] = c
  BY <1>c, <1>2, <1>3
<1>12. held'[p] = nodes'[n].attempt /\ held'[p] > 0 /\ held' \in [Process -> 0..MaxAttempts]
  <2>1. nodes[n].attempt + 1 \in 0..MaxAttempts /\ nodes[n].attempt + 1 > 0
    BY <1>3, <1>5, <1>6
  <2> QED BY <1>2, <1>3, <1>5, <2>1
<1>13. PipelineWellTyped'
  BY <1>2, <1>11, <1>12 DEF PipelineInv, PipelineWellTyped, dirVars, Place
<1>14. Its(p)' = n /\ at'[p] = k
  BY <1>a, <1>b, <1>2 DEF Its
<1>15. AtItsNode(p)'
  <2>1. c = "work" => n \in StageSet
    BY <1>c, <1>3
  <2>2. c = "wrote" => n # "finalize" /\ n \notin StageSet
    BY <1>c, <1>3, OrderFacts
  <2>3. c = "seal" => k = Last
    BY <1>c, <1>3, OrderFacts
  <2>4. HasRow(n)' /\ held'[p] > 0 /\ nodes'[n].attempt = held'[p]
    BY <1>5, <1>12
  <2>5. HasRow(Its(p))' <=> HasRow(n)'
    BY <1>14 DEF HasRow
  <2> QED BY <1>11, <1>14, <2>1, <2>2, <2>3, <2>4, <2>5 DEF AtItsNode
<1>16. Remembers(p)'
  <2>1. \A j \in 1..(k - 1) : j \in 1..Last /\ j # k
    BY <1>3
  <2>2. \A j \in 1..(at[p] - 1) : SameRow(Order[j])
    BY <1>b, <1>8, <2>1
  <2>3. \A j \in 1..(k - 1) : HasDone(p, Order[j])'
    BY <1>a, <1>b, <1>1, <1>2, <2>2, KeepsDone DEF dirVars
  <2>4. \A j \in 1..(at'[p] - 1) : HasDone(p, Order[j])'
    BY <1>14, <2>3
  <2>5. c = "wrote" => n \notin StageSet
    BY <1>c, <1>3, OrderFacts
  <2> QED BY <1>11, <1>14, <2>4, <2>5 DEF Remembers
<1>17. Fine(p)'
  BY <1>3, <1>11, <1>15, <1>16 DEF Fine, Marked, Public
<1>18. AllIsPublished'
  BY <1>3 DEF AllIsPublished, Published
<1> QED BY <1>2, <1>3, <1>4, <1>7, <1>10, <1>11, <1>13, <1>17, <1>18, OneMoves
        DEF Place, Holding

LEMMA FinishStep ==
  ASSUME StoreAssumption, PipelineAssumption, PipelineInv,
         NEW p \in Process, Finish(p)
  PROVE  PipelineInv'
<1>a. PICK n : n = Its(p)
  OBVIOUS
<1>b. PICK k : k = at[p]
  OBVIOUS
<1>c. PICK a : a = files[n]
  OBVIOUS
<1>1. pc[p] = "wrote" /\ pc[p] \in Resumed
  BY DEF Finish, Resumed, Holding
<1>2. /\ n # "finalize" /\ held[p] = nodes[n].attempt
      /\ n \in StageSet => a \in Artifact /\ Computed(n, a)
  BY <1>a, <1>c, <1>1 DEF PipelineInv, Fine, AtItsNode, Remembers, Working
<1>3. /\ pc \in [Process -> Place] /\ at \in [Process -> 1..Last]
      /\ mem \in [Process -> [StageSet -> 0..MaxAttempts]]
      /\ held \in [Process -> 0..MaxAttempts]
      /\ lock = p /\ dir = "marked" /\ \A q \in Process \ {p} : pc[q] = "idle"
      /\ n = Order[k] /\ k \in 1..Last /\ n \in Node /\ Last \in Nat
      /\ n # "profile" => n \in StageSet
      /\ k + 1 \in 1..Last
      /\ \A j \in 1..(k - 1) : HasDone(p, Order[j])
  BY <1>a, <1>b, <1>1, <1>2, AtWork
<1>4. /\ at' = [at EXCEPT ![p] = @ + 1] /\ pc' = [pc EXCEPT ![p] = "look"]
      /\ UNCHANGED <<dirVars, lock, held>>
  BY DEF Finish, Goto
<1>d. PICK arts : arts = IF n = "profile" THEN {} ELSE {a}
  OBVIOUS
<1>5. /\ Succeed(n, Input, arts)
      /\ IF n = "profile" THEN mem' = mem ELSE mem' = [mem EXCEPT ![p][n] = held[p]]
  BY <1>a, <1>c, <1>d DEF Finish
<1>6. arts \in SUBSET Artifact
  BY <1>d, <1>2, <1>3
<1>7. StoreInv'
  <2>1. Transaction
    BY <1>3, <1>5, <1>6, InputIsFingerprint DEF Transaction
  <2> QED BY <2>1, TransactionInv DEF PipelineInv
<1>8. /\ \A m \in Node \ {n} : SameRow(m)
      /\ HasRow(n)' /\ Succeeded(n)' /\ ~ Succeeded(n)
      /\ nodes'[n].attempt = nodes[n].attempt /\ nodes'[n].artifacts = arts
  BY <1>3, <1>5, SucceedRows DEF PipelineInv, StoreInv
<1>9. AttemptsAreBounded'
  <2> SUFFICES ASSUME NEW m \in Node PROVE nodes'[m].attempt \in 0..MaxAttempts
    BY DEF AttemptsAreBounded
  <2>1. nodes'[m].attempt = nodes[m].attempt
    BY <1>8 DEF SameRow
  <2> QED BY <2>1 DEF PipelineInv, AttemptsAreBounded
<1>10. n \in StageSet => arts = {a}
  <2>1. "profile" \notin StageSet
    BY OrderFacts
  <2> QED BY <1>d, <2>1
<1>11. InSequence' /\ Vouched'
  <2>1. \A j \in 1..(k - 1) : Succeeded(Order[j])
    BY <1>3 DEF HasDone
  <2>2. \A m \in Node \ {Order[k]} : SameRow(m)
    BY <1>3, <1>8
  <2>3. Succeeded(Order[k])'
    BY <1>3, <1>8
  <2>4. Order[k] \in StageSet =>
           /\ nodes'[Order[k]].attempt = nodes[Order[k]].attempt
           /\ \E b \in Artifact :
                nodes'[Order[k]].artifacts = {b} /\ Computed(Order[k], b)
    BY <1>2, <1>3, <1>8, <1>10
  <2> QED BY <1>3, <2>1, <2>2, <2>3, <2>4, ExtendFrame DEF PipelineInv
<1>12. mem' \in [Process -> [StageSet -> 0..MaxAttempts]]
       /\ \A s \in StageSet : s # n => mem'[p][s] = mem[p][s]
  <2>1. CASE n = "profile"
    BY <1>3, <1>5, <2>1
  <2>2. CASE n # "profile"
    <3>1. n \in StageSet /\ mem' = [mem EXCEPT ![p][n] = held[p]]
      BY <1>3, <1>5, <2>2
    <3>2. held[p] \in 0..MaxAttempts
      BY <1>3
    <3> QED BY <1>3, <3>1, <3>2, Noted
  <2> QED BY <2>1, <2>2
<1>13. PipelineWellTyped'
  <2>1. at' \in [Process -> 1..Last]
    BY <1>b, <1>3, <1>4
  <2> QED BY <1>3, <1>4, <1>12, <2>1 DEF PipelineInv, PipelineWellTyped, dirVars, Place
<1>14. pc'[p] = "look" /\ at'[p] = k + 1
  BY <1>b, <1>3, <1>4
<1>15. \A j \in 1..(k - 1) : HasDone(p, Order[j])'
  <2>1. \A j \in 1..(k - 1) : Order[j] \in Node /\ Order[j] # n
    BY <1>a, <1>b, <1>1, AtWork
  <2>2. \A j \in 1..(at[p] - 1) : SameRow(Order[j])
    BY <1>b, <1>8, <2>1
  <2>3. files' = files
    BY <1>4 DEF dirVars
  <2>4. \A s \in StageSet : s # n => mem'[p][s] = mem[p][s]
    BY <1>12
  <2> QED BY <1>a, <1>b, <1>1, <2>2, <2>3, <2>4, KeepsDone
<1>16. HasDone(p, n)'
  <2>1. n \in StageSet => mem'[p][n] = held[p]
    BY <1>3, <1>5, OrderFacts
  <2>2. files' = files
    BY <1>4 DEF dirVars
  <2> QED BY <1>c, <1>2, <1>8, <1>10, <2>1, <2>2 DEF HasDone, Verified
<1>17. Remembers(p)'
  <2>1. \A j \in 1..(at'[p] - 1) : j = k \/ j \in 1..(k - 1)
    BY <1>3, <1>14
  <2>2. \A j \in 1..(at'[p] - 1) : HasDone(p, Order[j])'
    BY <1>3, <1>15, <1>16, <2>1
  <2> QED BY <1>14, <2>2 DEF Remembers
<1>18. lock' = p /\ dir' = "marked"
  BY <1>3, <1>4 DEF dirVars
<1>19. Fine(p)'
  BY <1>14, <1>17, <1>18 DEF Fine, Marked, AtItsNode, Public, Working
<1>20. AllIsPublished'
  BY <1>18 DEF AllIsPublished, Published
<1> QED BY <1>3, <1>4, <1>7, <1>9, <1>11, <1>13, <1>18, <1>19, <1>20, OneMoves
        DEF Place, Holding

-----------------------------------------------------------------------------
\* What a step may do while the run is published: the directory and the lock
\* stay, at most the row of finalize is repaired, and a process goes on or ends.
PublicStep(p, c) ==
  /\ UNCHANGED <<dirVars, lock, at, mem, held>>
  /\ pc' = [pc EXCEPT ![p] = c]
  /\ \A n \in Node \ {"finalize"} : SameRow(n)
  /\ HasRow("finalize") =>
       HasRow("finalize")' /\ nodes'["finalize"].attempt = nodes["finalize"].attempt
  /\ nodes'["finalize"].attempt \in 0..MaxAttempts

LEMMA PublicFrame ==
  ASSUME PipelineAssumption, StoreAssumption, PipelineInv, Published,
         NEW p \in Process, NEW c \in {"idle", "reopen", "reconcile"},
         StoreInv', PublicStep(p, c)
  PROVE  PipelineInv'
<1>1. lock = Nothing /\ \A q \in Process : pc[q] \in {"idle"} \cup Public
  BY Regimes
<1>2. pc \in [Process -> Place]
  BY DEF PipelineInv, PipelineWellTyped
<1>3. pc'[p] = c /\ \A q \in Process \ {p} : pc'[q] = pc[q]
  BY <1>2 DEF PublicStep
<1>4. UNCHANGED <<dir, files, temps, manifest, anchor, lock, at, mem, held>>
  BY DEF PublicStep, dirVars
<1>5. Published'
  BY <1>4 DEF Published, Complete, Intact
<1>6. PipelineWellTyped'
  <2>1. pc' \in [Process -> Place]
    BY <1>2 DEF PublicStep, Place
  <2> QED BY <1>4, <2>1 DEF PipelineInv, PipelineWellTyped
<1>7. AttemptsAreBounded'
  BY DEF PipelineInv, AttemptsAreBounded, PublicStep, SameRow
<1>8. \A q \in Process : pc'[q] \in {"idle"} \cup Public
  BY <1>1, <1>3 DEF Public
<1>9. RunIsLocked'
  <2>1. \A q \in Process : pc'[q] \notin Holding
    BY <1>8 DEF Public, Holding
  <2> QED BY <1>1, <1>4, <2>1 DEF RunIsLocked
<1>10. \A q \in Process : pc'[q] = "settle" => pc[q] = "settle"
  BY <1>3
<1>11. OneSettles'
  BY <1>10 DEF PipelineInv, OneSettles
<1>12. AbsentIsEmpty'
  BY <1>4 DEF PipelineInv, AbsentIsEmpty
<1>13. ASSUME NEW q \in Process PROVE Fine(q)'
  <2>1. pc'[q] \in {"idle"} \cup Public
    BY <1>8
  <2>2. Marked(q)'
    BY <1>5, <2>1 DEF Marked, Public, Holding
  <2>3. Remembers(q)'
    BY <2>1 DEF Remembers, Resumed, Holding, Public
  <2>4. CASE pc'[q] # "settle"
    BY <2>1, <2>2, <2>3, <2>4 DEF Fine, AtItsNode, Working, Public
  <2>5. CASE pc'[q] = "settle"
    <3>1. /\ at[q] = Last /\ held[q] > 0
          /\ HasRow(Its(q)) /\ nodes[Its(q)].attempt = held[q]
      BY <1>10, <2>5 DEF PipelineInv, Fine, AtItsNode, Working
    <3>2. Its(q) = "finalize" /\ Its(q)' = "finalize"
      BY <1>4, <3>1, OrderFacts DEF Its
    <3>3. HasRow("finalize")' /\ nodes'["finalize"].attempt = held'[q]
      BY <1>4, <3>1, <3>2 DEF PublicStep
    <3>4. HasRow(Its(q))'
      BY <3>2, <3>3 DEF HasRow
    <3>5. AtItsNode(q)'
      BY <1>4, <2>5, <3>1, <3>2, <3>3, <3>4 DEF AtItsNode
    <3> QED BY <2>2, <2>3, <3>5 DEF Fine
  <2> QED BY <2>4, <2>5
<1>14. \A j \in 1..(Last - 1) : /\ Order[j] \in Node \ {"finalize"}
                                /\ Succeeded(Order[j])
                                /\ Order[j] \in StageSet => Verified(Order[j])
  <2> SUFFICES ASSUME NEW j \in 1..(Last - 1)
               PROVE  /\ Order[j] \in Node \ {"finalize"}
                      /\ Succeeded(Order[j])
                      /\ Order[j] \in StageSet => Verified(Order[j])
    OBVIOUS
  <2>1. j \in 1..Last /\ j # Last
    BY OrderFacts
  <2>2. Order[j] \in Node \ {"finalize"}
    BY <2>1, OrderFacts
  <2> QED BY <2>2 DEF PipelineInv, AllIsPublished
<1>15. AllIsPublished'
  <2>1. ASSUME NEW j \in 1..(Last - 1)
        PROVE  /\ Succeeded(Order[j])'
               /\ Order[j] \in StageSet => Verified(Order[j])'
    <3>1. SameRow(Order[j])
      BY <1>14 DEF PublicStep
    <3> QED BY <1>4, <1>14, <3>1 DEF SameRow, Verified
  <2> QED BY <2>1 DEF AllIsPublished
<1>16. InSequence' /\ Vouched'
  <2>1. Last \in 1..Last /\ Order[Last] = "finalize" /\ "finalize" \notin StageSet
    BY OrderFacts
  <2>2. \A m \in Node \ {Order[Last]} : SameRow(m)
    BY <2>1 DEF PublicStep
  <2>3. \A j \in 1..(Last - 1) : Succeeded(Order[j])
    BY <1>14
  <2> QED BY <2>1, <2>2, <2>3, ExtendFrame DEF PipelineInv
<1> QED BY <1>6, <1>7, <1>9, <1>11, <1>12, <1>13, <1>15, <1>16 DEF PipelineInv

\* Opening the database, or leaving it alone, is no more than that.
LEMMA HarmlessIsPublic ==
  ASSUME PipelineInv, PipelineAssumption, Harmless, NEW p \in Process, NEW c,
         UNCHANGED <<dirVars, lock, at, mem, held>>, pc' = [pc EXCEPT ![p] = c]
  PROVE  PublicStep(p, c)
<1>1. "finalize" \in Node
  BY OrderFacts
<1> QED BY <1>1 DEF PublicStep, Harmless, Mild, SameRow, AttemptsAreBounded

LEMMA ReuseStep ==
  ASSUME StoreAssumption, PipelineAssumption, PipelineInv,
         NEW p \in Process, Reuse(p)
  PROVE  PipelineInv' /\ Published
<1>1. Published /\ Harmless
  BY QuietStore DEF Reuse
<1>2. PublicStep(p, "reopen")
  BY <1>1, HarmlessIsPublic DEF Reuse, Goto
<1> QED BY <1>1, <1>2, PublicFrame DEF Harmless

LEMMA ReopenPublishedStep ==
  ASSUME StoreAssumption, PipelineAssumption, PipelineInv,
         NEW p \in Process, ReopenPublished(p)
  PROVE  PipelineInv'
<1>1. Published
  BY Regimes DEF ReopenPublished, Public
<1>2. Harmless
  BY ReopenStore DEF ReopenPublished
<1>3. PublicStep(p, "reconcile")
  BY <1>2, HarmlessIsPublic DEF ReopenPublished, Goto
<1> QED BY <1>1, <1>2, <1>3, PublicFrame DEF Harmless

LEMMA PublicCrashStep ==
  ASSUME StoreAssumption, PipelineAssumption, PipelineInv,
         NEW p \in Process, Crash(p), Published
  PROVE  PipelineInv'
<1>1. lock = Nothing /\ pc[p] \in {"idle"} \cup Public /\ Nothing \notin Process
  BY Regimes DEF PipelineAssumption
<1>2. Harmless
  BY QuietStore DEF Crash
<1>3. UNCHANGED <<dirVars, lock, at, mem, held>> /\ pc' = [pc EXCEPT ![p] = "idle"]
  BY <1>1 DEF Crash, MayLeaveTemp, Goto, Public, dirVars
<1>4. PublicStep(p, "idle")
  BY <1>2, <1>3, HarmlessIsPublic
<1> QED BY <1>2, <1>4, PublicFrame DEF Harmless

LEMMA SettleStep ==
  ASSUME StoreAssumption, PipelineAssumption, PipelineInv,
         NEW p \in Process, Settle(p)
  PROVE  PipelineInv'
<1>1. Published
  BY Regimes DEF Settle, Public
<1>2. UNCHANGED <<dirVars, lock, at, mem, held>> /\ pc' = [pc EXCEPT ![p] = "idle"]
  BY DEF Settle, Goto
<1>3. "finalize" \in Node /\ "finalize" \notin StageSet
  BY OrderFacts
<1>4. CASE ~ RequireRunning("finalize", Input)
  <2>1. Harmless
    BY <1>4, QuietStore DEF Settle
  <2> QED BY <1>1, <1>2, <2>1, HarmlessIsPublic, PublicFrame DEF Harmless
<1>5. CASE RequireRunning("finalize", Input)
  <2>1. Succeed("finalize", Input, {})
    BY <1>5 DEF Settle
  <2>2. Transaction
    BY <1>3, <2>1, InputIsFingerprint DEF Transaction
  <2>3. StoreInv'
    BY <2>2, TransactionInv DEF PipelineInv
  <2>4. PublicStep(p, "idle")
    BY <1>2, <1>3, <2>1, SucceedRows
       DEF PublicStep, PipelineInv, StoreInv, AttemptsAreBounded
  <2> QED BY <1>1, <2>3, <2>4, PublicFrame
<1> QED BY <1>4, <1>5

LEMMA ReconcilePublishedStep ==
  ASSUME StoreAssumption, PipelineAssumption, PipelineInv,
         NEW p \in Process, ReconcilePublished(p)
  PROVE  PipelineInv'
<1>1. Published
  BY Regimes DEF ReconcilePublished, Public
<1>2. /\ UNCHANGED <<dirVars, lock, at, mem, held>> /\ pc' = [pc EXCEPT ![p] = "idle"]
      /\ Reconcile("finalize", Input, {})
  BY DEF ReconcilePublished, Goto
<1>3. "finalize" \in Node
  BY OrderFacts
<1>4. Transaction
  BY <1>2, <1>3, InputIsFingerprint DEF Transaction
<1>5. StoreInv'
  BY <1>4, TransactionInv DEF PipelineInv
<1>6. PublicStep(p, "idle")
  BY <1>2, ReconcileRows DEF PublicStep, PipelineInv, StoreInv
<1> QED BY <1>1, <1>5, <1>6, PublicFrame

-----------------------------------------------------------------------------
\* No process moves.
LEMMA NobodyMoves ==
  ASSUME PipelineAssumption, StoreAssumption, PipelineInv, Harmless,
         UNCHANGED <<dirVars, lock, procVars>>
  PROVE  PipelineInv'
<1>1. UNCHANGED <<dir, files, temps, manifest, anchor, lock, pc, at, mem, held>>
  BY DEF dirVars, procVars
<1>2. PipelineWellTyped' /\ RunIsLocked' /\ OneSettles' /\ AbsentIsEmpty'
  BY <1>1 DEF PipelineInv, PipelineWellTyped, RunIsLocked, OneSettles, AbsentIsEmpty
<1>3. Published' <=> Published
  BY <1>1 DEF Published, Complete, Intact
<1>4. \A k \in 1..Last : Order[k] \in Node /\ SameRow(Order[k])
  BY OrderFacts DEF Harmless, Mild
<1>5. ASSUME NEW p \in Process PROVE Fine(p)'
  <2>1. PICK n : n = Its(p)
    OBVIOUS
  <2>2. Its(p)' = n /\ at[p] \in 1..Last /\ Last \in Nat /\ n \in Node
    BY <1>1, <1>4, <2>1, OrderFacts DEF Its, PipelineInv, PipelineWellTyped
  <2>3. SameRow(n)
    BY <2>2 DEF Harmless, Mild
  <2>4. Marked(p)'
    BY <1>1, <1>3 DEF PipelineInv, Fine, Marked
  <2>5. AtItsNode(p)'
    <3>1. HasRow(Its(p))' <=> HasRow(n)'
      BY <2>2 DEF HasRow
    <3> QED BY <1>1, <2>1, <2>2, <2>3, <3>1 DEF PipelineInv, Fine, AtItsNode, SameRow
  <2>6. ASSUME pc[p] \in Resumed, NEW j \in 1..(at[p] - 1)
        PROVE  HasDone(p, Order[j])'
    <3>1. HasDone(p, Order[j]) /\ j \in 1..Last
      BY <2>2, <2>6 DEF PipelineInv, Fine, Remembers
    <3> QED BY <1>1, <1>4, <3>1, DoneStays
  <2>7. ASSUME pc[p] = "wrote", n \in StageSet
        PROVE  files'[n] \in Artifact /\ Computed(n, files[n])'
    <3>1. PICK a : a = files[n]
      OBVIOUS
    <3>2. a \in Artifact /\ Computed(n, a)
      BY <2>1, <2>7, <3>1 DEF PipelineInv, Fine, Remembers
    <3>3. \A u \in Uses(n) : nodes'[u].attempt = nodes[u].attempt
      BY <2>7, UsesEarlier, OrderFacts DEF Harmless, Mild, SameRow
    <3>4. Computed(n, a)'
      BY <2>3, <2>7, <3>2, <3>3, ComputedStays DEF SameRow
    <3> QED BY <1>1, <3>1, <3>2, <3>4 DEF Computed
  <2>8. Remembers(p)'
    <3>1. pc' = pc /\ at' = at
      BY <1>1
    <3>2. Computed(Its(p), files[Its(p)])' <=> Computed(n, files[n])'
      BY <2>2 DEF Computed
    <3>3. pc'[p] \in Resumed => \A j \in 1..(at'[p] - 1) : HasDone(p, Order[j])'
      BY <2>6, <3>1
    <3>4. pc'[p] = "wrote" /\ n \in StageSet =>
            files'[n] \in Artifact /\ Computed(n, files[n])'
      BY <2>7, <3>1
    <3> QED BY <2>2, <3>2, <3>3, <3>4 DEF Remembers
  <2> QED BY <2>4, <2>5, <2>8 DEF Fine
<1>6. AllIsPublished'
  <2>1. ASSUME Published, NEW j \in 1..(Last - 1)
        PROVE  Succeeded(Order[j])' /\ (Order[j] \in StageSet => Verified(Order[j])')
    <3>1. /\ Succeeded(Order[j])
          /\ Order[j] \in StageSet => Verified(Order[j])
          /\ j \in 1..Last
      BY <2>1, OrderFacts DEF PipelineInv, AllIsPublished
    <3>2. SameRow(Order[j])
      BY <1>4, <3>1
    <3> QED BY <1>1, <3>1, <3>2 DEF SameRow, Verified
  <2> QED BY <1>3, <2>1 DEF AllIsPublished
<1> QED BY <1>2, <1>5, <1>6 DEF PipelineInv, Harmless

LEMMA DamageStep ==
  ASSUME PipelineAssumption, StoreAssumption, PipelineInv,
         NEW s \in StageSet, Damage(s)
  PROVE  PipelineInv'
<1>1. /\ lock = Nothing /\ dir = "marked" /\ files' = [files EXCEPT ![s] = Nothing]
      /\ UNCHANGED <<storeVars, dir, temps, manifest, anchor, lock, procVars>>
  BY DEF Damage
<1>2. \A q \in Process : pc[q] = "idle"
  BY <1>1, Regimes
<1>3. Harmless
  BY <1>1, QuietStore
<1>4. UNCHANGED <<pc, at, mem, held>>
  BY <1>1 DEF procVars
<1>5. PipelineWellTyped'
  BY <1>1, <1>4 DEF PipelineInv, PipelineWellTyped
<1>6. RunIsLocked' /\ OneSettles' /\ AbsentIsEmpty'
  BY <1>1, <1>4 DEF PipelineInv, RunIsLocked, OneSettles, AbsentIsEmpty
<1>7. ASSUME NEW q \in Process PROVE Fine(q)'
  <2>1. pc'[q] = "idle"
    BY <1>2, <1>4
  <2> QED BY <2>1 DEF Fine, Marked, AtItsNode, Remembers, Holding, Resumed, Public, Working
<1>8. AllIsPublished'
  BY <1>1 DEF AllIsPublished, Published
<1> QED BY <1>3, <1>5, <1>6, <1>7, <1>8 DEF PipelineInv, Harmless

-----------------------------------------------------------------------------
LEMMA InitPipeline ==
  ASSUME PipelineAssumption, StoreAssumption, Init  PROVE PipelineInv
<1>1. StoreInv
  BY InitInv DEF Init
<1>2. \A n \in Node : nodes[n] = NoRow
  BY DEF Init, StoreInit
<1>3. MaxAttempts \in Nat \ {0} /\ Last \in Nat /\ Last >= 2
  BY OrderFacts DEF StoreAssumption
<1>4. AttemptsAreBounded
  BY <1>2, <1>3 DEF AttemptsAreBounded, NoRow
<1>5. PipelineWellTyped
  <2>1. NoResults \in [StageSet -> 0..MaxAttempts]
    BY <1>3 DEF NoResults
  <2> QED BY <1>3, <2>1 DEF Init, PipelineWellTyped, Place
<1>6. \A p \in Process : pc[p] = "idle"
  BY DEF Init
<1>7. RunIsLocked /\ OneSettles /\ AbsentIsEmpty
  BY <1>6 DEF Init, RunIsLocked, OneSettles, AbsentIsEmpty, Holding
<1>8. \A p \in Process : Fine(p)
  BY <1>6, IdleIsFine
<1>9. \A n \in Node : ~ Succeeded(n)
  BY <1>2 DEF Succeeded, HasCheckpoint, NoRow
<1>10. InSequence
  BY <1>9, OrderFacts DEF InSequence
<1>11. Vouched
  BY <1>9, OrderFacts DEF Vouched
<1>12. AllIsPublished
  BY DEF Init, AllIsPublished, Published
<1> QED BY <1>1, <1>4, <1>5, <1>7, <1>8, <1>10, <1>11, <1>12 DEF PipelineInv

LEMMA NextPipeline ==
  PipelineAssumption /\ StoreAssumption /\ PipelineInv /\ [Next]_vars => PipelineInv'
<1> SUFFICES ASSUME PipelineAssumption, StoreAssumption, PipelineInv, [Next]_vars
             PROVE  PipelineInv'
  OBVIOUS
<1>1. ASSUME NEW p \in Process, Call(p) PROVE PipelineInv'
  BY <1>1, CreateStep, ReuseStep DEF Call
<1>2. ASSUME NEW p \in Process, Step(p) PROVE PipelineInv'
  <2>1. CASE Mark(p) \/ Open(p) \/ Restore(p) \/ Distrust(p) \/ Begin(p) \/ GiveUp(p)
    BY <2>1, MarkStep, OpenStep, RestoreStep, DistrustStep, BeginStep, GiveUpStep
  <2>2. CASE WriteFile(p) \/ Finish(p) \/ FinishRefused(p)
    BY <2>2, WriteFileStep, FinishStep, FinishRefusedStep
  <2>3. CASE Seal(p) \/ Anchor(p) \/ Unmark(p) \/ FinalizeRefused(p) \/ Settle(p)
    BY <2>3, SealStep, AnchorStep, UnmarkStep, FinalizeRefusedStep, SettleStep
  <2>4. CASE ReopenPublished(p) \/ ReconcilePublished(p)
    BY <2>4, ReopenPublishedStep, ReconcilePublishedStep
  <2> QED BY <1>2, <2>1, <2>2, <2>3, <2>4 DEF Step
<1>3. ASSUME NEW p \in Process, Crash(p) PROVE PipelineInv'
  BY <1>3, HolderCrashStep, PublicCrashStep
<1>4. ASSUME NEW p \in Process, Error(p) PROVE PipelineInv'
  BY <1>4, ErrorStep
<1>5. CASE Query
  BY <1>5, ReopenStore, NobodyMoves DEF Query
<1>6. ASSUME NEW s \in StageSet, Damage(s) PROVE PipelineInv'
  BY <1>6, DamageStep
<1>7. CASE UNCHANGED vars
  <2>1. UNCHANGED storeVars /\ UNCHANGED <<dirVars, lock, procVars>>
    BY <1>7 DEF vars, storeVars, dirVars, procVars
  <2> QED BY <2>1, QuietStore, NobodyMoves
<1> QED BY <1>1, <1>2, <1>3, <1>4, <1>5, <1>6, <1>7 DEF Next

(***************************************************************************)
(* The inductive invariant holds in every reachable state of a run.        *)
(***************************************************************************)
THEOREM PipelineInvariance == Spec => []PipelineInv
<1>1. PipelineAssumption /\ StoreAssumption
  BY PipelineAssumption, StoreAssumption
<1>2. Init => PipelineInv
  BY <1>1, InitPipeline
<1> QED BY <1>1, <1>2, NextPipeline, PTL DEF Spec

LEMMA PublishedIsOfOnePiece ==
  PipelineAssumption /\ PipelineInv => PublishedIsCoherent
<1> SUFFICES ASSUME PipelineAssumption, PipelineInv, Published, NEW s \in StageSet
             PROVE  /\ \A u \in Uses(s) : files[s].from[u] = files[u].attempt
                    /\ Succeeded(s) /\ Verified(s)
  BY DEF PublishedIsCoherent, Succeeded
<1>1. \A t \in StageSet : Succeeded(t) /\ Verified(t)
  <2> SUFFICES ASSUME NEW t \in StageSet PROVE Succeeded(t) /\ Verified(t)
    OBVIOUS
  <2>1. PICK k \in 2..(Last - 1) : Order[k] = t
    BY OrderFacts
  <2>2. k \in 1..(Last - 1)
    BY OrderFacts
  <2> QED BY <2>1, <2>2 DEF PipelineInv, AllIsPublished
<1>2. \A t \in StageSet : Computed(t, files[t])
  <2> SUFFICES ASSUME NEW t \in StageSet PROVE Computed(t, files[t])
    OBVIOUS
  <2>1. PICK a \in Artifact : nodes[t].artifacts = {a} /\ Computed(t, a)
    BY <1>1 DEF PipelineInv, Vouched
  <2>2. files[t] = a
    BY <1>1, <2>1 DEF Verified
  <2> QED BY <2>1, <2>2
<1>3. ASSUME NEW u \in Uses(s) PROVE files[s].from[u] = files[u].attempt
  <2>1. u \in StageSet
    BY UsesEarlier
  <2> QED BY <1>2, <2>1 DEF Computed
<1> QED BY <1>1, <1>3

(***************************************************************************)
(* The artifacts of a published run were computed from one another and are *)
(* those the checkpoints vouch for, whatever was lost, interrupted and     *)
(* resumed on the way (RiskProbeService.run, RunContext.finalize).         *)
(***************************************************************************)
THEOREM PublishedRunsAreCoherent == Spec => []PublishedIsCoherent
<1>1. PipelineAssumption
  BY PipelineAssumption
<1> QED BY <1>1, PipelineInvariance, PublishedIsOfOnePiece, PTL

LEMMA AttemptIsOwn == PipelineAssumption /\ PipelineInv => OwnAttempt
<1> SUFFICES ASSUME PipelineAssumption, PipelineInv, NEW p \in Process, pc[p] \in Working
             PROVE  /\ nodes[Its(p)].attempt = held[p]
                    /\ \A q \in Process \ {p} : pc[q] \in Working => Its(q) # Its(p)
  BY DEF OwnAttempt
<1>1. nodes[Its(p)].attempt = held[p]
  BY DEF PipelineInv, Fine, AtItsNode
<1>2. ASSUME NEW q \in Process \ {p}, pc[q] \in Working PROVE FALSE
  <2>1. CASE Published
    <3>1. pc[p] = "settle" /\ pc[q] = "settle"
      BY <1>2, <2>1, Regimes DEF Working, Public
    <3> QED BY <3>1 DEF PipelineInv, OneSettles
  <2>2. CASE ~ Published
    <3>1. pc[p] # "settle" /\ pc[p] \in Holding
      BY <2>2, Regimes DEF Working, Public, Holding
    <3>2. pc[q] = "idle"
      BY <3>1, Regimes
    <3> QED BY <1>2, <3>2 DEF Working
  <2> QED BY <2>1, <2>2
<1> QED BY <1>1, <1>2

(***************************************************************************)
(* A process works on the attempt it started, and on a node of its own:    *)
(* the attempt number that succeed_node and fail_node do not check cannot  *)
(* be another's.                                                           *)
(***************************************************************************)
THEOREM AttemptsAreOwn == Spec => []OwnAttempt
<1>1. PipelineAssumption
  BY PipelineAssumption
<1> QED BY <1>1, PipelineInvariance, AttemptIsOwn, PTL

LEMMA PublishedStep ==
  PipelineAssumption /\ PipelineInv /\ [Next]_vars => (Published => UNCHANGED dirVars)
<1> SUFFICES ASSUME PipelineAssumption, PipelineInv, [Next]_vars, Published
             PROVE  UNCHANGED dirVars
  OBVIOUS
<1>1. \A p \in Process : pc[p] \in {"idle"} \cup Public
  BY Regimes
<1>2. dir = "bare"
  BY DEF Published
<1>3. ASSUME NEW p \in Process, Call(p) PROVE UNCHANGED dirVars
  BY <1>2, <1>3 DEF Call, Create, Recreate, Resume, Reuse
<1>4. ASSUME NEW p \in Process, Step(p) PROVE UNCHANGED dirVars
  <2>1. pc[p] \in {"idle"} \cup Public
    BY <1>1
  <2>2. Settle(p) \/ ReopenPublished(p) \/ ReconcilePublished(p)
    BY <1>4, <2>1 DEF Public, Step, Mark, Open, Restore, Distrust, Begin, GiveUp,
       WriteFile, Finish, FinishRefused, Seal, Anchor, Unmark, FinalizeRefused
  <2> QED BY <2>2 DEF Settle, ReopenPublished, ReconcilePublished
<1>5. ASSUME NEW p \in Process, Crash(p) \/ Error(p) PROVE UNCHANGED dirVars
  BY <1>1, <1>5 DEF Crash, Error, MayLeaveTemp, Public, dirVars
<1>6. CASE Query
  BY <1>6 DEF Query
<1>7. ASSUME NEW s \in StageSet, Damage(s) PROVE UNCHANGED dirVars
  BY <1>2, <1>7 DEF Damage
<1>8. CASE UNCHANGED vars
  BY <1>8 DEF vars, dirVars
<1> QED BY <1>3, <1>4, <1>5, <1>6, <1>7, <1>8 DEF Next

(***************************************************************************)
(* No call, crash or late step ever touches the directory or the anchor of *)
(* a published run (RunStore.create, RunContext.finalize).                 *)
(***************************************************************************)
THEOREM PublishedRunsStay == Spec => PublishedStays
<1>1. PipelineAssumption
  BY PipelineAssumption
<1> QED BY <1>1, PipelineInvariance, PublishedStep, PTL DEF Spec, PublishedStays

-----------------------------------------------------------------------------
LEMMA StepIsTransaction ==
  PipelineAssumption /\ PipelineInv /\ [Next]_vars => [Transaction]_storeVars
<1> SUFFICES ASSUME PipelineAssumption, PipelineInv, [Next]_vars
             PROVE  [Transaction]_storeVars
  OBVIOUS
<1>1. Reopen => [Transaction]_storeVars
  BY DEF Reopen, Transaction
<1>2. ASSUME NEW n \in Node
      PROVE  /\ Start(n, Input) => Transaction
             /\ \A arts \in SUBSET Artifact : Succeed(n, Input, arts) => Transaction
             /\ MarkFailed(n) => [Transaction]_storeVars
             /\ Reconcile(n, Input, {}) => Transaction
  BY InputIsFingerprint DEF Transaction, MarkFailed
<1>3. ASSUME NEW p \in Process
      PROVE  Its(p) \in Node /\ at[p] \in 1..Last
  BY OrderFacts DEF PipelineInv, PipelineWellTyped, Its
<1>4. "finalize" \in Node
  BY OrderFacts
<1>5. ASSUME NEW p \in Process, Distrust(p) PROVE Transaction
  <2>1. AndDownstream(p) = {Order[k] : k \in at[p]..Last}
    BY DEF AndDownstream, Last
  <2>2. at[p] \in 1..Last /\ Last \in Nat
    BY <1>3, OrderFacts
  <2>3. AndDownstream(p) \in SUBSET Node
    BY <2>1, <2>2, OrderFacts
  <2>4. Order[Last] \in AndDownstream(p)
    BY <2>1, <2>2
  <2> QED BY <1>5, <2>3, <2>4 DEF Distrust, Transaction
<1>6. ASSUME NEW p \in Process, Finish(p) PROVE Transaction
  <2>1. CASE Its(p) = "profile"
    BY <1>2, <1>3, <1>6, <2>1 DEF Finish
  <2>2. CASE Its(p) # "profile"
    <3>1. Its(p) # "finalize"
      BY <1>6 DEF Finish, PipelineInv, Fine, AtItsNode
    <3>2. Its(p) \in StageSet
      BY <1>3, <2>2, <3>1, OrderFacts
    <3>3. {files[Its(p)]} \in SUBSET Artifact
      BY <1>6, <3>2 DEF Finish, PipelineInv, Fine, Remembers
    <3> QED BY <1>2, <1>3, <1>6, <2>2, <3>3 DEF Finish
  <2> QED BY <2>1, <2>2
<1>7. ASSUME NEW p \in Process, Call(p) PROVE UNCHANGED storeVars
  BY <1>7 DEF Call, Create, Recreate, Resume, Reuse
<1>8. ASSUME NEW p \in Process, Step(p) PROVE [Transaction]_storeVars
  <2>1. CASE \/ Mark(p) \/ Restore(p) \/ GiveUp(p) \/ WriteFile(p) \/ FinishRefused(p)
             \/ Seal(p) \/ Anchor(p) \/ Unmark(p)
    BY <2>1 DEF Mark, Restore, GiveUp, WriteFile, FinishRefused, Seal, Anchor, Unmark
  <2>2. CASE Open(p) \/ ReopenPublished(p)
    BY <1>1, <2>2 DEF Open, ReopenPublished
  <2>3. CASE Begin(p)
    BY <1>2, <1>3, <2>3 DEF Begin
  <2>4. CASE FinalizeRefused(p) \/ ReconcilePublished(p)
    BY <1>2, <1>4, <2>4 DEF FinalizeRefused, ReconcilePublished
  <2>5. CASE Settle(p)
    BY <1>2, <1>4, <2>5 DEF Settle
  <2> QED BY <1>5, <1>6, <1>8, <2>1, <2>2, <2>3, <2>4, <2>5 DEF Step
<1>9. ASSUME NEW p \in Process, Crash(p) \/ Error(p) PROVE [Transaction]_storeVars
  BY <1>2, <1>3, <1>9 DEF Crash, Error
<1>10. CASE Query
  BY <1>1, <1>10 DEF Query
<1>11. ASSUME NEW s \in StageSet, Damage(s) PROVE UNCHANGED storeVars
  BY <1>11 DEF Damage
<1>12. CASE UNCHANGED vars
  BY <1>12 DEF vars, storeVars
<1> QED BY <1>7, <1>8, <1>9, <1>10, <1>11, <1>12 DEF Next

(***************************************************************************)
(* Whatever the calls of a run do, its node database only ever takes the   *)
(* transactions of ExecutionStore: what is proved of the store for         *)
(* unrestricted callers holds of the database of every run.                *)
(***************************************************************************)
THEOREM RunsUseTheStore == Spec => StoreInit /\ [][Transaction]_storeVars
<1>1. PipelineAssumption
  BY PipelineAssumption
<1>2. Init => StoreInit
  BY DEF Init
<1> QED BY <1>1, <1>2, PipelineInvariance, StepIsTransaction, PTL DEF Spec
=============================================================================
