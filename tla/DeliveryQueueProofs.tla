------------------------- MODULE DeliveryQueueProofs -------------------------
(***************************************************************************)
(* Theorems about DeliveryQueue, for every value of its constants.         *)
(***************************************************************************)
EXTENDS DeliveryQueue, SequenceTheorems, TLAPS

\* The inductive invariant.  Claims are numbered per job in the order they were
\* handed out; a running row holds its newest claim; a job that can still run
\* has attempts left; every verdict agrees with the row it was given on.
ClaimsInv ==
  /\ \A t \in DOMAIN claims :
       /\ claims[t].job \in DOMAIN rows
       /\ claims[t].attempt <= rows[claims[t].job].attempt
  /\ \A t, u \in DOMAIN claims :
       claims[t].job = claims[u].job /\ t < u => claims[t].attempt < claims[u].attempt

RunningInv ==
  \A i \in DOMAIN rows : rows[i].status = "running" =>
    /\ rows[i].token \in DOMAIN claims
    /\ claims[rows[i].token].job = i
    /\ claims[rows[i].token].attempt = rows[i].attempt
    /\ claims[rows[i].token].verdict = "open"
    /\ claims[rows[i].token].expires <= rows[i].expires

AttemptInv ==
  \A i \in DOMAIN rows :
    /\ rows[i].attempt <= rows[i].max_attempts
    /\ rows[i].status = "pending" => rows[i].attempt < rows[i].max_attempts

SuccessInv ==
  \A t \in DOMAIN claims : claims[t].verdict = "succeeded" =>
    /\ rows[claims[t].job].status = "succeeded"
    /\ rows[claims[t].job].attempt = claims[t].attempt

Inv == TypeOK /\ ClaimsInv /\ RunningInv /\ AttemptInv /\ SuccessInv /\ DeadLetterIsTruthful

\* With a clock that is never set back: a claim that its worker still believes
\* in is the one in the running row, or its job was cancelled during it.
HolderInv ==
  \A t \in DOMAIN claims :
    claims[t].verdict = "open" /\ claims[t].expires > now =>
      \/ /\ rows[claims[t].job].status = "running"
         /\ rows[claims[t].job].token = t
      \/ /\ rows[claims[t].job].status = "cancelled"
         /\ rows[claims[t].job].attempt = claims[t].attempt

-----------------------------------------------------------------------------
\* The two ways the tables change: a row appended, or rows rewritten in place.
LEMMA AppendFacts ==
  ASSUME NEW S, NEW s \in Seq(S), NEW e \in S
  PROVE  /\ Append(s, e) \in Seq(S)
         /\ DOMAIN s = 1..Len(s) /\ Len(s) \in Nat
         /\ DOMAIN Append(s, e) = 1..(Len(s) + 1)
         /\ \A i \in 1..Len(s) : Append(s, e)[i] = s[i]
         /\ Append(s, e)[Len(s) + 1] = e
  OBVIOUS

LEMMA UpdateFacts ==
  ASSUME NEW S, NEW s \in Seq(S), NEW i \in DOMAIN s, NEW e \in S
  PROVE  /\ [s EXCEPT ![i] = e] \in Seq(S)
         /\ DOMAIN [s EXCEPT ![i] = e] = DOMAIN s
         /\ [s EXCEPT ![i] = e][i] = e
         /\ \A j \in DOMAIN s : j # i => [s EXCEPT ![i] = e][j] = s[j]
  BY ExceptSeq, LenProperties

LEMMA RewriteFacts ==
  ASSUME NEW S, NEW s \in Seq(S), NEW f \in [DOMAIN s -> S]
  PROVE  f \in Seq(S)
  BY LenProperties, SeqDef

\* The records an operation writes into a row.
LEMMA NewRowFacts ==
  ASSUME NEW k \in Key, NEW q \in Request, NEW n \in Attempts
  PROVE  NewRow(k, q, n) \in Row /\ Consistent(NewRow(k, q, n))
  BY ConstantsAssumption DEF NewRow, Row, Consistent, JobStatus

LEMMA ReleasedFacts ==
  ASSUME NEW row \in Row, Consistent(row), row.status \in {"pending", "running"},
         NEW st \in JobStatus, NEW e \in ErrorClass \cup {None}, st # "running"
  PROVE  /\ [Unlocked(row) EXCEPT !.status = st, !.error = e] \in Row
         /\ st # "succeeded" =>
              Consistent([Unlocked(row) EXCEPT !.status = st, !.error = e])
  BY ConstantsAssumption DEF Unlocked, Row, Consistent

LEMMA LeaseRecord ==
  ASSUME NEW row \in Row, NEW o \in Owner, NEW n \in Nat, NEW x \in Nat, NEW a \in Nat
  PROVE  [row EXCEPT !.status = "running", !.attempt = a, !.owner = o,
                     !.token = n, !.expires = x] \in Row
  BY DEF Row, JobStatus

LEMMA LeasedFacts ==
  ASSUME TypeOK, NEW i \in Claimable, NEW o \in Owner, NEW d \in ClaimSeconds
  PROVE  Leased(i, o, d) \in Row /\ Consistent(Leased(i, o, d))
<1>1. rows[i] \in Row /\ Consistent(rows[i]) /\ rows[i].status \in {"pending", "running"}
  BY LenProperties DEF TypeOK, Claimable, Due
<1>2. Len(claims) + 1 \in Nat \ {0} /\ now + d \in Nat /\ o # None
  BY LenProperties, ConstantsAssumption DEF TypeOK
<1>3. Leased(i, o, d) \in Row
  <2>1. rows[i].attempt + 1 \in Nat
    BY <1>1 DEF Row
  <2> QED
    BY <1>1, <1>2, <2>1, LeaseRecord DEF Leased
<1>4. Consistent(Leased(i, o, d))
  <2>1. /\ Leased(i, o, d).status = "running" /\ Leased(i, o, d).owner = o
        /\ Leased(i, o, d).token = Len(claims) + 1
        /\ Leased(i, o, d).result = rows[i].result
    BY <1>1 DEF Leased, Row
  <2> QED
    BY <1>1, <1>2, <2>1 DEF Consistent
<1> QED
  BY <1>3, <1>4

LEMMA DeadLetteredFacts ==
  ASSUME TypeOK, NEW i \in DOMAIN rows, Due(i)
  PROVE  DeadLettered(i) \in Row /\ Consistent(DeadLettered(i))
<1>1. rows[i] \in Row /\ Consistent(rows[i]) /\ rows[i].status \in {"pending", "running"}
  BY LenProperties DEF TypeOK, Due
<1> QED
  BY <1>1, ReleasedFacts DEF DeadLettered, JobStatus, ErrorClass

LEMMA SucceededFacts ==
  ASSUME NEW row \in Row, Consistent(row), row.status = "running", NEW r \in Result
  PROVE  LET done == [Unlocked(row) EXCEPT !.status = "succeeded", !.result = r,
                                           !.error = None]
         IN  done \in Row /\ Consistent(done)
  BY ConstantsAssumption DEF Unlocked, Row, Consistent, JobStatus

-----------------------------------------------------------------------------
(* Type correctness *)

\* Rewriting rows in place keeps the type invariant.
LEMMA RewriteType ==
  ASSUME TypeOK, rows' \in Seq(Row), DOMAIN rows' = DOMAIN rows,
         \A i \in DOMAIN rows : rows'[i].key = rows[i].key /\ Consistent(rows'[i]),
         claims' \in Seq(ClaimedJob), now' \in Nat
  PROVE  TypeOK'
  BY DEF TypeOK, Consistent

LEMMA EnqueueType ==
  ASSUME TypeOK, NEW k \in Key, NEW q \in Request, NEW n \in Attempts, Enqueue(k, q, n)
  PROVE  TypeOK'
<1>1. NewRow(k, q, n) \in Row /\ Consistent(NewRow(k, q, n)) /\ NewRow(k, q, n).key = k
  BY NewRowFacts DEF NewRow
<1>2. /\ rows' \in Seq(Row)
      /\ DOMAIN rows = 1..Len(rows) /\ Len(rows) \in Nat
      /\ DOMAIN rows' = 1..(Len(rows) + 1)
      /\ \A i \in DOMAIN rows : rows'[i] = rows[i]
      /\ rows'[Len(rows) + 1] = NewRow(k, q, n)
  BY <1>1, AppendFacts DEF TypeOK, Enqueue
<1>3. \A i \in DOMAIN rows' : i \in DOMAIN rows \/ i = Len(rows) + 1
  BY <1>2
<1>4. \A i \in DOMAIN rows' : Consistent(rows'[i])
  BY <1>1, <1>2, <1>3 DEF TypeOK
<1>5. \A i, j \in DOMAIN rows' : rows'[i].key = rows'[j].key => i = j
  BY <1>1, <1>2, <1>3 DEF TypeOK, Enqueue
<1> QED
  BY <1>2, <1>4, <1>5 DEF TypeOK, Enqueue, Consistent

LEMMA ClaimType ==
  ASSUME TypeOK, NEW o \in Owner, NEW d \in ClaimSeconds, Claim(o, d)
  PROVE  TypeOK'
<1>1. PICK i \in Claimable :
        /\ rows' = [j \in DOMAIN rows |->
                     IF j = i THEN Leased(j, o, d)
                     ELSE IF j < i /\ Due(j) THEN DeadLettered(j)
                     ELSE rows[j]]
        /\ claims' = Append(claims,
                      [job |-> i, attempt |-> rows[i].attempt + 1, owner |-> o,
                       expires |-> now + d, verdict |-> "open"])
  BY DEF Claim
<1>2. rows[i] \in Row /\ i \in Nat \ {0} /\ now + d \in Nat
  BY LenProperties, ConstantsAssumption DEF TypeOK, Claimable
<1>3. claims' \in Seq(ClaimedJob)
  <2>1. [job |-> i, attempt |-> rows[i].attempt + 1, owner |-> o,
         expires |-> now + d, verdict |-> "open"] \in ClaimedJob
    BY <1>2 DEF ClaimedJob, Verdict, Row
  <2> QED
    BY <1>1, <2>1, AppendFacts DEF TypeOK
<1>4. \A j \in DOMAIN rows : rows[j] \in Row /\ Consistent(rows[j])
  BY LenProperties DEF TypeOK
<1>5. \A j \in DOMAIN rows : rows'[j] \in Row /\ Consistent(rows'[j])
  BY <1>1, <1>4, LeasedFacts, DeadLetteredFacts
<1>6. rows' \in Seq(Row) /\ DOMAIN rows' = DOMAIN rows
  BY <1>1, <1>5, RewriteFacts DEF TypeOK
<1>7. \A j \in DOMAIN rows : rows'[j].key = rows[j].key
  BY <1>1, <1>4 DEF Leased, DeadLettered, Unlocked, Row
<1> QED
  BY <1>3, <1>5, <1>6, <1>7, RewriteType DEF Claim, TypeOK

LEMMA ClaimNothingType ==
  ASSUME TypeOK, ClaimNothing
  PROVE  TypeOK'
<1>1. \A j \in DOMAIN rows : rows[j] \in Row /\ Consistent(rows[j])
  BY LenProperties DEF TypeOK
<1>2. \A j \in DOMAIN rows : rows'[j] \in Row /\ Consistent(rows'[j])
  BY <1>1, DeadLetteredFacts DEF ClaimNothing
<1>3. rows' \in Seq(Row) /\ DOMAIN rows' = DOMAIN rows
  BY <1>2, RewriteFacts DEF TypeOK, ClaimNothing
<1>4. \A j \in DOMAIN rows : rows'[j].key = rows[j].key
  BY <1>1 DEF ClaimNothing, DeadLettered, Unlocked, Row
<1> QED
  BY <1>2, <1>3, <1>4, RewriteType DEF ClaimNothing, TypeOK

\* The row a lease acts on, and the shape of a one-row update.
LEMMA ActiveRow ==
  ASSUME TypeOK, ClaimsInv, NEW t \in DOMAIN claims, ActiveLease(t)
  PROVE  /\ claims[t] \in ClaimedJob
         /\ claims[t].job \in DOMAIN rows
         /\ rows[claims[t].job] \in Row /\ Consistent(rows[claims[t].job])
         /\ rows[claims[t].job].status = "running"
         /\ rows[claims[t].job].token = t
         /\ rows[claims[t].job].expires > now
  BY LenProperties DEF TypeOK, ClaimsInv, ActiveLease

LEMMA OneRowType ==
  ASSUME TypeOK, NEW i \in DOMAIN rows, NEW row \in Row, Consistent(row),
         row.key = rows[i].key, rows' = [rows EXCEPT ![i] = row],
         claims' \in Seq(ClaimedJob), now' \in Nat
  PROVE  TypeOK'
  BY UpdateFacts, RewriteType DEF TypeOK

LEMMA HeartbeatType ==
  ASSUME TypeOK, ClaimsInv, NEW t \in DOMAIN claims, NEW d \in HeartbeatSeconds,
         Heartbeat(t, d)
  PROVE  TypeOK'
<1> DEFINE i == claims[t].job
           x == Later(rows[i].expires, now + d)
<1>1. ActiveLease(t) /\ rows' = [rows EXCEPT ![i].expires = x] /\ now' = now
  BY DEF Heartbeat
<1>2. /\ i \in DOMAIN rows /\ rows[i] \in Row /\ Consistent(rows[i])
      /\ claims[t] \in ClaimedJob
  BY <1>1, ActiveRow
<1>3. x \in Nat
  BY <1>2, ConstantsAssumption, SMTT(30) DEF Later, Row, TypeOK
<1>4. claims' \in Seq(ClaimedJob)
  <2>1. [claims[t] EXCEPT !.expires = x] \in ClaimedJob
    BY <1>2, <1>3 DEF ClaimedJob
  <2>2. CASE claims' = [claims EXCEPT ![t].expires = x]
    BY <2>1, <2>2, UpdateFacts DEF TypeOK
  <2> QED
    BY <2>2 DEF Heartbeat, TypeOK
<1> DEFINE row == [rows[i] EXCEPT !.expires = x]
<1>5. row \in Row /\ Consistent(row)
  BY <1>2, <1>3 DEF Row, Consistent
<1>6. row.key = rows[i].key
  BY <1>2 DEF Row
<1>7. rows' = [rows EXCEPT ![i] = row]
  BY <1>1
<1>8. now' \in Nat
  BY <1>1 DEF TypeOK
<1> HIDE DEF i, x, row
<1> QED
  BY <1>2, <1>4, <1>5, <1>6, <1>7, <1>8, OneRowType

LEMMA VerdictType ==
  ASSUME TypeOK, NEW t \in DOMAIN claims, NEW v \in Verdict
  PROVE  [claims EXCEPT ![t].verdict = v] \in Seq(ClaimedJob)
<1>1. claims[t] \in ClaimedJob
  BY LenProperties DEF TypeOK
<1>2. [claims[t] EXCEPT !.verdict = v] \in ClaimedJob
  BY <1>1 DEF ClaimedJob
<1> QED
  BY <1>2, UpdateFacts DEF TypeOK

LEMMA SucceedType ==
  ASSUME TypeOK, ClaimsInv, NEW t \in DOMAIN claims, NEW r \in Result, Succeed(t, r)
  PROVE  TypeOK'
<1> DEFINE i == claims[t].job
           done == [Unlocked(rows[i]) EXCEPT !.status = "succeeded", !.result = r,
                                             !.error = None]
<1>1. /\ i \in DOMAIN rows /\ rows[i] \in Row /\ Consistent(rows[i])
      /\ rows[i].status = "running"
  BY ActiveRow DEF Succeed
<1>2. done \in Row /\ Consistent(done)
  BY <1>1, SucceededFacts
<1>3. done.key = rows[i].key
  BY <1>1 DEF Unlocked, Row
<1>4. rows' = [rows EXCEPT ![i] = done] /\ now' = now
  BY DEF Succeed
<1>5. claims' \in Seq(ClaimedJob)
  BY VerdictType DEF Succeed, Verdict
<1>6. now' \in Nat
  BY <1>4 DEF TypeOK
<1> HIDE DEF done, i
<1> QED
  BY <1>1, <1>2, <1>3, <1>4, <1>5, <1>6, OneRowType

LEMMA RetryType ==
  ASSUME TypeOK, ClaimsInv, NEW t \in DOMAIN claims, NEW e \in Failure, Retry(t, e)
  PROVE  TypeOK'
<1> DEFINE i  == claims[t].job
           st == IF Exhausted(i) THEN "dead_lettered" ELSE "pending"
           row == [Unlocked(rows[i]) EXCEPT !.status = st, !.error = e]
<1>1. /\ i \in DOMAIN rows /\ rows[i] \in Row /\ Consistent(rows[i])
      /\ rows[i].status = "running"
  BY ActiveRow DEF Retry
<1>2. st \in JobStatus /\ st # "running" /\ st # "succeeded" /\ e \in ErrorClass
  BY ConstantsAssumption DEF JobStatus
<1>3. row.key = rows[i].key
  BY <1>1 DEF Unlocked, Row
<1>4. rows' = [rows EXCEPT ![i] = row] /\ now' = now
  BY DEF Retry
<1>5. claims' \in Seq(ClaimedJob)
  BY <1>2, VerdictType DEF Retry, Verdict
<1> HIDE DEF st
<1>6. row \in Row /\ Consistent(row)
  BY <1>1, <1>2, ReleasedFacts
<1>7. now' \in Nat
  BY <1>4 DEF TypeOK
<1> HIDE DEF row, i
<1> QED
  BY <1>1, <1>3, <1>4, <1>5, <1>6, <1>7, OneRowType

LEMMA CancelType ==
  ASSUME TypeOK, NEW i \in DOMAIN rows, Cancel(i)
  PROVE  TypeOK'
<1> DEFINE row == [Unlocked(rows[i]) EXCEPT !.status = "cancelled"]
<1>1. rows[i] \in Row /\ Consistent(rows[i]) /\ rows[i].status \in {"pending", "running"}
  BY LenProperties DEF TypeOK, Cancel
<1>2. row \in Row /\ Consistent(row) /\ row.key = rows[i].key
  BY <1>1, ConstantsAssumption DEF Unlocked, Row, Consistent, JobStatus
<1>3. rows' = [rows EXCEPT ![i] = row] /\ claims' = claims /\ now' = now
  BY DEF Cancel
<1>4. claims' \in Seq(ClaimedJob) /\ now' \in Nat
  BY <1>3 DEF TypeOK
<1> HIDE DEF row
<1> QED
  BY <1>2, <1>3, <1>4, OneRowType

LEMMA TypeStep ==
  ASSUME TypeOK, ClaimsInv, [Next]_vars
  PROVE  TypeOK'
<1>1. CASE Submit
  BY <1>1, EnqueueType DEF Submit
<1>2. CASE Poll
  BY <1>2, ClaimType, ClaimNothingType DEF Poll
<1>3. CASE Work
  BY <1>3, HeartbeatType, SucceedType, RetryType DEF Work
<1>4. CASE CancelSome
  BY <1>4, CancelType DEF CancelSome
<1>5. CASE Tick \/ SetClockBack
  BY <1>5 DEF Tick, SetClockBack, TypeOK, Consistent
<1>6. CASE UNCHANGED vars
  BY <1>6 DEF vars, TypeOK, Consistent
<1> QED
  BY <1>1, <1>2, <1>3, <1>4, <1>5, <1>6 DEF Next

-----------------------------------------------------------------------------
(* The inductive invariant *)

\* What claim does to a row it does not lease: nothing, or it dead-letters a
\* running job whose last permitted lease has run out.
Abandoned(j) ==
  /\ rows[j].status = "running" /\ rows[j].expires <= now
  /\ rows[j].attempt = rows[j].max_attempts
  /\ rows'[j].status = "dead_lettered" /\ rows'[j].error = "LeaseExpired"
  /\ rows'[j].attempt = rows[j].attempt
  /\ rows'[j].max_attempts = rows[j].max_attempts

LEMMA AbandonedFacts ==
  ASSUME Inv, NEW j \in DOMAIN rows, Due(j), Exhausted(j), rows'[j] = DeadLettered(j)
  PROVE  Abandoned(j)
<1>1. rows[j] \in Row
  BY LenProperties DEF Inv, TypeOK
<1>2. rows[j].attempt = rows[j].max_attempts /\ rows[j].status = "running"
  BY <1>1 DEF Inv, AttemptInv, Due, Exhausted, Row
<1> QED
  BY <1>1, <1>2 DEF Abandoned, DeadLettered, Unlocked, Row, Due

\* A step that only abandons rows keeps the invariant.
LEMMA AbandonInv ==
  ASSUME Inv, TypeOK', claims' = claims, DOMAIN rows' = DOMAIN rows,
         \A j \in DOMAIN rows : rows'[j] = rows[j] \/ Abandoned(j)
  PROVE  Inv'
<1>1. \A j \in DOMAIN rows : /\ rows'[j].attempt = rows[j].attempt
                            /\ rows'[j].max_attempts = rows[j].max_attempts
  BY DEF Abandoned
<1>2. ClaimsInv'
  BY <1>1 DEF Inv, ClaimsInv
<1>3. RunningInv'
  BY DEF Inv, RunningInv, Abandoned
<1>4. AttemptInv'
  BY <1>1 DEF Inv, AttemptInv, Abandoned
<1>5. SuccessInv'
  BY <1>1 DEF Inv, SuccessInv, ClaimsInv, Abandoned
<1>6. DeadLetterIsTruthful'
  BY <1>1 DEF Inv, DeadLetterIsTruthful, Abandoned, RunningInv
<1> QED
  BY <1>2, <1>3, <1>4, <1>5, <1>6 DEF Inv

LEMMA EnqueueInv ==
  ASSUME Inv, TypeOK', NEW k \in Key, NEW q \in Request, NEW n \in Attempts,
         Enqueue(k, q, n)
  PROVE  Inv'
<1>1. /\ DOMAIN rows = 1..Len(rows) /\ Len(rows) \in Nat
      /\ DOMAIN rows' = 1..(Len(rows) + 1)
      /\ \A i \in DOMAIN rows : rows'[i] = rows[i]
      /\ rows'[Len(rows) + 1] = NewRow(k, q, n)
  BY NewRowFacts, AppendFacts DEF Inv, TypeOK, Enqueue
<1>2. \A i \in DOMAIN rows' : i \in DOMAIN rows \/ i = Len(rows) + 1
  BY <1>1
<1>3. /\ NewRow(k, q, n).status = "pending" /\ NewRow(k, q, n).attempt = 0
      /\ NewRow(k, q, n).max_attempts = n /\ n \in Nat \ {0}
  BY ConstantsAssumption DEF NewRow
<1>4. claims' = claims
  BY DEF Enqueue
<1>5. ClaimsInv'
  BY <1>1, <1>4 DEF Inv, ClaimsInv
<1>6. RunningInv'
  BY <1>1, <1>2, <1>3, <1>4 DEF Inv, RunningInv
<1>7. AttemptInv'
  BY <1>1, <1>2, <1>3 DEF Inv, AttemptInv
<1>8. SuccessInv'
  BY <1>1, <1>4 DEF Inv, SuccessInv, ClaimsInv
<1>9. DeadLetterIsTruthful'
  BY <1>1, <1>2, <1>3, <1>4 DEF Inv, DeadLetterIsTruthful
<1> QED
  BY <1>5, <1>6, <1>7, <1>8, <1>9 DEF Inv

LEMMA ClaimInv ==
  ASSUME Inv, TypeOK', NEW o \in Owner, NEW d \in ClaimSeconds, Claim(o, d)
  PROVE  Inv'
<1> DEFINE n == Len(claims)
<1>1. PICK i \in Claimable :
        /\ Oldest(i)
        /\ rows' = [j \in DOMAIN rows |->
                     IF j = i THEN Leased(j, o, d)
                     ELSE IF j < i /\ Due(j) THEN DeadLettered(j)
                     ELSE rows[j]]
        /\ claims' = Append(claims,
                      [job |-> i, attempt |-> rows[i].attempt + 1, owner |-> o,
                       expires |-> now + d, verdict |-> "open"])
  BY DEF Claim
<1>2. /\ i \in DOMAIN rows /\ rows[i] \in Row /\ now + d \in Nat
      /\ DOMAIN rows \subseteq Nat \ {0}
  BY LenProperties, ConstantsAssumption DEF Inv, TypeOK, Claimable
<1>3. /\ n \in Nat /\ DOMAIN claims = 1..n /\ DOMAIN claims' = 1..(n + 1)
      /\ \A t \in DOMAIN claims : claims'[t] = claims[t]
      /\ claims'[n + 1] = [job |-> i, attempt |-> rows[i].attempt + 1, owner |-> o,
                           expires |-> now + d, verdict |-> "open"]
  <2>1. [job |-> i, attempt |-> rows[i].attempt + 1, owner |-> o,
         expires |-> now + d, verdict |-> "open"] \in ClaimedJob
    BY <1>2 DEF ClaimedJob, Verdict, Row
  <2> QED
    BY <1>1, <2>1, AppendFacts DEF Inv, TypeOK
<1>4. /\ rows'[i].status = "running" /\ rows'[i].attempt = rows[i].attempt + 1
      /\ rows'[i].max_attempts = rows[i].max_attempts
      /\ rows'[i].token = n + 1 /\ rows'[i].expires = now + d
  BY <1>1, <1>2 DEF Leased, Row
<1>5. /\ rows[i].status \in {"pending", "running"}
      /\ rows[i].attempt < rows[i].max_attempts
  BY <1>2 DEF Claimable, Due, Exhausted, Row
<1>6. DOMAIN rows' = DOMAIN rows
  BY <1>1
<1>7. \A j \in DOMAIN rows : j # i => rows'[j] = rows[j] \/ Abandoned(j)
  <2> SUFFICES ASSUME NEW j \in DOMAIN rows, j # i, rows'[j] # rows[j]
               PROVE  Abandoned(j)
    OBVIOUS
  <2>1. j < i /\ Due(j) /\ rows'[j] = DeadLettered(j)
    BY <1>1
  <2>2. Exhausted(j)
    BY <1>1, <1>2, <2>1 DEF Oldest, Claimable
  <2> QED
    BY <2>1, <2>2, AbandonedFacts
<1>8. \A t \in DOMAIN claims' : t \in DOMAIN claims \/ t = n + 1
  BY <1>3
<1>9. \A t \in DOMAIN claims : t < n + 1 /\ t \in Nat /\ claims[t] \in ClaimedJob
  BY <1>3, ElementOfSeq DEF Inv, TypeOK
<1>10. \A j \in DOMAIN rows : rows[j] \in Row
  BY LenProperties DEF Inv, TypeOK
<1> HIDE DEF n
<1>11. ClaimsInv'
  <2>1. \A j \in DOMAIN rows : rows[j].attempt <= rows'[j].attempt
    BY <1>2, <1>4, <1>7, <1>10 DEF Abandoned, Row
  <2>2. \A t \in DOMAIN claims' : /\ claims'[t].job \in DOMAIN rows'
                                 /\ claims'[t].attempt <= rows'[claims'[t].job].attempt
    <3> SUFFICES ASSUME NEW t \in DOMAIN claims'
                 PROVE  /\ claims'[t].job \in DOMAIN rows'
                        /\ claims'[t].attempt <= rows'[claims'[t].job].attempt
      OBVIOUS
    <3>1. CASE t = n + 1
      <4>1. claims'[t].job = i /\ claims'[t].attempt = rows[i].attempt + 1
        BY <1>3, <3>1
      <4> QED
        BY <1>2, <1>4, <1>6, <4>1 DEF Row
    <3>2. CASE t \in DOMAIN claims
      <4>1. /\ claims'[t] = claims[t] /\ claims[t].job \in DOMAIN rows
            /\ claims[t].attempt \in Nat
            /\ claims[t].attempt <= rows[claims[t].job].attempt
        BY <1>3, <1>9, <3>2 DEF Inv, ClaimsInv, ClaimedJob
      <4>2. /\ rows[claims[t].job].attempt \in Nat
            /\ rows'[claims[t].job].attempt \in Nat
        BY <1>2, <1>4, <1>7, <1>10, <4>1 DEF Row, Abandoned
      <4> QED
        BY <1>6, <2>1, <4>1, <4>2
    <3> QED
      BY <1>8, <3>1, <3>2
  <2>3. \A t, u \in DOMAIN claims' :
          claims'[t].job = claims'[u].job /\ t < u => claims'[t].attempt < claims'[u].attempt
    <3> SUFFICES ASSUME NEW t \in DOMAIN claims', NEW u \in DOMAIN claims',
                        claims'[t].job = claims'[u].job, t < u
                 PROVE  claims'[t].attempt < claims'[u].attempt
      OBVIOUS
    <3>1. t \in DOMAIN claims /\ claims'[t] = claims[t]
      BY <1>3, <1>8, <1>9
    <3>2. CASE u = n + 1
      <4>1. claims[t].job = i /\ claims'[u].attempt = rows[i].attempt + 1
        BY <1>3, <3>1, <3>2
      <4>2. claims[t].attempt \in Nat /\ claims[t].attempt <= rows[i].attempt
        BY <1>9, <3>1, <4>1 DEF Inv, ClaimsInv, ClaimedJob
      <4> QED
        BY <1>2, <3>1, <4>1, <4>2 DEF Row
    <3>3. CASE u \in DOMAIN claims
      BY <1>3, <3>1, <3>3 DEF Inv, ClaimsInv
    <3> QED
      BY <1>8, <3>2, <3>3
  <2> QED
    BY <2>2, <2>3 DEF ClaimsInv
<1>12. RunningInv'
  <2>1. \A j \in DOMAIN rows : j # i /\ rows'[j].status = "running" => rows'[j] = rows[j]
    BY <1>7 DEF Abandoned
  <2>2. n + 1 \in DOMAIN claims'
    BY <1>3
  <2> QED
    BY <1>2, <1>3, <1>4, <1>6, <2>1, <2>2 DEF Inv, RunningInv
<1>13. AttemptInv'
  BY <1>2, <1>4, <1>5, <1>6, <1>7 DEF Inv, AttemptInv, Abandoned, Row
<1>14. SuccessInv'
  <2>1. \A j \in DOMAIN rows : rows[j].status = "succeeded" => rows'[j] = rows[j]
    BY <1>5, <1>7 DEF Abandoned
  <2> QED
    BY <1>3, <1>8, <2>1 DEF Inv, SuccessInv, ClaimsInv
<1>15. DeadLetterIsTruthful'
  <2> SUFFICES ASSUME NEW j \in DOMAIN rows, rows'[j].status = "dead_lettered"
               PROVE  \E t \in DOMAIN claims' :
                        /\ claims'[t].job = j
                        /\ claims'[t].attempt = rows'[j].max_attempts
                        /\ rows'[j].error = IF claims'[t].verdict = "open"
                                            THEN "LeaseExpired" ELSE claims'[t].verdict
    BY <1>6 DEF DeadLetterIsTruthful
  <2>1. DOMAIN claims \subseteq DOMAIN claims'
    BY <1>3
  <2>2. j # i
    BY <1>4
  <2>3. CASE rows'[j] = rows[j]
    BY <1>3, <2>1, <2>3 DEF Inv, DeadLetterIsTruthful
  <2>4. CASE Abandoned(j)
    <3>1. /\ rows[j].token \in DOMAIN claims /\ claims[rows[j].token].job = j
          /\ claims[rows[j].token].attempt = rows'[j].max_attempts
          /\ claims[rows[j].token].verdict = "open"
      BY <2>4 DEF Inv, RunningInv, Abandoned
    <3> QED
      BY <1>3, <2>1, <2>4, <3>1 DEF Abandoned
  <2> QED
    BY <1>7, <2>2, <2>3, <2>4
<1> QED
  BY <1>11, <1>12, <1>13, <1>14, <1>15 DEF Inv

LEMMA ClaimNothingInv ==
  ASSUME Inv, TypeOK', ClaimNothing
  PROVE  Inv'
<1>1. /\ rows' = [j \in DOMAIN rows |-> IF Due(j) THEN DeadLettered(j) ELSE rows[j]]
      /\ claims' = claims /\ DOMAIN rows' = DOMAIN rows
  BY DEF ClaimNothing
<1>2. \A j \in DOMAIN rows : rows'[j] = rows[j] \/ Abandoned(j)
  BY <1>1, AbandonedFacts DEF ClaimNothing, Claimable
<1> QED
  BY <1>1, <1>2, AbandonInv

\* A running row holds the newest claim on its job.
LEMMA NewestClaim ==
  ASSUME Inv, NEW i \in DOMAIN rows, rows[i].status = "running",
         NEW u \in DOMAIN claims, claims[u].job = i
  PROVE  u <= rows[i].token
<1>1. /\ rows[i].token \in DOMAIN claims /\ claims[rows[i].token].job = i
      /\ claims[rows[i].token].attempt = rows[i].attempt
  BY DEF Inv, RunningInv
<1>2. u \in Nat /\ claims[u] \in ClaimedJob /\ rows[i] \in Row
  BY ElementOfSeq, LenProperties DEF Inv, TypeOK
<1>3. claims[u].attempt <= rows[i].attempt
  BY DEF Inv, ClaimsInv
<1>4. rows[i].token < u => rows[i].attempt < claims[u].attempt
  BY <1>1 DEF Inv, ClaimsInv
<1> QED
  BY <1>2, <1>3, <1>4 DEF Row, ClaimedJob

\* What an active lease and its row say of each other.
LEMMA ActiveClaim ==
  ASSUME Inv, NEW t \in DOMAIN claims, ActiveLease(t)
  PROVE  /\ claims[t] \in ClaimedJob /\ claims[t].verdict = "open"
         /\ claims[t].job \in DOMAIN rows
         /\ rows[claims[t].job] \in Row
         /\ rows[claims[t].job].status = "running"
         /\ rows[claims[t].job].token = t
         /\ rows[claims[t].job].attempt = claims[t].attempt
         /\ claims[t].expires <= rows[claims[t].job].expires
         /\ \A u \in DOMAIN claims :
              claims[u].job = claims[t].job => claims[u].verdict # "succeeded"
<1>1. /\ claims[t] \in ClaimedJob /\ claims[t].job \in DOMAIN rows
      /\ rows[claims[t].job] \in Row
      /\ rows[claims[t].job].status = "running" /\ rows[claims[t].job].token = t
  BY ActiveRow DEF Inv
<1>2. \A u \in DOMAIN claims :
        claims[u].job = claims[t].job => claims[u].verdict # "succeeded"
  BY <1>1 DEF Inv, SuccessInv
<1> QED
  BY <1>1, <1>2 DEF Inv, RunningInv

\* Claims that differ only in the expiry and the verdict of t.
SameClaims(t) ==
  /\ DOMAIN claims' = DOMAIN claims
  /\ \A u \in DOMAIN claims : /\ claims'[u].job = claims[u].job
                              /\ claims'[u].attempt = claims[u].attempt
                              /\ u # t => claims'[u] = claims[u]

\* Rows that differ only at i, and there in no counter.
SameRows(i) ==
  /\ DOMAIN rows' = DOMAIN rows
  /\ \A j \in DOMAIN rows : /\ rows'[j].attempt = rows[j].attempt
                            /\ rows'[j].max_attempts = rows[j].max_attempts
                            /\ j # i => rows'[j] = rows[j]

LEMMA VerdictFacts ==
  ASSUME TypeOK, NEW t \in DOMAIN claims, NEW v, claims' = [claims EXCEPT ![t].verdict = v]
  PROVE  SameClaims(t) /\ claims'[t].verdict = v /\ claims'[t].expires = claims[t].expires
<1>1. claims[t] \in ClaimedJob
  BY LenProperties DEF TypeOK
<1> QED
  BY <1>1 DEF SameClaims, ClaimedJob

LEMMA SameClaimsInv ==
  ASSUME Inv, NEW t, NEW i, SameClaims(t), SameRows(i)
  PROVE  ClaimsInv'
  BY DEF Inv, ClaimsInv, SameClaims, SameRows

\* The row of a lease leaves "running": every other running row is as before.
LEMMA OtherRunning ==
  ASSUME Inv, NEW t \in DOMAIN claims, SameClaims(t), SameRows(claims[t].job),
         rows'[claims[t].job].status # "running"
  PROVE  RunningInv'
<1> SUFFICES ASSUME NEW i \in DOMAIN rows, rows'[i].status = "running"
             PROVE  /\ rows'[i].token \in DOMAIN claims'
                    /\ claims'[rows'[i].token].job = i
                    /\ claims'[rows'[i].token].attempt = rows'[i].attempt
                    /\ claims'[rows'[i].token].verdict = "open"
                    /\ claims'[rows'[i].token].expires <= rows'[i].expires
  BY DEF RunningInv, SameRows
<1>1. i # claims[t].job /\ rows'[i] = rows[i]
  BY DEF SameRows
<1>2. /\ rows[i].token \in DOMAIN claims /\ claims[rows[i].token].job = i
      /\ claims[rows[i].token].attempt = rows[i].attempt
      /\ claims[rows[i].token].verdict = "open"
      /\ claims[rows[i].token].expires <= rows[i].expires
  BY <1>1 DEF Inv, RunningInv
<1>3. rows[i].token # t
  BY <1>1, <1>2
<1> QED
  BY <1>1, <1>2, <1>3 DEF SameClaims

LEMMA HeartbeatInv ==
  ASSUME Inv, TypeOK', NEW t \in DOMAIN claims, NEW d \in HeartbeatSeconds, Heartbeat(t, d)
  PROVE  Inv'
<1> DEFINE i == claims[t].job
           x == Later(rows[i].expires, now + d)
<1>1. ActiveLease(t) /\ rows' = [rows EXCEPT ![i].expires = x]
  BY DEF Heartbeat
<1>2. /\ claims[t] \in ClaimedJob /\ claims[t].verdict = "open" /\ i \in DOMAIN rows
      /\ rows[i] \in Row /\ rows[i].status = "running" /\ rows[i].token = t
      /\ claims[t].expires <= rows[i].expires
  BY <1>1, ActiveClaim
<1>3. x \in Nat /\ rows[i].expires <= x
  <2>1. now \in Nat /\ d \in Nat /\ rows[i].expires \in Nat
    <3>1. now \in Nat
      BY DEF Inv, TypeOK
    <3>2. d \in Nat
      BY ConstantsAssumption
    <3> QED
      BY <1>2, <3>1, <3>2 DEF Row
  <2> QED
    BY <2>1 DEF Later
<1>4. /\ SameClaims(t) /\ claims'[t].verdict = claims[t].verdict
      /\ claims'[t].expires = claims[t].expires \/ claims'[t].expires = x
  <2>1. CASE claims' = [claims EXCEPT ![t].expires = x]
    BY <1>2, <2>1 DEF SameClaims, ClaimedJob
  <2>2. CASE claims' = claims
    BY <2>2 DEF SameClaims
  <2> QED
    BY <2>1, <2>2 DEF Heartbeat
<1>5. /\ DOMAIN rows' = DOMAIN rows
      /\ \A j \in DOMAIN rows : /\ rows'[j].attempt = rows[j].attempt
                                /\ rows'[j].max_attempts = rows[j].max_attempts
                                /\ rows'[j].status = rows[j].status
                                /\ rows'[j].token = rows[j].token
                                /\ rows'[j].error = rows[j].error
                                /\ j # i => rows'[j] = rows[j]
  BY <1>1, <1>2 DEF Row
<1>6. rows'[i].expires = x
  BY <1>1, <1>2 DEF Row
<1> HIDE DEF i, x
<1>7. ClaimsInv'
  <2>1. SameRows(i)
    BY <1>5 DEF SameRows
  <2> QED
    BY <1>4, <2>1, SameClaimsInv
<1>8. RunningInv'
  <2> SUFFICES ASSUME NEW j \in DOMAIN rows, rows[j].status = "running"
               PROVE  /\ rows[j].token \in DOMAIN claims
                      /\ claims'[rows[j].token].job = j
                      /\ claims'[rows[j].token].attempt = rows[j].attempt
                      /\ claims'[rows[j].token].verdict = "open"
                      /\ claims'[rows[j].token].expires <= rows'[j].expires
    BY <1>4, <1>5 DEF RunningInv, SameClaims
  <2>1. /\ rows[j].token \in DOMAIN claims /\ claims[rows[j].token].job = j
        /\ claims[rows[j].token].attempt = rows[j].attempt
        /\ claims[rows[j].token].verdict = "open"
        /\ claims[rows[j].token].expires <= rows[j].expires
    BY DEF Inv, RunningInv
  <2>2. CASE j = i
    <3>1. claims'[t].expires <= x
      BY <1>2, <1>3, <1>4 DEF ClaimedJob, Row
    <3> QED
      BY <1>2, <1>4, <1>6, <2>1, <2>2, <3>1 DEF SameClaims
  <2>3. CASE j # i
    <3>1. rows[j].token # t
      BY <2>1, <2>3 DEF i
    <3> QED
      BY <1>4, <1>5, <2>1, <2>3, <3>1 DEF SameClaims
  <2> QED
    BY <2>2, <2>3
<1>9. AttemptInv'
  BY <1>5 DEF Inv, AttemptInv
<1>10. SuccessInv'
  BY <1>4, <1>5 DEF Inv, SuccessInv, ClaimsInv, SameClaims
<1>11. DeadLetterIsTruthful'
  BY <1>4, <1>5 DEF Inv, DeadLetterIsTruthful, SameClaims
<1> QED
  BY <1>7, <1>8, <1>9, <1>10, <1>11 DEF Inv

LEMMA SucceedInv ==
  ASSUME Inv, TypeOK', NEW t \in DOMAIN claims, NEW r \in Result, Succeed(t, r)
  PROVE  Inv'
<1> DEFINE i == claims[t].job
<1>1. /\ i \in DOMAIN rows /\ rows[i] \in Row /\ rows[i].status = "running"
      /\ rows[i].attempt = claims[t].attempt /\ claims[t].verdict = "open"
      /\ claims[t] \in ClaimedJob
  BY ActiveClaim DEF Succeed
<1>2. SameRows(i) /\ rows'[i].status = "succeeded"
  BY <1>1 DEF Succeed, SameRows, Unlocked, Row
<1>3. SameClaims(t) /\ claims'[t].verdict = "succeeded"
  BY VerdictFacts DEF Inv, Succeed
<1> HIDE DEF i
<1>4. ClaimsInv'
  BY <1>2, <1>3, SameClaimsInv
<1>5. RunningInv'
  BY <1>2, <1>3, OtherRunning DEF i
<1>6. AttemptInv'
  BY <1>2 DEF Inv, AttemptInv, SameRows
<1>7. SuccessInv'
  <2> SUFFICES ASSUME NEW u \in DOMAIN claims, claims'[u].verdict = "succeeded"
               PROVE  /\ rows'[claims[u].job].status = "succeeded"
                      /\ rows'[claims[u].job].attempt = claims[u].attempt
    BY <1>3 DEF SuccessInv, SameClaims
  <2>1. CASE u = t
    BY <1>1, <1>2, <2>1 DEF i, SameRows
  <2>2. CASE u # t
    BY <1>1, <1>2, <1>3, <2>2 DEF i, SameClaims, SameRows, Inv, SuccessInv, ClaimsInv
  <2> QED
    BY <2>1, <2>2
<1>8. DeadLetterIsTruthful'
  <2> SUFFICES ASSUME NEW j \in DOMAIN rows, rows'[j].status = "dead_lettered"
               PROVE  \E u \in DOMAIN claims :
                        /\ claims'[u].job = j
                        /\ claims'[u].attempt = rows'[j].max_attempts
                        /\ rows'[j].error = IF claims'[u].verdict = "open"
                                            THEN "LeaseExpired" ELSE claims'[u].verdict
    BY <1>2, <1>3 DEF DeadLetterIsTruthful, SameRows, SameClaims
  <2>1. j # i /\ rows'[j] = rows[j]
    BY <1>2 DEF SameRows
  <2>2. PICK u \in DOMAIN claims :
          /\ claims[u].job = j
          /\ claims[u].attempt = rows[j].max_attempts
          /\ rows[j].error = IF claims[u].verdict = "open"
                             THEN "LeaseExpired" ELSE claims[u].verdict
    BY <2>1 DEF Inv, DeadLetterIsTruthful
  <2>3. claims'[u] = claims[u]
    BY <1>3, <2>1, <2>2 DEF i, SameClaims
  <2> QED
    BY <2>1, <2>2, <2>3
<1> QED
  BY <1>4, <1>5, <1>6, <1>7, <1>8 DEF Inv

LEMMA RetryInv ==
  ASSUME Inv, TypeOK', NEW t \in DOMAIN claims, NEW e \in Failure, Retry(t, e)
  PROVE  Inv'
<1> DEFINE i == claims[t].job
<1>1. /\ i \in DOMAIN rows /\ rows[i] \in Row /\ rows[i].status = "running"
      /\ rows[i].attempt = claims[t].attempt /\ claims[t].verdict = "open"
      /\ claims[t] \in ClaimedJob
  BY ActiveClaim DEF Retry
<1>2. /\ SameRows(i)
      /\ rows'[i].status = IF Exhausted(i) THEN "dead_lettered" ELSE "pending"
      /\ rows'[i].error = e
  BY <1>1 DEF Retry, SameRows, Unlocked, Row
<1>3. SameClaims(t) /\ claims'[t].verdict = e
  BY VerdictFacts DEF Inv, Retry
<1>4. e \notin {"open", "succeeded"}
  BY ConstantsAssumption DEF ErrorClass
<1> HIDE DEF i
<1>5. ClaimsInv'
  BY <1>2, <1>3, SameClaimsInv
<1>6. RunningInv'
  BY <1>2, <1>3, OtherRunning DEF i
<1>7. rows[i].attempt <= rows[i].max_attempts
  BY <1>1 DEF Inv, AttemptInv
<1>8. AttemptInv'
  <2> SUFFICES ASSUME NEW j \in DOMAIN rows
               PROVE  /\ rows[j].attempt <= rows[j].max_attempts
                      /\ rows'[j].status = "pending" => rows[j].attempt < rows[j].max_attempts
    BY <1>2 DEF AttemptInv, SameRows
  <2>1. CASE j = i
    BY <1>1, <1>2, <1>7, <2>1 DEF Exhausted, Row
  <2>2. CASE j # i
    BY <1>2, <2>2 DEF Inv, AttemptInv, SameRows
  <2> QED
    BY <2>1, <2>2
<1>9. SuccessInv'
  <2> SUFFICES ASSUME NEW u \in DOMAIN claims, claims'[u].verdict = "succeeded"
               PROVE  /\ rows'[claims[u].job].status = "succeeded"
                      /\ rows'[claims[u].job].attempt = claims[u].attempt
    BY <1>3 DEF SuccessInv, SameClaims
  <2>1. u # t /\ claims[u].verdict = "succeeded"
    BY <1>3, <1>4 DEF SameClaims
  <2> QED
    BY <1>1, <1>2, <2>1 DEF SameRows, Inv, SuccessInv, ClaimsInv
<1>10. DeadLetterIsTruthful'
  <2> SUFFICES ASSUME NEW j \in DOMAIN rows, rows'[j].status = "dead_lettered"
               PROVE  \E u \in DOMAIN claims :
                        /\ claims'[u].job = j
                        /\ claims'[u].attempt = rows'[j].max_attempts
                        /\ rows'[j].error = IF claims'[u].verdict = "open"
                                            THEN "LeaseExpired" ELSE claims'[u].verdict
    BY <1>2, <1>3 DEF DeadLetterIsTruthful, SameRows, SameClaims
  <2>1. CASE j = i
    <3>1. rows[i].attempt >= rows[i].max_attempts
      BY <1>2, <2>1 DEF Exhausted
    <3>2. claims[t].attempt = rows[i].max_attempts
      BY <1>1, <1>7, <3>1 DEF Row
    <3>3. /\ claims'[t].job = j /\ claims'[t].attempt = rows'[j].max_attempts
          /\ rows'[j].error = claims'[t].verdict /\ claims'[t].verdict # "open"
      BY <1>1, <1>2, <1>3, <1>4, <2>1, <3>2 DEF i, SameClaims, SameRows
    <3> QED
      BY <3>3
  <2>2. CASE j # i
    <3>1. rows'[j] = rows[j]
      BY <1>2, <2>2 DEF SameRows
    <3>2. PICK u \in DOMAIN claims :
            /\ claims[u].job = j
            /\ claims[u].attempt = rows[j].max_attempts
            /\ rows[j].error = IF claims[u].verdict = "open"
                               THEN "LeaseExpired" ELSE claims[u].verdict
      BY <3>1 DEF Inv, DeadLetterIsTruthful
    <3>3. claims'[u] = claims[u]
      BY <1>3, <2>2, <3>2 DEF i, SameClaims
    <3> QED
      BY <3>1, <3>2, <3>3
  <2> QED
    BY <2>1, <2>2
<1> QED
  BY <1>5, <1>6, <1>8, <1>9, <1>10 DEF Inv

LEMMA CancelInv ==
  ASSUME Inv, TypeOK', NEW i \in DOMAIN rows, Cancel(i)
  PROVE  Inv'
<1>1. rows[i] \in Row /\ rows[i].status \in {"pending", "running"}
  BY LenProperties DEF Inv, TypeOK, Cancel
<1>2. /\ DOMAIN rows' = DOMAIN rows
      /\ \A j \in DOMAIN rows : /\ rows'[j].attempt = rows[j].attempt
                                /\ rows'[j].max_attempts = rows[j].max_attempts
                                /\ j # i => rows'[j] = rows[j]
      /\ rows'[i].status = "cancelled"
      /\ claims' = claims
  BY <1>1 DEF Cancel, Unlocked, Row
<1>3. ClaimsInv' /\ RunningInv' /\ AttemptInv'
  BY <1>2 DEF Inv, ClaimsInv, RunningInv, AttemptInv
<1>4. SuccessInv'
  BY <1>1, <1>2 DEF Inv, SuccessInv, ClaimsInv
<1>5. DeadLetterIsTruthful'
  BY <1>2 DEF Inv, DeadLetterIsTruthful
<1> QED
  BY <1>3, <1>4, <1>5 DEF Inv

LEMMA InvStep ==
  ASSUME Inv, [Next]_vars
  PROVE  Inv'
<1>0. TypeOK'
  BY TypeStep DEF Inv
<1>1. CASE Submit
  BY <1>0, <1>1, EnqueueInv DEF Submit
<1>2. CASE Poll
  BY <1>0, <1>2, ClaimInv, ClaimNothingInv DEF Poll
<1>3. CASE Work
  BY <1>0, <1>3, HeartbeatInv, SucceedInv, RetryInv DEF Work
<1>4. CASE CancelSome
  BY <1>0, <1>4, CancelInv DEF CancelSome
<1>5. CASE UNCHANGED <<rows, claims>>
  BY <1>0, <1>5 DEF Inv, ClaimsInv, RunningInv, AttemptInv, SuccessInv,
                    DeadLetterIsTruthful
<1> QED
  BY <1>1, <1>2, <1>3, <1>4, <1>5 DEF Next, Tick, SetClockBack, vars

LEMMA InvInit ==
  ASSUME Init
  PROVE  Inv
<1>1. rows \in Seq(Row) /\ claims \in Seq(ClaimedJob) /\ DOMAIN rows = {} /\ DOMAIN claims = {}
  BY DEF Init
<1> QED
  BY <1>1 DEF Init, Inv, TypeOK, ClaimsInv, RunningInv, AttemptInv, SuccessInv,
              DeadLetterIsTruthful

\* The inductive invariant holds throughout: every operation of the queue keeps
\* the rows and the leases handed out for them in agreement.
THEOREM Invariance == Spec => []Inv
<1>1. Init => Inv
  BY InvInit
<1>2. Inv /\ [Next]_vars => Inv'
  BY InvStep
<1> QED
  BY <1>1, <1>2, PTL DEF Spec

-----------------------------------------------------------------------------
(* The safety properties *)

\* The jobs table is always well typed and keeps its UNIQUE and CHECK constraints.
THEOREM TypeCorrect == Spec => []TypeOK
<1>1. Inv => TypeOK
  BY DEF Inv
<1> QED
  BY <1>1, Invariance, PTL

\* The lease of a running job is the newest one handed out for it, and a success
\* the queue accepted came from the last worker the job was leased to.
THEOREM Fencing == Spec => []LeaseFencing
<1>1. ASSUME Inv PROVE LeaseFencing
  <2>1. \A i \in DOMAIN rows : rows[i].status = "running" =>
          \A t \in DOMAIN claims : claims[t].job = i => t <= rows[i].token
    BY <1>1, NewestClaim
  <2>2. \A t, u \in DOMAIN claims :
          claims[t].verdict = "succeeded" /\ claims[u].job = claims[t].job => u <= t
    <3> SUFFICES ASSUME NEW t \in DOMAIN claims, NEW u \in DOMAIN claims,
                        claims[t].verdict = "succeeded",
                        claims[u].job = claims[t].job, t < u
                 PROVE  FALSE
      <4>1. \A v \in DOMAIN claims : v \in Nat
        BY <1>1, LenProperties DEF Inv, TypeOK
      <4> QED
        BY <4>1
    <3>1. /\ claims[t].attempt < claims[u].attempt
          /\ claims[u].attempt <= rows[claims[t].job].attempt
          /\ rows[claims[t].job].attempt = claims[t].attempt
      BY <1>1 DEF Inv, ClaimsInv, SuccessInv
    <3>2. claims[t] \in ClaimedJob /\ claims[u] \in ClaimedJob
      BY <1>1, ElementOfSeq DEF Inv, TypeOK
    <3> QED
      BY <3>1, <3>2 DEF ClaimedJob
  <2> QED
    BY <1>1, <2>1, <2>2 DEF Inv, LeaseFencing, RunningInv, SuccessInv
<1> QED
  BY <1>1, Invariance, PTL

\* A dead-lettered job used up its attempts, and its error is what ended the last.
THEOREM TruthfulDeadLetters == Spec => []DeadLetterIsTruthful
<1>1. Inv => DeadLetterIsTruthful
  BY DEF Inv
<1> QED
  BY <1>1, Invariance, PTL

-----------------------------------------------------------------------------
(* Exclusion, with a clock that is never set back *)

\* t is a claim its worker still believes in; the row agrees with it.
Believed(t) == claims[t].verdict = "open" /\ claims[t].expires > now
Honoured(t) ==
  LET row == rows[claims[t].job]
  IN  \/ row.status = "running" /\ row.token = t
      \/ row.status = "cancelled" /\ row.attempt = claims[t].attempt

LEMMA HolderFacts ==
  ASSUME Inv, HolderInv, NEW t \in DOMAIN claims, Believed(t)
  PROVE  /\ Honoured(t)
         /\ rows[claims[t].job].status = "running" => ~Due(claims[t].job)
<1> DEFINE i == claims[t].job
<1>1. Honoured(t)
  BY DEF HolderInv, Believed, Honoured
<1>2. i \in DOMAIN rows /\ rows[i] \in Row /\ claims[t] \in ClaimedJob /\ now \in Nat
  <2>1. i \in DOMAIN rows /\ claims[t] \in ClaimedJob
    BY LenProperties DEF Inv, ClaimsInv, TypeOK
  <2>2. now \in Nat /\ \A j \in DOMAIN rows : rows[j] \in Row
    BY LenProperties DEF Inv, TypeOK
  <2> QED
    BY <2>1, <2>2
<1>3. rows[i].status = "running" => claims[t].expires <= rows[i].expires
  BY <1>1, <1>2 DEF Inv, RunningInv, Honoured
<1> HIDE DEF i
<1>4. rows[i].status = "running" => ~(rows[i].expires <= now)
  BY <1>2, <1>3 DEF Believed, Row, ClaimedJob
<1> QED
  BY <1>1, <1>4 DEF Due, i

LEMMA HolderStep ==
  ASSUME Inv, HolderInv, ~ClockSetBack, [Next]_vars
  PROVE  HolderInv'
<1>0. /\ \A t \in DOMAIN claims :
           /\ t \in Nat /\ claims[t] \in ClaimedJob /\ claims[t].job \in DOMAIN rows
           /\ Believed(t) => Honoured(t)
      /\ now \in Nat /\ Len(claims) \in Nat /\ DOMAIN claims = 1..Len(claims)
  BY LenProperties, HolderFacts DEF Inv, TypeOK, ClaimsInv
<1>1. ASSUME NEW k \in Key, NEW q \in Request, NEW n \in Attempts, Enqueue(k, q, n)
      PROVE  HolderInv'
  <2>1. \A i \in DOMAIN rows : rows'[i] = rows[i]
    BY <1>1, NewRowFacts, AppendFacts DEF Inv, TypeOK, Enqueue
  <2> QED
    BY <1>0, <1>1, <2>1 DEF HolderInv, Enqueue
<1>2. ASSUME NEW o \in Owner, NEW d \in ClaimSeconds, Claim(o, d)
      PROVE  HolderInv'
  <2>1. PICK i \in Claimable :
          /\ rows' = [j \in DOMAIN rows |->
                       IF j = i THEN Leased(j, o, d)
                       ELSE IF j < i /\ Due(j) THEN DeadLettered(j)
                       ELSE rows[j]]
          /\ claims' = Append(claims,
                        [job |-> i, attempt |-> rows[i].attempt + 1, owner |-> o,
                         expires |-> now + d, verdict |-> "open"])
    BY <1>2 DEF Claim
  <2>2. i \in DOMAIN rows /\ Due(i) /\ rows[i] \in Row
    BY LenProperties DEF Claimable, Inv, TypeOK
  <2>3. rows'[i].status = "running" /\ rows'[i].token = Len(claims) + 1
    BY <2>1, <2>2 DEF Leased, Row
  <2>4. /\ DOMAIN claims' = 1..(Len(claims) + 1)
        /\ \A t \in DOMAIN claims : claims'[t] = claims[t]
        /\ claims'[Len(claims) + 1].job = i
    BY <1>0, <2>1
  <2>5. \A j \in DOMAIN rows : ~Due(j) => rows'[j] = rows[j]
    BY <2>1, <2>2
  <2> SUFFICES ASSUME NEW t \in DOMAIN claims', Believed(t)'
               PROVE  Honoured(t)'
    BY DEF HolderInv, Believed, Honoured
  <2>6. CASE t = Len(claims) + 1
    BY <2>3, <2>4, <2>6 DEF Honoured
  <2>7. CASE t \in DOMAIN claims
    <3>1. Believed(t)
      BY <1>2, <2>4, <2>7 DEF Believed, Claim
    <3>2. ~Due(claims[t].job)
      BY <2>7, <3>1, HolderFacts DEF Honoured, Due
    <3>3. rows'[claims[t].job] = rows[claims[t].job]
      BY <1>0, <2>5, <2>7, <3>2
    <3> QED
      BY <1>0, <2>4, <2>7, <3>1, <3>3 DEF Honoured
  <2> QED
    BY <1>0, <2>4, <2>6, <2>7
<1>3. ASSUME ClaimNothing
      PROVE  HolderInv'
  <2> SUFFICES ASSUME NEW t \in DOMAIN claims, Believed(t)
               PROVE  Honoured(t)'
    BY <1>3 DEF HolderInv, Believed, Honoured, ClaimNothing
  <2>1. ~Due(claims[t].job)
    BY HolderFacts DEF Honoured, Due
  <2>2. rows'[claims[t].job] = rows[claims[t].job] /\ claims' = claims
    BY <1>0, <1>3, <2>1 DEF ClaimNothing
  <2> QED
    BY <1>0, <2>2 DEF Honoured
<1>4. ASSUME NEW t \in DOMAIN claims, NEW d \in HeartbeatSeconds, Heartbeat(t, d)
      PROVE  HolderInv'
  <2> DEFINE i == claims[t].job
  <2>1. /\ i \in DOMAIN rows /\ rows[i] \in Row
        /\ rows[i].status = "running" /\ rows[i].token = t
    BY <1>4, ActiveClaim DEF Heartbeat
  <2>2. /\ DOMAIN rows' = DOMAIN rows /\ now' = now
        /\ \A j \in DOMAIN rows : /\ rows'[j].status = rows[j].status
                                  /\ rows'[j].token = rows[j].token
                                  /\ rows'[j].attempt = rows[j].attempt
    BY <1>4, <2>1 DEF Heartbeat, Row
  <2>3. SameClaims(t)
    <3>1. CASE claims' = [claims EXCEPT ![t].expires = Later(rows[i].expires, now + d)]
      BY <1>0, <3>1 DEF SameClaims, ClaimedJob
    <3> QED
      BY <1>4, <3>1 DEF Heartbeat, SameClaims
  <2> HIDE DEF i
  <2> SUFFICES ASSUME NEW u \in DOMAIN claims, Believed(u)'
               PROVE  Honoured(u)'
    BY <2>3 DEF HolderInv, Believed, Honoured, SameClaims
  <2>4. CASE u = t
    BY <2>1, <2>2, <2>3, <2>4 DEF i, Honoured, SameClaims
  <2>5. CASE u # t
    <3>1. Honoured(u) /\ claims'[u] = claims[u]
      BY <1>0, <2>2, <2>3, <2>5 DEF Believed, SameClaims
    <3> QED
      BY <1>0, <2>2, <3>1 DEF Honoured
  <2> QED
    BY <2>4, <2>5
<1>5. ASSUME NEW t \in DOMAIN claims, SameClaims(t), claims'[t].verdict # "open",
             SameRows(claims[t].job), rows[claims[t].job].status = "running",
             rows[claims[t].job].token = t, now' = now
      PROVE  HolderInv'
  <2> SUFFICES ASSUME NEW u \in DOMAIN claims, Believed(u)'
               PROVE  Honoured(u)'
    BY <1>5 DEF HolderInv, Believed, Honoured, SameClaims
  <2>1. u # t /\ claims'[u] = claims[u] /\ Believed(u) /\ Honoured(u)
    BY <1>0, <1>5 DEF Believed, SameClaims
  <2>2. claims[u].job # claims[t].job
    BY <1>5, <2>1 DEF Honoured
  <2>3. rows'[claims[u].job] = rows[claims[u].job]
    BY <1>0, <1>5, <2>2 DEF SameRows
  <2> QED
    BY <2>1, <2>3 DEF Honoured
<1>6. ASSUME NEW t \in DOMAIN claims, NEW r \in Result, Succeed(t, r)
      PROVE  HolderInv'
  <2>1. /\ claims[t].job \in DOMAIN rows /\ rows[claims[t].job] \in Row
        /\ rows[claims[t].job].status = "running" /\ rows[claims[t].job].token = t
    BY <1>6, ActiveClaim DEF Succeed
  <2>2. SameClaims(t) /\ claims'[t].verdict = "succeeded"
    BY <1>6, VerdictFacts DEF Inv, Succeed
  <2>3. SameRows(claims[t].job) /\ now' = now
    BY <1>6, <2>1 DEF Succeed, SameRows, Unlocked, Row
  <2> QED
    BY <1>5, <2>1, <2>2, <2>3
<1>7. ASSUME NEW t \in DOMAIN claims, NEW e \in Failure, Retry(t, e)
      PROVE  HolderInv'
  <2>1. /\ claims[t].job \in DOMAIN rows /\ rows[claims[t].job] \in Row
        /\ rows[claims[t].job].status = "running" /\ rows[claims[t].job].token = t
    BY <1>7, ActiveClaim DEF Retry
  <2>2. SameClaims(t) /\ claims'[t].verdict # "open"
    BY <1>7, VerdictFacts, ConstantsAssumption DEF Inv, Retry, ErrorClass
  <2>3. SameRows(claims[t].job) /\ now' = now
    BY <1>7, <2>1 DEF Retry, SameRows, Unlocked, Row
  <2> QED
    BY <1>5, <2>1, <2>2, <2>3
<1>8. ASSUME NEW i \in DOMAIN rows, Cancel(i)
      PROVE  HolderInv'
  <2>1. rows[i] \in Row
    BY LenProperties DEF Inv, TypeOK
  <2>2. /\ \A j \in DOMAIN rows : j # i => rows'[j] = rows[j]
        /\ rows'[i].status = "cancelled" /\ rows'[i].attempt = rows[i].attempt
        /\ rows[i].status \in {"pending", "running"}
        /\ claims' = claims /\ now' = now
    BY <1>8, <2>1 DEF Cancel, Unlocked, Row
  <2> SUFFICES ASSUME NEW t \in DOMAIN claims, Believed(t)
               PROVE  Honoured(t)'
    BY <2>2 DEF HolderInv, Believed, Honoured
  <2>3. Honoured(t) /\ claims[t].job \in DOMAIN rows
    BY <1>0
  <2>4. CASE claims[t].job = i
    <3>1. rows[i].status = "running" /\ rows[i].token = t
      BY <2>2, <2>3, <2>4 DEF Honoured
    <3>2. rows[i].attempt = claims[t].attempt
      BY <3>1 DEF Inv, RunningInv
    <3> QED
      BY <2>2, <2>4, <3>2 DEF Honoured
  <2>5. CASE claims[t].job # i
    BY <2>2, <2>3, <2>5 DEF Honoured
  <2> QED
    BY <2>4, <2>5
<1>9. CASE Tick
  <2>1. \A t \in DOMAIN claims : claims[t].expires > now + 1 => claims[t].expires > now
    BY <1>0 DEF ClaimedJob
  <2> QED
    BY <1>9, <2>1 DEF Tick, HolderInv
<1>10. CASE UNCHANGED vars
  BY <1>10 DEF vars, HolderInv
<1> QED
  BY <1>1, <1>2, <1>3, <1>4, <1>6, <1>7, <1>8, <1>9, <1>10
  DEF Next, Submit, Poll, Work, CancelSome, SetClockBack

\* If the clock is never set back, two workers never both believe, with an
\* unexpired lease in hand, that they run the same job.
THEOREM OneHolder ==
  ASSUME ~ClockSetBack
  PROVE  Spec => []AtMostOneHolder
<1>1. Init => HolderInv
  BY DEF Init, HolderInv
<1>2. Inv /\ HolderInv /\ [Next]_vars => HolderInv'
  BY HolderStep
<1>3. Inv /\ HolderInv => AtMostOneHolder
  <2> SUFFICES ASSUME Inv, HolderInv PROVE AtMostOneHolder
    OBVIOUS
  <2> SUFFICES ASSUME NEW t \in DOMAIN claims, NEW u \in DOMAIN claims,
                      claims[t].job = claims[u].job, Believed(t), Believed(u)
               PROVE  t = u
    BY DEF AtMostOneHolder, Believed
  <2>1. Honoured(t) /\ Honoured(u)
    BY HolderFacts
  <2>2. t \in Nat /\ u \in Nat /\ claims[t] \in ClaimedJob /\ claims[u] \in ClaimedJob
    BY ElementOfSeq, LenProperties DEF Inv, TypeOK
  <2>3. CASE rows[claims[t].job].status = "running"
    BY <2>1, <2>3 DEF Honoured
  <2>4. CASE rows[claims[t].job].status = "cancelled"
    <3>1. claims[t].attempt = claims[u].attempt
      BY <2>1, <2>4 DEF Honoured
    <3>2. ~(t < u) /\ ~(u < t)
      BY <2>2, <3>1 DEF Inv, ClaimsInv, ClaimedJob
    <3> QED
      BY <2>2, <3>2
  <2> QED
    BY <2>1, <2>3, <2>4 DEF Honoured
<1> QED
  BY <1>1, <1>2, <1>3, Invariance, PTL DEF Spec

-----------------------------------------------------------------------------
(* What each operation does to the rows, field by field *)

\* The fields no operation rewrites.
KeepsRow(j) ==
  /\ rows'[j].key = rows[j].key
  /\ rows'[j].request = rows[j].request
  /\ rows'[j].max_attempts = rows[j].max_attempts

\* Nothing a submitter can see of row j changes: at most it waits or runs.
Unseen(j) ==
  /\ KeepsRow(j)
  /\ rows'[j].attempt = rows[j].attempt
  /\ rows'[j].result = rows[j].result
  /\ Phase(j)' = Phase(j)

Ends(j, how) ==
  /\ KeepsRow(j)
  /\ rows'[j].attempt = rows[j].attempt
  /\ Phase(j) = "open" /\ Phase(j)' = how

\* Row j is dead-lettered, its attempts used up.
Buried(j) ==
  /\ Ends(j, "dead_lettered")
  /\ rows'[j].result = rows[j].result
  /\ rows[j].attempt = rows[j].max_attempts

\* A submitter sees a change in no row but those of D.
OnlyIn(D) == \A j \in DOMAIN rows \ D : Unseen(j)

LEMMA RowFacts ==
  ASSUME Inv
  PROVE  /\ DOMAIN rows = 1..Len(rows) /\ Len(rows) \in Nat
         /\ \A j \in DOMAIN rows : rows[j] \in Row
  BY LenProperties DEF Inv, TypeOK

LEMMA SameRowUnseen ==
  ASSUME NEW j, rows'[j] = rows[j]
  PROVE  Unseen(j)
  BY DEF Unseen, KeepsRow, Phase

LEMMA DeadLetteredRow ==
  ASSUME Inv, NEW j \in DOMAIN rows, Due(j), Exhausted(j), rows'[j] = DeadLettered(j)
  PROVE  Buried(j)
<1>1. rows[j] \in Row
  BY RowFacts
<1>2. Abandoned(j)
  BY AbandonedFacts
<1>3. KeepsRow(j) /\ rows'[j].result = rows[j].result
  BY <1>1 DEF DeadLettered, Unlocked, KeepsRow, Row
<1> QED
  BY <1>2, <1>3 DEF Abandoned, Buried, Ends, Phase, Terminal

LEMMA ClaimRows ==
  ASSUME Inv, NEW o \in Owner, NEW d \in ClaimSeconds, Claim(o, d)
  PROVE  \E i \in DOMAIN rows :
           /\ KeepsRow(i) /\ rows'[i].result = rows[i].result
           /\ Phase(i) = "open" /\ Phase(i)' = "open"
           /\ rows[i].attempt < rows[i].max_attempts
           /\ rows'[i].attempt = rows[i].attempt + 1
           /\ DOMAIN rows' = DOMAIN rows
           /\ \A j \in DOMAIN rows \ {i} : Unseen(j) \/ Buried(j)
<1>1. PICK i \in Claimable :
        /\ Oldest(i)
        /\ rows' = [j \in DOMAIN rows |->
                     IF j = i THEN Leased(j, o, d)
                     ELSE IF j < i /\ Due(j) THEN DeadLettered(j)
                     ELSE rows[j]]
  BY DEF Claim
<1>2. i \in DOMAIN rows /\ Due(i) /\ ~Exhausted(i) /\ rows[i] \in Row
  BY RowFacts DEF Claimable
<1>3. /\ KeepsRow(i) /\ rows'[i].result = rows[i].result
      /\ rows'[i].status = "running" /\ rows'[i].attempt = rows[i].attempt + 1
  BY <1>1, <1>2 DEF Leased, KeepsRow, Row
<1>4. Phase(i) = "open" /\ Phase(i)' = "open"
  BY <1>2, <1>3 DEF Phase, Due, Terminal
<1>5. rows[i].attempt < rows[i].max_attempts
  BY <1>2 DEF Exhausted, Row
<1>6. \A j \in DOMAIN rows \ {i} : Unseen(j) \/ Buried(j)
  <2> SUFFICES ASSUME NEW j \in DOMAIN rows \ {i}
               PROVE  Unseen(j) \/ Buried(j)
    OBVIOUS
  <2>1. CASE j < i /\ Due(j)
    <3>1. ~(i <= j)
      BY <1>2, <2>1, RowFacts
    <3>2. Exhausted(j)
      BY <1>1, <2>1, <3>1 DEF Oldest, Claimable
    <3> QED
      BY <1>1, <2>1, <3>2, DeadLetteredRow
  <2>2. CASE ~(j < i /\ Due(j))
    BY <1>1, <2>2, SameRowUnseen
  <2> QED
    BY <2>1, <2>2
<1> QED
  BY <1>1, <1>2, <1>3, <1>4, <1>5, <1>6

LEMMA ClaimNothingRows ==
  ASSUME Inv, ClaimNothing
  PROVE  /\ DOMAIN rows' = DOMAIN rows
         /\ \A j \in DOMAIN rows : Unseen(j) \/ Buried(j)
<1>1. \A j \in DOMAIN rows : Due(j) => Exhausted(j)
  BY DEF ClaimNothing, Claimable
<1> QED
  BY <1>1, DeadLetteredRow, SameRowUnseen DEF ClaimNothing

LEMMA HeartbeatRows ==
  ASSUME Inv, NEW t \in DOMAIN claims, NEW d \in HeartbeatSeconds, Heartbeat(t, d)
  PROVE  DOMAIN rows' = DOMAIN rows /\ OnlyIn({})
<1>1. /\ claims[t].job \in DOMAIN rows
      /\ rows' = [rows EXCEPT ![claims[t].job].expires =
                    Later(rows[claims[t].job].expires, now + d)]
  BY ActiveClaim DEF Heartbeat
<1>2. \A j \in DOMAIN rows :
        /\ KeepsRow(j) /\ rows'[j].attempt = rows[j].attempt
        /\ rows'[j].result = rows[j].result /\ rows'[j].status = rows[j].status
  BY <1>1, RowFacts DEF KeepsRow, Row
<1> QED
  BY <1>1, <1>2 DEF OnlyIn, Unseen, Phase

LEMMA SucceedRows ==
  ASSUME Inv, NEW t \in DOMAIN claims, NEW r \in Result, Succeed(t, r)
  PROVE  \E i \in DOMAIN rows :
           /\ DOMAIN rows' = DOMAIN rows /\ OnlyIn({i})
           /\ Ends(i, "succeeded")
           /\ rows[i].attempt > 0 /\ rows'[i].result = r
<1>0. PICK i \in DOMAIN rows : i = claims[t].job
  BY ActiveClaim DEF Succeed
<1>1. /\ i \in DOMAIN rows /\ rows[i] \in Row /\ rows[i].status = "running"
      /\ rows[i].attempt > 0
  <2>1. ActiveLease(t)
    BY DEF Succeed
  <2>2. claims[t].attempt \in Nat \ {0} /\ rows[i].attempt = claims[t].attempt
    BY <1>0, <2>1, ActiveClaim DEF ClaimedJob
  <2> QED
    BY <1>0, <2>1, <2>2, ActiveClaim
<1>2. rows' = [rows EXCEPT ![i] = [Unlocked(rows[i]) EXCEPT
                 !.status = "succeeded", !.result = r, !.error = None]]
  BY <1>0 DEF Succeed
<1>3. DOMAIN rows' = DOMAIN rows /\ \A j \in DOMAIN rows \ {i} : rows'[j] = rows[j]
  BY <1>2
<1>4. /\ KeepsRow(i) /\ rows'[i].attempt = rows[i].attempt /\ rows'[i].result = r
      /\ rows'[i].status = "succeeded"
  BY <1>1, <1>2 DEF KeepsRow, Unlocked, Row
<1>5. Ends(i, "succeeded")
  BY <1>1, <1>4 DEF Ends, Phase, Terminal
<1> QED
  BY <1>1, <1>3, <1>4, <1>5, SameRowUnseen DEF OnlyIn

LEMMA RetryRows ==
  ASSUME Inv, NEW t \in DOMAIN claims, NEW e \in Failure, Retry(t, e)
  PROVE  /\ DOMAIN rows' = DOMAIN rows
         /\ \A j \in DOMAIN rows : Unseen(j) \/ Buried(j)
<1>0. PICK i \in DOMAIN rows : i = claims[t].job
  BY ActiveClaim DEF Retry
<1>1. i \in DOMAIN rows /\ rows[i] \in Row /\ rows[i].status = "running"
  BY <1>0, ActiveClaim DEF Retry
<1>2. rows' = [rows EXCEPT ![i] = [Unlocked(rows[i]) EXCEPT
                 !.status = IF Exhausted(i) THEN "dead_lettered" ELSE "pending",
                 !.error = e]]
  BY <1>0 DEF Retry
<1>3. DOMAIN rows' = DOMAIN rows /\ \A j \in DOMAIN rows \ {i} : rows'[j] = rows[j]
  BY <1>2
<1>4. /\ KeepsRow(i) /\ rows'[i].attempt = rows[i].attempt
      /\ rows'[i].result = rows[i].result
      /\ rows'[i].status = IF Exhausted(i) THEN "dead_lettered" ELSE "pending"
  BY <1>1, <1>2 DEF KeepsRow, Unlocked, Row
<1>5. CASE Exhausted(i)
  <2>1. rows[i].attempt = rows[i].max_attempts
    BY <1>1, <1>5 DEF Inv, AttemptInv, Exhausted, Row
  <2>2. rows'[i].status = "dead_lettered"
    BY <1>4, <1>5
  <2>3. Phase(i) = "open" /\ Phase(i)' = "dead_lettered"
    BY <1>1, <2>2 DEF Phase, Terminal
  <2>4. Buried(i)
    BY <1>4, <2>1, <2>3 DEF Buried, Ends
  <2> QED
    BY <1>3, <2>4, SameRowUnseen
<1>6. CASE ~Exhausted(i)
  <2>1. rows'[i].status = "pending"
    BY <1>4, <1>6
  <2>2. Unseen(i)
    BY <1>1, <1>4, <2>1 DEF Unseen, Phase, Terminal
  <2> QED
    BY <1>3, <2>2, SameRowUnseen
<1> QED
  BY <1>5, <1>6

LEMMA CancelRows ==
  ASSUME Inv, NEW i \in DOMAIN rows, Cancel(i)
  PROVE  /\ DOMAIN rows' = DOMAIN rows /\ OnlyIn({i})
         /\ Ends(i, "cancelled") /\ rows'[i].result = rows[i].result
<1>1. rows[i] \in Row /\ rows[i].status \in {"pending", "running"}
  BY RowFacts DEF Cancel
<1>2. DOMAIN rows' = DOMAIN rows /\ \A j \in DOMAIN rows \ {i} : rows'[j] = rows[j]
  BY DEF Cancel
<1>3. /\ KeepsRow(i) /\ rows'[i].attempt = rows[i].attempt
      /\ rows'[i].result = rows[i].result /\ rows'[i].status = "cancelled"
  BY <1>1 DEF Cancel, KeepsRow, Unlocked, Row
<1>4. Ends(i, "cancelled")
  BY <1>1, <1>3 DEF Ends, Phase, Terminal
<1> QED
  BY <1>2, <1>3, <1>4, SameRowUnseen DEF OnlyIn

LEMMA EnqueueRows ==
  ASSUME Inv, NEW k \in Key, NEW q \in Request, NEW n \in Attempts, Enqueue(k, q, n)
  PROVE  \E i \in DOMAIN rows' :
           /\ DOMAIN rows' = DOMAIN rows \cup {i}
           /\ \A j \in DOMAIN rows : rows'[j] = rows[j] /\ rows[j].key # k
           /\ rows'[i] = NewRow(k, q, n)
<1>1. NewRow(k, q, n) \in Row /\ rows \in Seq(Row)
  BY NewRowFacts DEF Inv, TypeOK
<1>2. /\ DOMAIN rows' = DOMAIN rows \cup {Len(rows) + 1}
      /\ \A j \in DOMAIN rows : rows'[j] = rows[j]
      /\ rows'[Len(rows) + 1] = NewRow(k, q, n)
  BY <1>1, AppendFacts DEF Enqueue
<1> QED
  BY <1>2 DEF Enqueue

-----------------------------------------------------------------------------
(* First in, first out *)

\* What the order of submission asks of a step that leases job i.
InTurn(i) ==
  \A j \in 1..(i - 1) :
    /\ rows[j].status # "pending"
    /\ (rows[j].status = "running" /\ rows[j].expires <= now)
         => rows'[j].status = "dead_lettered"

LEMMA ClaimInOrder ==
  ASSUME Inv, NEW o \in Owner, NEW d \in ClaimSeconds, Claim(o, d),
         NEW i \in DOMAIN rows, rows'[i].attempt > rows[i].attempt
  PROVE  InTurn(i)
<1>1. PICK c \in Claimable :
        /\ Oldest(c)
        /\ rows' = [j \in DOMAIN rows |->
                     IF j = c THEN Leased(j, o, d)
                     ELSE IF j < c /\ Due(j) THEN DeadLettered(j)
                     ELSE rows[j]]
  BY DEF Claim
<1>2. \A j \in DOMAIN rows : rows[j] \in Row /\ j \in Nat \ {0}
  BY LenProperties DEF Inv, TypeOK
<1>3. DOMAIN rows = 1..Len(rows) /\ Len(rows) \in Nat /\ c \in DOMAIN rows
  BY LenProperties DEF Inv, TypeOK, Claimable
<1>4. i = c
  <2>1. \A j \in DOMAIN rows : DeadLettered(j).attempt = rows[j].attempt
    BY <1>2 DEF DeadLettered, Unlocked, Row
  <2>2. \A j \in DOMAIN rows : j # c => rows'[j].attempt = rows[j].attempt
    BY <1>1, <2>1
  <2>3. rows[i].attempt \in Nat
    BY <1>2 DEF Row
  <2> QED
    BY <2>2, <2>3
<1> SUFFICES ASSUME NEW j \in 1..(i - 1)
             PROVE  /\ rows[j].status # "pending"
                    /\ (rows[j].status = "running" /\ rows[j].expires <= now)
                         => rows'[j].status = "dead_lettered"
  BY DEF InTurn
<1>5. j \in DOMAIN rows /\ j < c /\ ~(c <= j)
  BY <1>3, <1>4
<1>6. Due(j) => Exhausted(j)
  BY <1>1, <1>5 DEF Oldest, Claimable
<1>7. rows[j].attempt < rows[j].max_attempts => ~Exhausted(j)
  BY <1>2, <1>5 DEF Exhausted, Row
<1>8. rows[j].status # "pending"
  BY <1>5, <1>6, <1>7 DEF Inv, AttemptInv, Due
<1>9. ASSUME Due(j)
      PROVE  rows'[j].status = "dead_lettered"
  <2>1. rows'[j] = DeadLettered(j)
    BY <1>1, <1>5, <1>9
  <2> QED
    BY <1>2, <1>5, <2>1 DEF DeadLettered, Unlocked, Row
<1> QED
  BY <1>8, <1>9 DEF Due

\* Only claim starts a run.
LEMMA SameAttempts ==
  ASSUME Inv, [Next]_vars, ~(\E o \in Owner, d \in ClaimSeconds : Claim(o, d)),
         NEW i \in DOMAIN rows
  PROVE  rows'[i].attempt = rows[i].attempt
<1>1. CASE Submit
  BY <1>1, EnqueueRows DEF Submit
<1>2. CASE ClaimNothing
  BY <1>2, ClaimNothingRows DEF Unseen, Buried, Ends
<1>3. CASE Work
  <2>1. ASSUME NEW t \in DOMAIN claims, NEW d \in HeartbeatSeconds, Heartbeat(t, d)
        PROVE  rows'[i].attempt = rows[i].attempt
    BY <2>1, HeartbeatRows DEF OnlyIn, Unseen
  <2>2. ASSUME NEW t \in DOMAIN claims, NEW r \in Result, Succeed(t, r)
        PROVE  rows'[i].attempt = rows[i].attempt
    BY <2>2, SucceedRows DEF OnlyIn, Unseen, Ends
  <2>3. ASSUME NEW t \in DOMAIN claims, NEW e \in Failure, Retry(t, e)
        PROVE  rows'[i].attempt = rows[i].attempt
    BY <2>3, RetryRows DEF Unseen, Buried, Ends
  <2> QED
    BY <1>3, <2>1, <2>2, <2>3 DEF Work
<1>4. CASE CancelSome
  BY <1>4, CancelRows DEF CancelSome, OnlyIn, Unseen, Ends
<1> QED
  BY <1>1, <1>2, <1>3, <1>4 DEF Next, Poll, Tick, SetClockBack, vars

\* First in, first out: a claim never starts a job while an older one is pending or
\* has been abandoned, except that it dead-letters those without attempts.
THEOREM InOrder == Spec => NoOvertaking
<1>1. ASSUME Inv, [Next]_vars, NEW i \in DOMAIN rows, rows'[i].attempt > rows[i].attempt
      PROVE  InTurn(i)
  <2>1. rows[i].attempt \in Nat
    BY <1>1, RowFacts DEF Row
  <2> QED
    BY <1>1, <2>1, ClaimInOrder, SameAttempts
<1>2. Inv /\ [Next]_vars =>
        [\A i \in DOMAIN rows : rows'[i].attempt > rows[i].attempt =>
           \A j \in 1..(i - 1) :
             /\ rows[j].status # "pending"
             /\ (rows[j].status = "running" /\ rows[j].expires <= now)
                  => rows'[j].status = "dead_lettered"]_vars
  BY <1>1 DEF InTurn
<1> QED
  BY <1>2, Invariance, PTL DEF Spec, NoOvertaking

-----------------------------------------------------------------------------
(* The refinement of JobLedger *)

\* The state of the ledger, key by key, and what it is with and without a row.
PhaseOf(k)   == ViewOf(k, "unknown", Phase)
RequestOf(k) == ViewOf(k, None, LAMBDA i : rows[i].request)
LimitOf(k)   == ViewOf(k, 0, LAMBDA i : rows[i].max_attempts)
RunsOf(k)    == ViewOf(k, 0, LAMBDA i : rows[i].attempt)
AnswerOf(k)  == ViewOf(k, None, LAMBDA i : rows[i].result)

Sees(k, i) ==
  /\ PhaseOf(k) = Phase(i)
  /\ RequestOf(k) = rows[i].request
  /\ LimitOf(k) = rows[i].max_attempts
  /\ RunsOf(k) = rows[i].attempt
  /\ AnswerOf(k) = rows[i].result

SeesNothing(k) ==
  /\ PhaseOf(k) = "unknown" /\ RequestOf(k) = None
  /\ LimitOf(k) = 0 /\ RunsOf(k) = 0 /\ AnswerOf(k) = None

LEMMA KnownKey ==
  ASSUME TypeOK, NEW i \in DOMAIN rows
  PROVE  Sees(rows[i].key, i)
<1>1. RowsOf(rows[i].key) = {i}
  BY DEF TypeOK, RowsOf
<1> QED
  BY <1>1 DEF Sees, PhaseOf, RequestOf, LimitOf, RunsOf, AnswerOf, ViewOf

LEMMA KnownKeyNext ==
  ASSUME TypeOK', NEW i \in DOMAIN rows', NEW k, rows'[i].key = k
  PROVE  Sees(k, i)'
<1>1. RowsOf(k)' = {i}
  BY DEF TypeOK, RowsOf
<1> QED
  BY <1>1 DEF Sees, PhaseOf, RequestOf, LimitOf, RunsOf, AnswerOf, ViewOf

LEMMA UnknownKey ==
  ASSUME NEW k, \A i \in DOMAIN rows : rows[i].key # k
  PROVE  SeesNothing(k)
<1>1. RowsOf(k) = {}
  BY DEF RowsOf
<1> QED
  BY <1>1 DEF SeesNothing, PhaseOf, RequestOf, LimitOf, RunsOf, AnswerOf, ViewOf

LEMMA UnknownKeyNext ==
  ASSUME NEW k, \A i \in DOMAIN rows' : rows'[i].key # k
  PROVE  SeesNothing(k)'
<1>1. RowsOf(k)' = {}
  BY DEF RowsOf
<1> QED
  BY <1>1 DEF SeesNothing, PhaseOf, RequestOf, LimitOf, RunsOf, AnswerOf, ViewOf

SameView(k) ==
  /\ PhaseOf(k)' = PhaseOf(k) /\ RequestOf(k)' = RequestOf(k)
  /\ LimitOf(k)' = LimitOf(k) /\ RunsOf(k)' = RunsOf(k)
  /\ AnswerOf(k)' = AnswerOf(k)

\* A step that rewrites rows in place, seen by a submitter of key k.
LEMMA InPlaceViews ==
  ASSUME TypeOK, TypeOK', DOMAIN rows' = DOMAIN rows,
         \A j \in DOMAIN rows : KeepsRow(j), NEW k
  PROVE  \/ SameView(k) /\ SeesNothing(k)
         \/ \E j \in DOMAIN rows : /\ rows[j].key = k
                                   /\ Sees(k, j) /\ Sees(k, j)'
<1>1. CASE \A i \in DOMAIN rows : rows[i].key # k
  <2>1. \A i \in DOMAIN rows' : rows'[i].key # k
    BY <1>1 DEF KeepsRow
  <2>2. SeesNothing(k) /\ SeesNothing(k)'
    BY <1>1, <2>1, UnknownKey, UnknownKeyNext
  <2> QED
    BY <2>2 DEF SeesNothing, SameView
<1>2. ASSUME NEW i \in DOMAIN rows, rows[i].key = k
      PROVE  Sees(k, i) /\ Sees(k, i)'
  <2>1. rows'[i].key = k
    BY <1>2 DEF KeepsRow
  <2> QED
    BY <1>2, <2>1, KnownKey, KnownKeyNext
<1> QED
  BY <1>1, <1>2

\* How a row fares, its submitter sees.
LEMMA UnseenView ==
  ASSUME NEW k, NEW j, Sees(k, j), Sees(k, j)', Unseen(j)
  PROVE  SameView(k)
  BY DEF Sees, SameView, Unseen, KeepsRow

LEMMA BuriedView ==
  ASSUME NEW k, NEW j, Sees(k, j), Sees(k, j)', Buried(j)
  PROVE  /\ PhaseOf(k) = "open" /\ PhaseOf(k)' = "dead_lettered"
         /\ RunsOf(k) = LimitOf(k)
         /\ RequestOf(k)' = RequestOf(k) /\ LimitOf(k)' = LimitOf(k)
         /\ RunsOf(k)' = RunsOf(k) /\ AnswerOf(k)' = AnswerOf(k)
  BY DEF Sees, Buried, Ends, KeepsRow

\* The actions of the ledger, one key at a time.
LEMMA StutterView ==
  ASSUME \A k \in Key : SameView(k)
  PROVE  UNCHANGED Ledger!ledgerVars
  BY DEF SameView, Ledger!ledgerVars, PhaseOf, RequestOf, LimitOf, RunsOf, AnswerOf

BuriedKeys == {k \in Key : PhaseOf(k) = "open" /\ PhaseOf(k)' = "dead_lettered"}

LEMMA BuryView ==
  ASSUME NEW D \in SUBSET Key,
         \A k \in Key : PhaseOf(k)' = IF k \in D THEN "dead_lettered" ELSE PhaseOf(k)
  PROVE  Ledger!Bury(D)
  BY DEF Ledger!Bury, PhaseOf

LEMMA SpentView ==
  ASSUME NEW D \in SUBSET Key,
         \A k \in D : PhaseOf(k) = "open" /\ RunsOf(k) = LimitOf(k)
  PROVE  D \in SUBSET Ledger!Spent
  BY DEF Ledger!Spent, PhaseOf, RunsOf, LimitOf

LEMMA RunView ==
  ASSUME NEW D \in SUBSET Key, Ledger!Bury(D), NEW k \in Key,
         PhaseOf(k) = "open", RunsOf(k) < LimitOf(k), RunsOf(k)' = RunsOf(k) + 1,
         \A q \in Key \ {k} : RunsOf(q)' = RunsOf(q),
         \A q \in Key : /\ RequestOf(q)' = RequestOf(q) /\ LimitOf(q)' = LimitOf(q)
                        /\ AnswerOf(q)' = AnswerOf(q)
  PROVE  Ledger!Run(k, D)
  BY DEF Ledger!Run, PhaseOf, RunsOf, LimitOf, RequestOf, AnswerOf

LEMMA GiveUpView ==
  ASSUME NEW D \in SUBSET Key, Ledger!Bury(D),
         \A q \in Key : /\ RequestOf(q)' = RequestOf(q) /\ LimitOf(q)' = LimitOf(q)
                        /\ RunsOf(q)' = RunsOf(q) /\ AnswerOf(q)' = AnswerOf(q)
  PROVE  Ledger!GiveUp(D)
  BY DEF Ledger!GiveUp, RunsOf, LimitOf, RequestOf, AnswerOf

LEMMA BindView ==
  ASSUME NEW k \in Key, NEW q, NEW n, SeesNothing(k),
         PhaseOf(k)' = "open", RequestOf(k)' = q, LimitOf(k)' = n,
         RunsOf(k)' = 0, AnswerOf(k)' = None,
         \A p \in Key \ {k} : SameView(p)
  PROVE  Ledger!Bind(k, q, n)
  BY DEF Ledger!Bind, SeesNothing, SameView, PhaseOf, RunsOf, LimitOf, RequestOf, AnswerOf

EndsView(k, how) ==
  /\ PhaseOf(k) = "open" /\ PhaseOf(k)' = how
  /\ RequestOf(k)' = RequestOf(k) /\ LimitOf(k)' = LimitOf(k)
  /\ RunsOf(k)' = RunsOf(k)
  /\ \A p \in Key \ {k} : SameView(p)

LEMMA WithdrawView ==
  ASSUME NEW k \in Key, EndsView(k, "cancelled"), AnswerOf(k)' = AnswerOf(k)
  PROVE  Ledger!Withdraw(k)
  BY DEF Ledger!Withdraw, EndsView, SameView, PhaseOf, RunsOf, LimitOf, RequestOf, AnswerOf

LEMMA FinishView ==
  ASSUME NEW k \in Key, EndsView(k, "succeeded"), NEW r, AnswerOf(k)' = r, RunsOf(k) > 0
  PROVE  Ledger!Finish(k, r)
  BY DEF Ledger!Finish, EndsView, SameView, PhaseOf, RunsOf, LimitOf, RequestOf, AnswerOf

\* The operations as steps of the ledger.
LEMMA InPlaceStutter ==
  ASSUME TypeOK, TypeOK', DOMAIN rows' = DOMAIN rows, \A j \in DOMAIN rows : Unseen(j)
  PROVE  UNCHANGED Ledger!ledgerVars
<1>1. \A j \in DOMAIN rows : KeepsRow(j)
  BY DEF Unseen
<1>2. \A k \in Key : SameView(k)
  BY <1>1, InPlaceViews, UnseenView
<1> QED
  BY <1>2, StutterView

\* Rows that end for want of attempts, and nothing else.
LEMMA GiveUpStep ==
  ASSUME TypeOK, TypeOK', DOMAIN rows' = DOMAIN rows,
         \A j \in DOMAIN rows : Unseen(j) \/ Buried(j)
  PROVE  Ledger!LedgerNext
<1>0. \A j \in DOMAIN rows : KeepsRow(j)
  BY DEF Unseen, Buried, Ends
<1>1. PICK D \in SUBSET Key : D = BuriedKeys
  BY DEF BuriedKeys
<1>2. ASSUME NEW k \in Key
      PROVE  \/ SameView(k)
             \/ /\ PhaseOf(k) = "open" /\ PhaseOf(k)' = "dead_lettered"
                /\ RunsOf(k) = LimitOf(k)
                /\ RequestOf(k)' = RequestOf(k) /\ LimitOf(k)' = LimitOf(k)
                /\ RunsOf(k)' = RunsOf(k) /\ AnswerOf(k)' = AnswerOf(k)
  BY <1>0, InPlaceViews, UnseenView, BuriedView
<1>3. Ledger!Bury(D)
  <2>1. \A k \in Key : PhaseOf(k)' = IF k \in D THEN "dead_lettered" ELSE PhaseOf(k)
    BY <1>1, <1>2 DEF BuriedKeys, SameView
  <2> QED
    BY <2>1, BuryView
<1>4. D \in SUBSET Ledger!Spent
  <2>1. \A k \in D : PhaseOf(k) = "open" /\ RunsOf(k) = LimitOf(k)
    BY <1>1, <1>2 DEF BuriedKeys, SameView
  <2> QED
    BY <2>1, SpentView
<1>5. Ledger!GiveUp(D)
  BY <1>2, <1>3, GiveUpView DEF SameView
<1> QED
  BY <1>4, <1>5 DEF Ledger!LedgerNext

LEMMA ClaimStep ==
  ASSUME Inv, TypeOK', NEW o \in Owner, NEW d \in ClaimSeconds, Claim(o, d)
  PROVE  Ledger!LedgerNext
<1>1. PICK i \in DOMAIN rows :
        /\ KeepsRow(i) /\ rows'[i].result = rows[i].result
        /\ Phase(i) = "open" /\ Phase(i)' = "open"
        /\ rows[i].attempt < rows[i].max_attempts
        /\ rows'[i].attempt = rows[i].attempt + 1
        /\ DOMAIN rows' = DOMAIN rows
        /\ \A j \in DOMAIN rows \ {i} : Unseen(j) \/ Buried(j)
  BY ClaimRows
<1>2. PICK k \in Key : k = rows[i].key
  BY RowFacts DEF Row
<1>3. TypeOK /\ \A j \in DOMAIN rows : KeepsRow(j)
  BY <1>1 DEF Unseen, Buried, Ends, Inv
<1>4. Sees(k, i) /\ Sees(k, i)'
  BY <1>1, <1>2, <1>3, KnownKey, KnownKeyNext DEF KeepsRow
<1>5. /\ PhaseOf(k) = "open" /\ PhaseOf(k)' = "open" /\ RunsOf(k) < LimitOf(k)
      /\ RunsOf(k)' = RunsOf(k) + 1
      /\ RequestOf(k)' = RequestOf(k) /\ LimitOf(k)' = LimitOf(k)
      /\ AnswerOf(k)' = AnswerOf(k)
  BY <1>1, <1>4 DEF Sees, KeepsRow
<1>6. PICK D \in SUBSET Key : D = BuriedKeys
  BY DEF BuriedKeys
<1>7. ASSUME NEW q \in Key \ {k}
      PROVE  \/ SameView(q)
             \/ /\ PhaseOf(q) = "open" /\ PhaseOf(q)' = "dead_lettered"
                /\ RunsOf(q) = LimitOf(q)
                /\ RequestOf(q)' = RequestOf(q) /\ LimitOf(q)' = LimitOf(q)
                /\ RunsOf(q)' = RunsOf(q) /\ AnswerOf(q)' = AnswerOf(q)
  <2>1. \/ SameView(q)
        \/ \E j \in DOMAIN rows : rows[j].key = q /\ Sees(q, j) /\ Sees(q, j)'
    BY <1>1, <1>3, InPlaceViews
  <2>2. \A j \in DOMAIN rows : rows[j].key = q => Unseen(j) \/ Buried(j)
    BY <1>1, <1>2
  <2> QED
    BY <2>1, <2>2, UnseenView, BuriedView
<1>8. Ledger!Bury(D)
  <2>1. \A q \in Key : PhaseOf(q)' = IF q \in D THEN "dead_lettered" ELSE PhaseOf(q)
    BY <1>5, <1>6, <1>7 DEF BuriedKeys, SameView
  <2> QED
    BY <2>1, BuryView
<1>9. D \in SUBSET Ledger!Spent
  <2>1. \A q \in D : PhaseOf(q) = "open" /\ RunsOf(q) = LimitOf(q)
    BY <1>5, <1>6, <1>7 DEF BuriedKeys, SameView
  <2> QED
    BY <2>1, SpentView
<1>10. Ledger!Run(k, D)
  BY <1>5, <1>7, <1>8, RunView DEF SameView
<1> QED
  BY <1>9, <1>10 DEF Ledger!LedgerNext

LEMMA EnqueueStep ==
  ASSUME Inv, TypeOK', NEW k \in Key, NEW q \in Request, NEW n \in Attempts,
         Enqueue(k, q, n)
  PROVE  Ledger!LedgerNext
<1>1. PICK i \in DOMAIN rows' :
        /\ DOMAIN rows' = DOMAIN rows \cup {i}
        /\ \A j \in DOMAIN rows : rows'[j] = rows[j] /\ rows[j].key # k
        /\ rows'[i] = NewRow(k, q, n)
  BY EnqueueRows
<1>2. SeesNothing(k)
  BY <1>1, UnknownKey
<1>3. /\ PhaseOf(k)' = "open" /\ RequestOf(k)' = q /\ LimitOf(k)' = n
      /\ RunsOf(k)' = 0 /\ AnswerOf(k)' = None
  <2>1. Sees(k, i)'
    BY <1>1, KnownKeyNext DEF NewRow
  <2>2. rows'[i].status = "pending"
    BY <1>1 DEF NewRow
  <2>3. Phase(i)' = "open"
    BY <2>2 DEF Phase, Terminal
  <2> QED
    BY <1>1, <2>1, <2>3 DEF Sees, NewRow
<1>4. ASSUME NEW p \in Key \ {k}
      PROVE  SameView(p)
  <2>1. CASE \A j \in DOMAIN rows : rows[j].key # p
    <3>1. \A j \in DOMAIN rows' : rows'[j].key # p
      BY <1>1, <2>1 DEF NewRow
    <3> QED
      BY <2>1, <3>1, UnknownKey, UnknownKeyNext DEF SeesNothing, SameView
  <2>2. ASSUME NEW j \in DOMAIN rows, rows[j].key = p
        PROVE  SameView(p)
    <3>1. j \in DOMAIN rows' /\ rows'[j] = rows[j]
      BY <1>1
    <3>2. Sees(p, j) /\ Sees(p, j)'
      BY <2>2, <3>1, KnownKey, KnownKeyNext DEF Inv
    <3> QED
      BY <3>1, <3>2, SameRowUnseen, UnseenView
  <2> QED
    BY <2>1, <2>2
<1>5. Ledger!Bind(k, q, n)
  BY <1>2, <1>3, <1>4, BindView
<1> QED
  BY <1>5 DEF Ledger!LedgerNext

\* One row ends; every other stays as it was.
LEMMA EndsStep ==
  ASSUME TypeOK, TypeOK', DOMAIN rows' = DOMAIN rows, NEW i \in DOMAIN rows,
         OnlyIn({i}), NEW how, Ends(i, how)
  PROVE  \E k \in Key : Sees(k, i) /\ Sees(k, i)' /\ EndsView(k, how)
<1>1. PICK k \in Key : k = rows[i].key
  <2>1. rows[i] \in Row
    BY LenProperties DEF TypeOK
  <2> QED
    BY <2>1 DEF Row
<1>2. \A j \in DOMAIN rows : KeepsRow(j)
  BY DEF OnlyIn, Unseen, Ends
<1>3. Sees(k, i) /\ Sees(k, i)'
  BY <1>1, <1>2, KnownKey, KnownKeyNext DEF KeepsRow
<1>4. \A p \in Key \ {k} : SameView(p)
  BY <1>1, <1>2, InPlaceViews, UnseenView DEF OnlyIn
<1>5. EndsView(k, how)
  BY <1>3, <1>4 DEF EndsView, Sees, Ends, KeepsRow
<1> QED
  BY <1>3, <1>5

LEMMA SucceedStep ==
  ASSUME Inv, TypeOK', NEW t \in DOMAIN claims, NEW r \in Result, Succeed(t, r)
  PROVE  Ledger!LedgerNext
<1>1. PICK i \in DOMAIN rows :
        /\ DOMAIN rows' = DOMAIN rows /\ OnlyIn({i})
        /\ Ends(i, "succeeded")
        /\ rows[i].attempt > 0 /\ rows'[i].result = r
  BY SucceedRows
<1>2. PICK k \in Key : Sees(k, i) /\ Sees(k, i)' /\ EndsView(k, "succeeded")
  BY <1>1, EndsStep DEF Inv
<1>3. AnswerOf(k)' = r /\ RunsOf(k) > 0
  BY <1>1, <1>2 DEF Sees
<1>4. Ledger!Finish(k, r)
  BY <1>2, <1>3, FinishView
<1> QED
  BY <1>4 DEF Ledger!LedgerNext

LEMMA CancelStep ==
  ASSUME Inv, TypeOK', NEW i \in DOMAIN rows, Cancel(i)
  PROVE  Ledger!LedgerNext
<1>1. /\ DOMAIN rows' = DOMAIN rows /\ OnlyIn({i})
      /\ Ends(i, "cancelled") /\ rows'[i].result = rows[i].result
  BY CancelRows
<1>2. PICK k \in Key : Sees(k, i) /\ Sees(k, i)' /\ EndsView(k, "cancelled")
  BY <1>1, EndsStep DEF Inv
<1>3. AnswerOf(k)' = AnswerOf(k)
  BY <1>1, <1>2 DEF Sees
<1>4. Ledger!Withdraw(k)
  BY <1>2, <1>3, WithdrawView
<1> QED
  BY <1>4 DEF Ledger!LedgerNext

LEMMA LedgerStep ==
  ASSUME Inv, [Next]_vars
  PROVE  [Ledger!LedgerNext]_Ledger!ledgerVars
<1>0. TypeOK /\ TypeOK'
  BY TypeStep DEF Inv
<1>1. CASE Submit
  BY <1>0, <1>1, EnqueueStep DEF Submit
<1>2. CASE Poll
  <2>1. CASE ClaimNothing
    BY <1>0, <2>1, ClaimNothingRows, GiveUpStep
  <2> QED
    BY <1>0, <1>2, <2>1, ClaimStep DEF Poll
<1>3. CASE Work
  <2>1. ASSUME NEW t \in DOMAIN claims, NEW d \in HeartbeatSeconds, Heartbeat(t, d)
        PROVE  UNCHANGED Ledger!ledgerVars
    BY <1>0, <2>1, HeartbeatRows, InPlaceStutter DEF OnlyIn
  <2>2. ASSUME NEW t \in DOMAIN claims, NEW e \in Failure, Retry(t, e)
        PROVE  Ledger!LedgerNext
    BY <1>0, <2>2, RetryRows, GiveUpStep
  <2> QED
    BY <1>0, <1>3, <2>1, <2>2, SucceedStep DEF Work
<1>4. CASE CancelSome
  BY <1>0, <1>4, CancelStep DEF CancelSome
<1>5. CASE UNCHANGED rows
  BY <1>0, <1>5, SameRowUnseen, InPlaceStutter
<1> QED
  BY <1>1, <1>2, <1>3, <1>4, <1>5 DEF Next, Tick, SetClockBack, vars

\* The queue implements the ledger: rows, leases and clock, retries, reclaimed and
\* dead-lettered jobs never show a submitter anything JobLedger does not allow.
THEOREM KeepsItsPromises == Spec => KeepsLedger
<1>1. Init => Ledger!LedgerInit
  <2> SUFFICES ASSUME Init PROVE Ledger!LedgerInit
    OBVIOUS
  <2>1. \A k \in Key : SeesNothing(k)
    BY UnknownKey DEF Init
  <2> QED
    BY <2>1 DEF Ledger!LedgerInit, SeesNothing, PhaseOf, RequestOf, LimitOf, RunsOf, AnswerOf
<1>2. Inv /\ [Next]_vars => [Ledger!LedgerNext]_Ledger!ledgerVars
  BY LedgerStep
<1> QED
  BY <1>1, <1>2, Invariance, PTL DEF Spec, KeepsLedger, Ledger!LedgerSpec
=============================================================================
