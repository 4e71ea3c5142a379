---------------------------- MODULE DeliveryQueue ----------------------------
(***************************************************************************)
(* The durable job queue of riskprobe.delivery.queue (class SQLiteQueue).  *)
(*                                                                         *)
(* Every public operation of the queue is one BEGIN IMMEDIATE transaction, *)
(* so an operation is one step; what interleaves is whole operations of    *)
(* submitters, workers and cancellers, in any number of processes, and the *)
(* movement of the wall clock they all read.  A worker may crash, stall or *)
(* lose a reply at any point: it then simply does not take the steps its   *)
(* lease would allow, or takes them much later.  An operation that is      *)
(* refused changes nothing and is not a step.                              *)
(***************************************************************************)
EXTENDS Integers, Sequences

CONSTANTS
  Key,              \* idempotency keys chosen by submitters
  Request,          \* request contents (request_hash and request_json)
  Attempts,         \* the max_attempts values submitters ask for
  Owner,            \* worker identities
  Result,           \* job results
  Failure,          \* the error classes workers report through retry
  ClaimSeconds,     \* lease durations asked for by claim
  HeartbeatSeconds, \* lease durations asked for by heartbeat
  MaxTime,          \* bound on every timestamp the model reaches
  HeartbeatUntil,   \* no heartbeat extends a lease beyond this time
  ClockSetBack,     \* may the wall clock be set back?
  None              \* SQL NULL

ErrorClass ==
  {"InternalError", "IntegrityError", "LeaseExpired",
   "RuntimeError", "TimeoutError", "ValidationError"}

ASSUME ConstantsAssumption ==
  /\ Attempts \subseteq Nat \ {0}
  /\ ClaimSeconds \subseteq Nat \ {0}
  /\ HeartbeatSeconds \subseteq Nat \ {0}
  /\ MaxTime \in Nat
  /\ HeartbeatUntil \in Nat
  /\ ClockSetBack \in BOOLEAN
  /\ Failure \subseteq ErrorClass
  /\ None \notin Request \cup Owner \cup Result \cup ErrorClass

VARIABLES
  rows,      \* the jobs table in sequence order; the job id is the position
  claims,    \* every lease ever handed out; the lease token is the position
  now        \* the wall clock, in whole seconds

vars == <<rows, claims, now>>

JobStatus == {"pending", "running", "succeeded", "dead_lettered", "cancelled"}
Terminal  == {"succeeded", "dead_lettered", "cancelled"}

\* A row of the jobs table.  Token 0 and expiry 0 are NULL.
Row == [key : Key, request : Request, status : JobStatus,
        attempt : Nat, max_attempts : Nat \ {0},
        owner : Owner \cup {None}, token : Nat, expires : Nat,
        result : Result \cup {None}, error : ErrorClass \cup {None}]

\* What the worker holding a lease remembers: the job, the attempt it runs, the
\* expiry it was last told, and how the queue answered its final call.
Verdict    == {"open", "succeeded"} \cup ErrorClass
ClaimedJob == [job : Nat \ {0}, attempt : Nat \ {0}, owner : Owner,
               expires : Nat, verdict : Verdict]

-----------------------------------------------------------------------------
Init ==
  /\ rows = <<>>
  /\ claims = <<>>
  /\ now = 0

(***************************************************************************)
(* enqueue: a new key inserts a pending row.  A known key changes nothing: *)
(* it returns its job if request and attempt limit are the same, and is    *)
(* refused otherwise.                                                      *)
(***************************************************************************)
NewRow(k, q, n) ==
  [key |-> k, request |-> q, status |-> "pending", attempt |-> 0,
   max_attempts |-> n, owner |-> None, token |-> 0, expires |-> 0,
   result |-> None, error |-> None]

Enqueue(k, q, n) ==
  /\ \A i \in DOMAIN rows : rows[i].key # k
  /\ rows' = Append(rows, NewRow(k, q, n))
  /\ UNCHANGED <<claims, now>>

(***************************************************************************)
(* claim: the oldest job that is pending, or running with a lease that has *)
(* run out.  The loop dead-letters every such job that has no attempt left *)
(* until it meets one that has, and leases that one; all in one commit.    *)
(***************************************************************************)
Unlocked(row) == [row EXCEPT !.owner = None, !.token = 0, !.expires = 0]

Due(i) ==
  \/ rows[i].status = "pending"
  \/ rows[i].status = "running" /\ rows[i].expires <= now

\* Mutant: one attempt too many.
ExhaustedOffByOne(i) == rows[i].attempt > rows[i].max_attempts
Exhausted(i) == rows[i].attempt >= rows[i].max_attempts

Claimable == {i \in DOMAIN rows : Due(i) /\ ~Exhausted(i)}

\* Mutant: the exhausted job is recorded as an internal error.
DeadLetteredInternal(i) ==
  [Unlocked(rows[i]) EXCEPT !.status = "dead_lettered", !.error = "InternalError"]
DeadLettered(i) ==
  [Unlocked(rows[i]) EXCEPT
     !.status = "dead_lettered",
     !.error  = IF rows[i].status = "running" THEN "LeaseExpired"
                                              ELSE "InternalError"]

\* Mutant: a reclaimed job keeps the lease token of the worker that lost it.
LeasedOldToken(i, o, d) ==
  [rows[i] EXCEPT !.status  = "running", !.attempt = @ + 1, !.owner = o,
                  !.token   = IF @ = 0 THEN Len(claims) + 1 ELSE @,
                  !.expires = now + d]
Leased(i, o, d) ==
  [rows[i] EXCEPT !.status  = "running", !.attempt = @ + 1, !.owner = o,
                  !.token   = Len(claims) + 1, !.expires = now + d]

\* Mutant: the newest waiting job first.
OldestLast(i) == \A j \in Claimable : i >= j
Oldest(i) == \A j \in Claimable : i <= j

Claim(o, d) ==
  /\ now + d <= MaxTime
  /\ \E i \in Claimable :
       /\ Oldest(i)
       /\ rows' = [j \in DOMAIN rows |->
                     IF j = i THEN Leased(j, o, d)
                     ELSE IF j < i /\ Due(j) THEN DeadLettered(j)
                     ELSE rows[j]]
       /\ claims' = Append(claims,
                      [job |-> i, attempt |-> rows[i].attempt + 1, owner |-> o,
                       expires |-> now + d, verdict |-> "open"])
  /\ UNCHANGED now

\* Mutant: a claim that finds nothing to lease leaves exhausted jobs as they are.
ClaimNothingLazy == FALSE
\* claim returns None: every due job was exhausted and is dead-lettered.
ClaimNothing ==
  /\ Claimable = {}
  /\ \E i \in DOMAIN rows : Due(i)
  /\ rows' = [j \in DOMAIN rows |-> IF Due(j) THEN DeadLettered(j) ELSE rows[j]]
  /\ UNCHANGED <<claims, now>>

(***************************************************************************)
(* heartbeat, succeed and retry present a lease, however old, and are      *)
(* refused unless it is the one in the row and has not run out.            *)
(***************************************************************************)
\* Mutant: the lease token is not compared.
ActiveLeaseAnyToken(t) ==
  LET row == rows[claims[t].job]
  IN  row.status = "running" /\ row.owner = claims[t].owner /\ row.expires > now
ActiveLease(t) ==
  LET row == rows[claims[t].job]
  IN  /\ row.status = "running"
      /\ row.owner = claims[t].owner
      /\ row.token = t
      /\ row.expires > now

\* Mutant: a heartbeat may shorten the lease the worker already has.
SecondOf(x, y) == y
Later(x, y) == IF x >= y THEN x ELSE y

\* The reply carries the new expiry back to the worker, or is lost.
Heartbeat(t, d) ==
  /\ ActiveLease(t)
  /\ now + d <= HeartbeatUntil
  /\ LET i      == claims[t].job
         expiry == Later(rows[i].expires, now + d)
     IN  /\ rows' = [rows EXCEPT ![i].expires = expiry]
         /\ \/ claims' = [claims EXCEPT ![t].expires = expiry]
            \/ UNCHANGED claims
  /\ UNCHANGED now

Succeed(t, r) ==
  /\ ActiveLease(t)
  /\ rows' = [rows EXCEPT ![claims[t].job] =
                [Unlocked(@) EXCEPT !.status = "succeeded", !.result = r,
                                    !.error = None]]
  /\ claims' = [claims EXCEPT ![t].verdict = "succeeded"]
  /\ UNCHANGED now

Retry(t, e) ==
  /\ ActiveLease(t)
  /\ LET i == claims[t].job
     IN  rows' = [rows EXCEPT ![i] =
                    [Unlocked(@) EXCEPT
                       !.status = IF Exhausted(i) THEN "dead_lettered"
                                                  ELSE "pending",
                       !.error  = e]]
  /\ claims' = [claims EXCEPT ![t].verdict = e]
  /\ UNCHANGED now

\* cancel: a pending or running job; the attempt and the last error stay.  Of a
\* cancelled one it only answers.
Cancel(i) ==
  /\ rows[i].status \in {"pending", "running"}
  /\ rows' = [rows EXCEPT ![i] = [Unlocked(@) EXCEPT !.status = "cancelled"]]
  /\ UNCHANGED <<claims, now>>

(***************************************************************************)
(* The clock is only ever compared with lease expiries, so it moves while  *)
(* some lease is still running.  An operator or NTP may set it back.       *)
(***************************************************************************)
Tick ==
  /\ \E i \in DOMAIN rows : rows[i].status = "running" /\ rows[i].expires > now
  /\ now < MaxTime
  /\ now' = now + 1
  /\ UNCHANGED <<rows, claims>>

SetClockBack ==
  /\ ClockSetBack
  /\ now > 0
  /\ now' = now - 1
  /\ UNCHANGED <<rows, claims>>

-----------------------------------------------------------------------------
Submit == \E k \in Key, q \in Request, n \in Attempts : Enqueue(k, q, n)
Poll   == (\E o \in Owner, d \in ClaimSeconds : Claim(o, d)) \/ ClaimNothing
Work   == \E t \in DOMAIN claims :
            \/ \E d \in HeartbeatSeconds : Heartbeat(t, d)
            \/ \E r \in Result : Succeed(t, r)
            \/ \E e \in Failure : Retry(t, e)
CancelSome == \E i \in DOMAIN rows : Cancel(i)

Next == Submit \/ Poll \/ Work \/ CancelSome \/ Tick \/ SetClockBack

Spec == Init /\ [][Next]_vars

\* Some worker keeps polling the queue, and time passes.
FairSpec == Spec /\ WF_vars(Poll) /\ WF_vars(Tick)

-----------------------------------------------------------------------------
(* Properties *)

\* The table is well typed, and its UNIQUE and CHECK constraints hold: a row has
\* a lease exactly while it is running and a result exactly once it succeeded.
Consistent(row) ==
  /\ (row.status = "running") <=> (row.owner # None)
  /\ (row.status = "running") <=> (row.token # 0)
  /\ (row.status = "succeeded") <=> (row.result # None)

TypeOK ==
  /\ rows \in Seq(Row)
  /\ claims \in Seq(ClaimedJob)
  /\ now \in Nat
  /\ \A i \in DOMAIN rows : Consistent(rows[i])
  /\ \A i, j \in DOMAIN rows : rows[i].key = rows[j].key => i = j

\* Fencing: the lease in a running row is the newest one handed out for the job,
\* so a worker whose job was reclaimed can neither extend nor finish it; and a
\* success the queue accepted came from the last worker the job was leased to.
LeaseFencing ==
  /\ \A i \in DOMAIN rows : rows[i].status = "running" =>
       /\ rows[i].token \in DOMAIN claims
       /\ claims[rows[i].token].job = i
       /\ claims[rows[i].token].verdict = "open"
       /\ \A t \in DOMAIN claims : claims[t].job = i => t <= rows[i].token
  /\ \A t \in DOMAIN claims : claims[t].verdict = "succeeded" =>
       /\ rows[claims[t].job].status = "succeeded"
       /\ \A u \in DOMAIN claims : claims[u].job = claims[t].job => u <= t

\* A job is dead-lettered only when its attempts are used up, and the recorded
\* error is what ended the last one: the error its worker reported, or the
\* lease running out.  So the InternalError branch of claim is never taken.
DeadLetterIsTruthful ==
  \A i \in DOMAIN rows : rows[i].status = "dead_lettered" =>
    \E t \in DOMAIN claims :
      /\ claims[t].job = i
      /\ claims[t].attempt = rows[i].max_attempts
      /\ rows[i].error = IF claims[t].verdict = "open" THEN "LeaseExpired"
                                                      ELSE claims[t].verdict

\* While a worker's lease, as the worker knows it, has not run out and the worker
\* has not reported back, no other worker holds such a lease for the same job.
\* This needs a clock that is never set back.
AtMostOneHolder ==
  \A t, u \in DOMAIN claims :
    (/\ claims[t].job = claims[u].job
     /\ claims[t].verdict = "open" /\ claims[t].expires > now
     /\ claims[u].verdict = "open" /\ claims[u].expires > now) => t = u

\* First in, first out: a job is leased only when no older job is pending, and
\* none is left whose worker vanished while it still had an attempt.
NoOvertaking ==
  [][\A i \in DOMAIN rows : rows'[i].attempt > rows[i].attempt =>
       \A j \in 1..(i - 1) :
         /\ rows[j].status # "pending"
         /\ (rows[j].status = "running" /\ rows[j].expires <= now)
              => rows'[j].status = "dead_lettered"]_vars

\* The queue keeps the promises of JobLedger to the submitters of every key.
RowsOf(k) == {i \in DOMAIN rows : rows[i].key = k}
ViewOf(k, absent, View(_)) ==
  IF RowsOf(k) = {} THEN absent ELSE View(CHOOSE i \in RowsOf(k) : TRUE)
Phase(i) == IF rows[i].status \in Terminal THEN rows[i].status ELSE "open"

Ledger == INSTANCE JobLedger WITH
  phase   <- [k \in Key |-> ViewOf(k, "unknown", Phase)],
  request <- [k \in Key |-> ViewOf(k, None, LAMBDA i : rows[i].request)],
  limit   <- [k \in Key |-> ViewOf(k, 0, LAMBDA i : rows[i].max_attempts)],
  runs    <- [k \in Key |-> ViewOf(k, 0, LAMBDA i : rows[i].attempt)],
  answer  <- [k \in Key |-> ViewOf(k, None, LAMBDA i : rows[i].result)]

KeepsLedger == Ledger!LedgerSpec

\* Provided a worker keeps polling and no worker heartbeats for ever, every
\* submitted job reaches a terminal state, even if every worker crashes.
EveryJobEnds ==
  \A k \in Key :
    RowsOf(k) # {} ~> \E i \in RowsOf(k) : rows[i].status \in Terminal
=============================================================================
