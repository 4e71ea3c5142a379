------------------------------ MODULE JobLedger ------------------------------
(***************************************************************************)
(* What the delivery queue promises its submitters, key by key: a key is   *)
(* bound to one request for good, its job runs at most as often as asked,  *)
(* and it ends once - with the result of a run, dead-lettered after its    *)
(* last permitted run, or cancelled - and then stays as it ended.          *)
(* No leases, no workers and no clock.                                     *)
(***************************************************************************)
EXTENDS Integers

CONSTANTS Key, Request, Attempts, Result, None

VARIABLES
  phase,    \* how far the job of each key has come
  request,  \* the request each key is bound to
  limit,    \* how many runs it may have
  runs,     \* how many have started
  answer    \* its result

ledgerVars == <<phase, request, limit, runs, answer>>

LedgerInit ==
  /\ phase   = [k \in Key |-> "unknown"]
  /\ request = [k \in Key |-> None]
  /\ limit   = [k \in Key |-> 0]
  /\ runs    = [k \in Key |-> 0]
  /\ answer  = [k \in Key |-> None]

Bind(k, q, n) ==
  /\ phase[k] = "unknown"
  /\ phase'   = [phase EXCEPT ![k] = "open"]
  /\ request' = [request EXCEPT ![k] = q]
  /\ limit'   = [limit EXCEPT ![k] = n]
  /\ UNCHANGED <<runs, answer>>

\* A run of k starts, and any jobs that have used up their runs are given up.
Spent == {k \in Key : phase[k] = "open" /\ runs[k] = limit[k]}

Bury(D) == phase' = [k \in Key |-> IF k \in D THEN "dead_lettered" ELSE phase[k]]

Run(k, D) ==
  /\ phase[k] = "open"
  /\ runs[k] < limit[k]
  /\ runs' = [runs EXCEPT ![k] = @ + 1]
  /\ Bury(D)
  /\ UNCHANGED <<request, limit, answer>>

GiveUp(D) == Bury(D) /\ UNCHANGED <<request, limit, runs, answer>>

Finish(k, r) ==
  /\ phase[k] = "open"
  /\ runs[k] > 0
  /\ phase'  = [phase EXCEPT ![k] = "succeeded"]
  /\ answer' = [answer EXCEPT ![k] = r]
  /\ UNCHANGED <<request, limit, runs>>

Withdraw(k) ==
  /\ phase[k] = "open"
  /\ phase' = [phase EXCEPT ![k] = "cancelled"]
  /\ UNCHANGED <<request, limit, runs, answer>>

LedgerNext ==
  \/ \E k \in Key, q \in Request, n \in Attempts : Bind(k, q, n)
  \/ \E D \in SUBSET Spent : GiveUp(D) \/ \E k \in Key : Run(k, D)
  \/ \E k \in Key : Withdraw(k) \/ \E r \in Result : Finish(k, r)

LedgerSpec == LedgerInit /\ [][LedgerNext]_ledgerVars
=============================================================================
