-------------------------- MODULE DeliveryTelemetry --------------------------
(***************************************************************************)
(* The application facade over the delivery queue and the telemetry it     *)
(* writes: riskprobe.delivery.application and riskprobe.delivery.telemetry.*)
(*                                                                         *)
(* The queue is JobLedger, what DeliveryQueue is shown to implement.  A    *)
(* call of the facade is two transactions on two databases: that of the    *)
(* queue, and then the append of one event that repeats what the queue     *)
(* answered.  Between the two anything may happen to the job, and the      *)
(* event may never be written: telemetry is best effort.                   *)
(*                                                                         *)
(* A hash of the chain is the position of its event.  A job that waits and *)
(* one that runs are both open.                                            *)
(***************************************************************************)
EXTENDS JobLedger, Sequences

CONSTANTS
  Client,      \* callers of the facade, each with one call at a time
  MaxEvents    \* bound on the events written

VARIABLES
  pending,  \* the event each client has yet to append, if any
  events,   \* telemetry_events, and for each the client that wrote it
  head      \* telemetry_state: {} before the schema, or {<<count, head>>}

ASSUME TelemetryAssumption == None \notin Result /\ MaxEvents \in Nat

telemetryVars == <<ledgerVars, pending, events, head>>

EventName == {"job_submitted", "job_status", "job_result", "job_cancelled"}
Root == 0

TelemetryInit ==
  /\ LedgerInit
  /\ pending = [c \in Client |-> {}]
  /\ events = <<>>
  /\ head = {}

-----------------------------------------------------------------------------
(***************************************************************************)
(* LocalTelemetrySink                                                      *)
(***************************************************************************)
\* _initialize_schema, in one transaction; an open sink is left as it is.
OpenSink ==
  /\ head = {} /\ events = <<>>
  /\ head' = {<<0, Root>>}
  /\ UNCHANGED <<ledgerVars, pending, events>>

\* _verified_head: count and hash are those of the last event.
VerifiedHead == head = {<<Len(events), IF events = <<>> THEN Root ELSE Len(events)>>}

\* append: one transaction.
AppendEvent(c) ==
  /\ VerifiedHead /\ Len(events) < MaxEvents
  /\ \E e \in pending[c] : events' = Append(events, [by |-> c, event |-> e])
  /\ head' = {<<Len(events) + 1, Len(events) + 1>>}
  /\ pending' = [pending EXCEPT ![c] = {}]
  /\ UNCHANGED ledgerVars

\* The storage or the chain is not well, and the error is swallowed; or the client
\* has no telemetry, or dies.
LoseEvent(c) ==
  /\ pending[c] # {}
  /\ pending' = [pending EXCEPT ![c] = {}]
  /\ UNCHANGED <<ledgerVars, events, head>>

-----------------------------------------------------------------------------
(***************************************************************************)
(* DeliveryApplication: each operation, up to _emit.                       *)
(***************************************************************************)
Summary(name, k) ==
  [name |-> name, job |-> k, status |-> phase'[k], attempt |-> runs'[k]]

Emit(c, e) ==
  /\ pending[c] = {}
  /\ pending' = [pending EXCEPT ![c] = {e}]
  /\ UNCHANGED <<events, head>>

\* submit: a known key answers for the job it is bound to.
SubmitJob(c, k, q, n) ==
  /\ \/ Bind(k, q, n)
     \/ /\ phase[k] # "unknown" /\ request[k] = q /\ limit[k] = n
        /\ UNCHANGED ledgerVars
  /\ Emit(c, Summary("job_submitted", k))

JobStatusOf(c, k) ==
  /\ phase[k] # "unknown"
  /\ UNCHANGED ledgerVars
  /\ Emit(c, Summary("job_status", k))

JobResultOf(c, k) ==
  /\ phase[k] = "succeeded"
  /\ UNCHANGED ledgerVars
  /\ Emit(c, Summary("job_result", k))

\* Mutant: the event is made before the queue has agreed.
CancelUnheard(c, k) ==
  /\ phase[k] = "open"
  /\ UNCHANGED ledgerVars
  /\ Emit(c, [Summary("job_cancelled", k) EXCEPT !.status = "cancelled"])

\* cancel: of a job cancelled before it answers again, and emits again.
CancelJob(c, k) ==
  /\ \/ Withdraw(k)
     \/ phase[k] = "cancelled" /\ UNCHANGED ledgerVars
  /\ Emit(c, Summary("job_cancelled", k))

\* Workers use the queue itself, and write no events.
WorkersStep ==
  /\ \/ \E D \in SUBSET Spent : D # {} /\ GiveUp(D)
     \/ \E k \in Key : Run(k, {}) \/ \E r \in Result : Finish(k, r)
  /\ UNCHANGED <<pending, events, head>>

TelemetryNext ==
  \/ OpenSink \/ WorkersStep
  \/ \E c \in Client :
       \/ AppendEvent(c) \/ LoseEvent(c)
       \/ \E k \in Key :
            \/ \E q \in Request, n \in Attempts : SubmitJob(c, k, q, n)
            \/ JobStatusOf(c, k) \/ JobResultOf(c, k) \/ CancelJob(c, k)

TelemetrySpec == TelemetryInit /\ [][TelemetryNext]_telemetryVars

-----------------------------------------------------------------------------
(***************************************************************************)
(* Telemetry may be silent, and events of different clients may be written *)
(* in another order than the queue committed, but no event is false: what  *)
(* it says was so, an end it reports is the end of its job for good, and   *)
(* the events of one client follow the course of the job.                  *)
(***************************************************************************)
Ends == {"succeeded", "dead_lettered", "cancelled"}

Follows(e, f) ==
  e.attempt <= f.attempt /\ (e.status \in Ends => f.status = e.status)

EventsTellHistory ==
  \A i \in DOMAIN events :
    LET e == events[i].event  k == e.job IN
    /\ e.attempt <= runs[k] /\ phase[k] # "unknown"
    /\ e.status \in Ends => phase[k] = e.status /\ runs[k] = e.attempt
    /\ e.name = "job_result" => answer[k] # None
    /\ e.name = "job_cancelled" => phase[k] = "cancelled"
    /\ \A j \in DOMAIN events :
         i < j /\ events[i].by = events[j].by /\ events[j].event.job = k =>
           Follows(e, events[j].event)
=============================================================================
