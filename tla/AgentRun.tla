------------------------------ MODULE AgentRun ------------------------------
(***************************************************************************)
(* RiskProbeService.orchestrate: the agent run of one fixed configuration. *)
(* Its run id is fixed too, so every caller - one runner thread per        *)
(* idempotency key - works on the same session journal, decision evidence  *)
(* and result file, under the lock of AgentResultStore.  The Host's part   *)
(* in it, the decision provider, is added by HostDecision.                 *)
(*                                                                         *)
(* Each append to the journal, the evidence or the result file is atomic   *)
(* and durable; a process that dies leaves exactly what it appended.  The  *)
(* review never allows the second attempt here: evidence of the local      *)
(* tools resolves completely or counts as a tool failure.                  *)
(***************************************************************************)
EXTENDS Naturals

CONSTANTS
  Key,          \* idempotency keys
  Proposal,     \* proposals a Host may submit for the context
  Applicable,   \* those the proposal validator accepts while in time
  MaxFaults,    \* bound on the failures of storage, tools and pipeline
  None

ASSUME AgentAssumption ==
  /\ Applicable \subseteq Proposal
  /\ MaxFaults \in Nat
  /\ None \notin Key \cup Proposal

VARIABLES
  journal,    \* "none", "open", or the result its terminal review implies
  decision,   \* the decision.result evidence
  result,     \* the published agent result
  lock,       \* the runner inside AgentResultStore.locked
  runner,     \* the runner thread of every key
  ttl,        \* the time to live of the decision context
  faults      \* failures so far

agentVars == <<journal, decision, result, lock, runner, ttl, faults>>

\* "rejected": the decision was rejected or unavailable, and so recorded.
\* "failed": any other review that did not approve.
AgentResult == {"approved", "no_action", "rejected", "failed"}
Decision    == [proposal : Proposal, accepted : BOOLEAN]

Runner == [pc : {"idle", "pipeline", "entering", "tools", "asking", "waiting",
                 "proposed", "refused", "decided", "publishing",
                 "returned", "raised"},
           proposal : Proposal \cup {None},
           result   : AgentResult \cup {None}]

Stopped == [pc |-> "idle", proposal |-> None, result |-> None]

AgentInit ==
  /\ journal = "none"
  /\ decision = None
  /\ result = None
  /\ lock = None
  /\ runner = [k \in Key |-> Stopped]
  /\ ttl = "unset"
  /\ faults = 0

At(r, pc)   == runner[r].pc = pc
Goto(r, pc) == runner' = [runner EXCEPT ![r].pc = pc]
End(r, pc, x) == runner' = [runner EXCEPT ![r].pc = pc, ![r].result = x]

Fault == faults < MaxFaults /\ faults' = faults + 1
NoFault == UNCHANGED faults

-----------------------------------------------------------------------------
\* The immutable pipeline, whose published artifacts every run shares.
Pipeline(r) ==
  /\ At(r, "pipeline")
  /\ \/ Goto(r, "entering") /\ NoFault
     \/ Goto(r, "raised") /\ Fault
  /\ UNCHANGED <<journal, decision, result, lock, ttl>>

(***************************************************************************)
(* Under the lock: return the published result; else recover it from a     *)
(* journal that ends in its review; else refuse a journal that does not;   *)
(* else create the journal and run the agent.  A failed run need not pass  *)
(* the validation either path ends with.                                   *)
(***************************************************************************)
EntersLock(r) == At(r, "entering") /\ lock = None

ReturnPublished(r) ==
  /\ EntersLock(r)
  /\ result # None
  /\ \/ End(r, "returned", result)
     \/ result = "failed" /\ Goto(r, "raised")
  /\ UNCHANGED <<journal, decision, result, lock, ttl, faults>>

Recover(r) ==
  /\ EntersLock(r)
  /\ result = None /\ journal \in AgentResult
  /\ \/ End(r, "publishing", journal) /\ lock' = r
     \/ journal = "failed" /\ Goto(r, "raised") /\ UNCHANGED lock
  /\ UNCHANGED <<journal, decision, result, ttl, faults>>

\* Mutant: an unfinished run is started over.
RestartUnfinished(r) ==
  /\ EntersLock(r)
  /\ result = None /\ journal = "open"
  /\ Goto(r, "tools") /\ lock' = r
  /\ UNCHANGED <<journal, decision, result, ttl, faults>>
RefuseUnfinished(r) ==
  /\ EntersLock(r)
  /\ result = None /\ journal = "open"
  /\ Goto(r, "raised")
  /\ UNCHANGED <<journal, decision, result, lock, ttl, faults>>

\* Mutant: the journal is created with its first entry, not before the tools.
FirstRunUnjournaled(r) ==
  /\ EntersLock(r)
  /\ result = None /\ journal = "none"
  /\ Goto(r, "tools") /\ lock' = r
  /\ UNCHANGED <<journal, decision, result, ttl, faults>>
FirstRun(r) ==
  /\ EntersLock(r)
  /\ result = None /\ journal = "none"
  /\ Goto(r, "tools") /\ lock' = r /\ journal' = "open"
  /\ UNCHANGED <<decision, result, ttl, faults>>

\* The review closes the journal; what it says is the result of the run.
Review(r, x) ==
  /\ journal' = x
  /\ End(r, "publishing", x)

\* inspect, diagnose and discover: with findings, a decision context is issued.
Tools(r) ==
  /\ At(r, "tools")
  /\ \/ Goto(r, "asking") /\ ttl' = "running" /\ NoFault /\ UNCHANGED journal
     \/ Review(r, "no_action") /\ NoFault /\ UNCHANGED ttl
     \/ Review(r, "failed") /\ Fault /\ UNCHANGED ttl
  /\ UNCHANGED <<decision, result, lock>>

\* The provider gave no proposal: that is recorded, and the review rejects.
Refused(r) ==
  /\ At(r, "refused")
  /\ \/ Review(r, "rejected") /\ NoFault
     \/ Review(r, "failed") /\ Fault
  /\ UNCHANGED <<decision, result, lock, ttl>>

Accepts(p) == p \in Applicable /\ ttl = "running"

\* DecisionController.submit: proposal and result evidence in one batch.  If that
\* fails, the decision is recorded as unavailable instead.
Decide(r) ==
  LET made == [proposal |-> runner[r].proposal,
               accepted |-> Accepts(runner[r].proposal)]
  IN  /\ At(r, "proposed")
      /\ \/ decision' = made /\ Goto(r, "decided") /\ NoFault
         \/ UNCHANGED decision /\ Goto(r, "refused") /\ Fault
      /\ UNCHANGED <<journal, result, lock, ttl>>

\* recommend, after an accepted decision only, and the review.
Recommend(r) ==
  /\ At(r, "decided")
  /\ \/ Review(r, IF decision.accepted THEN "approved" ELSE "rejected") /\ NoFault
     \/ Review(r, "failed") /\ Fault
  /\ UNCHANGED <<decision, result, lock, ttl>>

\* A journal append failed.  After a decision is in the evidence it cannot be
\* recorded as unavailable either, so the run is given up with an open journal.
Abandon(r) ==
  /\ runner[r].pc \in {"tools", "refused", "decided"}
  /\ Goto(r, "raised") /\ Fault
  /\ lock' = None
  /\ UNCHANGED <<journal, decision, result, ttl>>

\* os.link publishes the result; a failure may come before or after it.
Publish(r) ==
  /\ At(r, "publishing")
  /\ lock' = None
  /\ \/ result' = runner[r].result /\ Goto(r, "returned") /\ NoFault
     \/ result' \in {result, runner[r].result} /\ Goto(r, "raised") /\ Fault
  /\ UNCHANGED <<journal, decision, ttl>>

Expire ==
  /\ ttl = "running"
  /\ ttl' = "over"
  /\ UNCHANGED <<journal, decision, result, lock, runner, faults>>

AgentStep(r) ==
  \/ Pipeline(r)
  \/ ReturnPublished(r) \/ Recover(r) \/ RefuseUnfinished(r) \/ FirstRun(r)
  \/ Tools(r) \/ Refused(r) \/ Decide(r) \/ Recommend(r) \/ Abandon(r)
  \/ Publish(r)
=============================================================================
