-------------------------- MODULE AgentOrchestrator --------------------------
(***************************************************************************)
(* RiskProbeService.orchestrate for one run: AgentOrchestrator drives the  *)
(* tools, the decision and the review, all under the lock of               *)
(* AgentResultStore; what it did is in the session journal and in the      *)
(* evidence, and its result is published in a file.  AgentRun is the same  *)
(* program seen from HostDecision; this is the inside of it.               *)
(*                                                                         *)
(* A call that waits for the lock has done nothing, so one call at a time  *)
(* is modelled, any number one after another, each by any principal and    *)
(* any service object, whose decision provider may be another one.  The    *)
(* command line works on the same evidence without the lock.  A process    *)
(* may die, and any write may fail, between any two steps.                 *)
(*                                                                         *)
(* Left out: metadata grade and payload safety (the tools only produce     *)
(* what passes them) and the versions of the components.                   *)
(***************************************************************************)
EXTENDS DecisionController, SessionStore, ToolGateway, SequencesExt

CONSTANTS
  Report,         \* what the diagnostics may find, as sequences of findings
  HostProposal,   \* what a Host may propose
  MaxBudget,      \* bound on the queries of a call
  MaxFaults,      \* bound on failures of tools and writes, and on deaths
  MaxCli,         \* bound on the commands of the command line
  None

ASSUME AgentAssumption ==
  /\ Report \subseteq Seq(Finding)
  /\ HostProposal \subseteq Proposal
  /\ {MaxBudget, MaxFaults, MaxCli} \subseteq Nat

VARIABLES
  report,   \* the findings of this run's data: the data never change
  result,   \* the published agent result
  call,     \* the call that holds the lock
  late,     \* the decision context has expired
  cli,      \* the records the command line has yet to append
  clis,     \* commands so far
  faults    \* failures so far

vars == <<evidence, nodes, report, result, call, late, cli, clis, faults>>

Plan == <<"inspect", "diagnose", "discover", "recommend", "review">>

NoCall ==
  [pc |-> "idle", role |-> "analyst", budget |-> 0, provider |-> "disabled",
   attempt |-> 0, leaf |-> 0, done |-> {}, diagnosis |-> {}, empty |-> FALSE,
   recommended |-> {}, todo |-> <<>>, got |-> {}, ctx |-> 0, proposal |-> None,
   inTime |-> FALSE, submission |-> 0, outcome |-> 0, reason |-> "none",
   denied |-> FALSE, failed |-> FALSE, result |-> None]

Init ==
  /\ EvidenceInit /\ SessionInit
  /\ report \in Report
  /\ result = None
  /\ call = NoCall
  /\ late = FALSE
  /\ cli = <<>> /\ clis = 0 /\ faults = 0

At(pc) == call.pc = pc
Fault   == faults < MaxFaults /\ faults' = faults + 1
NoFault == UNCHANGED faults

\* What the steps of a call leave alone.
Calling == UNCHANGED <<report, late, cli, clis>>

Business == call.diagnosis \cup call.recommended

-----------------------------------------------------------------------------
\* The journal entries of the orchestrator.
ToolCall(tool, says, ids, diagnosis) ==
  [tool |-> tool, says |-> says, ids |-> ids,
   args |-> [diagnosis |-> IF tool = "recommend" THEN diagnosis ELSE {}]]

AuditCall(args, ids) ==
  [tool |-> "decision", says |-> "recorded", ids |-> ids, args |-> args]

ReviewCall(decision, attempt) ==
  [tool |-> "review", says |-> "reviewed", ids |-> decision.evidence,
   args |-> [approved |-> decision.approved, reasons |-> decision.reasons,
             attempt |-> attempt]]

\* _append_tool_node, after a failure: the plan is given up for the review.
GiveUp(tool, says) ==
  /\ AppendChild(call.leaf, ToolCall(tool, says, Business, call.diagnosis))
  /\ call' = [call EXCEPT !.pc = "review", !.leaf = Len(nodes) + 1,
                !.denied = @ \/ says = "denied", !.failed = @ \/ says = "failed",
                !.todo = <<>>, !.got = {}]

\* The same after a success, with what the step changes in the call.
Proceed(tool, ids, next) ==
  /\ AppendChild(call.leaf, ToolCall(tool, "done", ids, call.diagnosis))
  /\ call' = [next EXCEPT !.leaf = Len(nodes) + 1, !.done = @ \cup {tool}]

Pay(tool) == [call EXCEPT !.budget = Paid(call.role, tool, @)]

-----------------------------------------------------------------------------
(***************************************************************************)
(* run: under the lock, with neither result nor journal.                   *)
(***************************************************************************)
Begin(role, budget, provider) ==
  /\ At("idle") /\ result = None
  /\ CreateSession("comprehensive")
  /\ call' = [NoCall EXCEPT !.pc = "inspect", !.role = role,
                !.budget = budget, !.provider = provider, !.leaf = 1]
  /\ Calling /\ NoFault /\ UNCHANGED <<evidence, result>>

\* The tool calls of the plan, one after the other (_execute_once).
IsTool == call.pc \in Tool

\* A recommend for an empty diagnosis is answered without the gateway.
AsksGateway == ~ (At("recommend") /\ call.empty)

Denied ==
  /\ IsTool /\ AsksGateway
  /\ ~ Authorize(call.role, call.pc, call.budget)
  /\ GiveUp(call.pc, "denied")
  /\ Calling /\ NoFault /\ UNCHANGED <<evidence, result>>

ToolFails ==
  /\ \/ IsTool /\ AsksGateway /\ Authorize(call.role, call.pc, call.budget)
     \/ At("diagnosing") \/ At("recommending")
  /\ GiveUp(CASE At("diagnosing") -> "diagnose"
              [] At("recommending") -> "recommend"
              [] OTHER -> call.pc, "failed")
  /\ Calling /\ Fault /\ UNCHANGED <<evidence, result>>

Inspect ==
  /\ At("inspect") /\ Authorize(call.role, "inspect", call.budget)
  /\ Proceed("inspect", {}, [Pay("inspect") EXCEPT !.pc = "diagnose"])
  /\ Calling /\ NoFault /\ UNCHANGED <<evidence, result>>

\* _diagnose_with_store: one append for each finding, bound to the input.
Diagnose ==
  /\ At("diagnose") /\ Authorize(call.role, "diagnose", call.budget)
  /\ call' = [Pay("diagnose") EXCEPT !.pc = "diagnosing",
                !.todo = [i \in 1..Len(report) |-> Diagnostic(report[i], TRUE)]]
  /\ Calling /\ NoFault /\ UNCHANGED <<evidence, nodes, result>>

\* One append of diagnose or recommend.  The ids reach the orchestrator with the
\* response, after the last of them.
AppendNext ==
  /\ call.todo # <<>>
  /\ evidence' = AppendRecord(evidence, Head(call.todo))
  /\ call' = [call EXCEPT !.todo = Tail(@),
                !.got = @ \cup {ContentId(evidence', Head(call.todo))}]
  /\ Calling /\ NoFault /\ UNCHANGED <<nodes, result>>

Diagnosed ==
  /\ At("diagnosing") /\ call.todo = <<>>
  /\ Proceed("diagnose", call.got,
             [call EXCEPT !.pc = "discover", !.diagnosis = call.got,
                          !.empty = call.got = {}, !.got = {}])
  /\ Calling /\ NoFault /\ UNCHANGED <<evidence, result>>

\* discover: a diagnosis that is not empty needs a decision first.
Discover ==
  /\ At("discover") /\ Authorize(call.role, "discover", call.budget)
  /\ Proceed("discover", call.diagnosis,
             [Pay("discover") EXCEPT
                !.pc = IF call.diagnosis = {} THEN "recommend" ELSE "prepare"])
  /\ Calling /\ NoFault /\ UNCHANGED <<evidence, result>>

-----------------------------------------------------------------------------
(***************************************************************************)
(* The decision.  Without a context there is nothing to record; with one,  *)
(* either a submission or its absence is recorded and then journalled.     *)
(***************************************************************************)
Undecided == [call EXCEPT !.pc = "review", !.failed = TRUE]

Unable(reason) == [call EXCEPT !.pc = "unavailable", !.reason = reason]

\* prepare: the diagnosis is read, and then the context appended in the lock.
Prepare ==
  /\ At("prepare")
  /\ call' = IF DiagnosisForRun(evidence, call.diagnosis)
             THEN [call EXCEPT !.pc = "issue"] ELSE Undecided
  /\ Calling /\ NoFault /\ UNCHANGED <<evidence, nodes, result>>

Issue ==
  LET ctx == Context(call.attempt, call.leaf, call.diagnosis)
  IN  /\ At("issue")
      /\ NewContext(evidence, call.attempt, call.leaf)
      /\ evidence' = AppendRecord(evidence, ctx)
      /\ call' = [call EXCEPT !.pc = "resolve",
                              !.ctx = ContentId(evidence', ctx)]
      /\ Calling /\ NoFault /\ UNCHANGED <<nodes, result>>

PrepareFails ==
  /\ call.pc \in {"prepare", "issue"}
  /\ call' = Undecided
  /\ Calling /\ Fault /\ UNCHANGED <<evidence, nodes, result>>

\* _resolve_decision_proposal: what the selected provider may come up with.
Offered ==
  IF Binding(call.provider).selected = "deterministic"
  THEN DeterministicProposals(evidence, evidence[call.ctx].parents)
  ELSE HostProposal

Resolve ==
  /\ At("resolve")
  /\ \E p \in Offered :
       call' = IF BindingMatches(Binding(call.provider), p)
               THEN [call EXCEPT !.pc = "submit", !.proposal = p]
               ELSE Unable("provider_error")
  /\ Calling /\ NoFault /\ UNCHANGED <<evidence, nodes, result>>

\* The Host has not answered, or its coordinator raised.
HostSilent ==
  /\ At("resolve") /\ Binding(call.provider).selected = "external_host"
  /\ \E reason \in {"provider_pending", "provider_error"} :
       call' = Unable(reason)
  /\ Calling /\ NoFault /\ UNCHANGED <<evidence, nodes, result>>

\* submit: the context is loaded, the time taken and the proposal validated,
\* and then, in the lock, proposal and result are appended.
Submit ==
  /\ At("submit")
  /\ call' = IF LoadContext(evidence, call.ctx)
             THEN [call EXCEPT !.pc = "persist", !.inTime = ~ late]
             ELSE Unable("submission_error")
  /\ Calling /\ NoFault /\ UNCHANGED <<evidence, nodes, result>>

Persist ==
  LET batch == Submission(evidence, call.ctx, call.proposal,
                          Binding(call.provider), call.inTime)
  IN  /\ At("persist")
      /\ NoSubmission(evidence, call.ctx)
      /\ evidence' = AppendMany(evidence, batch)
      /\ call' = [call EXCEPT !.pc = "audit",
                              !.submission = ContentId(evidence', batch[2])]
      /\ Calling /\ NoFault /\ UNCHANGED <<nodes, result>>

\* Whatever fails from submit to the journal entry: record it as unavailable.
SubmitFails ==
  /\ call.pc \in {"submit", "persist", "audit"}
  /\ call' = Unable("submission_error")
  /\ Calling /\ Fault /\ UNCHANGED <<evidence, nodes, result>>

Accepted == evidence[call.submission].reasons = {}

\* _append_decision_node.  Only an accepted decision goes on to recommend.
Audit ==
  LET prop == CHOOSE i \in evidence[call.submission].parents : i # call.ctx
  IN  /\ At("audit")
      /\ AppendChild(call.leaf,
           AuditCall([ctx |-> call.ctx, prop |-> prop, res |-> call.submission],
                     {call.ctx, prop, call.submission}))
      /\ call' = [call EXCEPT !.pc = IF Accepted THEN "recommend" ELSE "review",
                    !.failed = ~ Accepted, !.leaf = Len(nodes) + 1]
      /\ Calling /\ NoFault /\ UNCHANGED <<evidence, result>>

\* record_unavailable.
RecordUnavailable ==
  LET made == Unavailable(call.ctx, call.reason, Binding(call.provider))
  IN  /\ At("unavailable")
      /\ LoadContext(evidence, call.ctx) /\ NoSubmission(evidence, call.ctx)
      /\ evidence' = AppendRecord(evidence, made)
      /\ call' = [call EXCEPT !.pc = "auditOutcome",
                              !.outcome = ContentId(evidence', made)]
      /\ Calling /\ NoFault /\ UNCHANGED <<nodes, result>>

AuditOutcome ==
  /\ At("auditOutcome")
  /\ AppendChild(call.leaf, AuditCall([ctx |-> call.ctx, out |-> call.outcome],
                                      {call.ctx, call.outcome}))
  /\ call' = [Undecided EXCEPT !.leaf = Len(nodes) + 1]
  /\ Calling /\ NoFault /\ UNCHANGED <<evidence, result>>

\* record_unavailable or its journal entry failed.  After a failed submission
\* the run is given up; otherwise the review takes place without the record.
UnavailableFails ==
  /\ \/ At("unavailable") /\ NoFault
        /\ ~ (LoadContext(evidence, call.ctx) /\ NoSubmission(evidence, call.ctx))
     \/ call.pc \in {"unavailable", "auditOutcome"} /\ Fault
  /\ call' = IF call.reason = "submission_error" THEN NoCall ELSE Undecided
  /\ Calling /\ UNCHANGED <<evidence, nodes, result>>

-----------------------------------------------------------------------------
\* build_recommendations: one for each action that the findings call for.
Recommendation(log, ids, a) ==
  [kind |-> "recommendation", action |-> a,
   parents |-> {i \in ids : ActionFor[log[i].finding] = a}]

Recommendations(log, ids, actions) ==
  SetToSeq({Recommendation(log, ids, a) : a \in actions})

\* _recommend_with_store, controlled by the decision: it is replayed, it must
\* cover the same diagnosis, and only accepted actions are written.
Decided ==
  LET parents == evidence[call.submission].parents
      prop    == CHOOSE i \in parents : i # call.ctx
  IN  /\ ReplaySubmission(evidence, call.ctx, prop, call.submission)
      /\ evidence[call.ctx].parents = call.diagnosis
      /\ Accepted

Recommend ==
  /\ At("recommend") /\ AsksGateway
  /\ Authorize(call.role, "recommend", call.budget)
  /\ IF Decided
     THEN /\ call' = [Pay("recommend") EXCEPT !.pc = "recommending",
                        !.todo = Recommendations(evidence, call.diagnosis,
                                   evidence[call.submission].actions)]
          /\ UNCHANGED nodes
     ELSE GiveUp("recommend", "failed")
  /\ Calling /\ NoFault /\ UNCHANGED <<evidence, result>>

NothingToRecommend ==
  /\ At("recommend") /\ ~ AsksGateway
  /\ Proceed("recommend", {}, [call EXCEPT !.pc = "review"])
  /\ Calling /\ NoFault /\ UNCHANGED <<evidence, result>>

Recommended ==
  /\ At("recommending") /\ call.todo = <<>>
  /\ Proceed("recommend", Business \cup call.got,
             [call EXCEPT !.pc = "review", !.recommended = call.got, !.got = {}])
  /\ Calling /\ NoFault /\ UNCHANGED <<evidence, result>>

-----------------------------------------------------------------------------
(***************************************************************************)
(* The review.  What the tools reported is looked up in the evidence:      *)
(* everything must be there, findings once each, recommendations made from *)
(* these findings, and exactly the accepted actions if there is a decision *)
(* (accepted: a set of action sets, empty when there is none).             *)
(***************************************************************************)
Resolves(diagnosis, recommended, accepted) ==
  LET actions == {evidence[r].action : r \in recommended}
  IN  /\ diagnosis \subseteq Diagnosis(evidence)
      /\ recommended \subseteq OfKind(evidence, "recommendation")
      /\ Cardinality(FindingsOf(evidence, diagnosis)) = Cardinality(diagnosis)
      /\ \A r \in recommended : /\ evidence[r].parents # {}
                                /\ evidence[r].parents \subseteq diagnosis
      /\ \A S \in accepted :
           actions = S /\ Cardinality(recommended) = Cardinality(S)

Recoverable == {"missing_evidence", "missing_diagnosis", "evidence_mismatch"}

\* Mutant: the review does not hear of tools that failed.
ReviewUntold(found, claimed, denied, failed, empty, attempt) ==
  LET nothing == empty /\ claimed = {} /\ ~ denied
      reasons == {r \in Recoverable \cup {"permission_denied"} :
        \/ r = "missing_evidence"  /\ ~ nothing /\ found = {}
        \/ r = "permission_denied" /\ denied
        \/ r = "missing_diagnosis" /\ ~ nothing /\ claimed \cap found = {}
        \/ r = "evidence_mismatch" /\ ~ (claimed \subseteq found)}
  IN  [approved |-> reasons = {}, reasons |-> reasons, evidence |-> found,
       retry |-> reasons # {} /\ attempt < 1 /\ reasons \subseteq Recoverable]

\* Reviewer.review.
Review(found, claimed, denied, failed, empty, attempt) ==
  LET nothing == empty /\ claimed = {} /\ ~ failed /\ ~ denied
      reasons == {r \in Recoverable \cup {"permission_denied", "tool_failure"} :
        \/ r = "missing_evidence"  /\ ~ nothing /\ found = {}
        \/ r = "permission_denied" /\ denied
        \/ r = "missing_diagnosis" /\ ~ nothing /\ claimed \cap found = {}
        \/ r = "evidence_mismatch" /\ ~ (claimed \subseteq found)
        \/ r = "tool_failure"      /\ failed}
  IN  [approved |-> reasons = {}, reasons |-> reasons, evidence |-> found,
       retry |-> reasons # {} /\ attempt < 1 /\ reasons \subseteq Recoverable]

\* The decision of one attempt from what was collected in it.
Judge(diagnosis, recommended, accepted, denied, failed, empty, attempt) ==
  LET ok == Resolves(diagnosis, recommended, accepted)
  IN  Review(IF ok THEN diagnosis \cup recommended ELSE {}, diagnosis,
             denied, failed \/ ~ ok, empty, attempt)

ToolOf(n)  == nodes[n].call.tool
IdsOf(n)   == nodes[n].call.ids
ArgsOf(n)  == nodes[n].call.args
IsDone(n)  == nodes[n].call.says = "done"

\* Mutant: the decision is counted among the tools.
AllTools(attempt) == [i \in 1..Len(attempt) |-> ToolOf(attempt[i])]

\* The tools of an attempt as they are made public: without the decision.
WithoutDecision(tools) ==
  LET upTo[n \in 0..Len(tools)] ==
        IF n = 0 THEN <<>>
        ELSE IF tools[n] = "decision" THEN upTo[n - 1]
        ELSE Append(upTo[n - 1], tools[n])
  IN  upTo[Len(tools)]

PublicTools(attempt) ==
  WithoutDecision([i \in 1..Len(attempt) |-> ToolOf(attempt[i])])

Stages(done) == done \cap {"inspect", "diagnose", "discover"}

\* summary: whether the result says which analysis stages were done.
AgentResult(decision, tools, diagnosis, attempt, leaf, summary, done) ==
  [approved |-> decision.approved, reasons |-> decision.reasons,
   evidence |-> decision.evidence, diagnosis |-> diagnosis, tools |-> tools,
   attempt |-> attempt, leaf |-> leaf, summary |-> summary,
   stages |-> IF summary THEN Stages(done) ELSE {}]

\* A result that is missing is told from every result there can be.
ASSUME NoneAssumption ==
  None \notin
    [approved : BOOLEAN,
     reasons : SUBSET (Recoverable \cup {"permission_denied", "tool_failure"}),
     evidence : SUBSET Nat, diagnosis : SUBSET Nat,
     tools : Seq(Tool \cup {"review"}), attempt : Nat, leaf : Nat,
     summary : BOOLEAN, stages : SUBSET Tool]

(***************************************************************************)
(* The end of _execute_once and of run: the review is journalled.  If it   *)
(* allowed another attempt, that would start here; it never does.          *)
(***************************************************************************)
ReviewAttempt ==
  LET accepted == IF call.submission = 0 THEN {}
                  ELSE {evidence[call.submission].actions}
      decision == Judge(call.diagnosis, call.recommended, accepted,
                        call.denied, call.failed, call.empty, call.attempt)
      review   == Child(call.leaf, ReviewCall(decision, call.attempt))
      leaf     == Len(nodes) + 1
      tools    == PublicTools(Last(Attempts))
  IN  /\ At("review")
      /\ IF decision.retry /\ call.attempt = 0
         THEN /\ nodes' = nodes \o <<review, RetryNode(leaf, "retry")>>
              /\ call' = [NoCall EXCEPT !.pc = "inspect", !.attempt = 1,
                            !.role = call.role, !.budget = call.budget,
                            !.provider = call.provider, !.leaf = leaf + 1]
         ELSE /\ PersistNode(review)
              /\ call' = [call EXCEPT !.pc = "publish", !.result =
                   AgentResult(decision, Append(tools, "review"),
                     call.diagnosis \cap decision.evidence, call.attempt, leaf,
                     "inspect" \in call.done, call.done)]
      /\ Calling /\ NoFault /\ UNCHANGED <<evidence, result>>

\* AgentResultStore.publish, and the end of the call.
Publish ==
  /\ At("publish")
  /\ result \in {None, call.result}
  /\ result' = call.result
  /\ call' = NoCall
  /\ Calling /\ NoFault /\ UNCHANGED <<evidence, nodes>>

\* A write of the journal or of the result fails, or the process dies.
Abandon ==
  /\ ~ At("idle")
  /\ call' = NoCall
  /\ Calling /\ Fault /\ UNCHANGED <<evidence, nodes, result>>

-----------------------------------------------------------------------------
(***************************************************************************)
(* validate_terminal_result: the journal and the evidence are read again,  *)
(* and every entry of every attempt must be what the plan, the decision    *)
(* and the review imply, by the same operators that wrote them.            *)
(***************************************************************************)
Members(attempt)    == {attempt[i] : i \in 1..Len(attempt)}
Done(attempt, tool) == {n \in Members(attempt) : ToolOf(n) = tool /\ IsDone(n)}
Failures(attempt)   == {n \in Members(attempt) :
                          nodes[n].call.says \in {"denied", "failed"}}
Audits(attempt)     == {i \in 1..Len(attempt) : ToolOf(attempt[i]) = "decision"}

DiagnosisOf(attempt) == UNION {IdsOf(n) : n \in Done(attempt, "diagnose")}
RecommendedOf(attempt) ==
  (UNION {IdsOf(n) : n \in Done(attempt, "recommend")}) \ DiagnosisOf(attempt)

\* The journal is one branch under one root.
OneBranch(leaf) ==
  /\ leaf = Len(nodes)
  /\ Branch(leaf) = Replay
  /\ nodes[1].kind = "root"

\* The plan was followed up to the review, to its end if it was approved.
PlanFollowed(attempt, approved) ==
  LET tools == PublicTools(attempt)
  IN  /\ tools # <<>> /\ ToolOf(Last(attempt)) = "review"
      /\ Front(tools) = SubSeq(Front(Plan), 1, Len(tools) - 1)
      /\ approved => tools = Plan

\* A tool's entry names the evidence so far; a failure is followed by the review.
ToolEntryValid(attempt, i) ==
  LET n == attempt[i]
      diagnosis == DiagnosisOf(attempt)
      before == IF ToolOf(n) \in {"discover", "recommend"} THEN diagnosis ELSE {}
  IN  /\ ArgsOf(n).diagnosis = IF ToolOf(n) = "recommend" THEN diagnosis ELSE {}
      /\ ~ IsDone(n) => IdsOf(n) = before /\ i = Len(attempt) - 1
      /\ IsDone(n) /\ ToolOf(n) \in {"inspect", "discover"} => IdsOf(n) = before
      /\ IsDone(n) /\ ToolOf(n) = "recommend" => before \subseteq IdsOf(n)

IsSubmission(n) == "res" \in DOMAIN ArgsOf(n)

\* _validate_decision_audit: the decision replays, for this very attempt and
\* diagnosis, and was made by the provider that is bound now.
DecisionReplays(n, anchor, attempt, k, provider) ==
  LET ctx == evidence[ArgsOf(n).ctx]
  IN  /\ IF IsSubmission(n)
         THEN /\ ReplaySubmission(evidence, ArgsOf(n).ctx, ArgsOf(n).prop,
                                  ArgsOf(n).res)
              /\ evidence[ArgsOf(n).prop].binding = Binding(provider)
         ELSE /\ ReplayUnavailable(evidence, ArgsOf(n).ctx, ArgsOf(n).out)
              /\ evidence[ArgsOf(n).out].binding = Binding(provider)
      /\ ctx.attempt = k - 1 /\ ctx.anchor = anchor
      /\ ctx.parents = DiagnosisOf(attempt)

IsAccepted(n) == IsSubmission(n) /\ evidence[ArgsOf(n).res].reasons = {}

\* The decision comes right after discover; recommend follows iff it accepted.
AuditValid(attempt, k, i, provider) ==
  /\ i > 1 /\ attempt[i - 1] \in Done(attempt, "discover")
  /\ DiagnosisOf(attempt) # {}
  /\ DecisionReplays(attempt[i], attempt[i - 1], attempt, k, provider)
  /\ ToolOf(attempt[i + 1]) = IF IsAccepted(attempt[i]) THEN "recommend"
                                                        ELSE "review"

\* One decision, exactly when there was something to decide.
AuditsValid(attempt, k, provider) ==
  /\ Cardinality(Audits(attempt)) =
       IF DiagnosisOf(attempt) # {} /\ Done(attempt, "discover") # {} THEN 1 ELSE 0
  /\ \A i \in Audits(attempt) : AuditValid(attempt, k, i, provider)

ActionsOf(attempt) ==
  {evidence[ArgsOf(attempt[i]).res].actions :
     i \in {j \in Audits(attempt) : IsSubmission(attempt[j])}}

\* The review recomputed from the entries of the attempt.
ExpectedReview(attempt, k) ==
  Judge(DiagnosisOf(attempt), RecommendedOf(attempt), ActionsOf(attempt),
        \E n \in Failures(attempt) : nodes[n].call.says = "denied",
        \/ \E n \in Failures(attempt) : nodes[n].call.says = "failed"
        \/ \E i \in Audits(attempt) : ~ IsAccepted(attempt[i]),
        Done(attempt, "diagnose") # {} /\ DiagnosisOf(attempt) = {}, k - 1)

AttemptValid(k, provider, r) ==
  LET attempt == Attempts[k]
      isLast  == k = Len(Attempts)
      review  == ExpectedReview(attempt, k)
  IN  /\ PlanFollowed(attempt, isLast /\ r.approved)
      /\ \A i \in 1..(Len(attempt) - 1) \ Audits(attempt) :
           ToolEntryValid(attempt, i)
      /\ AuditsValid(attempt, k, provider)
      /\ nodes[Last(attempt)].call = ReviewCall(review, k - 1)
      /\ isLast => /\ PublicTools(attempt) = r.tools
                   /\ [review EXCEPT !.retry = FALSE] =
                        [approved |-> r.approved, reasons |-> r.reasons,
                         evidence |-> r.evidence, retry |-> FALSE]
      /\ ~ isLast => review.retry

\* At the end the chain is verified and the evidence resolved once more, which
\* now must not fail.
EvidenceValid(attempt, r) ==
  /\ r.diagnosis \subseteq DiagnosisOf(attempt)
  /\ r.approved => r.diagnosis = DiagnosisOf(attempt)
  /\ VerifyChain(evidence)
  /\ Resolves(DiagnosisOf(attempt), RecommendedOf(attempt), ActionsOf(attempt))
  /\ r.evidence = DiagnosisOf(attempt) \cup RecommendedOf(attempt)

\* Mutant: a tool that was called counts as done.
CalledIn(attempt) == {ToolOf(n) : n \in Members(attempt)} \cap Tool

DoneIn(attempt) == {t \in Tool : Done(attempt, t) # {}}

TerminalValid(r, provider) ==
  /\ OneBranch(r.leaf)
  /\ Len(Attempts) = r.attempt + 1
  /\ \A k \in 1..Len(Attempts) : AttemptValid(k, provider, r)
  /\ EvidenceValid(Last(Attempts), r)
  /\ r.summary => r.stages = Stages(DoneIn(Last(Attempts)))

-----------------------------------------------------------------------------
Closed == nodes # <<>> /\ nodes[Len(nodes)].kind = "child"
                       /\ ToolOf(Len(nodes)) = "review"

\* recover_terminal_result: the result read off a closed journal, if it is valid.
Recovered(provider) ==
  LET attempt == Last(Attempts)
      says    == ArgsOf(Len(nodes))
      r == AgentResult([approved |-> says.approved, reasons |-> says.reasons,
                        evidence |-> IdsOf(Len(nodes))],
             PublicTools(attempt), DiagnosisOf(attempt), Len(Attempts) - 1,
             Len(nodes), TRUE, DoneIn(attempt))
  IN  IF Closed /\ r.diagnosis \subseteq r.evidence /\ TerminalValid(r, provider)
      THEN r ELSE None

(***************************************************************************)
(* orchestrate, with a journal and no result: recover it and publish.      *)
(* Every other case with a result or a journal answers or raises and       *)
(* changes nothing: a valid result is returned, an invalid one is not, and *)
(* a journal that does not recover is refused as incomplete.               *)
(***************************************************************************)
Recover(role, provider) ==
  /\ At("idle") /\ result = None
  /\ MaySeeResult(role)
  /\ Recovered(provider) # None
  /\ result' = Recovered(provider)
  /\ Calling /\ NoFault /\ UNCHANGED <<evidence, nodes, call>>

Expire ==
  /\ Contexts(evidence) # {} /\ ~ late
  /\ late' = TRUE
  /\ UNCHANGED <<evidence, nodes, report, result, call, cli, clis, faults>>

-----------------------------------------------------------------------------
(***************************************************************************)
(* The commands diagnose --run-id and recommend of the command line, on    *)
(* the evidence of the same run.  Neither has the context of the run, so   *)
(* their findings do not name its input.  Each append is its own step.     *)
(***************************************************************************)
CliDiagnose ==
  /\ cli = <<>> /\ clis < MaxCli /\ report # <<>>
  /\ cli' = [i \in 1..Len(report) |-> Diagnostic(report[i], FALSE)]
  /\ clis' = clis + 1
  /\ UNCHANGED <<evidence, nodes, report, result, call, late, faults>>

\* Any recommendation for chosen findings, each finding once; no decision asked.
CliRecommend(ids) ==
  /\ cli = <<>> /\ clis < MaxCli
  /\ ids # {} /\ Cardinality(FindingsOf(evidence, ids)) = Cardinality(ids)
  /\ cli' = Recommendations(evidence, ids, Applicable(evidence, ids))
  /\ clis' = clis + 1
  /\ UNCHANGED <<evidence, nodes, report, result, call, late, faults>>

CliAppend ==
  /\ cli # <<>>
  /\ evidence' = AppendRecord(evidence, Head(cli))
  /\ cli' = Tail(cli)
  /\ UNCHANGED <<nodes, report, result, call, late, clis, faults>>

-----------------------------------------------------------------------------
ToolStep == Denied \/ ToolFails \/ Inspect \/ Diagnose \/ AppendNext
            \/ Diagnosed \/ Discover \/ Recommend \/ NothingToRecommend
            \/ Recommended
DecisionStep == Prepare \/ Issue \/ PrepareFails \/ Resolve \/ HostSilent
                \/ Submit \/ Persist \/ SubmitFails \/ Audit
                \/ RecordUnavailable \/ AuditOutcome \/ UnavailableFails
CliStep == CliDiagnose \/ CliAppend
           \/ \E ids \in SUBSET Diagnosis(evidence) : CliRecommend(ids)

Next ==
  \/ \E role \in Role, budget \in 0..MaxBudget, provider \in Provider :
       Begin(role, budget, provider)
  \/ ToolStep
  \/ DecisionStep
  \/ ReviewAttempt \/ Publish \/ Abandon
  \/ \E role \in Role, provider \in Provider : Recover(role, provider)
  \/ Expire
  \/ CliStep

Spec == Init /\ [][Next]_vars

-----------------------------------------------------------------------------
(***************************************************************************)
(* A journal that reached its review can be turned into a result again,    *)
(* whatever failed on the way, by a call with the provider that decided.   *)
(* There are exactly two exceptions, both wanted by fail-closed design:    *)
(* a decision that was due but is not in the journal, and an accepted one  *)
(* whose recommendations were not completed.  The diagnose command of the  *)
(* command line is excluded here; see ApprovedStaysRecoverable.            *)
(***************************************************************************)
IsForeign(i)  == evidence[i].kind = "diagnostic" /\ ~ evidence[i].bound
Undisturbed   == ~ \E i \in 1..Len(evidence) : IsForeign(i)
DecisionIsDue(attempt) ==
  Done(attempt, "discover") # {} /\ DiagnosisOf(attempt) # {}
LeftHalfway(attempt) ==
  /\ \E i \in Audits(attempt) : IsAccepted(attempt[i])
  /\ Done(attempt, "recommend") = {}

JournalRecovers ==
  Closed /\ Undisturbed =>
    LET attempt == Last(Attempts)
    IN  \/ DecisionIsDue(attempt) /\ Audits(attempt) = {}
        \/ LeftHalfway(attempt)
        \/ \E provider \in Provider : Recovered(provider) # None

(***************************************************************************)
(* It makes no difference whether a call published its result itself or    *)
(* died before and a later one recovered it from the journal: what can be  *)
(* recovered is what was, or is about to be, published.  (When inspect did *)
(* not succeed only the recovered result names the analysis stages.)       *)
(***************************************************************************)
SameResult(r, s) ==
  /\ [r EXCEPT !.summary = TRUE, !.stages = {}]
       = [s EXCEPT !.summary = TRUE, !.stages = {}]
  /\ r.summary /\ s.summary => r.stages = s.stages

SameAnswer ==
  \A provider \in Provider : \A r \in {result, call.result} \ {None} :
    Recovered(provider) # None => SameResult(Recovered(provider), r)

(***************************************************************************)
(* A context is decided once: either one proposal with its result or one   *)
(* unavailable outcome, never both, although submission, its journal entry *)
(* and the record of their failure fail and follow one another in any way. *)
(***************************************************************************)
OneDecision ==
  \A c \in Contexts(evidence) :
    /\ \A d \in Contexts(evidence) : c = d \/ evidence[c].anchor # evidence[d].anchor
    /\ LET made == DecisionRecords(evidence, c)
           kinds == {evidence[i].kind : i \in made}
       IN  /\ kinds \in {{}, {"proposal", "result"}, {"unavailable"}}
           /\ Cardinality(made) = Cardinality(kinds)

(***************************************************************************)
(* An approval is grounded in the evidence: there was nothing to find, or  *)
(* every finding of the run's own input was recorded, a proposal about all *)
(* of them was submitted in time and accepted, and what is recommended is  *)
(* exactly what it names.                                                  *)
(***************************************************************************)
GroundedIn(r, res) ==
  LET prop == CHOOSE i \in evidence[res].parents : evidence[i].kind = "proposal"
  IN  /\ evidence[res].reasons = {}
      /\ evidence[prop].inTime
      /\ {evidence[i].action : i \in r.evidence \ r.diagnosis}
           = evidence[prop].proposal.actions
      /\ evidence[prop].proposal.actions \subseteq
           {ActionFor[report[i]] : i \in 1..Len(report)}

ApprovalIsGrounded ==
  result # None /\ result.approved =>
    \/ report = <<>> /\ result.evidence = {}
    \/ /\ {evidence[i] : i \in result.diagnosis}
             = {Diagnostic(report[i], TRUE) : i \in 1..Len(report)}
       /\ \E res \in OfKind(evidence, "result") : GroundedIn(result, res)

(***************************************************************************)
(* The second attempt that planner, reviewer and orchestrator provide for  *)
(* is never made: with this plan nothing makes evidence go missing without *)
(* also being a failure of a tool or of permission.                        *)
(***************************************************************************)
SingleAttempt == \A n \in 1..Len(nodes) : nodes[n].kind # "retry"

(***************************************************************************)
(* An approved result that was published can be verified and returned for  *)
(* ever after: what the documentation promises of terminal facts.          *)
(***************************************************************************)
ApprovedStaysRecoverable ==
  result # None /\ result.approved =>
    \E provider \in Provider : TerminalValid(result, provider)
=============================================================================
