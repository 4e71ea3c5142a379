-------------------------- MODULE DecisionController --------------------------
(***************************************************************************)
(* The decision of a run (riskprobe.agents.decision_controller, _contracts *)
(* and _providers): a context is issued for a complete diagnosis, some     *)
(* provider proposes actions for it, and the validator's result is kept in *)
(* the evidence with the proposal; or it is kept that there was none.      *)
(*                                                                         *)
(* All of it lives in the evidence of the run, so every step is a reading  *)
(* of the log followed, under the store lock, by an append.  The reading   *)
(* that binds the diagnosis is done before the lock is taken.              *)
(*                                                                         *)
(* Abstracted: TTL and clock to "in time" at the moment of submission; the *)
(* provider identities to their modes (one provider of each).  The policy  *)
(* allows every action, and metadata grade does not change a decision.     *)
(***************************************************************************)
EXTENDS EvidenceStore, FiniteSets

CONSTANTS
  Finding,      \* findings of the diagnostics
  Action,       \* action codes
  ActionFor,    \* [Finding -> Action]: the action that answers a finding
  MinActions,   \* DecisionPolicy.min_action_count
  MaxActions    \* DecisionPolicy.max_action_count

ASSUME DecisionAssumption ==
  /\ ActionFor \in [Finding -> Action] /\ IsFiniteSet(Action)
  /\ {MinActions, MaxActions} \subseteq Nat \ {0} /\ MinActions <= MaxActions

Provider == {"disabled", "deterministic", "external_host"}

\* bound: the finding names the input of the run, as every call that has the
\* context of the run does; the diagnose command has none.
Diagnostic(f, bound) ==
  [kind |-> "diagnostic", parents |-> {}, finding |-> f, bound |-> bound]

Context(attempt, anchor, diagnosis) ==
  [kind |-> "context", parents |-> diagnosis,
   attempt |-> attempt, anchor |-> anchor]

Diagnosis(log) == OfKind(log, "diagnostic")
Contexts(log)  == OfKind(log, "context")

FindingsOf(log, ids) == {log[i].finding : i \in ids}

\* applicable_action_codes.
Applicable(log, ids) == {ActionFor[f] : f \in FindingsOf(log, ids)}

-----------------------------------------------------------------------------
\* _diagnosis_for_run: the ids are all diagnostic records of the run, and no
\* finding is among them twice.
DiagnosisForRun(log, ids) ==
  /\ VerifyChain(log)
  /\ ids # {} /\ ids = Diagnosis(log)
  /\ Cardinality(FindingsOf(log, ids)) = Cardinality(ids)

\* _require_new_context.
NewContext(log, attempt, anchor) ==
  \A i \in Contexts(log) : log[i].attempt # attempt \/ log[i].anchor # anchor

\* _load_context.
LoadContext(log, ctx) == DiagnosisForRun(log, log[ctx].parents)

\* _record_targets_context.
Targets(r, ctx) ==
  r.kind \in {"proposal", "result", "unavailable"} /\ ctx \in r.parents

\* _decision_records_for_context.
DecisionRecords(log, ctx) == {i \in 1..Len(log) : Targets(log[i], ctx)}

\* Mutant: only an unavailable outcome stands in the way.
NoOutcome(log, ctx) ==
  \A i \in DecisionRecords(log, ctx) : log[i].kind # "unavailable"

\* _require_no_submission.
NoSubmission(log, ctx) == DecisionRecords(log, ctx) = {}

\* _require_exact_submission and _require_exact_unavailable.
ExactSubmission(log, ctx, prop, res) == DecisionRecords(log, ctx) = {prop, res}
ExactUnavailable(log, ctx, out) == DecisionRecords(log, ctx) = {out}

-----------------------------------------------------------------------------
(***************************************************************************)
(* Providers.  A binding says who was asked first and who answered: the    *)
(* disabled provider passes on to the deterministic one, which proposes    *)
(* every applicable action up to the limit.                                *)
(***************************************************************************)
Binding(provider) ==
  [primary  |-> provider,
   selected |-> IF provider = "disabled" THEN "deterministic" ELSE provider]

\* The actions in the order of their codes, cut off at the limit.
FirstActions(actions, S) ==
  S \subseteq actions /\ Cardinality(S) = IF Cardinality(actions) < MaxActions
                                          THEN Cardinality(actions)
                                          ELSE MaxActions

\* about, complete: the proposal names this context, and its whole diagnosis.
Proposal == [about : BOOLEAN, complete : BOOLEAN, actions : SUBSET Action,
             source : {"deterministic", "external_host"}]

DeterministicProposals(log, ids) ==
  {p \in Proposal :
     /\ p.about /\ p.complete /\ p.source = "deterministic"
     /\ FirstActions(Applicable(log, ids), p.actions)
     /\ Cardinality(p.actions) >= MinActions}

\* _provider_binding_matches_proposal, which the orchestrator checks as well.
BindingMatches(binding, p) == p.source = binding.selected

-----------------------------------------------------------------------------
\* ProposalValidator.validate.
Reasons(log, ctx, p, inTime) ==
  {r \in {"context_mismatch", "context_expired", "evidence_mismatch",
          "action_count_invalid", "action_not_applicable"} :
     \/ r = "context_mismatch"  /\ ~ p.about
     \/ r = "context_expired"   /\ ~ inTime
     \/ r = "evidence_mismatch" /\ ~ p.complete
     \/ r = "action_count_invalid"
          /\ Cardinality(p.actions) \notin MinActions..MaxActions
     \/ r = "action_not_applicable"
          /\ ~ (p.actions \subseteq Applicable(log, log[ctx].parents))}

\* Mutant: the expiry of the context is not looked at.
ValidateLate(log, ctx, p, inTime) ==
  LET reasons == Reasons(log, ctx, p, TRUE)
  IN  [reasons |-> reasons, actions |-> IF reasons = {} THEN p.actions ELSE {}]

Validate(log, ctx, p, inTime) ==
  LET reasons == Reasons(log, ctx, p, inTime)
  IN  [reasons |-> reasons, actions |-> IF reasons = {} THEN p.actions ELSE {}]

\* The two records submit writes in one batch; the proposal comes first.
Submission(log, ctx, p, binding, inTime) ==
  LET made == [kind |-> "proposal", parents |-> {ctx}, proposal |-> p,
               binding |-> binding, inTime |-> inTime]
      says == Validate(log, ctx, p, inTime)
  IN  <<made,
        [kind |-> "result", parents |-> {ctx, Len(log) + 1},
         reasons |-> says.reasons, actions |-> says.actions]>>

Unavailable(ctx, reason, binding) ==
  [kind |-> "unavailable", parents |-> {ctx}, reason |-> reason,
   binding |-> binding]

(***************************************************************************)
(* replay and replay_unavailable: a decision is believed when its context  *)
(* still loads, the validator still says the same of the proposal at the   *)
(* time it was submitted, and nothing else was recorded for the context.   *)
(***************************************************************************)
ReplaySubmission(log, ctx, prop, res) ==
  /\ {ctx, prop, res} \subseteq 1..Len(log)
  /\ log[ctx].kind = "context" /\ LoadContext(log, ctx)
  /\ log[prop].kind = "proposal" /\ log[prop].parents = {ctx}
  /\ log[res].kind = "result" /\ log[res].parents = {ctx, prop}
  /\ Validate(log, ctx, log[prop].proposal, log[prop].inTime)
       = [reasons |-> log[res].reasons, actions |-> log[res].actions]
  /\ ExactSubmission(log, ctx, prop, res)

ReplayUnavailable(log, ctx, out) ==
  /\ {ctx, out} \subseteq 1..Len(log)
  /\ log[ctx].kind = "context" /\ LoadContext(log, ctx)
  /\ log[out].kind = "unavailable" /\ log[out].parents = {ctx}
  /\ ExactUnavailable(log, ctx, out)
=============================================================================
