-------------------------- MODULE EvolutionRegistry --------------------------
(***************************************************************************)
(* The registry of agent versions: riskprobe.evolution.registry.           *)
(*                                                                         *)
(* Candidates are registered with the report of their evaluation, and one  *)
(* of them is active.  It is replaced by promoting a challenger that was   *)
(* compared with it, or by rolling back to an earlier one; both need the   *)
(* approval of a person the registry object in use trusts, and both are    *)
(* written to a history and to an audit chain.  Every operation is one     *)
(* BEGIN IMMEDIATE transaction, so an operation is a step; an operation    *)
(* that raises changes nothing and is not one.                             *)
(*                                                                         *)
(* A hash is what it is the hash of: a version id is a position in         *)
(* candidates, which holds no version twice, and an audit event is linked  *)
(* to the one before it by its position.  The six metrics of a report are  *)
(* one score, and candidates that differ in their contents only are one.   *)
(***************************************************************************)
EXTENDS Naturals, Sequences

CONSTANTS
  Report,         \* evaluation reports: [suite, version, score]
  Full,           \* the score of a report whose cases all passed
  Registry,       \* registry objects: [suites, approvers], what each trusts
  Approver,       \* people who may sign an approval
  MaxCandidates,  \* bound on the candidates
  MaxHistory,     \* bound on the history
  Absent

ASSUME RegistryAssumption ==
  /\ Full \in Nat
  /\ \A r \in Report : r.score \in 0..Full
  /\ Absent \notin Report
  /\ MaxCandidates \in Nat /\ MaxCandidates >= 2
  /\ MaxHistory \in Nat

VARIABLES
  schema,      \* user_version of the database: 0 if it is new
  candidates,  \* candidate_versions
  active,      \* evolution_state: the active version, 0 for none
  history,     \* promotion_history
  audit        \* evolution_audit

vars == <<schema, candidates, active, history, audit>>

\* A candidate: the report its gate was made from, its parent (0 for none), the
\* regressions found against the parent, whether it was compared at all, and
\* whether the report itself is stored with it.
Candidate == [report : Report, parent : 0..MaxCandidates, regressed : BOOLEAN,
              compared : BOOLEAN, stored : BOOLEAN]
Version   == DOMAIN candidates
HistoryRow == [action : {"promote", "rollback"}, candidate : 1..MaxCandidates,
               previous : 0..MaxCandidates, active : 0..MaxCandidates,
               promoted : BOOLEAN]
AuditEvent == [type : {"promote", "rollback"}, candidate : 1..MaxCandidates,
               previous : 0..MaxCandidates]
HumanApproval == [action : {"promote", "rollback"}, version : 1..MaxCandidates,
                  approver : Approver]

Passed(r) == r.score = Full

\* What a registry of the first schema holds: one or two passing versions, the
\* second promoted over the first, no reports and no audit; on which suites, the
\* first schema does not tell.  Rows of denied promotions, which have no event
\* after the migration either, are left out.
Legacy(r, p) == [report |-> r, parent |-> p, regressed |-> FALSE,
                 compared |-> FALSE, stored |-> FALSE]
Promotion(v) == [action |-> "promote", candidate |-> v, previous |-> v - 1,
                 active |-> v, promoted |-> TRUE]

InitNew == schema = 0 /\ candidates = <<>> /\ active = 0 /\ history = <<>>

InitLegacy ==
  /\ schema = 1
  /\ \E r, q \in Report :
       /\ Passed(r) /\ Passed(q)
       /\ candidates \in {<<Legacy(r, 0)>>, <<Legacy(r, 0), Legacy(q, 1)>>}
  /\ active = Len(candidates)
  /\ history = [v \in 1..Len(candidates) |-> Promotion(v)]

Init == (InitNew \/ InitLegacy) /\ audit = <<>>

-----------------------------------------------------------------------------
\* Mutant: the previous version is read after the active one was set.
EventAfterwards(type, v) == [type |-> type, candidate |-> v, previous |-> v]

ActiveEvent(type, v) == [type |-> type, candidate |-> v, previous |-> active]

\* Opening the registry: an old database is brought up to date, with an audit
\* event for each promotion of its history.
Open ==
  /\ schema # 2
  /\ schema' = 2
  /\ audit' = [i \in 1..Len(history) |->
                 [type |-> history[i].action, candidate |-> history[i].candidate,
                  previous |-> history[i].previous]]
  /\ UNCHANGED <<candidates, active, history>>

Trusts(g, r) == r.suite \in g.suites

HasReport(v) == v \in Version /\ candidates[v].stored

Regressed(baseline, challenger) == challenger.score < baseline.score

\* Mutant: the suites are not compared.
ComparableAcross(baseline, challenger) ==
  baseline # challenger /\ baseline.version # challenger.version

\* _validate_comparison_binding: the comparison handed in must be the one that
\* follows from the two reports, which are of one suite and of two versions.
Comparable(baseline, challenger) ==
  /\ baseline # challenger /\ baseline.version # challenger.version
  /\ baseline.suite = challenger.suite

\* The version id is a hash of contents, gate and parent.
Known(c) ==
  \E v \in Version :
    /\ candidates[v].report = c.report /\ candidates[v].parent = c.parent
    /\ candidates[v].regressed = c.regressed

\* register_candidate.  A version that is known is not written again; it is
\* returned, or refused if it was registered with another comparison.
Register(g, r, p, compare) ==
  LET base == candidates[p].report
      c == [report |-> r, parent |-> p, compared |-> compare, stored |-> TRUE,
            regressed |-> compare /\ Regressed(base, r)]
  IN
  /\ schema = 2 /\ Len(candidates) < MaxCandidates
  /\ Trusts(g, r)
  /\ p \in Version \cup {0}
  /\ compare => HasReport(p) /\ Comparable(base, r)
  /\ ~ Known(c)
  /\ candidates' = Append(candidates, c)
  /\ UNCHANGED <<schema, active, history, audit>>

-----------------------------------------------------------------------------
\* _promotion_approval and _rollback_approval
Approves(g, approval, action, v) ==
  /\ approval # Absent
  /\ approval.action = action /\ approval.version = v
  /\ approval.approver \in g.approvers

\* Mutant: the parent may be any version.
ChallengesAny(v, baseline) ==
  /\ v # active
  /\ HasReport(active) /\ baseline = candidates[active].report
  /\ Comparable(baseline, candidates[v].report)

\* What promote demands when a version is active: the caller read the report of
\* that very version, and v descends from it.
Challenges(v, baseline) ==
  /\ v # active /\ candidates[v].parent = active
  /\ HasReport(active) /\ baseline = candidates[active].report
  /\ Comparable(baseline, candidates[v].report)

\* The gates: that of the registration and that of the comparison now made.
EvalPassed(v) ==
  /\ Passed(candidates[v].report) /\ ~ candidates[v].regressed
  /\ active # 0 => ~ Regressed(candidates[active].report, candidates[v].report)

Log(action, v, promoted) ==
  history' = Append(history,
    [action |-> action, candidate |-> v, previous |-> active,
     active |-> IF promoted THEN v ELSE active, promoted |-> promoted])

Activate(type, v) == active' = v /\ audit' = Append(audit, ActiveEvent(type, v))

\* promote.  Without a baseline the call is a bootstrap.  What fails at a gate
\* is denied, and the denial is written to the history.
Promote(g, v, approval, baseline) ==
  LET promoted == EvalPassed(v) /\ Approves(g, approval, "promote", v) IN
  /\ schema = 2 /\ Len(history) < MaxHistory
  /\ HasReport(v) /\ Trusts(g, candidates[v].report)
  /\ IF active = 0 THEN baseline = Absent /\ candidates[v].parent = 0
                   ELSE Challenges(v, baseline)
  /\ Log("promote", v, promoted)
  /\ IF promoted THEN Activate("promote", v) ELSE UNCHANGED <<active, audit>>
  /\ UNCHANGED <<schema, candidates>>

PromotedBefore(v) ==
  \E i \in DOMAIN audit : audit[i].type = "promote" /\ audit[i].candidate = v

Rollback(g, v, approval) ==
  /\ schema = 2 /\ Len(history) < MaxHistory
  /\ v \in Version /\ Trusts(g, candidates[v].report)
  /\ PromotedBefore(v)
  /\ Approves(g, approval, "rollback", v)
  /\ v # active
  /\ Log("rollback", v, TRUE)
  /\ Activate("rollback", v)
  /\ UNCHANGED <<schema, candidates>>

Next ==
  \/ Open
  \/ \E g \in Registry, r \in Report, p \in 0..MaxCandidates, compare \in BOOLEAN :
       Register(g, r, p, compare)
  \/ \E g \in Registry, v \in Version, a \in HumanApproval \cup {Absent},
        b \in Report \cup {Absent} : Promote(g, v, a, b)
  \/ \E g \in Registry, v \in Version, a \in HumanApproval : Rollback(g, v, a)

Spec == Init /\ [][Next]_vars

-----------------------------------------------------------------------------
(* Properties *)

\* The tables are well typed, no version is written twice, and a parent was
\* registered before its children.
RegistryTypeOK ==
  /\ schema \in {0, 1, 2}
  /\ candidates \in Seq(Candidate) /\ Len(candidates) <= MaxCandidates
  /\ active \in 0..Len(candidates)
  /\ history \in Seq(HistoryRow)
  /\ audit \in Seq(AuditEvent)
  /\ \A v \in Version : candidates[v].parent < v
  /\ \A v, w \in Version :
       /\ candidates[v].report = candidates[w].report
       /\ candidates[v].parent = candidates[w].parent
       /\ candidates[v].regressed = candidates[w].regressed
       => v = w

\* The active version can be recomputed from either record: each row of the
\* history and each audit event starts from the version the one before it left
\* active, and the last one left the version that is active.
AfterAudit(i)   == IF i = 0 THEN 0 ELSE audit[i].candidate
AfterHistory(i) == IF i = 0 THEN 0 ELSE history[i].active

RecordsTellActive ==
  /\ \A i \in DOMAIN history : history[i].previous = AfterHistory(i - 1)
  /\ active = AfterHistory(Len(history))
  /\ \A i \in DOMAIN audit : audit[i].previous = AfterAudit(i - 1)
  /\ schema = 2 => active = AfterAudit(Len(audit))

\* The active version only ever moves one step forward, to a passing child of
\* the version active until then, or back to one that was promoted before; and
\* it never becomes none again.  So all versions ever active descend from one.
ForwardOrBack ==
  \A i \in DOMAIN audit :
    LET v == audit[i].candidate IN
    /\ v \in Version
    /\ audit[i].type = "promote" =>
         /\ candidates[v].parent = AfterAudit(i - 1)
         /\ Passed(candidates[v].report)
    /\ audit[i].type = "rollback" =>
         \E j \in 1..(i - 1) : audit[j].type = "promote" /\ audit[j].candidate = v

\* Comparison with the active version ties the registry to the suite of its first
\* version: whichever suites its users trust later, no version evaluated on
\* another suite ever becomes active.  (Versions without a report, from before
\* the migration, were not compared by this code.)
OneSuite ==
  \A i, j \in DOMAIN audit :
    LET v == audit[i].candidate  w == audit[j].candidate IN
    candidates[v].stored /\ candidates[w].stored =>
      candidates[v].report.suite = candidates[w].report.suite

\* A migrated version has no report to compare with, so nothing can be promoted
\* over it: a registry that had an active version when it was migrated can only
\* go back and forth between its old versions.
LegacyIsFrozen ==
  \A i, j \in DOMAIN audit :
    candidates[audit[i].candidate].stored = candidates[audit[j].candidate].stored
=============================================================================
