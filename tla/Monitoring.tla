------------------------------ MODULE Monitoring ------------------------------
(***************************************************************************)
(* Monitoring and remediation: monitoring/detection.py compares a snapshot *)
(* of the data with the reference, monitoring/remediation.py turns alerts  *)
(* into findings, opens a remediation for those of one kind and, on a      *)
(* later snapshot, decides whether it helped.  An alert is known by its    *)
(* type, scope, scope value and metric alone, so the retest compares       *)
(* snapshots whose columns, rows and groups may differ.                    *)
(*                                                                         *)
(* Measures are fractions.  The population stability index of a column is  *)
(* given, in percent; how it is computed and how alerts are diagnosed is   *)
(* left out.                                                               *)
(***************************************************************************)
EXTENDS Integers, FiniteSets

CONSTANTS
  Monitored,    \* the features of the reference
  Family,       \* the family of each
  Rule,         \* the rules of the reference
  Snapshot,     \* the snapshots there may be
  Reference,    \* the one the reference was built from
  MinGroup,     \* min_group_size
  NotEvaluated  \* the lift of a rule that was not evaluated

ASSUME MonitoringAssumption ==
  /\ Snapshot \subseteq
       [height : Nat, target : BOOLEAN, bad : Nat, segment : BOOLEAN,
        segments : [DOMAIN Reference.segments -> Nat],
        column : [Monitored -> [is : {"kept", "retyped", "gone"}, missing : Nat, psi : Nat]],
        lift : [Rule -> Nat \cup {NotEvaluated}]]
  /\ Reference \in Snapshot /\ Reference.height > 0 /\ Reference.lift \in [Rule -> Nat]
  /\ MinGroup \in Nat \ {0}

VARIABLES
  before,    \* the snapshot the remediation was opened on
  record     \* the RemediationRecord: the kind of its findings, and its status

monitoringVars == <<before, record>>

Kind == {"data_quality", "feature_drift", "population_shift", "target_shift",
         "rule_evidence"}
NoRecord == [kind |-> "none", status |-> "none", after |-> Reference]

MonitoringInit == before = Reference /\ record = NoRecord

-----------------------------------------------------------------------------
(* Measures against the reference, and how severe they are *)

Minus(a, m, b, n) == [over |-> a * n - b * m, under |-> m * n]  \* a/m - b/n
Percent(p) == [over |-> p, under |-> 100]
Less(d, e) == d.over * e.under < e.over * d.under
Magnitude(d) == [d EXCEPT !.over = IF @ < 0 THEN -@ ELSE @]

\* _increasing_severity and _absolute_severity, the thresholds in percent.
Severity(d, warning, critical) ==
  IF ~ Less(d, Percent(critical)) THEN {"critical"}
  ELSE IF ~ Less(d, Percent(warning)) THEN {"warning"} ELSE {}

\* _alert: of what, how severe, and by how much.
Alert(key, severities, delta) == {[key |-> key, severity |-> s, delta |-> delta] : s \in severities}
Graded(key, d, warning, critical) == Alert(key, Severity(d, warning, critical), {d})

\* What can be measured of a snapshot.
HasColumn(s, f)  == s.column[f].is = "kept"
HasLabel(s)      == s.target /\ s.height > 0
HasSegments(s)   == s.segment /\ s.height > 0

\* detect_anomalies, the role columns
RoleAlerts(s) ==
  UNION {Alert(<<"schema", "dataset", role, "role_column">>,
               IF s[role] THEN {} ELSE {"critical"}, {}) : role \in {"target", "segment"}}

\* detect_anomalies, a feature: only a column of the same kind is measured.
SchemaAlerts(s, f) ==
  CASE s.column[f].is = "gone"    -> Alert(<<"schema", "feature", f, "column">>, {"critical"}, {})
    [] s.column[f].is = "retyped" ->
         Alert(<<"schema", "feature", f, "dtype_family">>, {"critical"}, {})
    [] OTHER -> {}

\* _missing_rate_and_values: without rows nothing is missing.
MissingDelta(s, f) ==
  Minus(IF s.height = 0 THEN 0 ELSE s.column[f].missing, IF s.height = 0 THEN 1 ELSE s.height,
        Reference.column[f].missing, Reference.height)
MissingAlerts(s, f) ==
  IF HasColumn(s, f)
  THEN Graded(<<"missingness", "feature", f, "missing_rate">>, MissingDelta(s, f), 10, 25)
  ELSE {}
DriftAlerts(s, f) ==
  IF HasColumn(s, f)
  THEN Graded(<<"distribution", "feature", f, "psi">>, Percent(s.column[f].psi), 20, 30)
  ELSE {}

\* _family_missingness_alerts: two features of a family; no measure of its own.
FamilyAlerts(s, family) ==
  LET alerts == UNION {MissingAlerts(s, f) : f \in {f \in Monitored : Family[f] = family}} IN
  Alert(<<"missingness", "family", family, "missing_rate">>,
        IF Cardinality(alerts) < 2 THEN {}
        ELSE IF \E a \in alerts : a.severity = "critical" THEN {"critical"} ELSE {"warning"},
        {})

\* _label_alerts
LabelDelta(s) == Minus(s.bad, s.height, Reference.bad, Reference.height)
LabelAlerts(s) ==
  IF HasLabel(s)
  THEN Alert(<<"label", "dataset", "dataset", "positive_rate">>,
             Severity(Magnitude(LabelDelta(s)), 3, 8), {LabelDelta(s)})
  ELSE {}

(***************************************************************************)
(* _population_alerts.  A group counts if it is large in both snapshots,   *)
(* or large in one and absent from the other.                              *)
(***************************************************************************)
Eligible(m, n) ==
  \/ m >= MinGroup /\ n >= MinGroup
  \/ m = 0 /\ n >= MinGroup
  \/ n = 0 /\ m >= MinGroup

\* _deidentified_segment_counts: the reference leaves small groups out.
InReference(g) == IF Reference.segments[g] >= MinGroup THEN Reference.segments[g] ELSE 0
ShareCompared(s, g) == HasSegments(s) /\ Eligible(InReference(g), s.segments[g])
ShareDelta(s, g) == Minus(s.segments[g], s.height, InReference(g), Reference.height)
PopulationAlerts(s) ==
  UNION {Alert(<<"population", "institution", g, "share">>,
               IF ShareCompared(s, g) /\ ~ Less(Magnitude(ShareDelta(s, g)), Percent(10))
               THEN {"warning"} ELSE {},
               {ShareDelta(s, g)}) : g \in DOMAIN Reference.segments}

\* _rule_decay_alerts
Evaluated(s, r) == s.lift[r] # NotEvaluated /\ Reference.lift[r] > 0
Decay(s, r) == [over |-> Reference.lift[r] - s.lift[r], under |-> Reference.lift[r]]
DecayAlerts(s) ==
  UNION {IF Evaluated(s, r)
         THEN Graded(<<"rule_decay", "rule", r, "lift_decay">>, Decay(s, r), 20, 40)
         ELSE {} : r \in Rule}

Detected(s) ==
  RoleAlerts(s) \cup LabelAlerts(s) \cup PopulationAlerts(s) \cup DecayAlerts(s)
  \cup (UNION {SchemaAlerts(s, f) \cup MissingAlerts(s, f) \cup DriftAlerts(s, f) :
                f \in Monitored})
  \cup (UNION {FamilyAlerts(s, Family[f]) : f \in Monitored})

-----------------------------------------------------------------------------
(* Remediation *)

\* alert_diagnosis_to_finding: a finding keeps the key, severity and delta.
KindOf(alert) ==
  CASE alert.key[1] \in {"schema", "missingness"} -> "data_quality"
    [] alert.key[1] = "distribution" -> "feature_drift"
    [] alert.key[1] = "population"   -> "population_shift"
    [] alert.key[1] = "label"        -> "target_shift"
    [] alert.key[1] = "rule_decay"   -> "rule_evidence"
Findings(s, kind) == {a \in Detected(s) : KindOf(a) = kind}

\* build_monitoring_remediation_plan gives one recommendation for each kind that
\* has findings, create_remediation opens it.
OpenRemediation(s, kind) ==
  /\ record = NoRecord
  /\ Findings(s, kind) # {}
  /\ before' = s
  /\ record' = [kind |-> kind, status |-> "open", after |-> s]

(***************************************************************************)
(* verify_remediation.  A finding that is gone is resolved; one that has a *)
(* delta is resolved if that is lower, a negative one too.  Without delta  *)
(* the ranks of the severities are compared, and 0 is the rank of the      *)
(* critical: what gets worse is resolved, what gets better is not.         *)
(***************************************************************************)
Rank(severity) == IF severity = "critical" THEN 0 ELSE 1

Again(a, s) == {b \in Detected(s) : b.key = a.key}

Lower(a, b) == \A d \in a.delta, e \in b.delta : Less(e, d)
Remains(a, s)      == \E b \in Again(a, s) : a.delta # {} /\ ~ Lower(a, b)
Inconclusive(a, s) ==
  \E b \in Again(a, s) : a.delta = {} /\ ~ (Rank(b.severity) < Rank(a.severity))

\* Mutant: one resolved finding is enough.
VerdictOnAny(selected, s) ==
  IF \A a \in selected : Remains(a, s) THEN "remaining"
  ELSE IF \A a \in selected : Inconclusive(a, s) THEN "inconclusive" ELSE "verified"

Verdict(selected, s) ==
  IF \E a \in selected : Remains(a, s) THEN "remaining"
  ELSE IF \E a \in selected : Inconclusive(a, s) THEN "inconclusive" ELSE "verified"

\* apply_verification, from whatever status the record has.
Retest(s) ==
  /\ record # NoRecord
  /\ record' = [record EXCEPT !.after = s, !.status =
       CASE Verdict(Findings(before, record.kind), s) = "verified"     -> "verified"
         [] Verdict(Findings(before, record.kind), s) = "remaining"    -> "failed"
         [] Verdict(Findings(before, record.kind), s) = "inconclusive" -> "awaiting_verification"]
  /\ UNCHANGED before

MonitoringNext == \E s \in Snapshot : Retest(s) \/ \E kind \in Kind : OpenRemediation(s, kind)

MonitoringSpec == MonitoringInit /\ [][MonitoringNext]_monitoringVars

-----------------------------------------------------------------------------
(* Properties *)

(***************************************************************************)
(* The measures of a snapshot that a remediation can be about, whether or  *)
(* not they give an alert: those that exist there.                         *)
(***************************************************************************)
Measured(s, kind) ==
  CASE kind = "data_quality" ->
         [f \in {f \in Monitored : HasColumn(s, f)} |-> MissingDelta(s, f)]
    [] kind = "feature_drift" ->
         [f \in {f \in Monitored : HasColumn(s, f)} |-> Percent(s.column[f].psi)]
    [] kind = "target_shift" ->
         [d \in {d \in {"rate"} : HasLabel(s)} |-> LabelDelta(s)]
    [] kind = "population_shift" ->
         [g \in {g \in DOMAIN Reference.segments : ShareCompared(s, g)} |-> ShareDelta(s, g)]
    [] kind = "rule_evidence" ->
         [r \in {r \in Rule : Evaluated(s, r)} |-> Decay(s, r)]

\* The least measure that gives an alert.
Tolerated(kind) ==
  Percent(CASE kind \in {"data_quality", "population_shift"} -> 10
            [] kind \in {"feature_drift", "rule_evidence"} -> 20
            [] kind = "target_shift" -> 3)

(***************************************************************************)
(* A verified remediation is one whose measures went down: each that was   *)
(* too high, and can still be measured, is lower, whatever other columns,  *)
(* groups and rules the later snapshot lacks; one that was too low is back *)
(* in tolerance, or lower still, which the retest takes for better.  A     *)
(* failed one has a measure that is out of tolerance and no lower.         *)
(* Of measures that no longer exist, because a column, a group or a rule   *)
(* is gone, this says nothing: the retest counts their findings as mended. *)
(***************************************************************************)
RetestTellsMeasures ==
  LET then == Measured(before, record.kind)
      now  == Measured(record.after, record.kind)
      Outside(d) == ~ Less(Magnitude(d), Tolerated(record.kind))
      High(x) == ~ Less(then[x], Tolerated(record.kind))
      Low(x)  == /\ record.kind \in {"population_shift", "target_shift"}
                 /\ Outside(then[x]) /\ ~ High(x)
  IN
  /\ record.status = "verified" =>
       \A x \in DOMAIN then \cap DOMAIN now :
         /\ High(x) => Less(now[x], then[x])
         /\ Low(x) => ~ Outside(now[x]) \/ Less(now[x], then[x])
  /\ record.status = "failed" =>
       \E x \in DOMAIN then \cap DOMAIN now :
         (High(x) \/ Low(x)) /\ Outside(now[x]) /\ ~ Less(now[x], then[x])
=============================================================================
