----------------------- MODULE EvolutionRegistryProofs -----------------------
(***************************************************************************)
(* Theorems about EvolutionRegistry, for every value of its constants.     *)
(***************************************************************************)
EXTENDS EvolutionRegistry, SequenceTheorems, TLAPS

\* Before its first opening a database has no audit, and each of its versions
\* was promoted over the one before.
BeforeOpening ==
  schema # 2 =>
    /\ audit = <<>>
    /\ Len(history) = Len(candidates) /\ active = Len(candidates)
    /\ \A v \in Version :
         /\ history[v] = Promotion(v)
         /\ candidates[v].parent = v - 1
         /\ Passed(candidates[v].report)
         /\ ~ candidates[v].stored

RInv == /\ RegistryTypeOK /\ BeforeOpening
        /\ RecordsTellActive /\ ForwardOrBack /\ OneSuite /\ LegacyIsFrozen

LEMMA AppendFacts ==
  ASSUME NEW S, NEW s \in Seq(S), NEW e \in S
  PROVE  /\ Append(s, e) \in Seq(S)
         /\ Len(s) \in Nat /\ DOMAIN s = 1..Len(s)
         /\ Len(Append(s, e)) = Len(s) + 1
         /\ DOMAIN Append(s, e) = 1..(Len(s) + 1)
         /\ \A i \in DOMAIN s : Append(s, e)[i] = s[i]
         /\ Append(s, e)[Len(s) + 1] = e
  OBVIOUS

-----------------------------------------------------------------------------
LEMMA InitInv == Init => RInv
<1> SUFFICES ASSUME Init PROVE RInv
  OBVIOUS
<1> USE RegistryAssumption
<1>1. CASE InitNew
  <2>1. /\ schema = 0 /\ candidates = <<>> /\ active = 0 /\ history = <<>>
        /\ audit = <<>>
    BY <1>1 DEF Init, InitNew
  <2> QED
    BY <2>1 DEF RInv, RegistryTypeOK, BeforeOpening, RecordsTellActive,
       ForwardOrBack, OneSuite, LegacyIsFrozen, AfterAudit, AfterHistory, Version
<1>2. CASE InitLegacy
  <2>1. PICK r \in Report, q \in Report :
          /\ Passed(r) /\ Passed(q)
          /\ candidates \in {<<Legacy(r, 0)>>, <<Legacy(r, 0), Legacy(q, 1)>>}
    BY <1>2 DEF InitLegacy
  <2>2. /\ schema = 1 /\ active = Len(candidates) /\ audit = <<>>
        /\ history = [v \in 1..Len(candidates) |-> Promotion(v)]
    BY <1>2 DEF Init, InitLegacy
  <2>3. /\ candidates \in Seq(Candidate)
        /\ Len(candidates) \in 1..2 /\ DOMAIN candidates = 1..Len(candidates)
        /\ \A v \in 1..Len(candidates) :
             /\ candidates[v].parent = v - 1
             /\ Passed(candidates[v].report)
             /\ ~ candidates[v].stored
    <3>1. Legacy(r, 0) \in Candidate /\ Legacy(q, 1) \in Candidate
      BY DEF Legacy, Candidate
    <3>2. CASE candidates = <<Legacy(r, 0)>>
      BY <2>1, <3>1, <3>2 DEF Legacy
    <3>3. CASE candidates = <<Legacy(r, 0), Legacy(q, 1)>>
      BY <2>1, <3>1, <3>3 DEF Legacy
    <3> QED BY <2>1, <3>2, <3>3
  <2>4. /\ history \in Seq(HistoryRow) /\ Len(history) = Len(candidates)
        /\ DOMAIN history = 1..Len(candidates)
        /\ \A v \in 1..Len(candidates) : history[v] = Promotion(v)
    <3>1. ASSUME NEW v \in 1..Len(candidates) PROVE Promotion(v) \in HistoryRow
      <4> DEFINE n == Len(candidates)
      <4>1. n \in 1..2 /\ v \in 1..n
        BY <2>3
      <4> HIDE DEF n
      <4>2. v \in 1..2
        BY <4>1
      <4>3. /\ v \in 1..MaxCandidates /\ v \in 0..MaxCandidates
            /\ v - 1 \in 0..MaxCandidates
        BY <4>2
      <4> QED BY <4>3 DEF Promotion, HistoryRow
    <3>2. history \in [1..Len(candidates) -> HistoryRow]
      BY <2>2, <3>1
    <3>3. history \in Seq(HistoryRow)
      BY <2>3, <3>2, SeqDef
    <3> QED BY <2>2, <2>3, <3>2, <3>3, LenProperties
  <2>5. RegistryTypeOK
    <3>1. audit \in Seq(AuditEvent)
      BY <2>2
    <3>2. \A v, w \in Version :
            candidates[v].parent = candidates[w].parent => v = w
      BY <2>3 DEF Version
    <3>3. \A v \in Version : candidates[v].parent < v
      BY <2>3 DEF Version
    <3> QED BY <2>2, <2>3, <2>4, <3>1, <3>2, <3>3 DEF RegistryTypeOK
  <2>6. BeforeOpening
    BY <2>2, <2>3, <2>4 DEF BeforeOpening, Version
  <2>7. RecordsTellActive
    <3>1. \A i \in DOMAIN history : history[i].previous = AfterHistory(i - 1)
      BY <2>3, <2>4 DEF AfterHistory, Promotion
    <3>2. active = AfterHistory(Len(history))
      BY <2>2, <2>3, <2>4 DEF AfterHistory, Promotion
    <3>3. DOMAIN audit = {} /\ schema # 2
      BY <2>2
    <3> QED BY <3>1, <3>2, <3>3 DEF RecordsTellActive
  <2> QED
    BY <2>2, <2>5, <2>6, <2>7 DEF RInv, ForwardOrBack, OneSuite, LegacyIsFrozen
<1> QED BY <1>1, <1>2 DEF Init

-----------------------------------------------------------------------------
\* The events written at the migration tell what the old history told.
LEMMA OpenStep == RInv /\ Open => RInv'
<1> SUFFICES ASSUME RInv, Open PROVE RInv'
  OBVIOUS
<1> USE RegistryAssumption
<1>1. /\ RegistryTypeOK /\ RecordsTellActive
      /\ audit = <<>> /\ Len(history) = Len(candidates) /\ active = Len(candidates)
      /\ \A v \in Version :
           /\ history[v] = Promotion(v)
           /\ candidates[v].parent = v - 1
           /\ Passed(candidates[v].report)
           /\ ~ candidates[v].stored
  BY DEF RInv, Open, BeforeOpening
<1>2. /\ schema' = 2 /\ UNCHANGED <<candidates, active, history>>
      /\ audit' = [i \in 1..Len(history) |->
                     [type |-> history[i].action, candidate |-> history[i].candidate,
                      previous |-> history[i].previous]]
  BY DEF Open
<1>3. /\ Len(candidates) \in Nat /\ Version = 1..Len(candidates)
      /\ Len(candidates) <= MaxCandidates
  BY <1>1, LenProperties DEF RegistryTypeOK, Version
<1> DEFINE e(i) == [type |-> "promote", candidate |-> i, previous |-> i - 1]
<1>4. \A i \in Version : e(i) \in AuditEvent
  <2>1. \A i \in Version : i \in 1..MaxCandidates /\ i - 1 \in 0..MaxCandidates
    BY <1>3
  <2> QED BY <2>1 DEF AuditEvent
<1>5. /\ DOMAIN audit' = Version
      /\ \A i \in Version : audit'[i] = e(i)
  <2>1. DOMAIN audit' = Version
    BY <1>1, <1>2, <1>3
  <2>2. ASSUME NEW i \in Version PROVE audit'[i] = e(i)
    <3>1. audit'[i] = [type |-> history[i].action, candidate |-> history[i].candidate,
                       previous |-> history[i].previous]
      BY <1>1, <1>2, <1>3
    <3>2. /\ history[i].action = "promote" /\ history[i].candidate = i
          /\ history[i].previous = i - 1
      <4>1. history[i] = Promotion(i)
        BY <1>1
      <4> QED BY <4>1 DEF Promotion
    <3> QED BY <3>1, <3>2
  <2> QED BY <2>1, <2>2
<1>6. audit' \in Seq(AuditEvent) /\ Len(audit') = Len(candidates)
  <2>1. audit' = [i \in Version |-> audit'[i]]
    BY <1>1, <1>2, <1>3
  <2>2. audit' \in [1..Len(candidates) -> AuditEvent]
    BY <1>3, <1>4, <1>5, <2>1
  <2>3. audit' \in Seq(AuditEvent)
    BY <1>3, <2>2, SeqDef
  <2> QED BY <1>3, <2>2, <2>3, LenProperties
<1>7. \A i \in Version :
        /\ audit'[i].type = "promote" /\ audit'[i].candidate = i
        /\ audit'[i].previous = i - 1
  BY <1>5
<1> HIDE DEF e
<1>8. RegistryTypeOK'
  BY <1>1, <1>2, <1>6 DEF RegistryTypeOK, Version
<1>9. \A i \in 0..Len(candidates) : (IF i = 0 THEN 0 ELSE audit'[i].candidate) = i
  BY <1>3, <1>7
<1>10. RecordsTellActive'
  <2>1. \A i \in DOMAIN audit' :
          audit'[i].previous = (IF i - 1 = 0 THEN 0 ELSE audit'[i - 1].candidate)
    <3> SUFFICES ASSUME NEW i \in DOMAIN audit'
                 PROVE audit'[i].previous =
                         (IF i - 1 = 0 THEN 0 ELSE audit'[i - 1].candidate)
      OBVIOUS
    <3>1. i \in Version /\ i - 1 \in 0..Len(candidates)
      BY <1>3, <1>5
    <3> QED BY <1>7, <1>9, <3>1
  <2>3. active' = IF Len(audit') = 0 THEN 0 ELSE audit'[Len(audit')].candidate
    <3>1. active' = Len(candidates) /\ Len(candidates) \in 0..Len(candidates)
      BY <1>1, <1>2, <1>3
    <3> QED BY <1>6, <1>9, <3>1
  <2>2. /\ \A i \in DOMAIN history' :
             history'[i].previous = (IF i - 1 = 0 THEN 0 ELSE history'[i - 1].active)
        /\ active' = IF Len(history') = 0 THEN 0 ELSE history'[Len(history')].active
    BY <1>1, <1>2 DEF RecordsTellActive, AfterHistory
  <2> QED BY <2>1, <2>2, <2>3 DEF RecordsTellActive, AfterAudit, AfterHistory
<1>11. ForwardOrBack'
  <2> SUFFICES ASSUME NEW i \in DOMAIN audit'
               PROVE /\ audit'[i].candidate \in Version
                     /\ audit'[i].type = "promote"
                     /\ candidates[audit'[i].candidate].parent =
                          (IF i - 1 = 0 THEN 0 ELSE audit'[i - 1].candidate)
                     /\ Passed(candidates[audit'[i].candidate].report)
    BY <1>2 DEF ForwardOrBack, AfterAudit, Version
  <2>1. i \in Version /\ i - 1 \in 0..Len(candidates)
    BY <1>3, <1>5
  <2> QED BY <1>1, <1>7, <1>9, <2>1
<1>12. OneSuite'
  <2>1. \A i \in Version : ~ candidates[audit'[i].candidate].stored
    BY <1>1, <1>7
  <2>2. DOMAIN audit' = Version /\ candidates' = candidates
    BY <1>2, <1>5
  <2> QED BY <2>1, <2>2 DEF OneSuite
<1>13. LegacyIsFrozen'
  <2>1. \A v \in Version : candidates[v].stored = FALSE
    <3> SUFFICES ASSUME NEW v \in Version PROVE candidates[v].stored = FALSE
      OBVIOUS
    <3>1. candidates[v] \in Candidate
      BY <1>1, <1>3, ElementOfSeq DEF RegistryTypeOK
    <3>2. candidates[v].stored \in BOOLEAN
      BY <3>1 DEF Candidate
    <3> QED BY <1>1, <3>2
  <2>2. \A i, j \in Version : candidates[audit'[i].candidate].stored
                                = candidates[audit'[j].candidate].stored
    BY <1>7, <2>1
  <2>3. DOMAIN audit' = Version /\ candidates' = candidates
    BY <1>2, <1>5
  <2> QED BY <2>2, <2>3 DEF LegacyIsFrozen
<1> QED BY <1>2, <1>8, <1>10, <1>11, <1>12, <1>13 DEF RInv, BeforeOpening

\* A new candidate leaves the old ones, to which the records refer, as they were.
LEMMA RegisterStep ==
  ASSUME RInv, NEW g \in Registry, NEW r \in Report, NEW p \in 0..MaxCandidates,
         NEW compare \in BOOLEAN, Register(g, r, p, compare)
  PROVE  RInv'
<1> USE RegistryAssumption
<1> DEFINE c == [report |-> r, parent |-> p, compared |-> compare, stored |-> TRUE,
                 regressed |-> compare /\ Regressed(candidates[p].report, r)]
<1>1. /\ schema = 2 /\ Len(candidates) < MaxCandidates
      /\ p \in Version \cup {0} /\ ~ Known(c)
      /\ candidates' = Append(candidates, c)
      /\ UNCHANGED <<schema, active, history, audit>>
  BY DEF Register
<1>2. c \in Candidate
  BY DEF Candidate
<1>3. candidates \in Seq(Candidate)
  BY DEF RInv, RegistryTypeOK
<1> DEFINE n == Len(candidates) + 1
<1> HIDE DEF c
<1>4. /\ candidates' \in Seq(Candidate) /\ Len(candidates) \in Nat
      /\ Len(candidates') = n /\ Version = 1..Len(candidates) /\ Version' = 1..n
      /\ \A v \in Version : candidates'[v] = candidates[v]
      /\ candidates'[n] = c
  BY <1>1, <1>2, <1>3, AppendFacts DEF Version
<1>5. RegistryTypeOK'
  <2>1. \A v \in Version' : candidates'[v].parent < v
    <3> SUFFICES ASSUME NEW v \in Version' PROVE candidates'[v].parent < v
      OBVIOUS
    <3>1. CASE v = n
      BY <1>1, <1>4, <3>1 DEF c
    <3>2. CASE v \in Version
      BY <1>4, <3>2 DEF RInv, RegistryTypeOK
    <3> QED BY <1>4, <3>1, <3>2
  <2>2. ASSUME NEW v \in Version', NEW w \in Version',
               candidates'[v].report = candidates'[w].report,
               candidates'[v].parent = candidates'[w].parent,
               candidates'[v].regressed = candidates'[w].regressed
        PROVE  v = w
    <3>1. CASE v \in Version /\ w \in Version
      BY <1>4, <2>2, <3>1 DEF RInv, RegistryTypeOK
    <3>2. CASE v = n /\ w \in Version
      BY <1>1, <1>4, <2>2, <3>2 DEF Known
    <3>3. CASE v \in Version /\ w = n
      BY <1>1, <1>4, <2>2, <3>3 DEF Known
    <3> QED BY <1>4, <3>1, <3>2, <3>3
  <2>3. active \in 0..n /\ n <= MaxCandidates
    BY <1>1, <1>4 DEF RInv, RegistryTypeOK
  <2> QED
    BY <1>1, <1>4, <2>1, <2>2, <2>3 DEF RInv, RegistryTypeOK
<1>6. \A i \in DOMAIN audit :
        /\ audit[i].candidate \in Version
        /\ candidates'[audit[i].candidate] = candidates[audit[i].candidate]
  BY <1>4 DEF RInv, ForwardOrBack
<1>7. RecordsTellActive'
  BY <1>1 DEF RInv, RecordsTellActive, AfterAudit, AfterHistory
<1>8. ForwardOrBack'
  BY <1>1, <1>4, <1>6 DEF RInv, ForwardOrBack, AfterAudit
<1>9. OneSuite'
  <2>1. /\ \A i, j \in DOMAIN audit :
             candidates[audit[i].candidate].stored /\ candidates[audit[j].candidate].stored
             => candidates[audit[i].candidate].report.suite
                  = candidates[audit[j].candidate].report.suite
        /\ UNCHANGED audit
    BY <1>1 DEF RInv, OneSuite
  <2>2. \A i, j \in DOMAIN audit :
          candidates'[audit[i].candidate].stored /\ candidates'[audit[j].candidate].stored
          => candidates'[audit[i].candidate].report.suite
               = candidates'[audit[j].candidate].report.suite
    BY <1>6, <2>1
  <2> QED BY <2>1, <2>2 DEF OneSuite
<1>10. LegacyIsFrozen'
  <2>1. /\ \A i, j \in DOMAIN audit :
             candidates[audit[i].candidate].stored = candidates[audit[j].candidate].stored
        /\ UNCHANGED audit
    BY <1>1 DEF RInv, LegacyIsFrozen
  <2>2. \A i, j \in DOMAIN audit :
          candidates'[audit[i].candidate].stored = candidates'[audit[j].candidate].stored
    BY <1>6, <2>1
  <2> QED BY <2>1, <2>2 DEF LegacyIsFrozen
<1> QED BY <1>1, <1>5, <1>7, <1>8, <1>9, <1>10 DEF RInv, BeforeOpening

-----------------------------------------------------------------------------
\* A row added to the history keeps it telling the active version.
LEMMA LogStep ==
  ASSUME RInv, NEW action \in {"promote", "rollback"}, NEW v \in Version,
         NEW promoted \in BOOLEAN, Log(action, v, promoted),
         active' = IF promoted THEN v ELSE active
  PROVE  /\ history' \in Seq(HistoryRow)
         /\ \A i \in DOMAIN history' :
              history'[i].previous = (AfterHistory(i - 1))'
         /\ active' = (AfterHistory(Len(history)))'
<1> USE RegistryAssumption
<1> DEFINE row == [action |-> action, candidate |-> v, previous |-> active,
                   active |-> IF promoted THEN v ELSE active,
                   promoted |-> promoted]
<1>1. /\ history \in Seq(HistoryRow) /\ candidates \in Seq(Candidate)
      /\ active \in 0..Len(candidates) /\ Len(candidates) <= MaxCandidates
      /\ Version = 1..Len(candidates) /\ Len(candidates) \in Nat
  BY LenProperties DEF RInv, RegistryTypeOK, Version
<1>2. row \in HistoryRow
  BY <1>1 DEF HistoryRow
<1>3. history' = Append(history, row)
  BY DEF Log
<1> DEFINE n == Len(history) + 1
<1>4. row.previous = active /\ row.active = active'
  OBVIOUS
<1> HIDE DEF row
<1>5. /\ history' \in Seq(HistoryRow) /\ Len(history) \in Nat
      /\ Len(history') = n /\ DOMAIN history = 1..Len(history)
      /\ DOMAIN history' = 1..n
      /\ \A i \in DOMAIN history : history'[i] = history[i]
      /\ history'[n] = row
  BY <1>1, <1>2, <1>3, AppendFacts
<1>6. active = AfterHistory(Len(history))
  BY DEF RInv, RecordsTellActive
<1>7. \A i \in 0..Len(history) : (IF i = 0 THEN 0 ELSE history'[i].active)
                                   = AfterHistory(i)
  BY <1>5 DEF AfterHistory
<1>8. ASSUME NEW i \in DOMAIN history'
      PROVE  history'[i].previous = (IF i - 1 = 0 THEN 0 ELSE history'[i - 1].active)
  <2>1. CASE i = n
    BY <1>4, <1>5, <1>6, <1>7, <2>1
  <2>2. CASE i \in DOMAIN history
    <3>1. history[i].previous = AfterHistory(i - 1)
      BY <2>2 DEF RInv, RecordsTellActive
    <3> QED BY <1>5, <1>7, <2>2, <3>1
  <2> QED BY <1>5, <2>1, <2>2
<1> QED BY <1>4, <1>5, <1>8 DEF AfterHistory

\* Activating a version that the active one leads to, forward or back.
LEMMA ActivateStep ==
  ASSUME RInv, schema = 2, NEW v \in Version, NEW type \in {"promote", "rollback"},
         Activate(type, v), UNCHANGED <<schema, candidates>>,
         type = "promote" =>
           /\ candidates[v].parent = active /\ Passed(candidates[v].report)
           /\ active # 0 =>
                /\ candidates[v].report.suite = candidates[active].report.suite
                /\ candidates[v].stored = candidates[active].stored,
         type = "rollback" => PromotedBefore(v)
  PROVE  /\ audit' \in Seq(AuditEvent) /\ active' \in Version
         /\ \A i \in DOMAIN audit' : audit'[i].previous = (AfterAudit(i - 1))'
         /\ active' = (AfterAudit(Len(audit)))'
         /\ ForwardOrBack' /\ OneSuite' /\ LegacyIsFrozen'
<1> USE RegistryAssumption
<1>1. /\ audit \in Seq(AuditEvent) /\ candidates \in Seq(Candidate)
      /\ active \in 0..Len(candidates) /\ Len(candidates) <= MaxCandidates
      /\ Version = 1..Len(candidates) /\ Len(candidates) \in Nat
  BY LenProperties DEF RInv, RegistryTypeOK, Version
<1> DEFINE e == [type |-> type, candidate |-> v, previous |-> active]
<1>2. e \in AuditEvent /\ audit' = Append(audit, e) /\ active' = v
  BY <1>1 DEF AuditEvent, Activate, ActiveEvent
<1>3. e.type = type /\ e.candidate = v /\ e.previous = active
  OBVIOUS
<1> DEFINE n == Len(audit) + 1
<1> HIDE DEF e
<1>4. /\ audit' \in Seq(AuditEvent) /\ Len(audit) \in Nat /\ Len(audit') = n
      /\ DOMAIN audit = 1..Len(audit) /\ DOMAIN audit' = 1..n
      /\ \A i \in DOMAIN audit : audit'[i] = audit[i]
      /\ audit'[n] = e
  BY <1>1, <1>2, AppendFacts
<1>5. \A i \in 0..Len(audit) : (IF i = 0 THEN 0 ELSE audit'[i].candidate)
                                 = AfterAudit(i)
  BY <1>4 DEF AfterAudit
<1>6. active = AfterAudit(Len(audit))
  BY DEF RInv, RecordsTellActive
<1>7. \A i \in DOMAIN audit : audit[i].candidate \in Version
  BY DEF RInv, ForwardOrBack
<1>8. ASSUME NEW i \in DOMAIN audit'
      PROVE  audit'[i].previous = (IF i - 1 = 0 THEN 0 ELSE audit'[i - 1].candidate)
  <2>1. CASE i = n
    BY <1>3, <1>4, <1>5, <1>6, <2>1
  <2>2. CASE i \in DOMAIN audit
    <3>1. audit[i].previous = AfterAudit(i - 1)
      BY <2>2 DEF RInv, RecordsTellActive
    <3> QED BY <1>4, <1>5, <2>2, <3>1
  <2> QED BY <1>4, <2>1, <2>2
<1>9. ForwardOrBack'
  <2> SUFFICES ASSUME NEW i \in DOMAIN audit'
               PROVE  LET w == audit'[i].candidate IN
                 /\ w \in Version
                 /\ audit'[i].type = "promote" =>
                      /\ candidates[w].parent =
                           (IF i - 1 = 0 THEN 0 ELSE audit'[i - 1].candidate)
                      /\ Passed(candidates[w].report)
                 /\ audit'[i].type = "rollback" =>
                      \E j \in 1..(i - 1) :
                        audit'[j].type = "promote" /\ audit'[j].candidate = w
    BY DEF ForwardOrBack, AfterAudit, Version
  <2>1. CASE i = n
    <3>1. CASE type = "promote"
      BY <1>3, <1>4, <1>5, <1>6, <2>1, <3>1
    <3>2. CASE type = "rollback"
      <4>1. PICK j \in DOMAIN audit : audit[j].type = "promote" /\ audit[j].candidate = v
        BY <3>2 DEF PromotedBefore
      <4>2. j \in 1..(i - 1) /\ audit'[j].type = "promote" /\ audit'[j].candidate = v
        BY <1>4, <2>1, <4>1
      <4> QED BY <1>3, <1>4, <2>1, <3>2, <4>2
    <3> QED BY <3>1, <3>2
  <2>2. CASE i \in DOMAIN audit
    <3>1. audit'[i] = audit[i] /\ i \in 1..Len(audit)
      BY <1>4, <2>2
    <3>2. /\ audit[i].candidate \in Version
          /\ audit[i].type = "promote" =>
               /\ candidates[audit[i].candidate].parent = AfterAudit(i - 1)
               /\ Passed(candidates[audit[i].candidate].report)
          /\ audit[i].type = "rollback" =>
               \E j \in 1..(i - 1) :
                 audit[j].type = "promote" /\ audit[j].candidate = audit[i].candidate
      BY <2>2 DEF RInv, ForwardOrBack
    <3>3. \A j \in 1..(i - 1) : audit'[j] = audit[j]
      BY <1>4, <3>1
    <3> QED BY <1>4, <1>5, <3>1, <3>2, <3>3
  <2> QED BY <1>4, <2>1, <2>2
<1>10. \A i \in DOMAIN audit :
         /\ candidates[v].stored /\ candidates[audit[i].candidate].stored =>
              candidates[v].report.suite = candidates[audit[i].candidate].report.suite
         /\ candidates[v].stored = candidates[audit[i].candidate].stored
  <2> SUFFICES ASSUME NEW i \in DOMAIN audit
               PROVE /\ candidates[v].stored /\ candidates[audit[i].candidate].stored =>
                          candidates[v].report.suite
                            = candidates[audit[i].candidate].report.suite
                     /\ candidates[v].stored = candidates[audit[i].candidate].stored
    OBVIOUS
  <2>1. CASE type = "promote"
    <3>1. Len(audit) \in DOMAIN audit /\ active = audit[Len(audit)].candidate
      BY <1>4, <1>6 DEF AfterAudit
    <3>2. active # 0
      BY <1>1, <1>7, <3>1
    <3>3. /\ candidates[v].report.suite = candidates[active].report.suite
          /\ candidates[v].stored = candidates[active].stored
      BY <2>1, <3>2
    <3> QED BY <3>1, <3>3 DEF RInv, OneSuite, LegacyIsFrozen
  <2>2. CASE type = "rollback"
    <3>1. PICK j \in DOMAIN audit : audit[j].candidate = v
      BY <2>2 DEF PromotedBefore
    <3> QED BY <3>1 DEF RInv, OneSuite, LegacyIsFrozen
  <2> QED BY <2>1, <2>2
<1>11. \A i, j \in DOMAIN audit' :
         /\ candidates[audit'[i].candidate].stored /\ candidates[audit'[j].candidate].stored
            => candidates[audit'[i].candidate].report.suite
                 = candidates[audit'[j].candidate].report.suite
         /\ candidates[audit'[i].candidate].stored
              = candidates[audit'[j].candidate].stored
  <2>1. \A i \in DOMAIN audit' :
          /\ candidates[v].stored /\ candidates[audit'[i].candidate].stored =>
               candidates[v].report.suite = candidates[audit'[i].candidate].report.suite
          /\ candidates[audit'[i].candidate].stored = candidates[v].stored
    BY <1>3, <1>4, <1>10
  <2> QED BY <2>1
<1>12. OneSuite' /\ LegacyIsFrozen'
  BY <1>11 DEF OneSuite, LegacyIsFrozen
<1> QED BY <1>2, <1>3, <1>4, <1>8, <1>9, <1>12 DEF AfterAudit

-----------------------------------------------------------------------------
LEMMA PromoteStep ==
  ASSUME RInv, NEW g \in Registry, NEW v \in Version,
         NEW a \in HumanApproval \cup {Absent}, NEW b \in Report \cup {Absent},
         Promote(g, v, a, b)
  PROVE  RInv'
<1> DEFINE promoted == EvalPassed(v) /\ Approves(g, a, "promote", v)
<1>1. /\ schema = 2 /\ HasReport(v) /\ Log("promote", v, promoted)
      /\ UNCHANGED <<schema, candidates>>
      /\ IF active = 0 THEN candidates[v].parent = 0 ELSE Challenges(v, b)
      /\ IF promoted THEN Activate("promote", v) ELSE UNCHANGED <<active, audit>>
  BY DEF Promote
<1>2. promoted \in BOOLEAN
  BY DEF EvalPassed, Approves
<1>3. promoted => Passed(candidates[v].report)
  BY DEF EvalPassed
<1> HIDE DEF promoted
<1>4. active' = IF promoted THEN v ELSE active
  BY <1>1 DEF Activate
<1>5. /\ history' \in Seq(HistoryRow)
      /\ \A i \in DOMAIN history' : history'[i].previous = (AfterHistory(i - 1))'
      /\ active' = (AfterHistory(Len(history)))'
  BY <1>1, <1>2, <1>4, LogStep
<1>6. CASE promoted
  <2>1. /\ candidates[v].parent = active
        /\ active # 0 =>
             /\ candidates[v].report.suite = candidates[active].report.suite
             /\ candidates[v].stored = candidates[active].stored
    <3>1. CASE active = 0
      BY <1>1, <3>1
    <3>2. CASE active # 0
      <4>1. candidates \in Seq(Candidate) /\ active \in Version
        BY <1>1, <3>2 DEF Challenges, HasReport, RInv, RegistryTypeOK
      <4>2. candidates[v].stored /\ candidates[active].stored
        BY <1>1, <3>2 DEF Challenges, HasReport
      <4>3. candidates[v] \in Candidate /\ candidates[active] \in Candidate
        BY <4>1, ElementOfSeq, LenProperties DEF Version
      <4>4. candidates[v].stored \in BOOLEAN /\ candidates[active].stored \in BOOLEAN
        BY <4>3 DEF Candidate
      <4> QED BY <1>1, <3>2, <4>2, <4>4 DEF Challenges, Comparable
    <3> QED BY <3>1, <3>2
  <2>2. /\ audit' \in Seq(AuditEvent) /\ active' \in Version
        /\ \A i \in DOMAIN audit' : audit'[i].previous = (AfterAudit(i - 1))'
        /\ active' = (AfterAudit(Len(audit)))'
        /\ ForwardOrBack' /\ OneSuite' /\ LegacyIsFrozen'
    BY <1>1, <1>3, <1>6, <2>1, ActivateStep
  <2>3. RegistryTypeOK'
    BY <1>1, <1>5, <2>2, LenProperties DEF RInv, RegistryTypeOK, Version
  <2>4. RecordsTellActive'
    BY <1>1, <1>5, <2>2 DEF RecordsTellActive
  <2> QED BY <1>1, <2>2, <2>3, <2>4 DEF RInv, BeforeOpening
<1>7. CASE ~ promoted
  <2>1. UNCHANGED <<active, audit, candidates, schema>>
    BY <1>1, <1>7
  <2>2. RegistryTypeOK'
    BY <1>5, <2>1 DEF RInv, RegistryTypeOK, Version
  <2>3. RecordsTellActive'
    BY <1>5, <2>1 DEF RInv, RecordsTellActive, AfterAudit
  <2>4. ForwardOrBack' /\ OneSuite' /\ LegacyIsFrozen'
    BY <2>1 DEF RInv, ForwardOrBack, OneSuite, LegacyIsFrozen, AfterAudit, Version
  <2> QED BY <1>1, <2>1, <2>2, <2>3, <2>4 DEF RInv, BeforeOpening
<1> QED BY <1>6, <1>7

LEMMA RollbackStep ==
  ASSUME RInv, NEW g \in Registry, NEW v \in Version, NEW a \in HumanApproval,
         Rollback(g, v, a)
  PROVE  RInv'
<1>1. /\ schema = 2 /\ PromotedBefore(v) /\ Log("rollback", v, TRUE)
      /\ Activate("rollback", v) /\ UNCHANGED <<schema, candidates>>
      /\ active' = v
  BY DEF Rollback, Activate
<1>2. /\ history' \in Seq(HistoryRow)
      /\ \A i \in DOMAIN history' : history'[i].previous = (AfterHistory(i - 1))'
      /\ active' = (AfterHistory(Len(history)))'
  BY <1>1, LogStep
<1>3. /\ audit' \in Seq(AuditEvent) /\ active' \in Version
      /\ \A i \in DOMAIN audit' : audit'[i].previous = (AfterAudit(i - 1))'
      /\ active' = (AfterAudit(Len(audit)))'
      /\ ForwardOrBack' /\ OneSuite' /\ LegacyIsFrozen'
  BY <1>1, ActivateStep
<1>4. RegistryTypeOK'
  BY <1>1, <1>2, <1>3, LenProperties DEF RInv, RegistryTypeOK, Version
<1>5. RecordsTellActive'
  BY <1>1, <1>2, <1>3 DEF RecordsTellActive
<1> QED BY <1>1, <1>3, <1>4, <1>5 DEF RInv, BeforeOpening

LEMMA NextInv == RInv /\ [Next]_vars => RInv'
<1> SUFFICES ASSUME RInv, [Next]_vars PROVE RInv'
  OBVIOUS
<1>1. CASE Open
  BY <1>1, OpenStep
<1>2. CASE \E g \in Registry, r \in Report, p \in 0..MaxCandidates,
              compare \in BOOLEAN : Register(g, r, p, compare)
  BY <1>2, RegisterStep
<1>3. CASE \E g \in Registry, v \in Version, a \in HumanApproval \cup {Absent},
              b \in Report \cup {Absent} : Promote(g, v, a, b)
  BY <1>3, PromoteStep
<1>4. CASE \E g \in Registry, v \in Version, a \in HumanApproval : Rollback(g, v, a)
  BY <1>4, RollbackStep
<1>5. CASE UNCHANGED vars
  BY <1>5 DEF RInv, vars, RegistryTypeOK, BeforeOpening, RecordsTellActive,
     ForwardOrBack, OneSuite, LegacyIsFrozen, AfterAudit, AfterHistory, Version
<1> QED BY <1>1, <1>2, <1>3, <1>4, <1>5 DEF Next

(***************************************************************************)
(* The inductive invariant of the registry: all its properties together,   *)
(* and the shape of a database that was never opened.                      *)
(***************************************************************************)
THEOREM RegistryInvariance == Spec => []RInv
  BY InitInv, NextInv, PTL DEF Spec

(***************************************************************************)
(* Tables are well typed and no version is written twice, under any trust. *)
(***************************************************************************)
THEOREM RegistryTypeCorrect == Spec => []RegistryTypeOK
  BY RegistryInvariance, PTL DEF RInv

(***************************************************************************)
(* The active version can be recomputed from history and from audit chain. *)
(***************************************************************************)
THEOREM RecordsTell == Spec => []RecordsTellActive
  BY RegistryInvariance, PTL DEF RInv

(***************************************************************************)
(* Versions become active one step forward or by going back: all that were *)
(* ever active descend from the first.                                     *)
(***************************************************************************)
THEOREM OneLine == Spec => []ForwardOrBack
  BY RegistryInvariance, PTL DEF RInv

(***************************************************************************)
(* All active versions with a report were evaluated on the same suite.      *)
(***************************************************************************)
THEOREM SuiteIsFixed == Spec => []OneSuite
  BY RegistryInvariance, PTL DEF RInv

(***************************************************************************)
(* A registry migrated with an active version never leaves its old ones.   *)
(***************************************************************************)
THEOREM LegacyStays == Spec => []LegacyIsFrozen
  BY RegistryInvariance, PTL DEF RInv
=============================================================================
