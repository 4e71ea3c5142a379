----------------------- MODULE AgentOrchestratorProofs -----------------------
(***************************************************************************)
(* Theorems about AgentOrchestrator, for every report, budget, set of host *)
(* proposals and number of faults and commands: a run makes one attempt,   *)
(* decides every context once, answers a second caller as the first, and   *)
(* approves only what the deterministic report bears out.                  *)
(*                                                                         *)
(* AgentInv is the inductive invariant; after it come the lemmas about the *)
(* evidence, the journal and the answer read from it, then one lemma for   *)
(* each action, and the theorems at the end.                               *)
(***************************************************************************)
EXTENDS AgentOrchestrator, FiniteSetTheorems, WellFoundedInduction, TLAPS

\* The records of the evidence and the entries of the journal.
Objection == {"context_mismatch", "context_expired", "evidence_mismatch",
              "action_count_invalid", "action_not_applicable"}
Excuse    == {"none", "provider_pending", "provider_error", "submission_error"}
Complaint == Recoverable \cup {"permission_denied", "tool_failure"}
Bindings == [primary : Provider, selected : Provider]
Finds    == [kind : {"diagnostic"}, parents : {{}}, finding : Finding, bound : BOOLEAN]
Advises  == [kind : {"recommendation"}, action : Action, parents : SUBSET Nat]
Asks     == [kind : {"context"}, parents : SUBSET Nat, attempt : {0}, anchor : Nat]
Proposes == [kind : {"proposal"}, parents : SUBSET Nat, proposal : Proposal,
             binding : Bindings, inTime : BOOLEAN]
Judges   == [kind : {"result"}, parents : SUBSET Nat, reasons : SUBSET Objection,
             actions : SUBSET Action]
Lacks    == [kind : {"unavailable"}, parents : SUBSET Nat, reason : Excuse,
             binding : Bindings]
Plain    == Finds \cup Advises
Record   == Plain \cup Asks \cup Proposes \cup Judges \cup Lacks

ToolEntry ==
  [tool : Tool, says : {"done", "denied", "failed"}, ids : SUBSET Nat,
   args : [diagnosis : SUBSET Nat]]
AuditEntry ==
  [tool : {"decision"}, says : {"recorded"}, ids : SUBSET Nat,
   args : [ctx : Nat, prop : Nat, res : Nat] \cup [ctx : Nat, out : Nat]]
ReviewEntry ==
  [tool : {"review"}, says : {"reviewed"}, ids : SUBSET Nat,
   args : [approved : BOOLEAN, reasons : SUBSET Complaint, attempt : {0}]]
Entry == ToolEntry \cup AuditEntry \cup ReviewEntry

Root  == [kind : {"root"}, parent : {0}, retryOf : {0}, call : {"comprehensive"}]
Kid == [kind : {"child"}, parent : Nat, retryOf : {0}, call : Entry]

Deciding == {"resolve", "submit", "persist", "audit", "unavailable", "auditOutcome"}
Place == Tool \cup Deciding \cup {"idle", "diagnosing", "recommending",
                                  "prepare", "issue", "review", "publish"}

Calls ==
  [pc : Place, role : Role, budget : Nat, provider : Provider, attempt : {0},
   leaf : Nat, done : SUBSET Tool, diagnosis : SUBSET Nat, empty : BOOLEAN,
   recommended : SUBSET Nat, todo : Seq(Plain), got : SUBSET Nat, ctx : Nat,
   proposal : Proposal \cup {None}, inTime : BOOLEAN, submission : Nat,
   outcome : Nat, reason : Excuse, denied : BOOLEAN, failed : BOOLEAN,
   result : {call.result}]

AgentWellTyped ==
  /\ evidence \in Seq(Record)
  /\ nodes \in Seq(Root \cup Kid)
  /\ report \in Report
  /\ call \in Calls
  /\ cli \in Seq(Plain)

\* The journal is a root and its children.
Rooted == \A n \in 1..Len(nodes) : nodes[n].kind = "root" <=> n = 1

-----------------------------------------------------------------------------
RecordsAt(log, ids) == {log[i] : i \in ids}
ActionsAt(log, ids) == {log[i].action : i \in ids}

\* What the evidence of a run looks like.
Apart(log) ==
  \A c, d \in Contexts(log) : c # d => log[c].anchor # log[d].anchor

DecidedBy(log, made) ==
  \/ made = {}
  \/ \E p, r \in 1..Len(log) : /\ made = {p, r}
                              /\ log[p].kind = "proposal" /\ log[r].kind = "result"
  \/ \E u \in 1..Len(log) : made = {u} /\ log[u].kind = "unavailable"

EvidenceIsFine(log) ==
  /\ log \in Seq(Record) /\ VerifyChain(log) /\ Apart(log)
  /\ \A c \in Contexts(log) : DecidedBy(log, DecisionRecords(log, c))

\* What a call or a command has in hand is in the evidence.
Rests(records) == \A i \in 1..Len(records) : records[i].parents \subseteq 1..Len(evidence)

InHand ==
  /\ call.got \cup call.diagnosis \cup call.recommended \subseteq 1..Len(evidence)
  /\ Rests(call.todo) /\ Rests(cli)
  /\ call.todo = <<>> \/ At("diagnosing") \/ At("recommending")
  /\ \A n \in 2..Len(nodes) : nodes[n].call.ids \subseteq 1..Len(evidence)

AtDecision ==
  /\ At("submit") \/ At("persist") => call.proposal \in Proposal
  /\ call.pc \in Deciding => call.ctx \in Contexts(evidence)
  /\ At("audit") => /\ call.submission \in OfKind(evidence, "result")
                    /\ \E i \in evidence[call.submission].parents : i # call.ctx
  /\ At("auditOutcome") => call.outcome \in 1..Len(evidence)

-----------------------------------------------------------------------------
Fresh == {"inspect", "diagnose", "diagnosing"}
Going == call.pc \notin {"idle", "publish"}

Reported == {Diagnostic(report[i], TRUE) : i \in 1..Len(report)}
Unhurt == At("review") /\ ~ call.denied /\ ~ call.failed

\* The diagnosis is what the diagnostics report, whenever it is relied on.
DiagnosisIsReport ==
  /\ call.pc \in Fresh => call.diagnosis = {}
  /\ At("inspect") \/ At("diagnose") => call.got = {}
  /\ At("diagnosing") =>
       RecordsAt(evidence, call.got) \cup {call.todo[i] : i \in 1..Len(call.todo)} = Reported
  /\ (Going /\ call.pc \notin Fresh \cup {"review"}) \/ Unhurt =>
       /\ RecordsAt(evidence, call.diagnosis) = Reported
       /\ call.empty = (call.diagnosis = {})

\* res accepts a proposal in time about the findings ids.
Accepts(log, res, ids) ==
  /\ res \in 1..Len(log) /\ log[res].kind = "result"
  /\ \E ctx, prop \in 1..Len(log) :
       /\ log[res].parents = {ctx, prop}
       /\ log[ctx].kind = "context" /\ log[prop].kind = "proposal"
       /\ log[prop].inTime /\ log[res].reasons = {}
       /\ log[res].actions = log[prop].proposal.actions
       /\ log[res].actions \subseteq Applicable(log, ids)

AdviceIsDecided ==
  /\ Going /\ ~ At("review") => call.recommended = {}
  /\ At("recommending") => call.diagnosis # {}
  /\ Unhurt /\ call.diagnosis = {} => call.recommended = {}
  /\ At("recommending") \/ Unhurt =>
       call.diagnosis = {} \/ Accepts(evidence, call.submission, call.diagnosis)

-----------------------------------------------------------------------------
\* The journal tells what the call at work has done.
Did(n, tool) == nodes[n].call.tool = tool /\ nodes[n].call.says = "done"

Told == UNION {nodes[n].call.ids : n \in {m \in 2..Len(nodes) : Did(m, "diagnose")}}
DidAll == {t \in Tool : \E n \in 2..Len(nodes) : Did(n, t)}

JournalTells ==
  /\ Going => /\ nodes # <<>> /\ call.leaf = Len(nodes)
              /\ call.diagnosis = Told /\ call.done = DidAll
  /\ Going /\ call.pc \in Fresh => "diagnose" \notin DidAll

ToolsTold ==
  WithoutDecision([i \in 1..(Len(nodes) - 1) |-> nodes[1 + i].call.tool])
Attempt == [i \in 1..(Len(nodes) - 1) |-> 1 + i]
Says == nodes[Len(nodes)].call

\* The result that the closed journal stands for.
FromJournal(summary) ==
  AgentResult([approved |-> Says.args.approved, reasons |-> Says.args.reasons,
               evidence |-> Says.ids],
              ToolsTold, Told \cap Says.ids, 0, Len(nodes), summary,
              DidAll)

ResultIsJournal ==
  /\ ~ At("idle") => result = None
  /\ ~ At("publish") => call.result = None
  /\ Going => ~ Closed
  /\ \A r \in {result, call.result} \ {None} :
       Closed /\ \E summary \in BOOLEAN : r = FromJournal(summary)

GroundedFor(ids, diagnosis) ==
  \/ report = <<>> /\ ids = {}
  \/ /\ RecordsAt(evidence, diagnosis) = Reported
     /\ \E res \in 1..Len(evidence) :
          /\ Accepts(evidence, res, diagnosis)
          /\ ActionsAt(evidence, ids \ diagnosis) = evidence[res].actions

ApprovedIsGrounded ==
  Closed /\ Says.args.approved => GroundedFor(Says.ids, Told \cap Says.ids)

AgentInv ==
  /\ AgentWellTyped /\ Rooted
  /\ EvidenceIsFine(evidence) /\ InHand /\ AtDecision
  /\ DiagnosisIsReport /\ AdviceIsDecided
  /\ JournalTells /\ ResultIsJournal /\ ApprovedIsGrounded

-----------------------------------------------------------------------------
Extends(log, more) ==
  Len(log) <= Len(more) /\ \A i \in 1..Len(log) : more[i] = log[i]

-----------------------------------------------------------------------------
\* What AppendRecord does, and the place a record has afterwards.
LEMMA AppendIs ==
  ASSUME NEW log \in Seq(Record), NEW r \in Record,
         NEW more, more = AppendRecord(log, r)
  PROVE  /\ more \in Seq(Record) /\ Extends(log, more)
         /\ ContentId(more, r) \in 1..Len(more) /\ more[ContentId(more, r)] = r
         /\ ~ Held(log, r) => more = Append(log, r)
         /\ Held(log, r) => more = log
<1>1. CASE Held(log, r)
  <2>1. more = log
    BY <1>1 DEF AppendRecord
  <2>2. \E i \in 1..Len(more) : more[i] = r
    BY <1>1, <2>1 DEF Held
  <2> QED BY <1>1, <2>1, <2>2 DEF Extends, ContentId
<1>2. CASE ~ Held(log, r)
  <2>1. more = Append(log, r)
    BY <1>2 DEF AppendRecord
  <2>2. /\ more \in Seq(Record) /\ Len(more) = Len(log) + 1
        /\ more[Len(log) + 1] = r /\ \A i \in 1..Len(log) : more[i] = log[i]
    BY <2>1
  <2>3. Len(log) + 1 \in 1..Len(more)
    BY <2>2
  <2>4. \E i \in 1..Len(more) : more[i] = r
    BY <2>2, <2>3
  <2> QED BY <1>2, <2>1, <2>2, <2>4 DEF Extends, ContentId
<1> QED BY <1>1, <1>2

\* A batch of two is appended one after the other.
LEMMA PairAppended ==
  ASSUME NEW log, NEW a, NEW b
  PROVE  AppendMany(log, <<a, b>>) = AppendRecord(AppendRecord(log, a), b)
<1> DEFINE batch == <<a, b>>
           one   == AppendRecord(log, a)
           two   == AppendRecord(one, b)
           step(after, n) == IF n = 0 THEN log
                             ELSE AppendRecord(after[n - 1], batch[n])
           is(after) == after = [n \in 0..Len(batch) |-> step(after, n)]
           it == [n \in 0..2 |-> IF n = 0 THEN log ELSE IF n = 1 THEN one ELSE two]
<1>1. Len(batch) = 2 /\ batch[1] = a /\ batch[2] = b
  OBVIOUS
<1>2. is(it)
  <2>1. \A n \in 0..2 : it[n] = step(it, n)
    <3> TAKE n \in 0..2
    <3>1. CASE n = 0
      BY <3>1
    <3>2. CASE n = 1
      BY <3>2, <1>1
    <3>3. CASE n = 2
      BY <3>3, <1>1
    <3> QED BY <3>1, <3>2, <3>3
  <2> HIDE DEF step
  <2> QED BY <1>1, <2>1
<1>3. PICK f : f = CHOOSE after : is(after)
  OBVIOUS
<1>4. is(f)
  <2> HIDE DEF is
  <2> QED BY <1>2, <1>3
<1>5. AppendMany(log, batch) = f[Len(batch)]
  BY <1>3 DEF AppendMany
<1>6. f[0] = log
  BY <1>1, <1>4
<1>7. f[1] = one
  BY <1>1, <1>4, <1>6
<1>8. f[2] = two
  BY <1>1, <1>4, <1>7
<1> QED BY <1>1, <1>5, <1>8

\* A log that extends an extension of a log extends it.
LEMMA ExtendsTwice ==
  ASSUME NEW a \in Seq(Record), NEW b \in Seq(Record), NEW c \in Seq(Record),
         Extends(a, b), Extends(b, c)
  PROVE  Extends(a, c)
BY DEF Extends

-----------------------------------------------------------------------------
\* The kind of a record tells its fields.
LEMMA RecordKinds ==
  ASSUME NEW r \in Record
  PROVE  /\ r.parents \in SUBSET Nat
         /\ r.kind = "diagnostic" => r \in Finds
         /\ r.kind = "recommendation" => r \in Advises
         /\ r.kind = "context" => r \in Asks
         /\ r.kind = "proposal" => r \in Proposes
         /\ r.kind = "result" => r \in Judges
         /\ r.kind = "unavailable" => r \in Lacks
<1>1. CASE r \in Finds
  <2>1. r.kind = "diagnostic" /\ r.parents = {}
    BY <1>1 DEF Finds
  <2> QED BY <1>1, <2>1
<1>2. CASE r \in Advises
  <2>1. r.kind = "recommendation" /\ r.parents \in SUBSET Nat
    BY <1>2 DEF Advises
  <2> QED BY <1>2, <2>1
<1>3. CASE r \in Asks
  <2>1. r.kind = "context" /\ r.parents \in SUBSET Nat
    BY <1>3 DEF Asks
  <2> QED BY <1>3, <2>1
<1>4. CASE r \in Proposes
  <2>1. r.kind = "proposal" /\ r.parents \in SUBSET Nat
    BY <1>4 DEF Proposes
  <2> QED BY <1>4, <2>1
<1>5. CASE r \in Judges
  <2>1. r.kind = "result" /\ r.parents \in SUBSET Nat
    BY <1>5 DEF Judges
  <2> QED BY <1>5, <2>1
<1>6. CASE r \in Lacks
  <2>1. r.kind = "unavailable" /\ r.parents \in SUBSET Nat
    BY <1>6 DEF Lacks
  <2> QED BY <1>6, <2>1
<1> QED BY <1>1, <1>2, <1>3, <1>4, <1>5, <1>6 DEF Record, Plain

\* One more record: who it is about, and that the chain still verifies.
LEMMA OneMore ==
  ASSUME NEW log \in Seq(Record), VerifyChain(log),
         NEW r \in Record, r.parents \subseteq 1..Len(log),
         NEW more, more = Append(log, r)
  PROVE  /\ more \in Seq(Record) /\ VerifyChain(more) /\ Extends(log, more)
         /\ Len(more) = Len(log) + 1 /\ more[Len(log) + 1] = r
<1>1. /\ more \in Seq(Record) /\ Len(more) = Len(log) + 1
      /\ more[Len(log) + 1] = r /\ \A i \in 1..Len(log) : more[i] = log[i]
  OBVIOUS
<1>2. Extends(log, more)
  BY <1>1 DEF Extends
<1>3. VerifyChain(more)
  <2> SUFFICES ASSUME NEW i \in 1..Len(more)
               PROVE  more[i].parents \subseteq 1..(i - 1)
    BY DEF VerifyChain
  <2>1. CASE i \in 1..Len(log)
    BY <1>1, <2>1 DEF VerifyChain
  <2>2. CASE i = Len(log) + 1
    BY <1>1, <2>2
  <2> QED BY <1>1, <2>1, <2>2
<1> QED BY <1>1, <1>2, <1>3

\* Only a context adds to the contexts.
LEMMA ContextsAppended ==
  ASSUME NEW log \in Seq(Record), NEW r \in Record
  PROVE  Contexts(Append(log, r)) =
           IF r.kind = "context" THEN Contexts(log) \cup {Len(log) + 1} ELSE Contexts(log)
BY DEF Contexts, OfKind

\* Only a record that decides adds to what decides a context.
LEMMA DecisionsAppended ==
  ASSUME NEW log \in Seq(Record), NEW r \in Record, NEW c
  PROVE  DecisionRecords(Append(log, r), c) =
           IF Targets(r, c) THEN DecisionRecords(log, c) \cup {Len(log) + 1}
                            ELSE DecisionRecords(log, c)
BY DEF DecisionRecords

\* Nothing decides a record that is not there yet.
LEMMA NoneBefore ==
  ASSUME NEW log \in Seq(Record), VerifyChain(log), NEW c, c \notin 1..Len(log)
  PROVE  DecisionRecords(log, c) = {}
<1>1. ASSUME NEW i \in DecisionRecords(log, c)
      PROVE  FALSE
  <2>1. i \in 1..Len(log) /\ c \in log[i].parents
    BY DEF DecisionRecords, Targets
  <2>2. c \in 1..(i - 1)
    BY <2>1 DEF VerifyChain
  <2> QED BY <2>1, <2>2
<1> QED BY <1>1

\* A record that decides nothing leaves every old context decided as it was.
LEMMA DecidedStays ==
  ASSUME NEW log \in Seq(Record), NEW more \in Seq(Record), Extends(log, more),
         NEW made, DecidedBy(log, made)
  PROVE  DecidedBy(more, made)
<1>1. CASE made = {}
  BY <1>1 DEF DecidedBy
<1>2. ASSUME NEW p \in 1..Len(log), NEW r \in 1..Len(log), made = {p, r},
             log[p].kind = "proposal", log[r].kind = "result"
      PROVE  DecidedBy(more, made)
  <2>1. p \in 1..Len(more) /\ r \in 1..Len(more)
    BY DEF Extends
  <2>2. more[p] = log[p] /\ more[r] = log[r]
    BY DEF Extends
  <2> QED BY <1>2, <2>1, <2>2 DEF DecidedBy
<1>3. ASSUME NEW u \in 1..Len(log), made = {u}, log[u].kind = "unavailable"
      PROVE  DecidedBy(more, made)
  <2>1. u \in 1..Len(more) /\ more[u] = log[u]
    BY DEF Extends
  <2> QED BY <1>3, <2>1 DEF DecidedBy
<1> QED BY <1>1, <1>2, <1>3 DEF DecidedBy

-----------------------------------------------------------------------------
\* Old contexts stay apart and decided as they are.
LEMMA ApartStays ==
  ASSUME NEW log, EvidenceIsFine(log), NEW more \in Seq(Record), Extends(log, more),
         Contexts(more) = Contexts(log)
  PROVE  Apart(more)
<1>1. \A c \in Contexts(log) : more[c] = log[c]
  BY DEF Extends, Contexts, OfKind
<1> QED BY <1>1 DEF Apart, EvidenceIsFine

\* Diagnostics and recommendations keep the evidence fine (append_many of the tools).
LEMMA PlainAppended ==
  ASSUME NEW log, EvidenceIsFine(log),
         NEW r \in Plain, r.parents \subseteq 1..Len(log),
         NEW more, more = AppendRecord(log, r)
  PROVE  EvidenceIsFine(more)
<1>1. /\ r \in Record /\ r.kind \in {"diagnostic", "recommendation"}
      /\ \A c : ~ Targets(r, c)
  BY DEF Record, Plain, Finds, Advises, Targets
<1>2. log \in Seq(Record) /\ VerifyChain(log)
  BY DEF EvidenceIsFine
<1>3. CASE Held(log, r)
  BY <1>3 DEF AppendRecord
<1>4. CASE ~ Held(log, r)
  <2>1. more = Append(log, r)
    BY <1>4 DEF AppendRecord
  <2>2. more \in Seq(Record) /\ VerifyChain(more) /\ Extends(log, more)
    BY <1>1, <1>2, <2>1, OneMore
  <2>3. Contexts(more) = Contexts(log)
    BY <1>1, <1>2, <2>1, ContextsAppended
  <2>4. \A c : DecisionRecords(more, c) = DecisionRecords(log, c)
    BY <1>1, <1>2, <2>1, DecisionsAppended
  <2>5. Apart(more)
    BY <2>2, <2>3, ApartStays
  <2>6. \A c \in Contexts(more) : DecidedBy(more, DecisionRecords(more, c))
    BY <1>2, <2>2, <2>3, <2>4, DecidedStays DEF EvidenceIsFine
  <2> QED BY <2>2, <2>5, <2>6 DEF EvidenceIsFine
<1> QED BY <1>3, <1>4

\* A context issued where no other is anchored keeps the evidence fine (prepare).
LEMMA ContextAppended ==
  ASSUME NEW log, EvidenceIsFine(log),
         NEW r \in Asks, r.parents \subseteq 1..Len(log),
         NewContext(log, 0, r.anchor),
         NEW more, more = AppendRecord(log, r)
  PROVE  EvidenceIsFine(more) /\ ContentId(more, r) \in Contexts(more)
<1>1. /\ r \in Record /\ r.kind = "context" /\ r.attempt = 0
      /\ \A c : ~ Targets(r, c)
  BY DEF Record, Asks, Targets
<1>2. log \in Seq(Record) /\ VerifyChain(log)
  BY DEF EvidenceIsFine
<1>3. \A c \in Contexts(log) : log[c].attempt = 0 /\ log[c].anchor # r.anchor
  <2> TAKE c \in Contexts(log)
  <2>1. log[c] \in Record /\ log[c].kind = "context"
    BY <1>2 DEF Contexts, OfKind
  <2>2. log[c] \in Asks
    BY <2>1, RecordKinds
  <2> QED BY <2>2 DEF NewContext, Asks
<1>4. ~ Held(log, r)
  BY <1>1, <1>3 DEF Held, Contexts, OfKind
<1>5. more = Append(log, r)
  BY <1>4 DEF AppendRecord
<1>6. /\ more \in Seq(Record) /\ VerifyChain(more) /\ Extends(log, more)
      /\ more[Len(log) + 1] = r
  BY <1>1, <1>2, <1>5, OneMore
<1>7. Contexts(more) = Contexts(log) \cup {Len(log) + 1}
  BY <1>1, <1>2, <1>5, ContextsAppended
<1>8. \A c : DecisionRecords(more, c) = DecisionRecords(log, c)
  BY <1>1, <1>2, <1>5, DecisionsAppended
<1>9. DecisionRecords(log, Len(log) + 1) = {}
  <2>1. Len(log) + 1 \notin 1..Len(log)
    BY <1>2
  <2> QED BY <1>2, <2>1, NoneBefore
<1>10. Apart(more)
  <2>1. \A c \in Contexts(log) : more[c] = log[c]
    BY <1>6 DEF Extends, Contexts, OfKind
  <2>2. Apart(log)
    BY DEF EvidenceIsFine
  <2> HIDE DEF Contexts
  <2> QED BY <1>3, <1>6, <1>7, <2>1, <2>2 DEF Apart
<1>11. \A c \in Contexts(more) : DecidedBy(more, DecisionRecords(more, c))
  <2> TAKE c \in Contexts(more)
  <2>1. CASE c \in Contexts(log)
    BY <1>2, <1>6, <1>8, <2>1, DecidedStays DEF EvidenceIsFine
  <2>2. CASE c = Len(log) + 1
    BY <1>8, <1>9, <2>2 DEF DecidedBy
  <2> QED BY <1>7, <2>1, <2>2
<1>12. ContentId(more, r) \in Contexts(more)
  <2>1. ContentId(more, r) \in 1..Len(more) /\ more[ContentId(more, r)] = r
    BY <1>1, <1>2, AppendIs
  <2> QED BY <1>1, <2>1 DEF Contexts, OfKind
<1> QED BY <1>6, <1>10, <1>11, <1>12 DEF EvidenceIsFine

\* A record that decides a context nothing was recorded for is a new one.
LEMMA DecidesAnew ==
  ASSUME NEW log \in Seq(Record), NEW r \in Record, NEW c,
         Targets(r, c), DecisionRecords(log, c) = {}
  PROVE  ~ Held(log, r)
BY DEF Held, DecisionRecords

\* An unavailable outcome for a context nothing was recorded for keeps it fine.
LEMMA OutcomeAppended ==
  ASSUME NEW log, EvidenceIsFine(log), NEW c \in Contexts(log),
         NEW r \in Lacks, r.parents = {c}, NoSubmission(log, c),
         NEW more, more = AppendRecord(log, r)
  PROVE  EvidenceIsFine(more)
<1>1. /\ r \in Record /\ r.kind = "unavailable"
      /\ \A d : Targets(r, d) <=> d = c
  BY DEF Record, Lacks, Targets
<1>2. log \in Seq(Record) /\ VerifyChain(log) /\ c \in 1..Len(log)
  BY DEF EvidenceIsFine, Contexts, OfKind
<1>3. more = Append(log, r)
  BY <1>1, <1>2, DecidesAnew DEF AppendRecord, NoSubmission
<1>4. r.parents \subseteq 1..Len(log)
  BY <1>2
<1>5. /\ more \in Seq(Record) /\ VerifyChain(more) /\ Extends(log, more)
      /\ Len(more) = Len(log) + 1 /\ more[Len(log) + 1] = r
  BY <1>1, <1>2, <1>3, <1>4, OneMore
<1>6. Contexts(more) = Contexts(log)
  BY <1>1, <1>2, <1>3, ContextsAppended
<1>7. \A d : d # c => DecisionRecords(more, d) = DecisionRecords(log, d)
  BY <1>1, <1>2, <1>3, DecisionsAppended
<1>8. DecisionRecords(more, c) = {Len(log) + 1}
  BY <1>1, <1>2, <1>3, DecisionsAppended DEF NoSubmission
<1>9. Apart(more)
  BY <1>5, <1>6, ApartStays
<1>10. \A d \in Contexts(more) : DecidedBy(more, DecisionRecords(more, d))
  <2> TAKE d \in Contexts(more)
  <2>1. CASE d # c
    BY <1>2, <1>5, <1>6, <1>7, <2>1, DecidedStays DEF EvidenceIsFine
  <2>2. CASE d = c
    <3>1. Len(log) + 1 \in 1..Len(more)
      BY <1>2, <1>5
    <3> QED BY <1>1, <1>5, <1>8, <2>2, <3>1 DEF DecidedBy
  <2> QED BY <2>1, <2>2
<1> QED BY <1>5, <1>9, <1>10 DEF EvidenceIsFine

\* A proposal and its result, for a context nothing was recorded for.
LEMMA PairIsFine ==
  ASSUME NEW log, EvidenceIsFine(log), NEW c \in Contexts(log), NoSubmission(log, c),
         NEW a \in Proposes, a.parents = {c},
         NEW b \in Judges, b.parents = {c, Len(log) + 1},
         NEW more, more = AppendMany(log, <<a, b>>)
  PROVE  /\ EvidenceIsFine(more) /\ Extends(log, more)
         /\ ContentId(more, b) \in OfKind(more, "result")
         /\ more[ContentId(more, b)] = b
<1>1. /\ a \in Record /\ a.kind = "proposal" /\ b \in Record /\ b.kind = "result"
      /\ \A d : Targets(a, d) <=> d = c
      /\ \A d : Targets(b, d) <=> d \in {c, Len(log) + 1}
  BY DEF Record, Proposes, Judges, Targets
<1>2. a \in Record /\ b \in Record
  BY <1>1
<1>3. log \in Seq(Record) /\ VerifyChain(log) /\ c \in 1..Len(log) /\ Len(log) \in Nat
  BY DEF EvidenceIsFine, Contexts, OfKind
<1>4. PICK one : one = Append(log, a)
  OBVIOUS
<1>5. one = AppendRecord(log, a)
  BY <1>1, <1>3, <1>4, DecidesAnew DEF AppendRecord, NoSubmission
<1>6. /\ one \in Seq(Record) /\ VerifyChain(one) /\ Extends(log, one)
      /\ Len(one) = Len(log) + 1 /\ one[Len(log) + 1] = a
  <2>1. a.parents \subseteq 1..Len(log)
    BY <1>3
  <2> QED BY <1>2, <1>3, <1>4, <2>1, OneMore
<1>7. one \in Seq(Record)
  BY <1>6
<1>8. \A d : d # c => DecisionRecords(one, d) = DecisionRecords(log, d)
  BY <1>1, <1>3, <1>4, DecisionsAppended
<1>9. DecisionRecords(one, c) = {Len(log) + 1}
  BY <1>1, <1>3, <1>4, DecisionsAppended DEF NoSubmission
<1>10. DecisionRecords(one, Len(log) + 1) = {}
  <2>1. Len(log) + 1 \notin 1..Len(log) /\ Len(log) + 1 # c
    BY <1>3
  <2> QED BY <1>3, <1>8, <2>1, NoneBefore
<1>11. more = Append(one, b)
  <2>1. more = AppendRecord(one, b)
    BY <1>5, PairAppended
  <2>2. Targets(b, Len(log) + 1)
    BY <1>1
  <2>3. ~ Held(one, b)
    BY <1>1, <1>6, <1>10, <2>2, DecidesAnew
  <2> QED BY <2>1, <2>3 DEF AppendRecord
<1>12. /\ more \in Seq(Record) /\ VerifyChain(more) /\ Extends(one, more)
       /\ Len(more) = Len(one) + 1 /\ more[Len(one) + 1] = b
  <2>1. b.parents \subseteq 1..Len(one)
    BY <1>3, <1>6
  <2> QED BY <1>1, <1>6, <1>11, <2>1, OneMore
<1>13. Contexts(more) = Contexts(log)
  BY <1>1, <1>3, <1>4, <1>6, <1>11, ContextsAppended, ZenonT(60)
<1>14. Extends(log, more)
  BY <1>3, <1>6, <1>12, ExtendsTwice
<1>15. Apart(more)
  BY <1>12, <1>13, <1>14, ApartStays
<1>16. \A d \in Contexts(more) : DecidedBy(more, DecisionRecords(more, d))
  <2> TAKE d \in Contexts(more)
  <2>1. CASE d # c
    <3>1. d # Len(log) + 1
      BY <1>3, <1>13, SMTT(30) DEF Contexts, OfKind
    <3>2. ~ Targets(b, d)
      BY <1>1, <2>1, <3>1
    <3>3. DecisionRecords(more, d) = DecisionRecords(one, d)
      BY <1>2, <1>7, <1>11, <3>2, DecisionsAppended, ZenonT(60)
    <3> QED BY <1>3, <1>8, <1>12, <1>13, <1>14, <2>1, <3>3, DecidedStays
            DEF EvidenceIsFine
  <2>2. CASE d = c
    <3>1. DecisionRecords(more, c) = {Len(log) + 1, Len(one) + 1}
      <4>1. Targets(b, c)
        BY <1>1
      <4>2. DecisionRecords(more, c) = DecisionRecords(one, c) \cup {Len(one) + 1}
        BY <1>2, <1>7, <1>11, <4>1, DecisionsAppended
      <4> QED BY <1>9, <4>2
    <3>2. Len(log) + 1 \in 1..Len(one) /\ Len(log) + 1 \in 1..Len(more)
          /\ Len(one) + 1 \in 1..Len(more)
      BY <1>3, <1>6, <1>12
    <3>3. more[Len(log) + 1] = a
      BY <1>6, <1>12, <3>2 DEF Extends
    <3> QED BY <1>1, <1>12, <2>2, <3>1, <3>2, <3>3 DEF DecidedBy
  <2> QED BY <2>1, <2>2
<1>17. ContentId(more, b) \in 1..Len(more) /\ more[ContentId(more, b)] = b
  <2>1. more = AppendRecord(one, b)
    BY <1>5, PairAppended
  <2>2. /\ ContentId(AppendRecord(one, b), b) \in 1..Len(AppendRecord(one, b))
        /\ AppendRecord(one, b)[ContentId(AppendRecord(one, b), b)] = b
    BY <1>2, <1>7, AppendIs
  <2> QED BY <2>1, <2>2
<1>18. ContentId(more, b) \in OfKind(more, "result")
  BY <1>1, <1>17 DEF OfKind
<1> QED BY <1>12, <1>14, <1>15, <1>16, <1>17, <1>18 DEF EvidenceIsFine

-----------------------------------------------------------------------------
\* Induction, in the form the provers can use: a set of numbers has a least one.
LEMMA LeastNumber ==
  ASSUME NEW T, T \subseteq Nat, NEW n \in T
  PROVE  \E x \in T : \A y \in T : x <= y
<1>1. PICK R : R = OpToRel(<, Nat)
  OBVIOUS
<1>2. IsWellFoundedOn(R, Nat)
  BY <1>1, NatLessThanWellFounded
<1>3. \E x \in T : \A y \in T : ~ (<<y, x>> \in R)
  BY <1>2, WFMin
<1>4. \A x, y \in Nat : y < x => <<y, x>> \in R
  BY <1>1 DEF OpToRel
<1>5. \E x \in T : \A y \in T : ~ (y < x)
  BY <1>3, <1>4
<1> QED BY <1>5

-----------------------------------------------------------------------------
\* f is the function by which WithoutDecision is computed for tools, up to n.
IsUpTo(f, tools, n) ==
  f = [k \in 0..n |->
         IF k = 0 THEN <<>>
         ELSE IF tools[k] = "decision" THEN f[k - 1]
         ELSE Append(f[k - 1], tools[k])]

\* One step of the function by which WithoutDecision is computed.
LEMMA UpToStep ==
  ASSUME NEW tools, NEW n \in Nat, NEW f, IsUpTo(f, tools, n), NEW k \in 1..n
  PROVE  f[k] = IF tools[k] = "decision" THEN f[k - 1] ELSE Append(f[k - 1], tools[k])
<1>1. k \in 0..n /\ k # 0
  OBVIOUS
<1>2. \A i \in 0..n : f[i] = IF i = 0 THEN <<>>
                             ELSE IF tools[i] = "decision" THEN f[i - 1]
                             ELSE Append(f[i - 1], tools[i])
  BY DEF IsUpTo
<1> QED BY <1>1, <1>2

\* That function exists, and its values are sequences of tools.
LEMMA UpToExists ==
  ASSUME NEW tools, NEW n \in Nat
  PROVE  \E f : IsUpTo(f, tools, n)
<1> DEFINE T == {m \in Nat : ~ \E f : IsUpTo(f, tools, m)}
<1>1. SUFFICES ASSUME n \in T
               PROVE  FALSE
  OBVIOUS
<1>2. PICK m \in T : \A y \in T : m <= y
  BY <1>1, LeastNumber
<1>3. CASE m = 0
  <2>1. IsUpTo([k \in 0..0 |-> <<>>], tools, 0)
    BY DEF IsUpTo
  <2> QED BY <1>3, <2>1
<1>4. CASE m > 0
  <2>1. m \in Nat /\ m - 1 \in Nat /\ m - 1 \notin T
    BY <1>2, <1>4
  <2>2. PICK f : IsUpTo(f, tools, m - 1)
    BY <2>1
  <2>3. PICK last : last = IF tools[m] = "decision" THEN f[m - 1]
                           ELSE Append(f[m - 1], tools[m])
    OBVIOUS
  <2>4. PICK g : g = [k \in 0..m |-> IF k = m THEN last ELSE f[k]]
    OBVIOUS
  <2>5. \A k \in 0..m :
          g[k] = IF k = 0 THEN <<>>
                 ELSE IF tools[k] = "decision" THEN g[k - 1]
                 ELSE Append(g[k - 1], tools[k])
    <3> TAKE k \in 0..m
    <3>1. CASE k = m
      <4>1. g[k] = last /\ g[k - 1] = f[k - 1]
        BY <2>1, <2>4, <3>1
      <4> QED BY <1>4, <2>3, <3>1, <4>1
    <3>2. CASE k = 0
      <4>1. g[k] = f[0]
        BY <1>4, <2>1, <2>4, <3>2
      <4> QED BY <2>1, <2>2, <3>2, <4>1 DEF IsUpTo
    <3>3. CASE k \in 1..(m - 1)
      <4>1. g[k] = f[k] /\ g[k - 1] = f[k - 1]
        BY <2>1, <2>4, <3>3
      <4>2. f[k] = IF tools[k] = "decision" THEN f[k - 1] ELSE Append(f[k - 1], tools[k])
        BY <2>1, <2>2, <3>3, UpToStep
      <4> QED BY <2>1, <3>3, <4>1, <4>2
    <3> QED BY <2>1, <3>1, <3>2, <3>3
  <2>6. g = [k \in 0..m |->
               IF k = 0 THEN <<>>
               ELSE IF tools[k] = "decision" THEN g[k - 1]
               ELSE Append(g[k - 1], tools[k])]
    BY <2>4, <2>5
  <2> QED BY <1>2, <2>6 DEF IsUpTo
<1> QED BY <1>2, <1>3, <1>4

Alike(s, t, n) == \A k \in 1..n : s[k] = t[k]

\* What has been computed does not depend on what comes after.
LEMMA UpToAgree ==
  ASSUME NEW s, NEW t, NEW n \in Nat, NEW m \in Nat, n <= m,
         Alike(s, t, n),
         NEW f, IsUpTo(f, s, n), NEW g, IsUpTo(g, t, m)
  PROVE  f[n] = g[n]
<1> DEFINE T == {k \in 0..n : f[k] # g[k]}
<1>1. SUFFICES ASSUME n \in T
               PROVE  FALSE
  OBVIOUS
<1>2. PICK k \in T : \A y \in T : k <= y
  <2>1. T \subseteq Nat
    OBVIOUS
  <2> QED BY <1>1, <2>1, LeastNumber
<1>3. CASE k = 0
  <2>1. f[0] = <<>> /\ g[0] = <<>>
    BY DEF IsUpTo
  <2> QED BY <1>2, <1>3, <2>1
<1>4. CASE k > 0
  <2>1. k \in 1..n /\ k \in 1..m /\ k - 1 \in 0..n /\ k - 1 \notin T
    BY <1>2, <1>4
  <2>2. f[k - 1] = g[k - 1] /\ s[k] = t[k]
    BY <2>1 DEF Alike
  <2>3. f[k] = IF s[k] = "decision" THEN f[k - 1] ELSE Append(f[k - 1], s[k])
    BY <2>1, UpToStep
  <2>4. g[k] = IF t[k] = "decision" THEN g[k - 1] ELSE Append(g[k - 1], t[k])
    BY <2>1, UpToStep
  <2> QED BY <1>2, <2>2, <2>3, <2>4
<1> QED BY <1>2, <1>3, <1>4

\* WithoutDecision, by that function.
LEMMA WithoutIs ==
  ASSUME NEW S, NEW tools \in Seq(S)
  PROVE  \E f : IsUpTo(f, tools, Len(tools)) /\ WithoutDecision(tools) = f[Len(tools)]
<1>1. PICK f : f = CHOOSE g : IsUpTo(g, tools, Len(tools))
  OBVIOUS
<1>2. Len(tools) \in Nat
  OBVIOUS
<1>3. IsUpTo(f, tools, Len(tools))
  BY <1>1, <1>2, UpToExists
<1>4. WithoutDecision(tools) = f[Len(tools)]
  BY <1>1 DEF WithoutDecision, IsUpTo
<1> QED BY <1>3, <1>4

\* What is journalled last comes last in what is made public.
LEMMA WithoutGrows ==
  ASSUME NEW S, NEW tools \in Seq(S), NEW t \in S, t # "decision"
  PROVE  WithoutDecision(Append(tools, t)) = Append(WithoutDecision(tools), t)
<1>1. PICK more : more = Append(tools, t)
  OBVIOUS
<1>2. /\ more \in Seq(S) /\ Len(more) = Len(tools) + 1 /\ Len(tools) \in Nat
      /\ more[Len(tools) + 1] = t /\ \A k \in 1..Len(tools) : tools[k] = more[k]
  BY <1>1
<1>3. PICK f : IsUpTo(f, tools, Len(tools)) /\ WithoutDecision(tools) = f[Len(tools)]
  BY WithoutIs
<1>4. PICK g : IsUpTo(g, more, Len(more)) /\ WithoutDecision(more) = g[Len(more)]
  BY <1>2, WithoutIs
<1>5. f[Len(tools)] = g[Len(tools)]
  <2>1. PICK n, m : n = Len(tools) /\ m = Len(more)
    OBVIOUS
  <2>2. n \in Nat /\ m \in Nat /\ n <= m /\ Alike(tools, more, n)
    BY <1>2, <2>1 DEF Alike
  <2>3. IsUpTo(f, tools, n) /\ IsUpTo(g, more, m)
    BY <1>3, <1>4, <2>1
  <2>4. f[n] = g[n]
    BY <2>2, <2>3, UpToAgree
  <2> QED BY <2>1, <2>4
<1>6. g[Len(more)] = Append(g[Len(more) - 1], t)
  <2>1. Len(more) \in Nat /\ Len(more) \in 1..Len(more) /\ more[Len(more)] = t
    BY <1>2
  <2>2. g[Len(more)] = IF more[Len(more)] = "decision" THEN g[Len(more) - 1]
                       ELSE Append(g[Len(more) - 1], more[Len(more)])
    BY <1>4, <2>1, UpToStep
  <2> QED BY <2>1, <2>2
<1>7. Len(more) - 1 = Len(tools)
  BY <1>2
<1> QED BY <1>1, <1>3, <1>4, <1>5, <1>6, <1>7

-----------------------------------------------------------------------------
\* What was read of old records is read again when the log has grown.
LEMMA ReadingsStay ==
  ASSUME NEW log, NEW more, Extends(log, more), NEW ids, ids \subseteq 1..Len(log)
  PROVE  /\ RecordsAt(more, ids) = RecordsAt(log, ids)
         /\ ActionsAt(more, ids) = ActionsAt(log, ids)
         /\ Applicable(more, ids) = Applicable(log, ids)
<1>1. \A i \in ids : more[i] = log[i]
  BY DEF Extends
<1>2. RecordsAt(more, ids) = RecordsAt(log, ids)
  BY <1>1 DEF RecordsAt
<1>3. ActionsAt(more, ids) = ActionsAt(log, ids)
  BY <1>1 DEF ActionsAt
<1>4. FindingsOf(more, ids) = FindingsOf(log, ids)
  BY <1>1 DEF FindingsOf
<1> QED BY <1>2, <1>3, <1>4 DEF Applicable

\* A result that accepts a proposal does so in every longer log.
LEMMA AcceptsStays ==
  ASSUME NEW log \in Seq(Record), NEW more \in Seq(Record), Extends(log, more),
         NEW ids, ids \subseteq 1..Len(log), NEW res, Accepts(log, res, ids)
  PROVE  Accepts(more, res, ids)
<1>1. res \in 1..Len(log) /\ log[res].kind = "result"
  BY DEF Accepts
<1>2. PICK ctx \in 1..Len(log), prop \in 1..Len(log) :
        /\ log[res].parents = {ctx, prop}
        /\ log[ctx].kind = "context" /\ log[prop].kind = "proposal"
        /\ log[prop].inTime /\ log[res].reasons = {}
        /\ log[res].actions = log[prop].proposal.actions
        /\ log[res].actions \subseteq Applicable(log, ids)
  BY DEF Accepts
<1>3. more[res] = log[res] /\ more[ctx] = log[ctx] /\ more[prop] = log[prop]
  BY <1>1 DEF Extends
<1>4. res \in 1..Len(more) /\ ctx \in 1..Len(more) /\ prop \in 1..Len(more)
  BY <1>1 DEF Extends
<1>5. Applicable(more, ids) = Applicable(log, ids)
  BY ReadingsStay
<1> QED BY <1>1, <1>2, <1>3, <1>4, <1>5, SMTT(30) DEF Accepts

-----------------------------------------------------------------------------
\* The journal: the entries after the root are the only attempt.
LEMMA OneStart ==
  ASSUME nodes \in Seq(Root \cup Kid), nodes # <<>>, Rooted
  PROVE  AttemptStarts = <<1>>
<1>1. {n \in 1..Len(nodes) : nodes[n].kind \in {"root", "retry"}} = {1}
  <2>1. \A n \in 1..Len(nodes) : nodes[n].kind \in {"root", "child"}
    BY DEF Root, Kid
  <2>2. 1 \in 1..Len(nodes)
    OBVIOUS
  <2> QED BY <2>1, <2>2 DEF Rooted
<1>2. Cardinality({1}) = 1
  BY FS_Singleton
<1>3. PICK s : s = CHOOSE f \in [1..1 -> {1}] :
                     \A i, j \in DOMAIN f : i < j => f[i] < f[j]
  OBVIOUS
<1>4. s = AttemptStarts
  BY <1>1, <1>2, <1>3 DEF AttemptStarts
<1>5. \E f \in [1..1 -> {1}] : \A i, j \in DOMAIN f : i < j => f[i] < f[j]
  <2>1. [i \in 1..1 |-> 1] \in [1..1 -> {1}]
    OBVIOUS
  <2>2. ASSUME NEW i \in 1..1, NEW j \in 1..1
        PROVE  ~ (i < j)
    OBVIOUS
  <2> QED BY <2>1, <2>2
<1>6. s \in [1..1 -> {1}]
  BY <1>3, <1>5
<1>7. s = <<1>>
  BY <1>6
<1> QED BY <1>4, <1>7

\* What the session store says of a journal with one attempt.
LEMMA OneAttempt ==
  ASSUME nodes \in Seq(Root \cup Kid), nodes # <<>>, Rooted
  PROVE  Attempts = <<Attempt>> /\ Last(Attempts) = Attempt
<1>1. AttemptStarts = <<1>>
  BY OneStart
<1>2. AttemptStarts \o <<Len(nodes) + 1>> = <<1, Len(nodes) + 1>>
  <2>1. PICK k : k = Len(nodes) + 1
    OBVIOUS
  <2>2. k \in Nat /\ <<1>> \in Seq(Nat) /\ <<k>> \in Seq(Nat)
    BY <2>1
  <2>3. PICK c : c = <<1>> \o <<k>>
    OBVIOUS
  <2>4. c \in Seq(Nat) /\ Len(c) = 2 /\ c[1] = 1 /\ c[2] = k
    BY <2>2, <2>3
  <2>5. c = <<1, k>>
    BY <2>4
  <2> QED BY <1>1, <2>1, <2>3, <2>5
<1>3. Attempts = [k \in 1..1 |-> Attempt]
  <2>1. Len(AttemptStarts) = 1
    BY <1>1
  <2>2. PICK starts : starts = <<1, Len(nodes) + 1>>
    OBVIOUS
  <2>3. starts[1] = 1 /\ starts[2] = Len(nodes) + 1 /\ Len(nodes) \in Nat
    BY <2>2
  <2>4. Attempts = [k \in 1..1 |->
                      [i \in 1..(starts[k + 1] - starts[k] - 1) |-> starts[k] + i]]
    BY <1>2, <2>1, <2>2 DEF Attempts
  <2>5. [i \in 1..(starts[1 + 1] - starts[1] - 1) |-> starts[1] + i] = Attempt
    BY <2>3 DEF Attempt
  <2> QED BY <2>4, <2>5
<1>4. Attempts = <<Attempt>>
  BY <1>3
<1> QED BY <1>4 DEF Last

\* What the orchestrator reads of a journal is what the journal tells.
LEMMA JournalReadings ==
  ASSUME nodes \in Seq(Root \cup Kid), nodes # <<>>
  PROVE  /\ DiagnosisOf(Attempt) = Told /\ DoneIn(Attempt) = DidAll
         /\ PublicTools(Attempt) = ToolsTold
<1>1. Members(Attempt) = 2..Len(nodes)
  <2>1. \A n \in 2..Len(nodes) : n - 1 \in 1..Len(Attempt) /\ Attempt[n - 1] = n
    BY DEF Attempt
  <2>2. \A i \in 1..Len(Attempt) : Attempt[i] \in 2..Len(nodes)
    BY DEF Attempt
  <2> QED BY <2>1, <2>2 DEF Members
<1>2. \A t : Done(Attempt, t) = {n \in 2..Len(nodes) : Did(n, t)}
  BY <1>1 DEF Done, ToolOf, IsDone, Did
<1>3. DiagnosisOf(Attempt) = Told
  BY <1>2 DEF DiagnosisOf, IdsOf, Told
<1>4. DoneIn(Attempt) = DidAll
  BY <1>2 DEF DoneIn, DidAll
<1>5. PublicTools(Attempt) = ToolsTold
  <2>1. /\ Len(Attempt) = Len(nodes) - 1
        /\ \A i \in 1..Len(Attempt) : Attempt[i] = 1 + i
    BY DEF Attempt
  <2>2. [i \in 1..Len(Attempt) |-> ToolOf(Attempt[i])]
          = [i \in 1..(Len(nodes) - 1) |-> nodes[1 + i].call.tool]
    BY <2>1 DEF ToolOf
  <2> QED BY <2>2 DEF PublicTools, ToolsTold
<1> QED BY <1>3, <1>4, <1>5

-----------------------------------------------------------------------------
\* The three kinds of entry, by their tool.
LEMMA EntryTools ==
  ASSUME NEW entry \in Entry
  PROVE  /\ entry.tool \in Tool \cup {"decision", "review"}
         /\ entry.tool = "review" => entry \in ReviewEntry
         /\ entry.tool \in Tool => entry \in ToolEntry
         /\ entry.ids \in SUBSET Nat
<1>1. CASE entry \in ToolEntry
  <2>1. entry.tool \in Tool /\ entry.ids \in SUBSET Nat
    BY <1>1 DEF ToolEntry
  <2> QED BY <1>1, <2>1 DEF Tool
<1>2. CASE entry \in AuditEntry
  <2>1. entry.tool = "decision" /\ entry.ids \in SUBSET Nat
    BY <1>2 DEF AuditEntry
  <2> QED BY <2>1 DEF Tool
<1>3. CASE entry \in ReviewEntry
  <2>1. entry.tool = "review" /\ entry.ids \in SUBSET Nat
    BY <1>3 DEF ReviewEntry
  <2> QED BY <1>3, <2>1 DEF Tool
<1> QED BY <1>1, <1>2, <1>3 DEF Entry

\* What an entry adds to the journal.
LEMMA JournalGrows ==
  ASSUME nodes \in Seq(Root \cup Kid), nodes # <<>>, Rooted,
         NEW entry \in Entry, NEW parent \in Nat,
         nodes' = Append(nodes, Child(parent, entry))
  PROVE  /\ nodes' \in Seq(Root \cup Kid) /\ nodes' # <<>> /\ Rooted'
         /\ Len(nodes') = Len(nodes) + 1 /\ Len(nodes) \in Nat \ {0}
         /\ \A n \in 1..Len(nodes) : nodes'[n] = nodes[n]
         /\ nodes'[Len(nodes) + 1].call = entry
         /\ Closed' = (entry.tool = "review")
         /\ Told' = IF entry.tool = "diagnose" /\ entry.says = "done"
                    THEN Told \cup entry.ids ELSE Told
         /\ DidAll' = IF entry.tool \in Tool /\ entry.says = "done"
                      THEN DidAll \cup {entry.tool} ELSE DidAll
<1>1. Child(parent, entry) \in Kid
  BY DEF Child, Kid
<1>2. PICK kid : kid = Child(parent, entry)
  OBVIOUS
<1>3. kid.kind = "child" /\ kid.call = entry
  BY <1>2 DEF Child
<1>4. /\ nodes' \in Seq(Root \cup Kid) /\ nodes' # <<>>
      /\ Len(nodes') = Len(nodes) + 1 /\ Len(nodes) \in Nat \ {0}
      /\ nodes'[Len(nodes) + 1] = kid
      /\ \A n \in 1..Len(nodes) : nodes'[n] = nodes[n]
  BY <1>1, <1>2
<1>5. Rooted'
  BY <1>3, <1>4 DEF Rooted
<1>6. Closed' = (entry.tool = "review")
  BY <1>3, <1>4 DEF Closed, ToolOf
<1>7. 2..Len(nodes') = 2..Len(nodes) \cup {Len(nodes) + 1}
  BY <1>4
<1>8. PICK old : old = {m \in 2..Len(nodes) : Did(m, "diagnose")}
  OBVIOUS
<1>9. {m \in 2..Len(nodes') : nodes'[m].call.tool = "diagnose" /\ nodes'[m].call.says = "done"}
        = IF entry.tool = "diagnose" /\ entry.says = "done"
          THEN old \cup {Len(nodes) + 1} ELSE old
  BY <1>3, <1>4, <1>7, <1>8 DEF Did
<1>10. Told' = IF entry.tool = "diagnose" /\ entry.says = "done"
               THEN Told \cup entry.ids ELSE Told
  <2>1. Told' = UNION {nodes'[n].call.ids : n \in
                         {m \in 2..Len(nodes') : /\ nodes'[m].call.tool = "diagnose"
                                                 /\ nodes'[m].call.says = "done"}}
    BY DEF Told, Did
  <2>2. Told = UNION {nodes[n].call.ids : n \in old}
    BY <1>8 DEF Told
  <2>3. /\ \A n \in old : nodes'[n].call.ids = nodes[n].call.ids
        /\ nodes'[Len(nodes) + 1].call.ids = entry.ids
    BY <1>3, <1>4, <1>8
  <2>4. CASE entry.tool = "diagnose" /\ entry.says = "done"
    <3>1. Told' = UNION {nodes'[n].call.ids : n \in old \cup {Len(nodes) + 1}}
      BY <1>9, <2>1, <2>4
    <3>2. \A x : x \in Told' <=> \/ \E n \in old : x \in nodes'[n].call.ids
                               \/ x \in nodes'[Len(nodes) + 1].call.ids
      BY <3>1
    <3>3. \A x : x \in Told <=> \E n \in old : x \in nodes'[n].call.ids
      <4>1. \A x : x \in Told <=> \E n \in old : x \in nodes[n].call.ids
        BY <2>2
      <4>2. \A n \in old : nodes'[n].call.ids = nodes[n].call.ids
        BY <2>3
      <4> QED BY <4>1, <4>2
    <3>4. \A x : x \in Told' <=> x \in Told \/ x \in entry.ids
      BY <2>3, <3>2, <3>3
    <3> QED BY <2>4, <3>4
  <2>5. CASE ~ (entry.tool = "diagnose" /\ entry.says = "done")
    <3>1. Told' = UNION {nodes'[n].call.ids : n \in old}
      BY <1>9, <2>1, <2>5
    <3> QED BY <2>2, <2>3, <2>5, <3>1, ZenonT(60)
  <2> QED BY <2>4, <2>5
<1>11. DidAll' = IF entry.tool \in Tool /\ entry.says = "done"
                 THEN DidAll \cup {entry.tool} ELSE DidAll
  <2>1. \A t : (\E n \in 2..Len(nodes') : nodes'[n].call.tool = t /\ nodes'[n].call.says = "done")
              <=> \/ \E n \in 2..Len(nodes) : Did(n, t)
                  \/ entry.tool = t /\ entry.says = "done"
    BY <1>3, <1>4, <1>7 DEF Did
  <2>2. DidAll' = {t \in Tool : \E n \in 2..Len(nodes') :
                                  nodes'[n].call.tool = t /\ nodes'[n].call.says = "done"}
    BY DEF DidAll, Did
  <2> QED BY <2>1, <2>2 DEF DidAll
<1> QED BY <1>3, <1>4, <1>5, <1>6, <1>10, <1>11

-----------------------------------------------------------------------------
\* The parts of the invariant, by name.
LEMMA InvFacts ==
  ASSUME AgentInv
  PROVE  /\ evidence \in Seq(Record) /\ Len(evidence) \in Nat
         /\ nodes \in Seq(Root \cup Kid) /\ Len(nodes) \in Nat
         /\ report \in Report /\ call \in Calls /\ cli \in Seq(Plain)
         /\ Rooted /\ EvidenceIsFine(evidence) /\ InHand /\ AtDecision
         /\ DiagnosisIsReport /\ AdviceIsDecided
         /\ JournalTells /\ ResultIsJournal /\ ApprovedIsGrounded
BY DEF AgentInv, AgentWellTyped

\* The review of a closed journal is not its root.
LEMMA ClosedJournal ==
  ASSUME AgentInv, Closed
  PROVE  Len(nodes) \in 2..Len(nodes) /\ Says.ids \subseteq 1..Len(evidence)
<1>1. Rooted /\ InHand /\ nodes \in Seq(Root \cup Kid)
  BY InvFacts
<1>2. nodes # <<>> /\ nodes[Len(nodes)].kind = "child"
  BY DEF Closed
<1>3. Len(nodes) \in 1..Len(nodes)
  BY <1>1, <1>2
<1>4. Len(nodes) # 1
  BY <1>1, <1>2, <1>3 DEF Rooted
<1>5. Len(nodes) \in 2..Len(nodes)
  BY <1>3, <1>4
<1> QED BY <1>1, <1>5 DEF InHand, Says

\* What holds of the evidence still holds of more of it.
LEMMA EvidenceGrows ==
  ASSUME AgentInv, evidence' \in Seq(Record), Extends(evidence, evidence'),
         UNCHANGED <<nodes, report>>
  PROVE  /\ 1..Len(evidence) \subseteq 1..Len(evidence')
         /\ Contexts(evidence) \subseteq Contexts(evidence')
         /\ OfKind(evidence, "result") \subseteq OfKind(evidence', "result")
         /\ RecordsAt(evidence', call.diagnosis) = RecordsAt(evidence, call.diagnosis)
         /\ RecordsAt(evidence', call.got) = RecordsAt(evidence, call.got)
         /\ Reported' = Reported
         /\ ApprovedIsGrounded'
<1>1. /\ evidence \in Seq(Record) /\ InHand /\ ApprovedIsGrounded
      /\ call \in Calls
  BY InvFacts
<1>2. 1..Len(evidence) \subseteq 1..Len(evidence')
  <2>1. Len(evidence) \in Nat /\ Len(evidence') \in Nat /\ Len(evidence) <= Len(evidence')
    BY <1>1 DEF Extends
  <2> QED BY <2>1
<1>3. /\ Contexts(evidence) \subseteq Contexts(evidence')
      /\ OfKind(evidence, "result") \subseteq OfKind(evidence', "result")
  BY <1>2 DEF Contexts, OfKind, Extends
<1>4. call.diagnosis \subseteq 1..Len(evidence) /\ call.got \subseteq 1..Len(evidence)
  BY <1>1 DEF InHand
<1>5. /\ RecordsAt(evidence', call.diagnosis) = RecordsAt(evidence, call.diagnosis)
      /\ RecordsAt(evidence', call.got) = RecordsAt(evidence, call.got)
  BY <1>4, ReadingsStay
<1>6. Reported' = Reported
  BY DEF Reported
<1>7. ASSUME Closed', Says'.args.approved
      PROVE  GroundedFor(Says.ids, Told \cap Says.ids)'
  <2>1. nodes' = nodes
    OBVIOUS
  <2>2. Closed /\ Says' = Says /\ Told' = Told /\ Says.args.approved
    <3>1. Closed' = Closed
      BY <2>1 DEF Closed, ToolOf
    <3>2. Says' = Says
      BY <2>1 DEF Says
    <3>3. Told' = Told
      BY <2>1 DEF Told, Did
    <3> QED BY <1>7, <3>1, <3>2, <3>3
  <2>3. GroundedFor(Says.ids, Told \cap Says.ids)
    BY <1>1, <2>2 DEF ApprovedIsGrounded
  <2>4. PICK ids, diagnosis : ids = Says.ids /\ diagnosis = Told \cap Says.ids
    OBVIOUS
  <2>5. ids \subseteq 1..Len(evidence) /\ diagnosis \subseteq 1..Len(evidence)
    BY <2>2, <2>4, ClosedJournal
  <2>6. Says.ids' = ids /\ (Told \cap Says.ids)' = diagnosis
    BY <2>2, <2>4
  <2>7. CASE report = <<>> /\ ids = {}
    BY <2>6, <2>7 DEF GroundedFor
  <2>8. ASSUME RecordsAt(evidence, diagnosis) = Reported, NEW res \in 1..Len(evidence),
               Accepts(evidence, res, diagnosis),
               ActionsAt(evidence, ids \ diagnosis) = evidence[res].actions
        PROVE  GroundedFor(Says.ids, Told \cap Says.ids)'
    <3>1. RecordsAt(evidence', diagnosis) = Reported'
      BY <1>6, <2>5, <2>8, ReadingsStay
    <3>2. Accepts(evidence', res, diagnosis)
      BY <1>1, <2>5, <2>8, AcceptsStays
    <3>3. evidence'[res] = evidence[res]
      BY DEF Extends
    <3>4. ActionsAt(evidence', ids \ diagnosis) = evidence'[res].actions
      <4>1. PICK rest : rest = ids \ diagnosis
        OBVIOUS
      <4>2. rest \subseteq 1..Len(evidence)
        BY <2>5, <4>1
      <4>3. ActionsAt(evidence', rest) = ActionsAt(evidence, rest)
        BY <4>2, ReadingsStay
      <4> QED BY <2>8, <3>3, <4>1, <4>3
    <3>5. res \in 1..Len(evidence')
      BY <1>2
    <3> QED BY <2>6, <3>1, <3>2, <3>4, <3>5 DEF GroundedFor
  <2> QED BY <2>3, <2>4, <2>7, <2>8 DEF GroundedFor
<1>8. ApprovedIsGrounded'
  BY <1>7 DEF ApprovedIsGrounded
<1> QED BY <1>2, <1>3, <1>5, <1>6, <1>8

-----------------------------------------------------------------------------
Middle == {"recommend", "prepare", "issue"} \cup Deciding

\* From the decision on, until the recommendations, a step only moves on, or
\* turns to the review with a failure; the journal does not change.
LEMMA MiddleStep ==
  ASSUME AgentInv, call.pc \in Middle,
         call'.pc \in Middle \/ (call'.pc = "review" /\ call'.failed = TRUE),
         call'.diagnosis = call.diagnosis, call'.recommended = call.recommended,
         call'.empty = call.empty, call'.done = call.done,
         call'.leaf = call.leaf, call'.result = call.result,
         evidence' \in Seq(Record), Extends(evidence, evidence'),
         nodes' = nodes, report' = report, result' = result
  PROVE  /\ DiagnosisIsReport' /\ AdviceIsDecided'
         /\ JournalTells' /\ ResultIsJournal' /\ ApprovedIsGrounded'
<1>1. /\ DiagnosisIsReport /\ AdviceIsDecided /\ JournalTells /\ ResultIsJournal
  BY InvFacts
<1>2. /\ RecordsAt(evidence', call.diagnosis) = RecordsAt(evidence, call.diagnosis)
      /\ Reported' = Reported /\ ApprovedIsGrounded'
  BY EvidenceGrows
<1>3. /\ call.pc \notin Fresh \cup {"idle", "publish", "review", "diagnosing", "recommending"}
      /\ call'.pc \notin Fresh \cup {"idle", "publish", "diagnosing", "recommending"}
      /\ call'.pc = "review" => call'.failed = TRUE
  BY DEF Middle, Deciding, Fresh
<1>4. Going /\ Going' /\ ~ Unhurt'
  BY <1>3 DEF Going, Unhurt, At
<1>5. DiagnosisIsReport'
  <2>1. /\ RecordsAt(evidence, call.diagnosis) = Reported
        /\ call.empty = (call.diagnosis = {})
    BY <1>1, <1>3, <1>4 DEF DiagnosisIsReport
  <2>2. RecordsAt(evidence', call'.diagnosis) = Reported' /\ call'.empty = (call'.diagnosis = {})
    BY <1>2, <2>1
  <2> QED BY <1>3, <1>4, <2>2 DEF DiagnosisIsReport, At, Fresh
<1>6. AdviceIsDecided'
  <2>1. call.recommended = {}
    BY <1>1, <1>3, <1>4 DEF AdviceIsDecided, At
  <2> QED BY <1>3, <1>4, <2>1 DEF AdviceIsDecided, At
<1>7. JournalTells'
  <2>1. Told' = Told
    BY DEF Told, Did
  <2>2. DidAll' = DidAll
    BY DEF DidAll, Did
  <2> QED BY <1>1, <1>3, <1>4, <2>1, <2>2 DEF JournalTells
<1>8. ResultIsJournal'
  <2>1. result = None /\ call.result = None /\ ~ Closed
    BY <1>1, <1>3, <1>4 DEF ResultIsJournal, At
  <2>2. Closed' = Closed
    BY DEF Closed, ToolOf
  <2> QED BY <2>1, <2>2 DEF ResultIsJournal
<1> QED BY <1>2, <1>5, <1>6, <1>7, <1>8

-----------------------------------------------------------------------------
\* A call at work journals anything but its review.
LEMMA JournalStep ==
  ASSUME AgentInv, Going, NEW entry \in Entry, entry.tool # "review",
         entry.ids \subseteq 1..Len(evidence),
         nodes' = Append(nodes, Child(call.leaf, entry)),
         call'.leaf = Len(nodes) + 1, call'.result = call.result,
         call'.pc \notin {"idle", "publish"},
         call'.done = IF entry.tool \in Tool /\ entry.says = "done"
                      THEN call.done \cup {entry.tool} ELSE call.done,
         call'.diagnosis = IF entry.tool = "diagnose" /\ entry.says = "done"
                           THEN call.diagnosis \cup entry.ids ELSE call.diagnosis,
         call'.pc \in Fresh => "diagnose" \notin call'.done,
         evidence' = evidence, report' = report, result' = result
  PROVE  /\ nodes' \in Seq(Root \cup Kid) /\ Rooted'
         /\ \A n \in 2..Len(nodes') : nodes'[n].call.ids \subseteq 1..Len(evidence')
         /\ JournalTells' /\ ResultIsJournal' /\ ApprovedIsGrounded'
<1>1. /\ nodes \in Seq(Root \cup Kid) /\ Rooted /\ InHand /\ JournalTells
      /\ ResultIsJournal /\ call \in Calls
  BY InvFacts
<1>2. nodes # <<>> /\ call.diagnosis = Told /\ call.done = DidAll /\ call.leaf \in Nat
  BY <1>1 DEF JournalTells, Calls
<1>3. /\ nodes' \in Seq(Root \cup Kid) /\ nodes' # <<>> /\ Rooted'
      /\ Len(nodes') = Len(nodes) + 1 /\ Len(nodes) \in Nat \ {0}
      /\ \A n \in 1..Len(nodes) : nodes'[n] = nodes[n]
      /\ nodes'[Len(nodes) + 1].call = entry
      /\ Closed' = (entry.tool = "review")
      /\ Told' = IF entry.tool = "diagnose" /\ entry.says = "done"
                 THEN Told \cup entry.ids ELSE Told
      /\ DidAll' = IF entry.tool \in Tool /\ entry.says = "done"
                   THEN DidAll \cup {entry.tool} ELSE DidAll
  BY <1>1, <1>2, JournalGrows
<1>4. Going'
  BY DEF Going
<1>5. ASSUME NEW n \in 2..Len(nodes')
      PROVE  nodes'[n].call.ids \subseteq 1..Len(evidence')
  <2>1. CASE n = Len(nodes) + 1
    BY <1>3, <2>1
  <2>2. CASE n \in 2..Len(nodes)
    BY <1>1, <1>3, <2>2 DEF InHand
  <2> QED BY <1>3, <2>1, <2>2
<1>6. JournalTells'
  <2>1. call'.diagnosis = Told' /\ call'.done = DidAll'
    BY <1>2, <1>3
  <2> QED BY <1>3, <2>1 DEF JournalTells
<1>7. ResultIsJournal'
  <2>1. result = None /\ call.result = None
    BY <1>1 DEF ResultIsJournal, Going, At
  <2> QED BY <1>3, <2>1 DEF ResultIsJournal
<1>8. ApprovedIsGrounded'
  BY <1>3 DEF ApprovedIsGrounded
<1> QED BY <1>3, <1>5, <1>6, <1>7, <1>8

\* Nothing is open when no call is at work.
LEMMA NoCallIsFine ==
  ASSUME AgentInv, call' = NoCall,
         nodes' = nodes, evidence' = evidence, report' = report, cli' = cli,
         result' \in {result, call.result}
  PROVE  AgentInv'
<1>1. /\ evidence \in Seq(Record) /\ nodes \in Seq(Root \cup Kid)
      /\ report \in Report /\ cli \in Seq(Plain)
      /\ Rooted /\ EvidenceIsFine(evidence) /\ InHand
      /\ ResultIsJournal /\ ApprovedIsGrounded
  BY InvFacts
<1>2. call' \in Calls'
  BY DEF Calls, NoCall, Place, Role, Provider, Excuse
<1>3. /\ call'.pc = "idle" /\ call'.got = {} /\ call'.diagnosis = {}
      /\ call'.recommended = {} /\ call'.todo = <<>> /\ call'.result = None
  BY DEF NoCall
<1>4. AgentWellTyped' /\ Rooted' /\ EvidenceIsFine(evidence')
  BY <1>1, <1>2 DEF AgentWellTyped, Rooted
<1>5. InHand'
  BY <1>1, <1>3 DEF InHand, Rests
<1>6. ~ Going' /\ ~ Unhurt' /\ call'.pc \notin Deciding \cup Fresh
  BY <1>3 DEF Going, Unhurt, At, Deciding, Fresh
<1>7. AtDecision' /\ DiagnosisIsReport' /\ AdviceIsDecided' /\ JournalTells'
  BY <1>3, <1>6 DEF AtDecision, DiagnosisIsReport, AdviceIsDecided, JournalTells, At, Fresh
<1>8. ResultIsJournal'
  <2>1. ASSUME NEW r \in {result', None} \ {None}
        PROVE  Closed' /\ \E summary \in BOOLEAN : r = FromJournal(summary)'
    <3>1. r \in {result, call.result} \ {None}
      BY <2>1
    <3>2. Closed /\ \E summary \in BOOLEAN : r = FromJournal(summary)
      BY <1>1, <3>1 DEF ResultIsJournal
    <3> QED BY <3>2, SMTT(30) DEF Closed, FromJournal, ToolOf, Says, ToolsTold, Told, DidAll, Did
  <2> QED BY <1>3, <1>6, <2>1 DEF ResultIsJournal, At
<1>9. ApprovedIsGrounded'
  <2>1. evidence' \in Seq(Record) /\ Extends(evidence, evidence')
    BY <1>1 DEF Extends
  <2> QED BY <2>1, EvidenceGrows
<1> QED BY <1>4, <1>5, <1>7, <1>8, <1>9 DEF AgentInv

-----------------------------------------------------------------------------
\* The evidence as it is.
LEMMA Same ==
  ASSUME AgentInv, evidence' = evidence
  PROVE  /\ evidence' \in Seq(Record) /\ Extends(evidence, evidence')
         /\ EvidenceIsFine(evidence')
BY InvFacts DEF Extends

-----------------------------------------------------------------------------
\* A step of the decision moves on, or turns to the review with a failure.
Keeps ==
  /\ call'.diagnosis = call.diagnosis /\ call'.recommended = call.recommended
  /\ call'.empty = call.empty /\ call'.done = call.done /\ call'.leaf = call.leaf
  /\ call'.result = call.result /\ call'.got = call.got /\ call'.todo = call.todo

MovesOn ==
  /\ call' \in Calls' /\ Keeps
  /\ call'.pc \in Middle \/ (call'.pc = "review" /\ call'.failed = TRUE)

\* Such a step keeps the invariant.
LEMMA MiddleInv ==
  ASSUME AgentInv, call.pc \in Middle, MovesOn, AtDecision',
         EvidenceIsFine(evidence'), Extends(evidence, evidence'),
         UNCHANGED <<nodes, report, result, cli>>
  PROVE  AgentInv'
<1>1. evidence' \in Seq(Record)
  BY DEF EvidenceIsFine
<1>2. /\ DiagnosisIsReport' /\ AdviceIsDecided'
      /\ JournalTells' /\ ResultIsJournal' /\ ApprovedIsGrounded'
  BY <1>1, MiddleStep DEF MovesOn, Keeps
<1>3. AgentWellTyped' /\ Rooted'
  BY <1>1, InvFacts DEF AgentWellTyped, Rooted, MovesOn
<1>4. InHand'
  <2>1. 1..Len(evidence) \subseteq 1..Len(evidence')
    BY <1>1, EvidenceGrows
  <2>2. InHand
    BY InvFacts
  <2>3. /\ call'.got = call.got /\ call'.todo = call.todo
        /\ call'.diagnosis = call.diagnosis /\ call'.recommended = call.recommended
    BY DEF MovesOn, Keeps
  <2>4. /\ call'.got \cup call'.diagnosis \cup call'.recommended \subseteq 1..Len(evidence')
        /\ \A n \in 2..Len(nodes') : nodes'[n].call.ids \subseteq 1..Len(evidence')
    BY <2>1, <2>2, <2>3 DEF InHand
  <2>5. /\ \A i \in 1..Len(call'.todo) : call'.todo[i].parents \subseteq 1..Len(evidence')
        /\ \A i \in 1..Len(cli') : cli'[i].parents \subseteq 1..Len(evidence')
    BY <2>1, <2>2, <2>3 DEF InHand, Rests
  <2>6. call'.todo = <<>>
    BY <2>2, <2>3 DEF InHand, At, Middle, Deciding
  <2> QED BY <2>4, <2>5, <2>6 DEF InHand, Rests
<1> QED BY <1>2, <1>3, <1>4 DEF AgentInv

\* The two ways a decision ends without a submission.
LEMMA UndecidedMovesOn ==
  ASSUME call \in Calls, call' = Undecided
  PROVE  MovesOn /\ call'.pc = "review"
<1>1. call' = [call EXCEPT !.pc = "review", !.failed = TRUE]
  BY DEF Undecided
<1>2. call' \in Calls'
  BY <1>1, ZenonT(60) DEF Calls, Place
<1> QED BY <1>1, <1>2 DEF MovesOn, Keeps, Calls

\* Without a usable proposal the call goes on to record that.
LEMMA UnableMovesOn ==
  ASSUME call \in Calls, NEW reason \in Excuse, call' = Unable(reason)
  PROVE  MovesOn /\ call'.pc = "unavailable" /\ call'.ctx = call.ctx
<1>1. call' = [call EXCEPT !.pc = "unavailable", !.reason = reason]
  BY DEF Unable
<1>2. call' \in Calls'
  BY <1>1, ZenonT(60) DEF Calls, Place, Deciding
<1> QED BY <1>1, <1>2 DEF MovesOn, Keeps, Calls, Middle, Deciding

\* The diagnosis is read for the context, or cannot be.
LEMMA PrepareInv == AgentInv /\ Prepare => AgentInv'
<1> SUFFICES ASSUME AgentInv, Prepare
             PROVE  AgentInv'
  OBVIOUS
<1>1. /\ call.pc = "prepare" /\ call \in Calls
      /\ call' = [call EXCEPT !.pc = "issue"] \/ call' = Undecided
      /\ UNCHANGED <<evidence, nodes, report, result, cli>>
  BY InvFacts DEF Prepare, At, Calling
<1>2. MovesOn /\ call'.pc \in {"issue", "review"}
  <2>1. CASE call' = [call EXCEPT !.pc = "issue"]
    <3>1. call' \in Calls'
      BY <1>1, <2>1 DEF Calls, Place
    <3> QED BY <1>1, <2>1, <3>1 DEF MovesOn, Keeps, Middle, Calls
  <2> QED BY <1>1, <2>1, UndecidedMovesOn
<1>3. AtDecision'
  BY <1>2 DEF AtDecision, At, Deciding
<1> QED BY <1>1, <1>2, <1>3, Same, MiddleInv DEF Middle

\* The context cannot be prepared: the review follows.
LEMMA PrepareFailsInv == AgentInv /\ PrepareFails => AgentInv'
<1> SUFFICES ASSUME AgentInv, PrepareFails
             PROVE  AgentInv'
  OBVIOUS
<1>1. /\ call.pc \in {"prepare", "issue"} /\ call \in Calls /\ call' = Undecided
      /\ UNCHANGED <<evidence, nodes, report, result, cli>>
  BY InvFacts DEF PrepareFails, Calling
<1>2. MovesOn /\ call'.pc = "review"
  BY <1>1, UndecidedMovesOn
<1>3. AtDecision'
  BY <1>2 DEF AtDecision, At, Deciding
<1> QED BY <1>1, <1>2, <1>3, Same, MiddleInv DEF Middle

\* A submission that comes to nothing is about the context of the call.
LEMMA UnableInv ==
  ASSUME AgentInv, call.pc \in Deciding, NEW reason \in Excuse,
         call' = Unable(reason), UNCHANGED <<evidence, nodes, report, result, cli>>
  PROVE  AgentInv'
<1>1. call \in Calls /\ AtDecision
  BY InvFacts
<1>2. MovesOn /\ call'.pc = "unavailable" /\ call'.ctx = call.ctx
  BY <1>1, UnableMovesOn
<1>3. AtDecision'
  BY <1>1, <1>2 DEF AtDecision, At
<1> QED BY <1>2, <1>3, Same, MiddleInv DEF Middle

\* The host does not propose anything.
LEMMA HostSilentInv == AgentInv /\ HostSilent => AgentInv'
<1> SUFFICES ASSUME AgentInv, HostSilent
             PROVE  AgentInv'
  OBVIOUS
<1>1. PICK reason \in {"provider_pending", "provider_error"} : call' = Unable(reason)
  BY DEF HostSilent
<1>2. call.pc = "resolve" /\ UNCHANGED <<evidence, nodes, report, result, cli>>
  BY DEF HostSilent, At, Calling
<1> QED BY <1>1, <1>2, UnableInv DEF Excuse, Deciding

\* The submission fails before anything is recorded.
LEMMA SubmitFailsInv == AgentInv /\ SubmitFails => AgentInv'
<1> SUFFICES ASSUME AgentInv, SubmitFails
             PROVE  AgentInv'
  OBVIOUS
<1>1. /\ call.pc \in {"submit", "persist", "audit"} /\ call' = Unable("submission_error")
      /\ UNCHANGED <<evidence, nodes, report, result, cli>>
  BY DEF SubmitFails, Calling
<1> QED BY <1>1, UnableInv DEF Excuse, Deciding

\* The selected provider comes up with a proposal.
LEMMA ResolveInv == AgentInv /\ Resolve => AgentInv'
<1> SUFFICES ASSUME AgentInv, Resolve
             PROVE  AgentInv'
  OBVIOUS
<1>1. /\ call.pc = "resolve" /\ call \in Calls /\ AtDecision
      /\ UNCHANGED <<evidence, nodes, report, result, cli>>
  BY InvFacts DEF Resolve, At, Calling
<1>2. PICK p \in Offered :
        \/ call' = [call EXCEPT !.pc = "submit", !.proposal = p]
        \/ call' = Unable("provider_error")
  BY DEF Resolve
<1>3. p \in Proposal
  BY AgentAssumption DEF Offered, DeterministicProposals
<1>4. CASE call' = [call EXCEPT !.pc = "submit", !.proposal = p]
  <2>1. call' \in Calls'
    BY <1>1, <1>3, <1>4, ZenonT(60) DEF Calls, Place, Deciding
  <2>2. /\ MovesOn /\ call'.pc = "submit" /\ call'.proposal = p /\ call'.ctx = call.ctx
    BY <1>1, <1>4, <2>1 DEF MovesOn, Keeps, Middle, Deciding, Calls
  <2>3. AtDecision'
    BY <1>1, <1>3, <2>2 DEF AtDecision, At, Deciding
  <2> QED BY <1>1, <2>2, <2>3, Same, MiddleInv DEF Middle, Deciding
<1>5. CASE call' = Unable("provider_error")
  BY <1>1, <1>5, UnableInv DEF Excuse, Deciding
<1> QED BY <1>2, <1>4, <1>5

\* The time is taken and the proposal validated.
LEMMA SubmitInv == AgentInv /\ Submit => AgentInv'
<1> SUFFICES ASSUME AgentInv, Submit
             PROVE  AgentInv'
  OBVIOUS
<1>1. /\ call.pc = "submit" /\ call \in Calls /\ AtDecision
      /\ UNCHANGED <<evidence, nodes, report, result, cli>>
  BY InvFacts DEF Submit, At, Calling
<1>2. \/ call' = [call EXCEPT !.pc = "persist", !.inTime = ~ late]
      \/ call' = Unable("submission_error")
  BY DEF Submit
<1>3. PICK inTime \in BOOLEAN : inTime = ~ late
  OBVIOUS
<1>4. CASE call' = [call EXCEPT !.pc = "persist", !.inTime = inTime]
  <2>1. call' \in Calls'
    BY <1>1, <1>4, ZenonT(60) DEF Calls, Place, Deciding
  <2>2. /\ MovesOn /\ call'.pc = "persist" /\ call'.proposal = call.proposal
        /\ call'.ctx = call.ctx
    BY <1>1, <1>4, <2>1 DEF MovesOn, Keeps, Middle, Deciding, Calls
  <2>3. AtDecision'
    BY <1>1, <2>2 DEF AtDecision, At, Deciding
  <2> QED BY <1>1, <2>2, <2>3, Same, MiddleInv DEF Middle, Deciding
<1>5. CASE call' = Unable("submission_error")
  BY <1>1, <1>5, UnableInv DEF Excuse, Deciding
<1> QED BY <1>2, <1>3, <1>4, <1>5

\* The unavailable outcome cannot be recorded.
LEMMA UnavailableFailsInv == AgentInv /\ UnavailableFails => AgentInv'
<1> SUFFICES ASSUME AgentInv, UnavailableFails
             PROVE  AgentInv'
  OBVIOUS
<1>1. /\ call.pc \in {"unavailable", "auditOutcome"} /\ call \in Calls
      /\ call' = NoCall \/ call' = Undecided
      /\ UNCHANGED <<evidence, nodes, report, result, cli>>
  BY InvFacts DEF UnavailableFails, At, Calling
<1>2. CASE call' = NoCall
  BY <1>1, <1>2, NoCallIsFine
<1>3. CASE call' = Undecided
  <2>1. MovesOn /\ call'.pc = "review"
    BY <1>1, <1>3, UndecidedMovesOn
  <2>2. AtDecision'
    BY <2>1 DEF AtDecision, At, Deciding
  <2> QED BY <1>1, <2>1, <2>2, Same, MiddleInv DEF Middle, Deciding
<1> QED BY <1>1, <1>2, <1>3

\* The call ends without a word: only what is stored is left of it.
LEMMA AbandonInv == AgentInv /\ Abandon => AgentInv'
BY NoCallIsFine DEF Abandon, Calling

-----------------------------------------------------------------------------
\* A new context is recorded, at an anchor of its own.
LEMMA IssueInv == AgentInv /\ Issue => AgentInv'
<1> SUFFICES ASSUME AgentInv, Issue
             PROVE  AgentInv'
  OBVIOUS
<1>1. PICK ctx : ctx = Context(call.attempt, call.leaf, call.diagnosis)
  OBVIOUS
<1>2. /\ call.pc = "issue" /\ call \in Calls
      /\ NewContext(evidence, call.attempt, call.leaf)
      /\ evidence' = AppendRecord(evidence, ctx)
      /\ call' = [call EXCEPT !.pc = "resolve", !.ctx = ContentId(evidence', ctx)]
      /\ UNCHANGED <<nodes, report, result, cli>>
      /\ EvidenceIsFine(evidence) /\ InHand
  BY <1>1, InvFacts DEF Issue, At, Calling
<1>3. call.attempt = 0 /\ call.leaf \in Nat
  BY <1>2 DEF Calls
<1>4. call.diagnosis \subseteq 1..Len(evidence) /\ evidence \in Seq(Record)
  BY <1>2 DEF InHand, EvidenceIsFine
<1>5. /\ ctx \in Asks /\ ctx.parents \subseteq 1..Len(evidence)
      /\ ctx.anchor = call.leaf
  <2>1. call.diagnosis \in SUBSET Nat
    BY <1>4
  <2> QED BY <1>1, <1>3, <1>4, <2>1 DEF Context, Asks
<1>6. EvidenceIsFine(evidence') /\ ContentId(evidence', ctx) \in Contexts(evidence')
  BY <1>2, <1>3, <1>5, ContextAppended
<1>7. Extends(evidence, evidence')
  BY <1>2, <1>4, <1>5, AppendIs DEF Record
<1>8. PICK c : c = ContentId(evidence', ctx)
  OBVIOUS
<1>9. c \in Nat
  <2>1. c \in 1..Len(evidence') /\ evidence' \in Seq(Record)
    BY <1>6, <1>8 DEF Contexts, OfKind, EvidenceIsFine
  <2> QED BY <2>1
<1>10. call' = [call EXCEPT !.pc = "resolve", !.ctx = c]
  BY <1>2, <1>8
<1>11. call' \in Calls'
  BY <1>2, <1>9, <1>10, ZenonT(60) DEF Calls, Place, Deciding
<1>12. MovesOn /\ call'.pc = "resolve" /\ call'.ctx = c
  BY <1>2, <1>10, <1>11 DEF MovesOn, Keeps, Middle, Deciding, Calls
<1>13. AtDecision'
  BY <1>6, <1>8, <1>12 DEF AtDecision, At, Deciding
<1> QED BY <1>2, <1>6, <1>7, <1>12, <1>13, MiddleInv DEF Middle

\* Proposal and result are recorded together, the first that decide the context.
LEMMA PersistInv == AgentInv /\ Persist => AgentInv'
<1> SUFFICES ASSUME AgentInv, Persist
             PROVE  AgentInv'
  OBVIOUS
<1>1. PICK a : a = [kind |-> "proposal", parents |-> {call.ctx},
                    proposal |-> call.proposal, binding |-> Binding(call.provider),
                    inTime |-> call.inTime]
  OBVIOUS
<1>2. PICK says : says = Validate(evidence, call.ctx, call.proposal, call.inTime)
  OBVIOUS
<1>3. PICK b : b = [kind |-> "result", parents |-> {call.ctx, Len(evidence) + 1},
                    reasons |-> says.reasons, actions |-> says.actions]
  OBVIOUS
<1>4. Submission(evidence, call.ctx, call.proposal, Binding(call.provider), call.inTime)
        = <<a, b>>
  BY <1>1, <1>2, <1>3 DEF Submission
<1>5. /\ call.pc = "persist" /\ call \in Calls
      /\ NoSubmission(evidence, call.ctx)
      /\ evidence' = AppendMany(evidence, <<a, b>>)
      /\ call' = [call EXCEPT !.pc = "audit", !.submission = ContentId(evidence', b)]
      /\ UNCHANGED <<nodes, report, result, cli>>
  BY <1>4 DEF Persist, At, Calling, AgentInv, AgentWellTyped
<1>6. EvidenceIsFine(evidence) /\ AtDecision /\ evidence \in Seq(Record)
  BY InvFacts
<1>7. call.proposal \in Proposal /\ call.ctx \in Contexts(evidence)
  BY <1>5, <1>6 DEF AtDecision, At, Deciding
<1>8. call.ctx \in 1..Len(evidence) /\ call.ctx \in Nat /\ Len(evidence) \in Nat
  BY <1>6, <1>7 DEF Contexts, OfKind
<1>9. a \in Proposes /\ a.parents = {call.ctx}
  <2>1. Binding(call.provider) \in Bindings
    BY <1>5 DEF Binding, Bindings, Provider, Calls
  <2>2. call.inTime \in BOOLEAN
    BY <1>5 DEF Calls
  <2> QED BY <1>1, <1>7, <1>8, <2>1, <2>2 DEF Proposes
<1>10. b \in Judges /\ b.parents = {call.ctx, Len(evidence) + 1}
  <2>1. says.reasons \subseteq Objection
    BY <1>2 DEF Validate, Reasons, Objection
  <2>2. says.actions \subseteq Action
    <3>1. call.proposal.actions \subseteq Action
      BY <1>7 DEF Proposal
    <3> QED BY <1>2, <3>1 DEF Validate
  <2> QED BY <1>3, <1>8, <2>1, <2>2 DEF Judges
<1>11. /\ EvidenceIsFine(evidence') /\ Extends(evidence, evidence')
       /\ ContentId(evidence', b) \in OfKind(evidence', "result")
       /\ evidence'[ContentId(evidence', b)] = b
  BY <1>5, <1>6, <1>7, <1>9, <1>10, PairIsFine
<1>12. PICK s : s = ContentId(evidence', b)
  OBVIOUS
<1>13. s \in OfKind(evidence', "result") /\ evidence'[s] = b /\ s \in Nat
  <2>1. s \in 1..Len(evidence') /\ evidence' \in Seq(Record)
    BY <1>11, <1>12 DEF OfKind, EvidenceIsFine
  <2> QED BY <1>11, <1>12, <2>1
<1>14. call' = [call EXCEPT !.pc = "audit", !.submission = s]
  BY <1>5, <1>12
<1>15. call' \in Calls'
  BY <1>5, <1>13, <1>14, ZenonT(60) DEF Calls, Place, Deciding
<1>16. MovesOn /\ call'.pc = "audit" /\ call'.ctx = call.ctx /\ call'.submission = s
  BY <1>5, <1>14, <1>15 DEF MovesOn, Keeps, Middle, Deciding, Calls
<1>17. AtDecision'
  <2>1. Contexts(evidence) \subseteq Contexts(evidence')
    BY <1>5, <1>11, EvidenceGrows DEF EvidenceIsFine
  <2>2. Len(evidence) + 1 \in evidence'[s].parents /\ Len(evidence) + 1 # call.ctx
    BY <1>8, <1>10, <1>13
  <2> QED BY <1>7, <1>13, <1>16, <2>1, <2>2 DEF AtDecision, At, Deciding
<1> QED BY <1>5, <1>11, <1>16, <1>17, MiddleInv DEF Middle, Deciding

\* The unavailable outcome is recorded, the only record that decides the context.
LEMMA RecordUnavailableInv == AgentInv /\ RecordUnavailable => AgentInv'
<1> SUFFICES ASSUME AgentInv, RecordUnavailable
             PROVE  AgentInv'
  OBVIOUS
<1>1. PICK made : made = Unavailable(call.ctx, call.reason, Binding(call.provider))
  OBVIOUS
<1>2. /\ call.pc = "unavailable" /\ call \in Calls
      /\ NoSubmission(evidence, call.ctx)
      /\ evidence' = AppendRecord(evidence, made)
      /\ call' = [call EXCEPT !.pc = "auditOutcome", !.outcome = ContentId(evidence', made)]
      /\ UNCHANGED <<nodes, report, result, cli>>
      /\ EvidenceIsFine(evidence) /\ AtDecision
  BY <1>1, InvFacts DEF RecordUnavailable, At, Calling
<1>3. call.ctx \in Contexts(evidence)
  BY <1>2 DEF AtDecision, Deciding
<1>4. evidence \in Seq(Record) /\ call.ctx \in Nat
  BY <1>2, <1>3 DEF EvidenceIsFine, Contexts, OfKind, Calls
<1>5. made \in Lacks /\ made.parents = {call.ctx}
  <2>1. Binding(call.provider) \in Bindings
    BY <1>2 DEF Binding, Bindings, Provider, Calls
  <2>2. call.reason \in Excuse
    BY <1>2 DEF Calls
  <2> QED BY <1>1, <1>4, <2>1, <2>2 DEF Unavailable, Lacks
<1>6. EvidenceIsFine(evidence')
  BY <1>2, <1>3, <1>5, OutcomeAppended
<1>7. made \in Record
  BY <1>5 DEF Record
<1>8. Extends(evidence, evidence') /\ ContentId(evidence', made) \in 1..Len(evidence')
  BY <1>2, <1>4, <1>7, AppendIs
<1>9. PICK u : u = ContentId(evidence', made)
  OBVIOUS
<1>10. u \in Nat
  <2>1. evidence' \in Seq(Record)
    BY <1>6 DEF EvidenceIsFine
  <2> QED BY <1>8, <1>9, <2>1
<1>11. call' = [call EXCEPT !.pc = "auditOutcome", !.outcome = u]
  BY <1>2, <1>9
<1>12. call' \in Calls'
  BY <1>2, <1>10, <1>11, ZenonT(60) DEF Calls, Place, Deciding
<1>13. MovesOn /\ call'.pc = "auditOutcome" /\ call'.ctx = call.ctx /\ call'.outcome = u
  BY <1>2, <1>11, <1>12 DEF MovesOn, Keeps, Middle, Deciding, Calls
<1>14. AtDecision'
  <2>1. Contexts(evidence) \subseteq Contexts(evidence')
    BY <1>2, <1>6, <1>8, EvidenceGrows DEF EvidenceIsFine
  <2> QED BY <1>3, <1>8, <1>9, <1>13, <2>1 DEF AtDecision, At, Deciding
<1> QED BY <1>2, <1>6, <1>8, <1>13, <1>14, MiddleInv DEF Middle, Deciding

-----------------------------------------------------------------------------
\* A step that writes the journal, once what is special to it is known.
LEMMA JournalInv ==
  ASSUME AgentInv, Going, NEW entry \in Entry, entry.tool # "review",
         entry.ids \subseteq 1..Len(evidence),
         nodes' = Append(nodes, Child(call.leaf, entry)),
         call'.leaf = Len(nodes) + 1, call'.result = call.result,
         call'.pc \notin {"idle", "publish"} \cup Deciding,
         call'.done = IF entry.tool \in Tool /\ entry.says = "done"
                      THEN call.done \cup {entry.tool} ELSE call.done,
         call'.diagnosis = IF entry.tool = "diagnose" /\ entry.says = "done"
                           THEN call.diagnosis \cup entry.ids ELSE call.diagnosis,
         call'.pc \in Fresh => "diagnose" \notin call'.done,
         UNCHANGED <<evidence, report, result, cli>>,
         call' \in Calls', call'.todo = <<>>,
         call'.got \cup call'.diagnosis \cup call'.recommended \subseteq 1..Len(evidence),
         DiagnosisIsReport', AdviceIsDecided'
  PROVE  AgentInv'
<1>1. /\ nodes' \in Seq(Root \cup Kid) /\ Rooted'
      /\ \A n \in 2..Len(nodes') : nodes'[n].call.ids \subseteq 1..Len(evidence')
      /\ JournalTells' /\ ResultIsJournal' /\ ApprovedIsGrounded'
  BY JournalStep
<1>2. AgentWellTyped' /\ EvidenceIsFine(evidence')
  BY <1>1, InvFacts DEF AgentWellTyped
<1>3. InHand'
  <2>1. /\ call'.got \cup call'.diagnosis \cup call'.recommended \subseteq 1..Len(evidence')
        /\ \A i \in 1..Len(call'.todo) : call'.todo[i].parents \subseteq 1..Len(evidence')
    OBVIOUS
  <2>2. \A i \in 1..Len(cli') : cli'[i].parents \subseteq 1..Len(evidence')
    BY InvFacts DEF InHand, Rests
  <2> QED BY <1>1, <2>1, <2>2 DEF InHand, Rests
<1>4. AtDecision'
  BY DEF AtDecision, At, Deciding
<1> QED BY <1>1, <1>2, <1>3, <1>4 DEF AgentInv

\* An entry of a tool is an entry of the journal.
LEMMA ToolCallIs ==
  ASSUME NEW tool \in Tool, NEW says \in {"done", "denied", "failed"},
         NEW ids \in SUBSET Nat, NEW diagnosis \in SUBSET Nat
  PROVE  /\ ToolCall(tool, says, ids, diagnosis) \in Entry
         /\ ToolCall(tool, says, ids, diagnosis).tool = tool
         /\ ToolCall(tool, says, ids, diagnosis).says = says
         /\ ToolCall(tool, says, ids, diagnosis).ids = ids
<1>1. PICK entry : entry = ToolCall(tool, says, ids, diagnosis)
  OBVIOUS
<1>2. PICK d : d = IF tool = "recommend" THEN diagnosis ELSE {}
  OBVIOUS
<1>3. d \in SUBSET Nat
  BY <1>2
<1>4. entry = [tool |-> tool, says |-> says, ids |-> ids, args |-> [diagnosis |-> d]]
  BY <1>1, <1>2 DEF ToolCall
<1>5. entry \in ToolEntry
  BY <1>3, <1>4 DEF ToolEntry
<1> QED BY <1>1, <1>4, <1>5 DEF Entry

\* What the call has in hand are records of the evidence, and numbers.
LEMMA HandIsNumbers ==
  ASSUME AgentInv
  PROVE  /\ call.diagnosis \subseteq 1..Len(evidence) /\ call.diagnosis \subseteq Nat
         /\ Business \subseteq 1..Len(evidence) /\ Business \subseteq Nat
         /\ call.got \subseteq 1..Len(evidence) /\ call.got \subseteq Nat
         /\ call.recommended \subseteq 1..Len(evidence)
<1>1. InHand /\ evidence \in Seq(Record)
  BY InvFacts
<1>2. 1..Len(evidence) \subseteq Nat
  OBVIOUS
<1> QED BY <1>1, <1>2 DEF InHand, Business

\* The entry of a tool that succeeded.
LEMMA DoneCall ==
  ASSUME AgentInv, NEW tool \in Tool, NEW ids, ids \subseteq 1..Len(evidence)
  PROVE  ToolCall(tool, "done", ids, call.diagnosis) \in Entry
<1>1. evidence \in Seq(Record) /\ call.diagnosis \in SUBSET Nat
  BY InvFacts, HandIsNumbers
<1>2. ids \in SUBSET Nat
  BY <1>1
<1>3. "done" \in {"done", "denied", "failed"}
  OBVIOUS
<1> QED BY <1>1, <1>2, <1>3, ToolCallIs

\* A plan that is given up.
LEMMA GiveUpInv ==
  ASSUME AgentInv, Going, NEW tool \in Tool, NEW says \in {"denied", "failed"},
         GiveUp(tool, says), UNCHANGED <<evidence, report, result, cli>>
  PROVE  AgentInv'
<1>1. PICK entry : entry = ToolCall(tool, says, Business, call.diagnosis)
  OBVIOUS
<1>2. /\ Business \subseteq 1..Len(evidence) /\ Business \subseteq Nat
      /\ call.diagnosis \subseteq 1..Len(evidence) /\ call.diagnosis \subseteq Nat
      /\ call.recommended \subseteq 1..Len(evidence)
  BY HandIsNumbers
<1>3. entry \in Entry /\ entry.tool = tool /\ entry.says = says /\ entry.ids = Business
  <2>1. Business \in SUBSET Nat /\ call.diagnosis \in SUBSET Nat
    BY <1>2
  <2> QED BY <1>1, <2>1, ToolCallIs
<1>4. nodes' = Append(nodes, Child(call.leaf, entry))
  BY <1>1 DEF GiveUp, AppendChild, PersistNode
<1>5. call \in Calls /\ Len(nodes) \in Nat
  BY InvFacts
<1>6. PICK d, f, n : /\ d = (call.denied \/ says = "denied")
                     /\ f = (call.failed \/ says = "failed")
                     /\ n = Len(nodes) + 1
  OBVIOUS
<1>7. d \in BOOLEAN /\ f \in BOOLEAN /\ n \in Nat
  BY <1>5, <1>6
<1>8. call' = [call EXCEPT !.pc = "review", !.leaf = n, !.denied = d, !.failed = f,
                 !.todo = <<>>, !.got = {}]
  BY <1>6 DEF GiveUp
<1>9. call' \in Calls'
  <2>1. PICK c : c = [call EXCEPT !.pc = "review", !.leaf = n, !.denied = d, !.failed = f]
    OBVIOUS
  <2>2. c \in Calls
    BY <1>5, <1>7, <2>1, ZenonT(60) DEF Calls, Place
  <2>3. call' = [c EXCEPT !.todo = <<>>, !.got = {}]
    BY <1>5, <1>8, <2>1 DEF Calls
  <2>4. PICK e : e = [c EXCEPT !.todo = <<>>]
    OBVIOUS
  <2>5. <<>> \in Seq(Plain)
    OBVIOUS
  <2>6. e \in Calls
    BY <2>2, <2>4, <2>5 DEF Calls
  <2>7. call' = [e EXCEPT !.got = {}]
    BY <2>3, <2>4 DEF Calls
  <2> QED BY <2>6, <2>7 DEF Calls
<1>10. /\ call'.pc = "review" /\ call'.leaf = n /\ call'.denied = d /\ call'.failed = f
      /\ call'.todo = <<>> /\ call'.got = {} /\ call'.result = call.result
      /\ call'.done = call.done /\ call'.diagnosis = call.diagnosis
      /\ call'.recommended = call.recommended
  BY <1>5, <1>8 DEF Calls
<1>11. ~ Unhurt'
  BY <1>6, <1>10 DEF Unhurt
<1>12. DiagnosisIsReport' /\ AdviceIsDecided'
  BY <1>10, <1>11 DEF DiagnosisIsReport, AdviceIsDecided, At, Fresh
<1>13. tool # "review"
  BY DEF Tool
<1>14. call'.pc \notin {"idle", "publish"} \cup Deciding \cup Fresh
  BY <1>10 DEF Deciding, Fresh
<1> QED BY <1>2, <1>3, <1>4, <1>6, <1>9, <1>10, <1>12, <1>13, <1>14, JournalInv

\* A step of the plan that went well: next is what it makes of the call.
LEMMA ProceedInv ==
  ASSUME AgentInv, Going, NEW tool \in Tool, NEW ids, ids \subseteq 1..Len(evidence),
         NEW next \in Calls, Proceed(tool, ids, next),
         next.pc \notin {"idle", "publish"} \cup Deciding,
         next.done = call.done, next.todo = <<>>,
         next.diagnosis = IF tool = "diagnose" THEN call.diagnosis \cup ids
                                               ELSE call.diagnosis,
         next.pc \in Fresh => "diagnose" \notin call.done \cup {tool},
         next.got \cup next.recommended \subseteq 1..Len(evidence),
         UNCHANGED <<evidence, report, result, cli>>,
         DiagnosisIsReport', AdviceIsDecided'
  PROVE  AgentInv'
<1>1. PICK entry : entry = ToolCall(tool, "done", ids, call.diagnosis)
  OBVIOUS
<1>2. /\ evidence \in Seq(Record) /\ Len(nodes) \in Nat
      /\ call.diagnosis \subseteq 1..Len(evidence) /\ call.diagnosis \subseteq Nat
  BY InvFacts, HandIsNumbers
<1>3. entry \in Entry /\ entry.tool = tool /\ entry.says = "done" /\ entry.ids = ids
  <2>1. entry \in Entry
    BY <1>1, DoneCall
  <2> QED BY <1>1, <2>1 DEF ToolCall
<1>4. nodes' = Append(nodes, Child(call.leaf, entry))
  BY <1>1 DEF Proceed, AppendChild, PersistNode
<1>5. PICK n, done : n = Len(nodes) + 1 /\ done = next.done \cup {tool}
  OBVIOUS
<1>6. n \in Nat /\ done \in SUBSET Tool
  BY <1>2, <1>5 DEF Calls
<1>7. call' = [next EXCEPT !.leaf = n, !.done = done]
  BY <1>5 DEF Proceed
<1>8. /\ call'.leaf = n /\ call'.done = done /\ call'.pc = next.pc
      /\ call'.todo = next.todo /\ call'.got = next.got /\ call'.result = next.result
      /\ call'.diagnosis = next.diagnosis /\ call'.recommended = next.recommended
  BY <1>7 DEF Calls
<1>9. call' \in Calls'
  BY <1>7, <1>6 DEF Calls
<1>10. tool # "review" /\ next.result = call.result
  BY DEF Tool, Calls
<1> QED BY <1>2, <1>3, <1>4, <1>5, <1>8, <1>9, <1>10, JournalInv

-----------------------------------------------------------------------------
\* The gateway denies the next tool of the plan.
LEMMA DeniedInv == AgentInv /\ Denied => AgentInv'
<1> SUFFICES ASSUME AgentInv, Denied
             PROVE  AgentInv'
  OBVIOUS
<1>1. PICK tool : tool = call.pc
  OBVIOUS
<1>2. /\ tool \in Tool /\ GiveUp(tool, "denied")
      /\ UNCHANGED <<evidence, report, result, cli>>
  BY <1>1 DEF Denied, IsTool, Calling
<1>3. Going
  BY <1>1, <1>2 DEF Going, Tool
<1> QED BY <1>2, <1>3, GiveUpInv

\* A tool fails.
LEMMA ToolFailsInv == AgentInv /\ ToolFails => AgentInv'
<1> SUFFICES ASSUME AgentInv, ToolFails
             PROVE  AgentInv'
  OBVIOUS
<1>1. PICK tool : tool = CASE At("diagnosing") -> "diagnose"
                           [] At("recommending") -> "recommend"
                           [] OTHER -> call.pc
  OBVIOUS
<1>2. GiveUp(tool, "failed") /\ UNCHANGED <<evidence, report, result, cli>>
  BY <1>1 DEF ToolFails, Calling
<1>3. call.pc \in Tool \cup {"diagnosing", "recommending"}
  BY DEF ToolFails, IsTool, At
<1>4. tool \in Tool
  BY <1>1, <1>3 DEF At, Tool
<1>5. Going
  BY <1>3 DEF Going, Tool
<1> QED BY <1>2, <1>4, <1>5, GiveUpInv

\* What a tool call costs.
LEMMA PayIs ==
  ASSUME call \in Calls, NEW tool, Authorize(call.role, tool, call.budget),
         NEW paid, paid = Pay(tool)
  PROVE  paid \in Calls /\ \E b \in Nat : paid = [call EXCEPT !.budget = b]
<1>1. PICK b : b = Paid(call.role, tool, call.budget)
  OBVIOUS
<1>2. b \in Nat
  BY <1>1 DEF Paid, Authorize, Calls
<1>3. paid = [call EXCEPT !.budget = b]
  BY <1>1 DEF Pay
<1>4. paid \in Calls
  BY <1>2, <1>3 DEF Calls
<1> QED BY <1>2, <1>3, <1>4

\* inspect writes no evidence.
LEMMA InspectInv == AgentInv /\ Inspect => AgentInv'
<1> SUFFICES ASSUME AgentInv, Inspect
             PROVE  AgentInv'
  OBVIOUS
<1>1. /\ call.pc = "inspect" /\ call \in Calls
      /\ Authorize(call.role, "inspect", call.budget)
      /\ UNCHANGED <<evidence, report, result, cli>>
      /\ DiagnosisIsReport /\ AdviceIsDecided /\ JournalTells /\ InHand
  BY InvFacts DEF Inspect, At, Calling
<1>2. PICK paid : paid = Pay("inspect")
  OBVIOUS
<1>3. paid \in Calls /\ \E b \in Nat : paid = [call EXCEPT !.budget = b]
  BY <1>1, <1>2, PayIs
<1>4. PICK next : next = [paid EXCEPT !.pc = "diagnose"]
  OBVIOUS
<1>5. Proceed("inspect", {}, next)
  BY <1>2, <1>4 DEF Inspect
<1>6. next \in Calls
  BY <1>3, <1>4 DEF Calls, Place, Tool
<1>7. /\ next.pc = "diagnose" /\ next.done = call.done /\ next.diagnosis = call.diagnosis
      /\ next.todo = call.todo /\ next.got = call.got
      /\ next.recommended = call.recommended
  BY <1>1, <1>3, <1>4 DEF Calls
<1>8. call.diagnosis = {} /\ call.got = {} /\ call.recommended = {} /\ call.todo = <<>>
  BY <1>1 DEF DiagnosisIsReport, AdviceIsDecided, InHand, At, Fresh, Going
<1>9. "diagnose" \notin call.done \cup {"inspect"}
  BY <1>1 DEF JournalTells, Going, Fresh
<1>10. /\ call'.pc = "diagnose" /\ call'.diagnosis = {} /\ call'.got = {}
       /\ call'.recommended = {}
  BY <1>5, <1>6, <1>7, <1>8 DEF Proceed, Calls
<1>11. DiagnosisIsReport' /\ AdviceIsDecided'
  BY <1>10 DEF DiagnosisIsReport, AdviceIsDecided, At, Fresh, Unhurt, Going
<1>12. Going /\ next.pc \notin {"idle", "publish"} \cup Deciding
  BY <1>1, <1>7 DEF Going, Deciding
<1> QED BY <1>1, <1>5, <1>6, <1>7, <1>8, <1>9, <1>11, <1>12, ProceedInv DEF Tool

-----------------------------------------------------------------------------
\* diagnose has recorded its findings and is journalled: the diagnosis is the report.
LEMMA DiagnosedInv == AgentInv /\ Diagnosed => AgentInv'
<1> SUFFICES ASSUME AgentInv, Diagnosed
             PROVE  AgentInv'
  OBVIOUS
<1>1. /\ call.pc = "diagnosing" /\ call \in Calls /\ call.todo = <<>>
      /\ UNCHANGED <<evidence, report, result, cli>>
      /\ DiagnosisIsReport /\ AdviceIsDecided /\ JournalTells
  BY InvFacts DEF Diagnosed, At, Calling
<1>2. PICK got, none : got = call.got /\ none = (call.got = {})
  OBVIOUS
<1>3. got \in SUBSET Nat /\ none \in BOOLEAN /\ got \subseteq 1..Len(evidence)
  BY <1>2, HandIsNumbers
<1>4. PICK next : next = [call EXCEPT !.pc = "discover", !.diagnosis = got,
                                      !.empty = none, !.got = {}]
  OBVIOUS
<1>5. Proceed("diagnose", got, next)
  BY <1>2, <1>4 DEF Diagnosed
<1>6. next \in Calls
  BY <1>1, <1>3, <1>4, ZenonT(60) DEF Calls, Place, Tool
<1>7. /\ next.pc = "discover" /\ next.done = call.done /\ next.diagnosis = got
      /\ next.todo = call.todo /\ next.got = {} /\ next.empty = none
      /\ next.recommended = call.recommended
  BY <1>1, <1>4 DEF Calls
<1>8. call.diagnosis = {} /\ call.recommended = {}
  BY <1>1 DEF DiagnosisIsReport, AdviceIsDecided, At, Fresh, Going
<1>9. /\ call'.pc = "discover" /\ call'.diagnosis = got /\ call'.empty = none
      /\ call'.recommended = {}
  BY <1>5, <1>6, <1>7, <1>8 DEF Proceed, Calls
<1>10. RecordsAt(evidence, got) = Reported
  <2>1. RecordsAt(evidence, call.got) \cup {call.todo[i] : i \in 1..Len(call.todo)} = Reported
    BY <1>1 DEF DiagnosisIsReport, At
  <2>2. {call.todo[i] : i \in 1..Len(call.todo)} = {}
    BY <1>1
  <2> QED BY <1>2, <2>1, <2>2
<1>11. RecordsAt(evidence', got) = Reported'
  BY <1>1, <1>10 DEF Reported
<1>12. DiagnosisIsReport' /\ AdviceIsDecided'
  BY <1>2, <1>9, <1>11 DEF DiagnosisIsReport, AdviceIsDecided, At, Fresh, Unhurt, Going
<1>13. Going /\ next.pc \notin {"idle", "publish"} \cup Deciding \cup Fresh
  BY <1>1, <1>7 DEF Going, Deciding, Fresh
<1>14. got = call.diagnosis \cup got
  BY <1>8
<1> QED BY <1>1, <1>3, <1>5, <1>6, <1>7, <1>8, <1>12, <1>13, <1>14, ProceedInv DEF Tool

\* discover writes no evidence.
LEMMA DiscoverInv == AgentInv /\ Discover => AgentInv'
<1> SUFFICES ASSUME AgentInv, Discover
             PROVE  AgentInv'
  OBVIOUS
<1>1. /\ call.pc = "discover" /\ call \in Calls
      /\ Authorize(call.role, "discover", call.budget)
      /\ UNCHANGED <<evidence, report, result, cli>>
      /\ DiagnosisIsReport /\ AdviceIsDecided /\ JournalTells /\ InHand
  BY InvFacts DEF Discover, At, Calling
<1>2. PICK paid : paid = Pay("discover")
  OBVIOUS
<1>3. paid \in Calls /\ \E b \in Nat : paid = [call EXCEPT !.budget = b]
  BY <1>1, <1>2, PayIs
<1>4. PICK pc : pc = IF call.diagnosis = {} THEN "recommend" ELSE "prepare"
  OBVIOUS
<1>5. PICK next : next = [paid EXCEPT !.pc = pc]
  OBVIOUS
<1>6. Proceed("discover", call.diagnosis, next)
  BY <1>2, <1>4, <1>5 DEF Discover
<1>7. next \in Calls
  BY <1>3, <1>4, <1>5, ZenonT(60) DEF Calls, Place, Tool
<1>8. /\ next.pc \in {"recommend", "prepare"} /\ next.done = call.done
      /\ next.diagnosis = call.diagnosis /\ next.todo = call.todo
      /\ next.got = call.got /\ next.recommended = call.recommended
      /\ next.empty = call.empty
  BY <1>1, <1>3, <1>4, <1>5 DEF Calls
<1>9. /\ RecordsAt(evidence, call.diagnosis) = Reported
      /\ call.empty = (call.diagnosis = {})
      /\ call.recommended = {} /\ call.todo = <<>>
  BY <1>1 DEF DiagnosisIsReport, AdviceIsDecided, InHand, At, Fresh, Going
<1>10. /\ call'.pc = next.pc /\ call'.diagnosis = call.diagnosis
       /\ call'.empty = call.empty /\ call'.recommended = {}
  BY <1>6, <1>7, <1>8, <1>9 DEF Proceed, Calls
<1>11. RecordsAt(evidence', call'.diagnosis) = Reported'
  BY <1>1, <1>9, <1>10 DEF Reported
<1>12. DiagnosisIsReport' /\ AdviceIsDecided'
  BY <1>8, <1>9, <1>10, <1>11 DEF DiagnosisIsReport, AdviceIsDecided, At, Fresh, Unhurt, Going
<1>13. Going /\ next.pc \notin {"idle", "publish"} \cup Deciding \cup Fresh
  BY <1>1, <1>8 DEF Going, Deciding, Fresh
<1>14. call.diagnosis \subseteq 1..Len(evidence) /\ call.got \subseteq 1..Len(evidence)
  BY HandIsNumbers
<1> QED BY <1>1, <1>6, <1>7, <1>8, <1>9, <1>12, <1>13, <1>14, ProceedInv DEF Tool

\* recommend without a finding recommends nothing.
LEMMA NothingToRecommendInv == AgentInv /\ NothingToRecommend => AgentInv'
<1> SUFFICES ASSUME AgentInv, NothingToRecommend
             PROVE  AgentInv'
  OBVIOUS
<1>1. /\ call.pc = "recommend" /\ call \in Calls /\ call.empty
      /\ UNCHANGED <<evidence, report, result, cli>>
      /\ DiagnosisIsReport /\ AdviceIsDecided /\ JournalTells /\ InHand
  BY InvFacts DEF NothingToRecommend, AsksGateway, At, Calling
<1>2. PICK next : next = [call EXCEPT !.pc = "review"]
  OBVIOUS
<1>3. Proceed("recommend", {}, next)
  BY <1>2 DEF NothingToRecommend
<1>4. next \in Calls
  BY <1>1, <1>2 DEF Calls, Place
<1>5. /\ next.pc = "review" /\ next.done = call.done
      /\ next.diagnosis = call.diagnosis /\ next.todo = call.todo
      /\ next.got = call.got /\ next.recommended = call.recommended
      /\ next.empty = call.empty
  BY <1>1, <1>2 DEF Calls
<1>6. /\ RecordsAt(evidence, call.diagnosis) = Reported
      /\ call.empty = (call.diagnosis = {})
      /\ call.recommended = {} /\ call.todo = <<>>
  BY <1>1 DEF DiagnosisIsReport, AdviceIsDecided, InHand, At, Fresh, Going
<1>7. /\ call'.pc = "review" /\ call'.diagnosis = call.diagnosis
      /\ call'.empty = call.empty /\ call'.recommended = {}
  BY <1>3, <1>4, <1>5, <1>6 DEF Proceed, Calls
<1>8. call'.diagnosis = {} /\ call'.empty = TRUE
  <2>1. call.diagnosis = {}
    BY <1>1, <1>6
  <2> QED BY <1>1, <1>7, <2>1 DEF Calls
<1>9. RecordsAt(evidence', call'.diagnosis) = Reported'
  <2>1. Reported' = Reported
    BY <1>1 DEF Reported
  <2>2. RecordsAt(evidence', call'.diagnosis) = RecordsAt(evidence, call.diagnosis)
    BY <1>1, <1>7
  <2> QED BY <1>6, <2>1, <2>2
<1>10. DiagnosisIsReport' /\ AdviceIsDecided'
  BY <1>7, <1>9, <1>8 DEF DiagnosisIsReport, AdviceIsDecided, At, Fresh, Unhurt, Going
<1>11. Going /\ next.pc \notin {"idle", "publish"} \cup Deciding \cup Fresh
  BY <1>1, <1>5 DEF Going, Deciding, Fresh
<1>12. call.got \subseteq 1..Len(evidence)
  BY HandIsNumbers
<1> QED BY <1>1, <1>3, <1>4, <1>5, <1>6, <1>10, <1>11, <1>12, ProceedInv DEF Tool

\* recommend has recorded its recommendations and is journalled.
LEMMA RecommendedInv == AgentInv /\ Recommended => AgentInv'
<1> SUFFICES ASSUME AgentInv, Recommended
             PROVE  AgentInv'
  OBVIOUS
<1>1. /\ call.pc = "recommending" /\ call \in Calls /\ call.todo = <<>>
      /\ UNCHANGED <<evidence, report, result, cli>>
      /\ DiagnosisIsReport /\ AdviceIsDecided /\ JournalTells
  BY InvFacts DEF Recommended, At, Calling
<1>2. PICK got : got = call.got
  OBVIOUS
<1>3. /\ got \in SUBSET Nat /\ got \subseteq 1..Len(evidence)
      /\ Business \subseteq 1..Len(evidence)
  BY <1>2, HandIsNumbers
<1>4. PICK next : next = [call EXCEPT !.pc = "review", !.recommended = got, !.got = {}]
  OBVIOUS
<1>5. Proceed("recommend", Business \cup got, next)
  BY <1>2, <1>4 DEF Recommended
<1>6. next \in Calls
  BY <1>1, <1>3, <1>4 DEF Calls, Place
<1>7. /\ next.pc = "review" /\ next.done = call.done
      /\ next.diagnosis = call.diagnosis /\ next.todo = call.todo
      /\ next.got = {} /\ next.recommended = got
      /\ next.empty = call.empty /\ next.submission = call.submission
  BY <1>1, <1>4 DEF Calls
<1>8. /\ RecordsAt(evidence, call.diagnosis) = Reported /\ call.diagnosis # {}
      /\ call.empty = (call.diagnosis = {})
      /\ Accepts(evidence, call.submission, call.diagnosis)
  BY <1>1 DEF DiagnosisIsReport, AdviceIsDecided, At, Fresh, Going
<1>9. /\ call'.pc = "review" /\ call'.diagnosis = call.diagnosis
      /\ call'.empty = call.empty /\ call'.submission = call.submission
  BY <1>5, <1>6, <1>7 DEF Proceed, Calls
<1>10. /\ RecordsAt(evidence', call'.diagnosis) = Reported'
       /\ Accepts(evidence', call'.submission, call'.diagnosis)
  BY <1>1, <1>8, <1>9 DEF Reported
<1>11. DiagnosisIsReport' /\ AdviceIsDecided'
  BY <1>8, <1>9, <1>10 DEF DiagnosisIsReport, AdviceIsDecided, At, Fresh, Unhurt, Going
<1>12. Going /\ next.pc \notin {"idle", "publish"} \cup Deciding \cup Fresh
  BY <1>1, <1>7 DEF Going, Deciding, Fresh
<1>13. PICK ids : ids = Business \cup got
  OBVIOUS
<1>14. ids \subseteq 1..Len(evidence)
  BY <1>3, <1>13
<1> QED BY <1>1, <1>3, <1>5, <1>6, <1>7, <1>11, <1>12, <1>13, <1>14, ProceedInv DEF Tool

-----------------------------------------------------------------------------
\* The entry of the decision, and where it leads.
LEMMA AuditedInv ==
  ASSUME AgentInv, call.pc \in Middle,
         NEW args \in [ctx : Nat, prop : Nat, res : Nat] \cup [ctx : Nat, out : Nat],
         NEW ids, ids \subseteq 1..Len(evidence),
         AppendChild(call.leaf, AuditCall(args, ids)),
         NEW pc, NEW failed \in BOOLEAN,
         pc = "recommend" \/ (pc = "review" /\ failed = TRUE),
         call' = [call EXCEPT !.pc = pc, !.failed = failed, !.leaf = Len(nodes) + 1],
         UNCHANGED <<evidence, report, result, cli>>
  PROVE  AgentInv'
<1>1. /\ call \in Calls /\ evidence \in Seq(Record) /\ Len(nodes) \in Nat
      /\ DiagnosisIsReport /\ AdviceIsDecided /\ InHand
  BY InvFacts
<1>2. PICK entry : entry = AuditCall(args, ids)
  OBVIOUS
<1>3. /\ entry \in Entry /\ entry.tool = "decision" /\ entry.ids = ids
  <2>1. ids \in SUBSET Nat
    BY <1>1
  <2> QED BY <1>2, <2>1 DEF AuditCall, AuditEntry, Entry
<1>4. nodes' = Append(nodes, Child(call.leaf, entry))
  BY <1>2 DEF AppendChild, PersistNode
<1>5. PICK n : n = Len(nodes) + 1
  OBVIOUS
<1>6. n \in Nat /\ call' = [call EXCEPT !.pc = pc, !.failed = failed, !.leaf = n]
  BY <1>1, <1>5
<1>7. call' \in Calls'
  <2>1. pc \in Place
    BY DEF Place, Tool
  <2> QED BY <1>1, <1>6, <2>1, ZenonT(60) DEF Calls
<1>8. /\ call'.pc = pc /\ call'.failed = failed /\ call'.leaf = n
      /\ call'.diagnosis = call.diagnosis /\ call'.done = call.done
      /\ call'.empty = call.empty /\ call'.recommended = call.recommended
      /\ call'.todo = call.todo /\ call'.got = call.got /\ call'.result = call.result
  BY <1>1, <1>6 DEF Calls
<1>9. /\ RecordsAt(evidence, call.diagnosis) = Reported
      /\ call.empty = (call.diagnosis = {})
      /\ call.recommended = {} /\ call.todo = <<>> /\ Going
  <2>1. call.pc \notin Fresh \cup {"idle", "publish", "review", "diagnosing", "recommending"}
    BY DEF Middle, Deciding, Fresh
  <2>2. Going /\ call.recommended = {}
    BY <1>1, <2>1 DEF AdviceIsDecided, At, Going
  <2>3. call.todo = <<>>
    BY <1>1, <2>1 DEF InHand, At
  <2>4. call.pc \notin Fresh \cup {"review"}
    BY <2>1
  <2>5. RecordsAt(evidence, call.diagnosis) = Reported
    BY <1>1, <2>2, <2>4 DEF DiagnosisIsReport
  <2>6. call.empty = (call.diagnosis = {})
    BY <1>1, <2>2, <2>4 DEF DiagnosisIsReport
  <2> QED BY <2>2, <2>3, <2>5, <2>6
<1>10. RecordsAt(evidence', call'.diagnosis) = Reported'
  <2>1. Reported' = Reported
    BY DEF Reported
  <2>2. RecordsAt(evidence', call'.diagnosis) = RecordsAt(evidence, call.diagnosis)
    BY <1>8
  <2> QED BY <1>9, <2>1, <2>2
<1>11. DiagnosisIsReport' /\ AdviceIsDecided'
  BY <1>8, <1>9, <1>10 DEF DiagnosisIsReport, AdviceIsDecided, At, Fresh, Unhurt, Going
<1>12. call'.pc \notin {"idle", "publish"} \cup Deciding \cup Fresh
  BY <1>8 DEF Deciding, Fresh
<1>13. "decision" \notin Tool
  BY DEF Tool
<1>14. call'.got \cup call'.diagnosis \cup call'.recommended \subseteq 1..Len(evidence)
  BY <1>8, HandIsNumbers
<1> QED BY <1>3, <1>4, <1>5, <1>7, <1>8, <1>9, <1>11, <1>12, <1>13, <1>14, JournalInv

\* The decision is journalled with its context, proposal and result.
LEMMA AuditInv == AgentInv /\ Audit => AgentInv'
<1> SUFFICES ASSUME AgentInv, Audit
             PROVE  AgentInv'
  OBVIOUS
<1>1. /\ call.pc = "audit" /\ call \in Calls
      /\ UNCHANGED <<evidence, report, result, cli>>
      /\ AtDecision /\ EvidenceIsFine(evidence) /\ evidence \in Seq(Record)
  BY InvFacts DEF Audit, At, Calling
<1>2. PICK prop : prop = CHOOSE i \in evidence[call.submission].parents : i # call.ctx
  OBVIOUS
<1>3. PICK args, ids :
        /\ args = [ctx |-> call.ctx, prop |-> prop, res |-> call.submission]
        /\ ids = {call.ctx, prop, call.submission}
  OBVIOUS
<1>4. PICK pc, failed : /\ pc = IF Accepted THEN "recommend" ELSE "review"
                        /\ failed = ~ Accepted
  OBVIOUS
<1>5. /\ AppendChild(call.leaf, AuditCall(args, ids))
      /\ call' = [call EXCEPT !.pc = pc, !.failed = failed, !.leaf = Len(nodes) + 1]
  BY <1>2, <1>3, <1>4 DEF Audit
<1>6. /\ call.submission \in OfKind(evidence, "result")
      /\ \E i \in evidence[call.submission].parents : i # call.ctx
      /\ call.ctx \in Contexts(evidence)
  BY <1>1 DEF AtDecision, At, Deciding
<1>7. prop \in evidence[call.submission].parents
  BY <1>2, <1>6
<1>8. call.submission \in 1..Len(evidence) /\ call.ctx \in 1..Len(evidence)
  BY <1>6 DEF Contexts, OfKind
<1>9. prop \in 1..Len(evidence)
  <2>1. evidence[call.submission].parents \subseteq 1..(call.submission - 1)
    BY <1>1, <1>8 DEF EvidenceIsFine, VerifyChain
  <2> QED BY <1>1, <1>7, <1>8, <2>1
<1>10. ids \subseteq 1..Len(evidence)
  BY <1>3, <1>8, <1>9
<1>11. args \in [ctx : Nat, prop : Nat, res : Nat]
  BY <1>1, <1>3, <1>8, <1>9
<1>12. /\ failed \in BOOLEAN
       /\ pc = "recommend" \/ (pc = "review" /\ failed = TRUE)
  BY <1>4
<1> QED BY <1>1, <1>5, <1>10, <1>11, <1>12, AuditedInv DEF Middle, Deciding

\* The decision is journalled with its unavailable outcome.
LEMMA AuditOutcomeInv == AgentInv /\ AuditOutcome => AgentInv'
<1> SUFFICES ASSUME AgentInv, AuditOutcome
             PROVE  AgentInv'
  OBVIOUS
<1>1. /\ call.pc = "auditOutcome" /\ call \in Calls
      /\ UNCHANGED <<evidence, report, result, cli>>
      /\ AtDecision /\ evidence \in Seq(Record)
  BY InvFacts DEF AuditOutcome, At, Calling
<1>2. PICK args, ids : /\ args = [ctx |-> call.ctx, out |-> call.outcome]
                       /\ ids = {call.ctx, call.outcome}
  OBVIOUS
<1>3. AppendChild(call.leaf, AuditCall(args, ids))
  BY <1>2 DEF AuditOutcome
<1>4. call' = [call EXCEPT !.pc = "review", !.failed = TRUE, !.leaf = Len(nodes) + 1]
  BY <1>1 DEF AuditOutcome, Undecided, Calls
<1>5. call.ctx \in 1..Len(evidence) /\ call.outcome \in 1..Len(evidence)
  BY <1>1 DEF AtDecision, At, Deciding, Contexts, OfKind
<1>6. ids \subseteq 1..Len(evidence)
  BY <1>2, <1>5
<1>7. args \in [ctx : Nat, out : Nat]
  BY <1>1, <1>2, <1>5
<1> QED BY <1>1, <1>3, <1>4, <1>6, <1>7, AuditedInv DEF Middle, Deciding

-----------------------------------------------------------------------------
\* A finite set can be written as a sequence of its members.
LEMMA SequenceOf ==
  ASSUME NEW S, IsFiniteSet(S)
  PROVE  SetToSeq(S) \in Seq(S)
<1>1. Cardinality(S) \in Nat /\ ExistsBijection(1..Cardinality(S), S)
  BY FS_CardinalityType
<1>2. \E f \in [1..Cardinality(S) -> S] : IsInjective(f)
  BY <1>1 DEF ExistsBijection, Bijection, Injection
<1>3. SetToSeq(S) \in [1..Cardinality(S) -> S]
  BY <1>2 DEF SetToSeq
<1> QED BY <1>1, <1>3

\* What recommend writes rests on evidence that is there.
LEMMA RecommendationsArePlain ==
  ASSUME NEW log, NEW ids \in SUBSET Nat, NEW actions \in SUBSET Action,
         NEW todo, todo = Recommendations(log, ids, actions)
  PROVE  todo \in Seq(Plain) /\ \A i \in 1..Len(todo) : todo[i].parents \subseteq ids
<1>1. PICK S : S = {Recommendation(log, ids, a) : a \in actions}
  OBVIOUS
<1>2. PICK f : f = [a \in actions |-> Recommendation(log, ids, a)]
  OBVIOUS
<1>3. f \in Surjection(actions, S)
  BY <1>1, <1>2 DEF Surjection
<1>4. IsFiniteSet(actions)
  BY DecisionAssumption, FS_Subset
<1>5. IsFiniteSet(S)
  BY <1>3, <1>4, FS_Surjection
<1>6. todo \in Seq(S)
  BY <1>1, <1>5, SequenceOf DEF Recommendations
<1>7. \A s \in S : s \in Advises /\ s.parents \subseteq ids
  <2> TAKE s \in S
  <2>1. PICK a \in actions : s = Recommendation(log, ids, a)
    BY <1>1
  <2>2. PICK about : about = {i \in ids : ActionFor[log[i].finding] = a}
    OBVIOUS
  <2>3. about \in SUBSET Nat /\ about \subseteq ids /\ a \in Action
    BY <2>2
  <2>4. s = [kind |-> "recommendation", action |-> a, parents |-> about]
    BY <2>1, <2>2 DEF Recommendation
  <2> QED BY <2>3, <2>4 DEF Advises
<1>8. S \subseteq Plain
  BY <1>7 DEF Plain
<1>9. todo \in Seq(Plain)
  BY <1>6, <1>8
<1>10. \A i \in 1..Len(todo) : todo[i] \in S
  BY <1>6
<1> QED BY <1>7, <1>9, <1>10

-----------------------------------------------------------------------------
\* A step of the call that writes at most evidence.
LEMMA QuietStep ==
  ASSUME AgentInv, Going, call'.pc \notin {"idle", "publish"},
         call'.pc \in Fresh => call.pc \in Fresh,
         call'.diagnosis = call.diagnosis, call'.done = call.done,
         call'.leaf = call.leaf, call'.result = call.result,
         nodes' = nodes, report' = report, result' = result,
         evidence' \in Seq(Record), Extends(evidence, evidence')
  PROVE  JournalTells' /\ ResultIsJournal' /\ ApprovedIsGrounded' /\ Rooted'
<1>1. JournalTells /\ ResultIsJournal /\ Rooted
  BY InvFacts
<1>2. Told' = Told
  BY DEF Told, Did
<1>3. DidAll' = DidAll
  BY DEF DidAll, Did
<1>4. JournalTells'
  BY <1>1, <1>2, <1>3 DEF JournalTells, Going
<1>5. ResultIsJournal'
  <2>1. result = None /\ call.result = None /\ ~ Closed
    BY <1>1 DEF ResultIsJournal, At, Going
  <2>2. Closed' = Closed
    BY DEF Closed, ToolOf
  <2> QED BY <2>1, <2>2 DEF ResultIsJournal
<1>6. Rooted'
  BY <1>1 DEF Rooted
<1> QED BY <1>4, <1>5, <1>6, EvidenceGrows

\* diagnose starts: what it has to write is what the report says.
LEMMA DiagnoseInv == AgentInv /\ Diagnose => AgentInv'
<1> SUFFICES ASSUME AgentInv, Diagnose
             PROVE  AgentInv'
  OBVIOUS
<1>1. /\ call.pc = "diagnose" /\ call \in Calls /\ report \in Report
      /\ Authorize(call.role, "diagnose", call.budget)
      /\ UNCHANGED <<evidence, nodes, report, result, cli>>
      /\ DiagnosisIsReport /\ AdviceIsDecided /\ InHand
      /\ evidence \in Seq(Record) /\ nodes \in Seq(Root \cup Kid) /\ cli \in Seq(Plain)
  BY InvFacts DEF Diagnose, At, Calling
<1>2. PICK paid : paid = Pay("diagnose")
  OBVIOUS
<1>3. paid \in Calls /\ \E b \in Nat : paid = [call EXCEPT !.budget = b]
  BY <1>1, <1>2, PayIs
<1>4. PICK todo : todo = [i \in 1..Len(report) |-> Diagnostic(report[i], TRUE)]
  OBVIOUS
<1>5. call' = [paid EXCEPT !.pc = "diagnosing", !.todo = todo]
  BY <1>2, <1>4 DEF Diagnose
<1>6. report \in Seq(Finding)
  BY <1>1, AgentAssumption
<1>7. /\ todo \in Seq(Plain) /\ Len(todo) = Len(report)
      /\ \A i \in 1..Len(todo) : todo[i].parents = {}
      /\ {todo[i] : i \in 1..Len(todo)} = Reported
  <2>1. \A i \in 1..Len(report) : /\ Diagnostic(report[i], TRUE) \in Plain
                                  /\ Diagnostic(report[i], TRUE).parents = {}
    BY <1>6 DEF Diagnostic, Finds, Plain
  <2>2. todo \in Seq(Plain) /\ Len(todo) = Len(report)
    <3>1. PICK n : n = Len(report)
      OBVIOUS
    <3>2. n \in Nat
      BY <1>6, <3>1
    <3>3. todo = [i \in 1..n |-> Diagnostic(report[i], TRUE)]
      BY <1>4, <3>1
    <3>4. \A i \in 1..n : Diagnostic(report[i], TRUE) \in Plain
      BY <2>1, <3>1
    <3>5. todo \in [1..n -> Plain]
      BY <3>3, <3>4
    <3> QED BY <3>1, <3>2, <3>5
  <2>3. \A i \in 1..Len(todo) : todo[i] = Diagnostic(report[i], TRUE)
    BY <1>4, <2>2
  <2>4. {todo[i] : i \in 1..Len(todo)} = Reported
    BY <2>2, <2>3 DEF Reported
  <2> QED BY <2>1, <2>2, <2>3, <2>4
<1>8. call' \in Calls'
  BY <1>3, <1>5, <1>7 DEF Calls, Place
<1>9. /\ call'.pc = "diagnosing" /\ call'.todo = todo /\ call'.diagnosis = call.diagnosis
      /\ call'.got = call.got /\ call'.recommended = call.recommended
      /\ call'.done = call.done /\ call'.leaf = call.leaf /\ call'.result = call.result
  BY <1>1, <1>3, <1>5 DEF Calls
<1>10. call.diagnosis = {} /\ call.got = {} /\ call.recommended = {}
  BY <1>1 DEF DiagnosisIsReport, AdviceIsDecided, At, Fresh, Going
<1>11. DiagnosisIsReport'
  <2>1. Reported' = Reported
    BY <1>1 DEF Reported
  <2>2. RecordsAt(evidence', call'.got) = {}
    BY <1>9, <1>10 DEF RecordsAt
  <2>3. {call'.todo[i] : i \in 1..Len(call'.todo)} = Reported
    BY <1>7, <1>9
  <2> QED BY <1>9, <1>10, <2>1, <2>2, <2>3 DEF DiagnosisIsReport, At, Fresh, Unhurt
<1>12. AdviceIsDecided' /\ AtDecision'
  BY <1>9, <1>10 DEF AdviceIsDecided, AtDecision, At, Unhurt, Deciding
<1>13. JournalTells' /\ ResultIsJournal' /\ ApprovedIsGrounded' /\ Rooted'
  <2>1. Going /\ call.pc \in Fresh
    BY <1>1 DEF Going, Fresh
  <2> QED BY <1>1, <1>9, <2>1, Same, QuietStep
<1>14. AgentWellTyped' /\ EvidenceIsFine(evidence')
  BY <1>1, <1>8, Same DEF AgentWellTyped
<1>15. InHand'
  <2>1. \A i \in 1..Len(call'.todo) : call'.todo[i].parents \subseteq 1..Len(evidence')
    BY <1>7, <1>9
  <2>2. /\ \A i \in 1..Len(cli') : cli'[i].parents \subseteq 1..Len(evidence')
        /\ \A n \in 2..Len(nodes') : nodes'[n].call.ids \subseteq 1..Len(evidence')
    BY <1>1 DEF InHand, Rests
  <2> QED BY <1>9, <1>10, <2>1, <2>2 DEF InHand, Rests, At
<1> QED BY <1>11, <1>12, <1>13, <1>14, <1>15 DEF AgentInv

-----------------------------------------------------------------------------
\* The next record of what a tool writes.
LEMMA NextOf ==
  ASSUME NEW todo \in Seq(Plain), todo # <<>>
  PROVE  /\ Head(todo) \in Plain /\ Head(todo) = todo[1] /\ 1 \in 1..Len(todo)
         /\ Tail(todo) \in Seq(Plain) /\ Len(Tail(todo)) = Len(todo) - 1
         /\ \A i \in 1..Len(Tail(todo)) : i + 1 \in 1..Len(todo) /\ Tail(todo)[i] = todo[i + 1]
         /\ {todo[i] : i \in 1..Len(todo)}
              = {Head(todo)} \cup {Tail(todo)[i] : i \in 1..Len(Tail(todo))}
<1>1. /\ Head(todo) \in Plain /\ Head(todo) = todo[1] /\ 1 \in 1..Len(todo)
      /\ Tail(todo) \in Seq(Plain) /\ Len(Tail(todo)) = Len(todo) - 1
      /\ Len(todo) \in Nat
      /\ \A i \in 1..Len(Tail(todo)) : i + 1 \in 1..Len(todo) /\ Tail(todo)[i] = todo[i + 1]
  OBVIOUS
<1>2. \A i \in 1..Len(todo) : i = 1 \/ (i - 1 \in 1..Len(Tail(todo)) /\ Tail(todo)[i - 1] = todo[i])
  BY <1>1
<1>3. ASSUME NEW r
      PROVE  (\E i \in 1..Len(todo) : r = todo[i])
               <=> r = Head(todo) \/ \E i \in 1..Len(Tail(todo)) : r = Tail(todo)[i]
  BY <1>1, <1>2, ZenonT(60)
<1>4. {todo[i] : i \in 1..Len(todo)}
        = {Head(todo)} \cup {Tail(todo)[i] : i \in 1..Len(Tail(todo))}
  BY <1>3
<1> QED BY <1>1, <1>4

\* A tool writes its next record, or finds it written.
LEMMA AppendNextInv == AgentInv /\ AppendNext => AgentInv'
<1> SUFFICES ASSUME AgentInv, AppendNext
             PROVE  AgentInv'
  OBVIOUS
<1>1. PICK r, todo : r = Head(call.todo) /\ todo = Tail(call.todo)
  OBVIOUS
<1>2. PICK c : c = ContentId(evidence', r)
  OBVIOUS
<1>3. /\ call \in Calls /\ call.todo # <<>>
      /\ evidence' = AppendRecord(evidence, r)
      /\ call' = [call EXCEPT !.todo = todo, !.got = @ \cup {c}]
      /\ UNCHANGED <<nodes, report, result, cli>>
      /\ DiagnosisIsReport /\ AdviceIsDecided /\ InHand /\ EvidenceIsFine(evidence)
      /\ evidence \in Seq(Record) /\ nodes \in Seq(Root \cup Kid) /\ cli \in Seq(Plain)
      /\ report \in Report
  BY <1>1, <1>2, InvFacts DEF AppendNext, Calling
<1>4. call.pc \in {"diagnosing", "recommending"}
  BY <1>3 DEF InHand, At
<1>5. /\ r \in Plain /\ r = call.todo[1] /\ 1 \in 1..Len(call.todo)
      /\ todo \in Seq(Plain)
      /\ \A i \in 1..Len(todo) : i + 1 \in 1..Len(call.todo) /\ todo[i] = call.todo[i + 1]
      /\ {call.todo[i] : i \in 1..Len(call.todo)} = {r} \cup {todo[i] : i \in 1..Len(todo)}
  <2>1. call.todo \in Seq(Plain)
    BY <1>3 DEF Calls
  <2> QED BY <1>1, <1>3, <2>1, NextOf, ZenonT(60)
<1>6. r.parents \subseteq 1..Len(evidence) /\ r \in Record
  BY <1>3, <1>5 DEF InHand, Rests, Record
<1>7. EvidenceIsFine(evidence')
  BY <1>3, <1>5, <1>6, PlainAppended
<1>8. /\ evidence' \in Seq(Record) /\ Extends(evidence, evidence')
      /\ c \in 1..Len(evidence') /\ evidence'[c] = r
  BY <1>2, <1>3, <1>6, AppendIs
<1>9. PICK got : got = call.got \cup {c}
  OBVIOUS
<1>10. got \in SUBSET Nat /\ call' = [call EXCEPT !.todo = todo, !.got = got]
  BY <1>3, <1>8, <1>9 DEF Calls
<1>11. call' \in Calls'
  BY <1>3, <1>5, <1>10, ZenonT(60) DEF Calls
<1>12. /\ call'.pc = call.pc /\ call'.todo = todo /\ call'.got = got
       /\ call'.diagnosis = call.diagnosis /\ call'.recommended = call.recommended
       /\ call'.done = call.done /\ call'.leaf = call.leaf /\ call'.result = call.result
       /\ call'.empty = call.empty /\ call'.submission = call.submission
  BY <1>3, <1>10 DEF Calls
<1>13. /\ 1..Len(evidence) \subseteq 1..Len(evidence')
       /\ RecordsAt(evidence', call.diagnosis) = RecordsAt(evidence, call.diagnosis)
       /\ RecordsAt(evidence', call.got) = RecordsAt(evidence, call.got)
       /\ Reported' = Reported
  BY <1>3, <1>8, EvidenceGrows
<1>14. DiagnosisIsReport'
  <2>1. CASE call.pc = "diagnosing"
    <3>1. /\ call.diagnosis = {}
          /\ RecordsAt(evidence, call.got) \cup {call.todo[i] : i \in 1..Len(call.todo)} = Reported
      BY <1>3, <2>1 DEF DiagnosisIsReport, Fresh, At
    <3>2. RecordsAt(evidence', got) = RecordsAt(evidence', call.got) \cup {r}
      BY <1>8, <1>9 DEF RecordsAt
    <3>3. RecordsAt(evidence', got) \cup {todo[i] : i \in 1..Len(todo)} = Reported
      BY <1>5, <1>13, <3>1, <3>2
    <3>4. /\ RecordsAt(evidence', call'.got) \cup {call'.todo[i] : i \in 1..Len(call'.todo)}
               = Reported'
          /\ call'.pc = "diagnosing" /\ call'.diagnosis = {}
      BY <1>12, <1>13, <2>1, <3>1, <3>3
    <3> QED BY <3>4 DEF DiagnosisIsReport, Fresh, At, Unhurt
  <2>2. CASE call.pc = "recommending"
    <3>1. /\ RecordsAt(evidence, call.diagnosis) = Reported
          /\ call.empty = (call.diagnosis = {})
      BY <1>3, <2>2 DEF DiagnosisIsReport, Fresh, At, Going
    <3>2. /\ RecordsAt(evidence', call'.diagnosis) = Reported'
          /\ call'.empty = (call'.diagnosis = {}) /\ call'.pc = "recommending"
      BY <1>12, <1>13, <2>2, <3>1
    <3> QED BY <3>2 DEF DiagnosisIsReport, Fresh, At, Unhurt
  <2> QED BY <1>4, <2>1, <2>2
<1>15. AdviceIsDecided'
  <2>1. call.recommended = {}
    BY <1>3, <1>4 DEF AdviceIsDecided, Going, At
  <2>2. CASE call.pc = "diagnosing"
    BY <1>12, <2>1, <2>2 DEF AdviceIsDecided, At, Unhurt
  <2>3. CASE call.pc = "recommending"
    <3>1. call.diagnosis # {} /\ Accepts(evidence, call.submission, call.diagnosis)
      BY <1>3, <2>3 DEF AdviceIsDecided, At
    <3>2. PICK ids, res : ids = call.diagnosis /\ res = call.submission
      OBVIOUS
    <3>3. ids \subseteq 1..Len(evidence) /\ Accepts(evidence, res, ids)
      BY <3>1, <3>2, HandIsNumbers
    <3>4. Accepts(evidence', res, ids)
      BY <1>3, <1>8, <3>3, AcceptsStays
    <3> QED BY <1>12, <2>1, <2>3, <3>1, <3>2, <3>4 DEF AdviceIsDecided, At, Unhurt
  <2> QED BY <1>4, <2>2, <2>3
<1>16. AtDecision'
  BY <1>4, <1>12 DEF AtDecision, At, Deciding
<1>17. JournalTells' /\ ResultIsJournal' /\ ApprovedIsGrounded' /\ Rooted'
  <2>1. Going /\ call'.pc \notin {"idle", "publish"} /\ (call'.pc \in Fresh => call.pc \in Fresh)
    BY <1>4, <1>12 DEF Going
  <2> QED BY <1>3, <1>8, <1>12, <2>1, QuietStep
<1>18. AgentWellTyped'
  BY <1>3, <1>8, <1>11 DEF AgentWellTyped
<1>19. InHand'
  <2>1. /\ call'.got \cup call'.diagnosis \cup call'.recommended \subseteq 1..Len(evidence')
        /\ \A n \in 2..Len(nodes') : nodes'[n].call.ids \subseteq 1..Len(evidence')
    BY <1>3, <1>8, <1>9, <1>12, <1>13 DEF InHand
  <2>2. \A i \in 1..Len(cli') : cli'[i].parents \subseteq 1..Len(evidence')
    BY <1>3, <1>13 DEF InHand, Rests
  <2>3. \A i \in 1..Len(call'.todo) : call'.todo[i].parents \subseteq 1..Len(evidence')
    BY <1>3, <1>5, <1>12, <1>13 DEF InHand, Rests
  <2> QED BY <1>4, <1>12, <2>1, <2>2, <2>3 DEF InHand, Rests, At
<1> QED BY <1>7, <1>14, <1>15, <1>16, <1>17, <1>18, <1>19 DEF AgentInv

-----------------------------------------------------------------------------
\* What recommend has checked before it writes.
LEMMA DecidedAccepts ==
  ASSUME EvidenceIsFine(evidence), call.diagnosis \subseteq 1..Len(evidence), Decided
  PROVE  /\ Accepts(evidence, call.submission, call.diagnosis)
         /\ evidence[call.submission].actions \in SUBSET Action
<1>1. PICK ctx, prop, res, ids :
        /\ ctx = call.ctx /\ res = call.submission /\ ids = call.diagnosis
        /\ prop = CHOOSE i \in evidence[res].parents : i # ctx
  OBVIOUS
<1>2. /\ ReplaySubmission(evidence, ctx, prop, res)
      /\ evidence[ctx].parents = ids /\ evidence[res].reasons = {}
  BY <1>1 DEF Decided, Accepted
<1>3. /\ {ctx, prop, res} \subseteq 1..Len(evidence)
      /\ evidence[ctx].kind = "context" /\ evidence[prop].kind = "proposal"
      /\ evidence[res].kind = "result" /\ evidence[res].parents = {ctx, prop}
      /\ Validate(evidence, ctx, evidence[prop].proposal, evidence[prop].inTime)
           = [reasons |-> evidence[res].reasons, actions |-> evidence[res].actions]
  BY <1>2 DEF ReplaySubmission
<1>4. PICK p, t : p = evidence[prop].proposal /\ t = evidence[prop].inTime
  OBVIOUS
<1>5. /\ Reasons(evidence, ctx, p, t) = evidence[res].reasons
      /\ evidence[res].actions
           = IF Reasons(evidence, ctx, p, t) = {} THEN p.actions ELSE {}
  BY <1>3, <1>4 DEF Validate
<1>6. Reasons(evidence, ctx, p, t) = {} /\ evidence[res].actions = p.actions
  BY <1>2, <1>5
<1>7. t /\ p.actions \subseteq Applicable(evidence, ids)
  <2>1. /\ "context_expired" \notin Reasons(evidence, ctx, p, t)
        /\ "action_not_applicable" \notin Reasons(evidence, ctx, p, t)
    BY <1>6
  <2> QED BY <1>2, <2>1 DEF Reasons
<1>8. Accepts(evidence, res, ids)
  BY <1>2, <1>3, <1>4, <1>6, <1>7 DEF Accepts
<1>9. evidence[res].actions \in SUBSET Action
  <2>1. evidence[res] \in Record
    BY <1>3 DEF EvidenceIsFine
  <2>2. evidence[res] \in Judges
    BY <1>3, <2>1, RecordKinds
  <2> QED BY <2>2 DEF Judges
<1> QED BY <1>1, <1>8, <1>9

\* recommend starts: it relies on a result that accepts the proposal.
LEMMA RecommendInv == AgentInv /\ Recommend => AgentInv'
<1> SUFFICES ASSUME AgentInv, Recommend
             PROVE  AgentInv'
  OBVIOUS
<1>1. /\ call.pc = "recommend" /\ ~ call.empty /\ call \in Calls
      /\ Authorize(call.role, "recommend", call.budget)
      /\ UNCHANGED <<evidence, report, result, cli>>
      /\ DiagnosisIsReport /\ AdviceIsDecided /\ InHand /\ EvidenceIsFine(evidence)
      /\ evidence \in Seq(Record) /\ nodes \in Seq(Root \cup Kid) /\ cli \in Seq(Plain)
      /\ report \in Report
  BY InvFacts DEF Recommend, AsksGateway, At, Calling
<1>2. Going
  BY <1>1 DEF Going
<1>3. CASE ~ Decided
  <2>1. PICK tool, says : tool = "recommend" /\ says = "failed"
    OBVIOUS
  <2>2. GiveUp(tool, says)
    BY <1>3, <2>1 DEF Recommend
  <2>3. tool \in Tool /\ says \in {"denied", "failed"}
    BY <2>1 DEF Tool
  <2> QED BY <1>1, <1>2, <2>2, <2>3, GiveUpInv
<1>4. CASE Decided
  <2>1. PICK paid : paid = Pay("recommend")
    OBVIOUS
  <2>2. paid \in Calls /\ \E b \in Nat : paid = [call EXCEPT !.budget = b]
    BY <1>1, <2>1, PayIs
  <2>3. PICK ids, actions : ids = call.diagnosis /\ actions = evidence[call.submission].actions
    OBVIOUS
  <2>4. PICK todo : todo = Recommendations(evidence, ids, actions)
    OBVIOUS
  <2>5. /\ call' = [paid EXCEPT !.pc = "recommending", !.todo = todo]
        /\ nodes' = nodes
    BY <1>4, <2>1, <2>3, <2>4 DEF Recommend
  <2>6. ids \subseteq 1..Len(evidence) /\ ids \in SUBSET Nat
    BY <2>3, HandIsNumbers
  <2>7. Accepts(evidence, call.submission, ids) /\ actions \in SUBSET Action
    BY <1>1, <1>4, <2>3, <2>6, DecidedAccepts
  <2>8. todo \in Seq(Plain) /\ \A i \in 1..Len(todo) : todo[i].parents \subseteq ids
    BY <2>4, <2>6, <2>7, RecommendationsArePlain
  <2>9. call' \in Calls'
    BY <2>2, <2>5, <2>8 DEF Calls, Place
  <2>10. /\ call'.pc = "recommending" /\ call'.todo = todo /\ call'.diagnosis = call.diagnosis
         /\ call'.got = call.got /\ call'.recommended = call.recommended
         /\ call'.done = call.done /\ call'.leaf = call.leaf /\ call'.result = call.result
         /\ call'.empty = call.empty /\ call'.submission = call.submission
    BY <1>1, <2>2, <2>5 DEF Calls
  <2>11. /\ RecordsAt(evidence, call.diagnosis) = Reported /\ call.diagnosis # {}
         /\ call.empty = (call.diagnosis = {})
         /\ call.recommended = {}
    BY <1>1, <1>2 DEF DiagnosisIsReport, AdviceIsDecided, At, Fresh
  <2>12. DiagnosisIsReport'
    <3>1. Reported' = Reported
      BY <1>1 DEF Reported
    <3>2. /\ RecordsAt(evidence', call'.diagnosis) = Reported'
          /\ call'.empty = (call'.diagnosis = {})
      BY <1>1, <2>10, <2>11, <3>1
    <3> QED BY <2>10, <3>2 DEF DiagnosisIsReport, At, Fresh, Unhurt
  <2>13. AdviceIsDecided'
    <3>1. Accepts(evidence', call'.submission, call'.diagnosis)
      BY <1>1, <2>3, <2>7, <2>10
    <3> QED BY <2>10, <2>11, <3>1 DEF AdviceIsDecided, At, Unhurt
  <2>14. AtDecision'
    BY <2>10 DEF AtDecision, At, Deciding
  <2>15. JournalTells' /\ ResultIsJournal' /\ ApprovedIsGrounded' /\ Rooted'
    <3>1. call'.pc \notin {"idle", "publish"} \cup Fresh
      BY <2>10 DEF Fresh
    <3> QED BY <1>1, <1>2, <2>5, <2>10, <3>1, Same, QuietStep
  <2>16. AgentWellTyped' /\ EvidenceIsFine(evidence')
    BY <1>1, <2>5, <2>9, Same DEF AgentWellTyped
  <2>17. InHand'
    <3>1. /\ call'.got \cup call'.diagnosis \cup call'.recommended \subseteq 1..Len(evidence')
          /\ \A n \in 2..Len(nodes') : nodes'[n].call.ids \subseteq 1..Len(evidence')
      BY <1>1, <2>5, <2>10 DEF InHand
    <3>2. \A i \in 1..Len(cli') : cli'[i].parents \subseteq 1..Len(evidence')
      BY <1>1 DEF InHand, Rests
    <3>3. \A i \in 1..Len(call'.todo) : call'.todo[i].parents \subseteq 1..Len(evidence')
      BY <1>1, <2>6, <2>8, <2>10
    <3> QED BY <2>10, <3>1, <3>2, <3>3 DEF InHand, Rests, At
  <2> QED BY <2>12, <2>13, <2>14, <2>15, <2>16, <2>17 DEF AgentInv
<1> QED BY <1>3, <1>4

-----------------------------------------------------------------------------
\* A step of the command line: the call at work does not notice.
LEMMA CliInv ==
  ASSUME AgentInv, UNCHANGED <<nodes, report, result, call>>,
         EvidenceIsFine(evidence'), Extends(evidence, evidence'),
         cli' \in Seq(Plain),
         \A i \in 1..Len(cli') : cli'[i].parents \subseteq 1..Len(evidence')
  PROVE  AgentInv'
<1>1. /\ call \in Calls /\ DiagnosisIsReport /\ AdviceIsDecided /\ InHand /\ AtDecision
      /\ JournalTells /\ ResultIsJournal /\ Rooted
      /\ evidence \in Seq(Record) /\ nodes \in Seq(Root \cup Kid) /\ report \in Report
  BY InvFacts
<1>2. evidence' \in Seq(Record)
  BY DEF EvidenceIsFine
<1>3. /\ 1..Len(evidence) \subseteq 1..Len(evidence')
      /\ Contexts(evidence) \subseteq Contexts(evidence')
      /\ OfKind(evidence, "result") \subseteq OfKind(evidence', "result")
      /\ RecordsAt(evidence', call.diagnosis) = RecordsAt(evidence, call.diagnosis)
      /\ RecordsAt(evidence', call.got) = RecordsAt(evidence, call.got)
      /\ Reported' = Reported
      /\ ApprovedIsGrounded'
  BY <1>2, EvidenceGrows
<1>4. AgentWellTyped'
  <2>1. call' \in Calls'
    BY <1>1 DEF Calls
  <2> QED BY <1>1, <1>2, <2>1 DEF AgentWellTyped
<1>5. InHand'
  <2>1. /\ call'.got \cup call'.diagnosis \cup call'.recommended \subseteq 1..Len(evidence')
        /\ \A n \in 2..Len(nodes') : nodes'[n].call.ids \subseteq 1..Len(evidence')
    BY <1>1, <1>3 DEF InHand
  <2>2. \A i \in 1..Len(call'.todo) : call'.todo[i].parents \subseteq 1..Len(evidence')
    BY <1>1, <1>3 DEF InHand, Rests
  <2>3. call'.todo = <<>> \/ call'.pc \in {"diagnosing", "recommending"}
    BY <1>1 DEF InHand, At
  <2> QED BY <2>1, <2>2, <2>3 DEF InHand, Rests, At
<1>6. AtDecision'
  <2>1. ASSUME call.pc = "audit"
        PROVE  /\ call.submission \in OfKind(evidence', "result")
               /\ \E i \in evidence'[call.submission].parents : i # call.ctx
    <3>1. PICK s : s = call.submission
      OBVIOUS
    <3>2. /\ s \in OfKind(evidence, "result") /\ s \in OfKind(evidence', "result")
          /\ \E i \in evidence[s].parents : i # call.ctx
      BY <1>1, <1>3, <2>1, <3>1 DEF AtDecision, At
    <3>3. evidence'[s] = evidence[s]
      BY <3>2 DEF Extends, OfKind
    <3> QED BY <3>1, <3>2, <3>3
  <2> QED BY <1>1, <1>3, <2>1 DEF AtDecision, At
<1>7. DiagnosisIsReport'
  BY <1>1, <1>3 DEF DiagnosisIsReport, At, Unhurt, Going
<1>8. AdviceIsDecided'
  <2>1. ASSUME Accepts(evidence, call.submission, call.diagnosis)
        PROVE  Accepts(evidence', call.submission, call.diagnosis)
    <3>1. PICK ids, res : ids = call.diagnosis /\ res = call.submission
      OBVIOUS
    <3>2. ids \subseteq 1..Len(evidence) /\ Accepts(evidence, res, ids)
      BY <2>1, <3>1, HandIsNumbers
    <3>3. Accepts(evidence', res, ids)
      BY <1>1, <1>2, <3>2, AcceptsStays
    <3> QED BY <3>1, <3>3
  <2> QED BY <1>1, <2>1 DEF AdviceIsDecided, At, Unhurt, Going
<1>9. JournalTells' /\ Rooted'
  BY <1>1 DEF JournalTells, Told, DidAll, Did, Going, Rooted
<1>10. ResultIsJournal'
  <2>1. Closed' = Closed /\ Told' = Told /\ DidAll' = DidAll /\ Says' = Says
        /\ ToolsTold' = ToolsTold
    BY DEF Closed, ToolOf, Told, DidAll, Did, Says, ToolsTold
  <2>2. \A summary : FromJournal(summary)' = FromJournal(summary)
    BY <2>1 DEF FromJournal
  <2> QED BY <1>1, <2>1, <2>2 DEF ResultIsJournal, At, Going
<1> QED BY <1>3, <1>4, <1>5, <1>6, <1>7, <1>8, <1>9, <1>10 DEF AgentInv

\* A command diagnoses by itself.
LEMMA CliDiagnoseInv == AgentInv /\ CliDiagnose => AgentInv'
<1> SUFFICES ASSUME AgentInv, CliDiagnose
             PROVE  AgentInv'
  OBVIOUS
<1>1. /\ cli' = [i \in 1..Len(report) |-> Diagnostic(report[i], FALSE)]
      /\ UNCHANGED <<evidence, nodes, report, result, call>>
      /\ report \in Report
  BY InvFacts DEF CliDiagnose
<1>2. PICK n : n = Len(report)
  OBVIOUS
<1>3. n \in Nat /\ \A i \in 1..n : report[i] \in Finding
  <2>1. report \in Seq(Finding)
    BY <1>1, AgentAssumption
  <2> QED BY <1>2, <2>1
<1>4. cli' = [i \in 1..n |-> Diagnostic(report[i], FALSE)]
  BY <1>1, <1>2
<1>5. \A i \in 1..n : /\ Diagnostic(report[i], FALSE) \in Plain
                      /\ Diagnostic(report[i], FALSE).parents = {}
  BY <1>3 DEF Diagnostic, Finds, Plain
<1>6. cli' \in [1..n -> Plain]
  BY <1>4, <1>5
<1>7. cli' \in Seq(Plain) /\ Len(cli') = n
  BY <1>3, <1>6
<1>8. \A i \in 1..Len(cli') : cli'[i].parents = {}
  BY <1>4, <1>5, <1>7
<1>9. \A i \in 1..Len(cli') : cli'[i].parents \subseteq 1..Len(evidence')
  BY <1>8
<1> QED BY <1>1, <1>7, <1>9, Same, CliInv

\* A command recommends by itself.
LEMMA CliRecommendInv ==
  ASSUME AgentInv, NEW ids \in SUBSET Diagnosis(evidence), CliRecommend(ids)
  PROVE  AgentInv'
<1>1. PICK actions : actions = Applicable(evidence, ids)
  OBVIOUS
<1>2. /\ cli' = Recommendations(evidence, ids, actions)
      /\ UNCHANGED <<evidence, nodes, report, result, call>>
      /\ evidence \in Seq(Record)
  BY <1>1, InvFacts DEF CliRecommend
<1>3. ids \subseteq 1..Len(evidence) /\ \A i \in ids : evidence[i].kind = "diagnostic"
  BY DEF Diagnosis, OfKind
<1>4. ids \in SUBSET Nat
  BY <1>2, <1>3
<1>5. actions \in SUBSET Action
  <2>1. \A i \in ids : evidence[i].finding \in Finding
    <3> TAKE i \in ids
    <3>1. evidence[i] \in Record
      BY <1>2, <1>3
    <3>2. evidence[i] \in Finds
      BY <1>3, <3>1, RecordKinds
    <3> QED BY <3>2 DEF Finds
  <2> QED BY <1>1, <2>1, DecisionAssumption DEF Applicable, FindingsOf
<1>6. PICK todo : todo = Recommendations(evidence, ids, actions)
  OBVIOUS
<1>7. todo \in Seq(Plain) /\ \A i \in 1..Len(todo) : todo[i].parents \subseteq ids
  BY <1>4, <1>5, <1>6, RecommendationsArePlain
<1>8. cli' = todo /\ Len(evidence') = Len(evidence)
  BY <1>2, <1>6
<1>9. \A i \in 1..Len(cli') : cli'[i].parents \subseteq 1..Len(evidence')
  BY <1>3, <1>7, <1>8
<1> QED BY <1>2, <1>7, <1>8, <1>9, Same, CliInv

\* A command appends its next record.
LEMMA CliAppendInv == AgentInv /\ CliAppend => AgentInv'
<1> SUFFICES ASSUME AgentInv, CliAppend
             PROVE  AgentInv'
  OBVIOUS
<1>1. PICK r : r = Head(cli)
  OBVIOUS
<1>2. /\ cli # <<>> /\ evidence' = AppendRecord(evidence, r) /\ cli' = Tail(cli)
      /\ UNCHANGED <<nodes, report, result, call>>
      /\ cli \in Seq(Plain) /\ InHand /\ EvidenceIsFine(evidence) /\ evidence \in Seq(Record)
  BY <1>1, InvFacts DEF CliAppend
<1>3. /\ r \in Plain /\ r = cli[1] /\ 1 \in 1..Len(cli)
      /\ cli' \in Seq(Plain)
      /\ \A i \in 1..Len(cli') : i + 1 \in 1..Len(cli) /\ cli'[i] = cli[i + 1]
  BY <1>1, <1>2, NextOf
<1>4. r.parents \subseteq 1..Len(evidence) /\ r \in Record
  BY <1>2, <1>3 DEF InHand, Rests, Record
<1>5. EvidenceIsFine(evidence') /\ Extends(evidence, evidence') /\ evidence' \in Seq(Record)
  BY <1>2, <1>3, <1>4, PlainAppended, AppendIs DEF EvidenceIsFine
<1>6. 1..Len(evidence) \subseteq 1..Len(evidence')
  BY <1>2, <1>5, EvidenceGrows
<1>7. \A i \in 1..Len(cli') : cli'[i].parents \subseteq 1..Len(evidence')
  BY <1>2, <1>3, <1>6 DEF InHand, Rests
<1> QED BY <1>2, <1>3, <1>5, <1>7, CliInv

\* The deadline of a context passes.
LEMMA ExpireInv == AgentInv /\ Expire => AgentInv'
<1> SUFFICES ASSUME AgentInv, Expire
             PROVE  AgentInv'
  OBVIOUS
<1>1. /\ UNCHANGED <<evidence, nodes, report, result, call, cli>>
      /\ cli \in Seq(Plain) /\ InHand
  BY InvFacts DEF Expire
<1>2. \A i \in 1..Len(cli') : cli'[i].parents \subseteq 1..Len(evidence')
  BY <1>1 DEF InHand, Rests
<1> QED BY <1>1, <1>2, Same, CliInv

-----------------------------------------------------------------------------
\* A call opens the journal of a run that has none.
LEMMA BeginInv ==
  ASSUME AgentInv, NEW role \in Role, NEW budget \in 0..MaxBudget,
         NEW provider \in Provider, Begin(role, budget, provider)
  PROVE  AgentInv'
<1>1. /\ result = None /\ nodes = <<>>
      /\ call' = [NoCall EXCEPT !.pc = "inspect", !.role = role,
                    !.budget = budget, !.provider = provider, !.leaf = 1]
      /\ UNCHANGED <<evidence, report, result, cli>>
      /\ cli \in Seq(Plain) /\ InHand /\ report \in Report
  BY InvFacts DEF Begin, CreateSession, Calling
<1>2. PICK root : root = [kind |-> "root", parent |-> 0, retryOf |-> 0,
                          call |-> "comprehensive"]
  OBVIOUS
<1>3. nodes' = <<root>>
  BY <1>1, <1>2 DEF Begin, CreateSession, PersistNode
<1>4. root \in Root /\ root.kind = "root"
  BY <1>2 DEF Root
<1>5. nodes' \in Seq(Root \cup Kid) /\ Len(nodes') = 1 /\ nodes'[1] = root
  BY <1>3, <1>4
<1>6. NoCall \in Calls'
  <2>1. call'.result = None
    BY <1>1 DEF NoCall
  <2> QED BY <2>1 DEF NoCall, Calls, Place, Role, Provider, Excuse
<1>7. call' \in Calls'
  <2>1. budget \in Nat
    BY AgentAssumption
  <2> QED BY <1>1, <1>6, <2>1, ZenonT(60) DEF Calls, Place, Tool
<1>8. /\ call'.pc = "inspect" /\ call'.leaf = 1 /\ call'.done = {} /\ call'.diagnosis = {}
      /\ call'.got = {} /\ call'.recommended = {} /\ call'.todo = <<>> /\ call'.result = None
  BY <1>1 DEF NoCall
<1>9. Rooted' /\ ~ Closed'
  BY <1>4, <1>5 DEF Rooted, Closed
<1>10. InHand'
  <2>1. \A i \in 1..Len(cli') : cli'[i].parents \subseteq 1..Len(evidence')
    BY <1>1 DEF InHand, Rests
  <2> QED BY <1>5, <1>8, <2>1 DEF InHand, Rests
<1>11. AtDecision' /\ DiagnosisIsReport' /\ AdviceIsDecided'
  BY <1>8 DEF AtDecision, DiagnosisIsReport, AdviceIsDecided, At, Fresh, Unhurt, Deciding
<1>12. JournalTells'
  <2>1. 2..Len(nodes') = {}
    BY <1>5
  <2>2. Told' = {}
    BY <2>1 DEF Told
  <2>3. DidAll' = {}
    <3>1. DidAll' = {t \in Tool : \E n \in 2..Len(nodes') :
                                    nodes'[n].call.tool = t /\ nodes'[n].call.says = "done"}
      BY DEF DidAll, Did
    <3>2. PICK S : S = 2..Len(nodes')
      OBVIOUS
    <3>3. \A t \in DidAll' : \E n \in S : TRUE
      BY <3>1, <3>2
    <3> QED BY <2>1, <3>2, <3>3
  <2>4. nodes' # <<>>
    BY <1>3
  <2>5. call'.leaf = Len(nodes')
    BY <1>5, <1>8
  <2>6. call'.diagnosis = {} /\ call'.done = {}
    BY <1>8
  <2>7. call'.diagnosis = Told' /\ call'.done = DidAll'
    BY <2>2, <2>3, <2>6
  <2>8. "diagnose" \notin DidAll'
    BY <2>3
  <2> QED BY <2>7, <2>8, <2>4, <2>5 DEF JournalTells
<1>13. ResultIsJournal' /\ ApprovedIsGrounded'
  BY <1>1, <1>8, <1>9 DEF ResultIsJournal, ApprovedIsGrounded
<1>14. AgentWellTyped' /\ EvidenceIsFine(evidence')
  BY <1>1, <1>5, <1>7, Same, InvFacts DEF AgentWellTyped
<1> QED BY <1>9, <1>10, <1>11, <1>12, <1>13, <1>14 DEF AgentInv

\* The result is published.
LEMMA PublishInv == AgentInv /\ Publish => AgentInv'
BY NoCallIsFine DEF Publish, Calling

\* What is recovered from a journal is the result it stands for.
LEMMA RecoveredIs ==
  ASSUME AgentInv, NEW provider, Recovered(provider) # None
  PROVE  Closed /\ Recovered(provider) = FromJournal(TRUE)
<1>1. /\ nodes \in Seq(Root \cup Kid) /\ Rooted
  BY InvFacts
<1>2. PICK attempt, says : attempt = Last(Attempts) /\ says = ArgsOf(Len(nodes))
  OBVIOUS
<1>3. PICK r : r = AgentResult([approved |-> says.approved, reasons |-> says.reasons,
                                evidence |-> IdsOf(Len(nodes))],
                     PublicTools(attempt), DiagnosisOf(attempt), Len(Attempts) - 1,
                     Len(nodes), TRUE, DoneIn(attempt))
  OBVIOUS
<1>4. Closed /\ r.diagnosis \subseteq r.evidence /\ Recovered(provider) = r
  BY <1>2, <1>3 DEF Recovered
<1>5. nodes # <<>>
  BY <1>4 DEF Closed
<1>6. Attempts = <<Attempt>> /\ attempt = Attempt
  BY <1>1, <1>2, <1>5, OneAttempt
<1>7. /\ DiagnosisOf(attempt) = Told /\ DoneIn(attempt) = DidAll
      /\ PublicTools(attempt) = ToolsTold
  BY <1>1, <1>5, <1>6, JournalReadings
<1>8. Len(Attempts) - 1 = 0
  BY <1>6
<1>9. says = Says.args /\ IdsOf(Len(nodes)) = Says.ids
  BY <1>2 DEF Says, ArgsOf, IdsOf
<1>10. r.diagnosis = Told /\ r.evidence = Says.ids
  BY <1>3, <1>7, <1>9 DEF AgentResult
<1>11. Told = Told \cap Says.ids
  BY <1>4, <1>10
<1>12. r = FromJournal(TRUE)
  BY <1>3, <1>7, <1>8, <1>9, <1>11 DEF FromJournal
<1> QED BY <1>4, <1>12

\* A later call answers from the closed journal.
LEMMA RecoverInv ==
  ASSUME AgentInv, NEW role \in Role, NEW provider \in Provider, Recover(role, provider)
  PROVE  AgentInv'
<1>1. /\ call.pc = "idle" /\ call \in Calls
      /\ result' = Recovered(provider) /\ Recovered(provider) # None
      /\ UNCHANGED <<evidence, nodes, report, call, cli>>
      /\ InHand /\ AtDecision /\ Rooted /\ ResultIsJournal
  BY InvFacts DEF Recover, At, Calling
<1>2. Closed /\ result' = FromJournal(TRUE)
  BY <1>1, RecoveredIs
<1>3. ResultIsJournal'
  <2>1. Closed' = Closed /\ Told' = Told /\ DidAll' = DidAll /\ Says' = Says
        /\ ToolsTold' = ToolsTold
    BY <1>1 DEF Closed, ToolOf, Told, DidAll, Did, Says, ToolsTold
  <2>2. FromJournal(TRUE)' = FromJournal(TRUE)
    BY <1>1, <2>1 DEF FromJournal
  <2>3. call'.result = None /\ call'.pc = "idle"
    BY <1>1 DEF ResultIsJournal, At
  <2>4. ASSUME NEW r \in {result', call'.result} \ {None}
        PROVE  Closed' /\ \E summary \in BOOLEAN : r = FromJournal(summary)'
    BY <1>2, <2>1, <2>2, <2>3
  <2> QED BY <2>3, <2>4 DEF ResultIsJournal, At, Going
<1>4. AgentWellTyped' /\ EvidenceIsFine(evidence')
  <2>1. call' \in Calls'
    BY <1>1 DEF Calls
  <2> QED BY <1>1, <2>1, Same, InvFacts DEF AgentWellTyped
<1>5. InHand' /\ AtDecision' /\ Rooted'
  BY <1>1 DEF InHand, Rests, AtDecision, At, Rooted, Deciding
<1>6. DiagnosisIsReport' /\ AdviceIsDecided' /\ JournalTells'
  BY <1>1 DEF DiagnosisIsReport, AdviceIsDecided, JournalTells, At, Fresh, Unhurt, Going
<1>7. ApprovedIsGrounded'
  BY <1>1, Same, EvidenceGrows
<1> QED BY <1>3, <1>4, <1>5, <1>6, <1>7 DEF AgentInv

-----------------------------------------------------------------------------
\* The records that the reviewed call has named as accepted.
AcceptedActions ==
  IF call.submission = 0 THEN {} ELSE {evidence[call.submission].actions}

Verdict ==
  Judge(call.diagnosis, call.recommended, AcceptedActions,
        call.denied, call.failed, call.empty, call.attempt)

Resolved == Resolves(call.diagnosis, call.recommended, AcceptedActions)

\* What the review says, and that it never asks for another attempt.
LEMMA VerdictIs ==
  ASSUME AgentInv, At("review"), NEW says, says = Verdict
  PROVE  /\ says.approved \in BOOLEAN /\ says.reasons \in SUBSET Complaint
         /\ says.retry = FALSE
         /\ says.evidence = IF Resolved THEN Business ELSE {}
         /\ says.approved => Resolved /\ Unhurt
<1>1. call \in Calls /\ DiagnosisIsReport
  BY InvFacts
<1>2. PICK claimed, found, denied, failed, empty :
        /\ claimed = call.diagnosis
        /\ found = IF Resolved THEN Business ELSE {}
        /\ denied = call.denied
        /\ failed = (call.failed \/ ~ Resolved)
        /\ empty = call.empty
  OBVIOUS
<1>3. call.attempt = 0 /\ denied \in BOOLEAN /\ failed \in BOOLEAN /\ empty \in BOOLEAN
      /\ call.failed \in BOOLEAN
  BY <1>1, <1>2 DEF Calls
<1>4. says = Review(found, claimed, denied, failed, empty, 0)
  BY <1>2, <1>3 DEF Verdict, Judge, Resolved, Business
<1>5. PICK nothing \in BOOLEAN :
        nothing = (empty /\ claimed = {} /\ ~ failed /\ ~ denied)
  OBVIOUS
<1>6. PICK reasons : reasons =
        {r \in Recoverable \cup {"permission_denied", "tool_failure"} :
           \/ r = "missing_evidence"  /\ ~ nothing /\ found = {}
           \/ r = "permission_denied" /\ denied
           \/ r = "missing_diagnosis" /\ ~ nothing /\ claimed \cap found = {}
           \/ r = "evidence_mismatch" /\ ~ (claimed \subseteq found)
           \/ r = "tool_failure"      /\ failed}
  OBVIOUS
<1>7. says = [approved |-> reasons = {}, reasons |-> reasons, evidence |-> found,
              retry |-> reasons # {} /\ 0 < 1 /\ reasons \subseteq Recoverable]
  BY <1>4, <1>5, <1>6, ZenonT(60) DEF Review
<1>8. PICK ok, again : /\ ok = (reasons = {})
                        /\ again = (reasons # {} /\ 0 < 1 /\ reasons \subseteq Recoverable)
  OBVIOUS
<1>9. says = [approved |-> ok, reasons |-> reasons, evidence |-> found, retry |-> again]
  BY <1>7, <1>8
<1>10. /\ says.approved = ok /\ says.reasons = reasons /\ says.evidence = found
       /\ says.retry = again
  BY <1>9
<1>11. reasons \in SUBSET Complaint
  BY <1>6 DEF Complaint
<1>12. CASE denied \/ failed
  <2>1. \E r \in reasons : r \notin Recoverable
    <3>1. CASE denied
      <4>1. "permission_denied" \in reasons /\ "permission_denied" \notin Recoverable
        BY <1>6, <3>1 DEF Recoverable
      <4> QED BY <4>1
    <3>2. CASE failed
      <4>1. "tool_failure" \in reasons /\ "tool_failure" \notin Recoverable
        BY <1>6, <3>2 DEF Recoverable
      <4> QED BY <4>1
    <3> QED BY <1>12, <3>1, <3>2
  <2>2. reasons # {} /\ ~ (reasons \subseteq Recoverable)
    BY <2>1
  <2>3. ok = FALSE /\ again = FALSE
    BY <1>8, <2>2
  <2> QED BY <1>2, <1>11, <1>10, <2>3
<1>13. CASE ~ denied /\ ~ failed
  <2>1. Resolved /\ Unhurt /\ found = Business
    BY <1>2, <1>3, <1>13 DEF Unhurt
  <2>2. empty = (claimed = {})
    BY <1>1, <1>2, <2>1 DEF DiagnosisIsReport
  <2>3. claimed \subseteq found
    BY <1>2, <2>1 DEF Business
  <2>4. reasons = {}
    <3>1. CASE claimed = {}
      <4>1. nothing
        BY <1>5, <1>13, <2>2, <3>1
      <4> QED BY <1>6, <1>13, <2>3, <4>1
    <3>2. CASE claimed # {}
      <4>1. found # {} /\ claimed \cap found # {}
        BY <2>3, <3>2
      <4> QED BY <1>6, <1>13, <2>3, <4>1
    <3> QED BY <3>1, <3>2
  <2>5. ok = TRUE /\ again = FALSE
    BY <1>8, <2>4
  <2> QED BY <1>11, <1>10, <2>1, <2>5
<1> QED BY <1>12, <1>13

-----------------------------------------------------------------------------
\* An approved call is grounded: says is what the review says of it.
LEMMA ApprovedCall ==
  ASSUME AgentInv, At("review"), Unhurt, Resolved
  PROVE  GroundedFor(Business, call.diagnosis)
<1>1. /\ call \in Calls /\ DiagnosisIsReport /\ AdviceIsDecided
      /\ evidence \in Seq(Record) /\ report \in Report
  BY InvFacts
<1>2. RecordsAt(evidence, call.diagnosis) = Reported
  BY <1>1 DEF DiagnosisIsReport
<1>3. CASE call.diagnosis = {}
  <2>1. call.recommended = {}
    BY <1>1, <1>3 DEF AdviceIsDecided
  <2>2. Reported = {}
    BY <1>2, <1>3 DEF RecordsAt
  <2>3. report = <<>>
    <3>1. report \in Seq(Finding)
      BY <1>1, AgentAssumption
    <3>2. \A i \in 1..Len(report) : Diagnostic(report[i], TRUE) \in Reported
      BY DEF Reported
    <3>3. ~ (1 \in 1..Len(report))
      BY <2>2, <3>2
    <3> QED BY <3>1, <3>3
  <2> QED BY <1>3, <2>1, <2>3 DEF GroundedFor, Business
<1>4. CASE call.diagnosis # {}
  <2>1. PICK res : res = call.submission
    OBVIOUS
  <2>2. Accepts(evidence, res, call.diagnosis) /\ res \in 1..Len(evidence)
    BY <1>1, <1>4, <2>1 DEF AdviceIsDecided, Accepts
  <2>3. res # 0
    BY <2>2
  <2>4. AcceptedActions = {evidence[res].actions}
    BY <2>1, <2>3 DEF AcceptedActions
  <2>5. /\ call.diagnosis \subseteq Diagnosis(evidence)
        /\ call.recommended \subseteq OfKind(evidence, "recommendation")
        /\ {evidence[r].action : r \in call.recommended} = evidence[res].actions
    BY <2>4 DEF Resolved, Resolves
  <2>6. Business \ call.diagnosis = call.recommended
    <3>1. \A i \in call.recommended : i \notin call.diagnosis
      BY <2>5 DEF Diagnosis, OfKind
    <3> QED BY <3>1 DEF Business
  <2>7. ActionsAt(evidence, Business \ call.diagnosis) = evidence[res].actions
    BY <2>5, <2>6 DEF ActionsAt
  <2> QED BY <1>2, <2>2, <2>7 DEF GroundedFor
<1> QED BY <1>3, <1>4

\* The review as an entry of the journal.
LEMMA ReviewIsEntry ==
  ASSUME NEW says, says.approved \in BOOLEAN, says.reasons \in SUBSET Complaint,
         says.evidence \in SUBSET Nat, NEW entry, entry = ReviewCall(says, 0)
  PROVE  /\ entry \in Entry /\ entry.tool = "review" /\ entry.ids = says.evidence
         /\ entry.says = "reviewed"
         /\ entry.args.approved = says.approved /\ entry.args.reasons = says.reasons
<1>1. PICK args : args = [approved |-> says.approved, reasons |-> says.reasons,
                          attempt |-> 0]
  OBVIOUS
<1>2. entry = [tool |-> "review", says |-> "reviewed", ids |-> says.evidence,
               args |-> args]
  BY <1>1 DEF ReviewCall
<1>3. args \in [approved : BOOLEAN, reasons : SUBSET Complaint, attempt : {0}]
  BY <1>1
<1>4. entry \in Entry
  BY <1>2, <1>3 DEF ReviewEntry, Entry
<1> QED BY <1>1, <1>2, <1>4

\* The tools made public, with the review.
LEMMA ReviewIsTold ==
  ASSUME nodes \in Seq(Root \cup Kid), nodes # <<>>, Rooted,
         nodes' \in Seq(Root \cup Kid), Len(nodes') = Len(nodes) + 1,
         \A n \in 1..Len(nodes) : nodes'[n] = nodes[n],
         nodes'[Len(nodes) + 1].call.tool = "review"
  PROVE  ToolsTold' = Append(ToolsTold, "review")
<1>1. PICK N : N = Len(nodes)
  OBVIOUS
<1>2. N \in Nat \ {0}
  BY <1>1
<1>3. PICK S : S = Tool \cup {"decision", "review"}
  OBVIOUS
<1>4. PICK tools : tools = [i \in 1..(N - 1) |-> nodes[1 + i].call.tool]
  OBVIOUS
<1>5. PICK more : more = [i \in 1..N |-> nodes'[1 + i].call.tool]
  OBVIOUS
<1>6. \A n \in 2..N : nodes[n].call.tool \in S
  <2> TAKE n \in 2..N
  <2>1. n \in 1..Len(nodes) /\ n # 1
    BY <1>1, <1>2
  <2>2. nodes[n] \in Kid
    BY <2>1 DEF Rooted, Root
  <2>3. nodes[n].call \in Entry
    BY <2>2 DEF Kid
  <2> QED BY <1>3, <2>3, EntryTools
<1>7. tools \in [1..(N - 1) -> S]
  BY <1>2, <1>4, <1>6
<1>8. N - 1 \in Nat /\ tools \in Seq(S) /\ Len(tools) = N - 1
  BY <1>2, <1>7
<1>9. more = Append(tools, "review")
  <2>1. \A i \in 1..(N - 1) : more[i] = tools[i]
    BY <1>1, <1>2, <1>4, <1>5
  <2>2. more[N] = "review"
    BY <1>1, <1>2, <1>5
  <2>3. PICK app : app = Append(tools, "review")
    OBVIOUS
  <2>4. "review" \in S
    BY <1>3
  <2>5. app \in Seq(S) /\ Len(app) = N /\ app[N] = "review"
        /\ \A i \in 1..(N - 1) : app[i] = tools[i]
    BY <1>2, <1>8, <2>3, <2>4
  <2>6. app \in [1..N -> S]
    BY <2>5
  <2>7. \A i \in 1..N : app[i] = more[i]
    BY <1>2, <2>1, <2>2, <2>5
  <2>8. app = more
    BY <1>5, <2>6, <2>7
  <2> QED BY <2>3, <2>8
<1>10. "review" \in S /\ "review" # "decision"
  BY <1>3
<1>11. WithoutDecision(Append(tools, "review")) = Append(WithoutDecision(tools), "review")
  BY <1>8, <1>10, WithoutGrows
<1>12. ToolsTold = WithoutDecision(tools)
  BY <1>1, <1>4 DEF ToolsTold
<1>13. ToolsTold' = WithoutDecision(more)
  <2>1. Len(nodes') - 1 = N
    BY <1>1, <1>2
  <2> QED BY <1>5, <2>1 DEF ToolsTold
<1> QED BY <1>9, <1>11, <1>12, <1>13

-----------------------------------------------------------------------------
\* The review closes the journal, and the result is what the journal stands for.
LEMMA ReviewAttemptInv == AgentInv /\ ReviewAttempt => AgentInv'
<1> SUFFICES ASSUME AgentInv, ReviewAttempt
             PROVE  AgentInv'
  OBVIOUS
<1>1. PICK decision : decision = Verdict
  OBVIOUS
<1>2. /\ At("review") /\ call.pc = "review" /\ call \in Calls /\ call.attempt = 0
      /\ UNCHANGED <<evidence, report, result, cli>>
      /\ nodes \in Seq(Root \cup Kid) /\ Rooted /\ InHand
      /\ JournalTells /\ ResultIsJournal
      /\ evidence \in Seq(Record) /\ cli \in Seq(Plain)
  BY InvFacts DEF ReviewAttempt, At, Calling, Calls
<1>3. Going /\ nodes # <<>> /\ call.leaf = Len(nodes) /\ call.leaf \in Nat
      /\ call.diagnosis = Told /\ call.done = DidAll
  BY <1>2 DEF Going, JournalTells, Calls
<1>4. /\ decision.approved \in BOOLEAN /\ decision.reasons \in SUBSET Complaint
      /\ decision.retry = FALSE
      /\ decision.evidence = IF Resolved THEN Business ELSE {}
      /\ decision.approved => Resolved /\ Unhurt
  BY <1>1, <1>2, VerdictIs
<1>5. decision.evidence \subseteq 1..Len(evidence) /\ decision.evidence \in SUBSET Nat
  BY <1>4, HandIsNumbers
<1>6. PICK entry : entry = ReviewCall(decision, 0)
  OBVIOUS
<1>7. /\ entry \in Entry /\ entry.tool = "review" /\ entry.ids = decision.evidence
      /\ entry.says = "reviewed"
      /\ entry.args.approved = decision.approved /\ entry.args.reasons = decision.reasons
  BY <1>4, <1>5, <1>6, ReviewIsEntry
<1>8. PublicTools(Last(Attempts)) = ToolsTold
  BY <1>2, <1>3, OneAttempt, JournalReadings
<1>9. PICK answer : answer =
        AgentResult(decision, Append(ToolsTold, "review"),
          call.diagnosis \cap decision.evidence, 0, Len(nodes) + 1,
          "inspect" \in call.done, call.done)
  OBVIOUS
<1>10. /\ nodes' = Append(nodes, Child(call.leaf, entry))
       /\ call' = [call EXCEPT !.pc = "publish", !.result = answer]
  BY <1>1, <1>2, <1>4, <1>6, <1>8, <1>9
     DEF ReviewAttempt, PersistNode, Verdict, AcceptedActions
<1>11. /\ nodes' \in Seq(Root \cup Kid) /\ nodes' # <<>> /\ Rooted'
       /\ Len(nodes') = Len(nodes) + 1 /\ Len(nodes) \in Nat \ {0}
       /\ \A n \in 1..Len(nodes) : nodes'[n] = nodes[n]
       /\ nodes'[Len(nodes) + 1].call = entry
       /\ Closed' /\ Told' = Told /\ DidAll' = DidAll
  <2>1. entry.tool \notin Tool /\ entry.tool # "diagnose"
    BY <1>7 DEF Tool
  <2> QED BY <1>2, <1>3, <1>7, <1>10, <2>1, JournalGrows
<1>12. Says' = entry
  BY <1>11 DEF Says
<1>13. ToolsTold' = Append(ToolsTold, "review")
  BY <1>2, <1>3, <1>7, <1>11, ReviewIsTold
<1>14. /\ call'.pc = "publish" /\ call'.result = answer
       /\ call'.got = call.got /\ call'.diagnosis = call.diagnosis
       /\ call'.recommended = call.recommended /\ call'.todo = call.todo
  BY <1>2, <1>10 DEF Calls
<1>15. call' \in Calls'
  BY <1>2, <1>10, <1>14, ZenonT(60) DEF Calls, Place
<1>16. AgentWellTyped' /\ EvidenceIsFine(evidence')
  BY <1>2, <1>11, <1>15, Same, InvFacts DEF AgentWellTyped
<1>17. InHand'
  <2>1. \A n \in 2..Len(nodes') : nodes'[n].call.ids \subseteq 1..Len(evidence')
    <3> TAKE n \in 2..Len(nodes')
    <3>1. CASE n = Len(nodes) + 1
      BY <1>2, <1>5, <1>7, <1>11, <3>1
    <3>2. CASE n \in 2..Len(nodes)
      BY <1>2, <1>11, <3>2 DEF InHand
    <3> QED BY <1>11, <3>1, <3>2
  <2>2. call'.todo = <<>>
    BY <1>2, <1>14 DEF InHand, At
  <2>3. call'.got \cup call'.diagnosis \cup call'.recommended \subseteq 1..Len(evidence')
    BY <1>2, <1>14 DEF InHand
  <2>4. \A i \in 1..Len(cli') : cli'[i].parents \subseteq 1..Len(evidence')
    BY <1>2 DEF InHand, Rests
  <2> QED BY <2>1, <2>2, <2>3, <2>4 DEF InHand, Rests
<1>18. /\ AtDecision' /\ DiagnosisIsReport' /\ AdviceIsDecided' /\ JournalTells'
  BY <1>14 DEF AtDecision, DiagnosisIsReport, AdviceIsDecided, JournalTells, At, Fresh,
               Unhurt, Going, Deciding
<1>19. ResultIsJournal'
  <2>1. PICK summary : summary = ("inspect" \in call.done)
    OBVIOUS
  <2>2. summary \in BOOLEAN
    BY <2>1
  <2>3. FromJournal(summary)' =
          AgentResult([approved |-> entry.args.approved, reasons |-> entry.args.reasons,
                       evidence |-> entry.ids],
                      Append(ToolsTold, "review"), Told \cap entry.ids, 0,
                      Len(nodes) + 1, summary, DidAll)
    BY <1>11, <1>12, <1>13 DEF FromJournal
  <2>4. FromJournal(summary)' = answer
    BY <1>3, <1>7, <1>9, <2>1, <2>3 DEF AgentResult
  <2>5. result' = None
    BY <1>2, <1>3 DEF ResultIsJournal, At
  <2>6. ~ Going' /\ ~ At("idle")' /\ At("publish")'
    BY <1>14 DEF Going, At
  <2>7. ASSUME NEW r \in {result', call'.result} \ {None}
        PROVE  Closed' /\ \E s \in BOOLEAN : r = FromJournal(s)'
    BY <1>11, <1>14, <2>4, <2>5, <2>7, <2>2
  <2> QED BY <2>5, <2>6, <2>7 DEF ResultIsJournal
<1>20. ApprovedIsGrounded'
  <2>1. SUFFICES ASSUME decision.approved
                 PROVE  GroundedFor(Says.ids, Told \cap Says.ids)'
    BY <1>7, <1>12 DEF ApprovedIsGrounded
  <2>2. PICK ids, diagnosis : ids = Business /\ diagnosis = call.diagnosis
    OBVIOUS
  <2>3. Resolved /\ Unhurt /\ decision.evidence = ids
    BY <1>4, <2>1, <2>2
  <2>4. GroundedFor(ids, diagnosis)
    BY <1>2, <2>2, <2>3, ApprovedCall
  <2>5. Says.ids' = ids
    BY <1>7, <1>12, <2>3
  <2>6. (Told \cap Says.ids)' = diagnosis
    <3>1. diagnosis \subseteq ids
      BY <2>2 DEF Business
    <3> QED BY <1>3, <1>11, <2>2, <2>5, <3>1
  <2>7. GroundedFor(ids, diagnosis)'
    <3>1. Reported' = Reported
      BY <1>2 DEF Reported
    <3> QED BY <1>2, <2>4, <3>1 DEF GroundedFor
  <2> QED BY <2>5, <2>6, <2>7
<1> QED BY <1>11, <1>16, <1>17, <1>18, <1>19, <1>20 DEF AgentInv

-----------------------------------------------------------------------------
\* Nothing is there at first.
LEMMA AgentStarts == Init => AgentInv
<1> SUFFICES ASSUME Init
             PROVE  AgentInv
  OBVIOUS
<1>1. /\ evidence = <<>> /\ nodes = <<>> /\ report \in Report /\ result = None
      /\ call = NoCall /\ cli = <<>>
  BY DEF Init, EvidenceInit, SessionInit
<1>2. call \in Calls
  BY <1>1 DEF NoCall, Calls, Place, Role, Provider, Excuse
<1>3. /\ call.pc = "idle" /\ call.got = {} /\ call.diagnosis = {} /\ call.recommended = {}
      /\ call.todo = <<>> /\ call.result = None
  BY <1>1 DEF NoCall
<1>4. AgentWellTyped
  BY <1>1, <1>2 DEF AgentWellTyped
<1>5. EvidenceIsFine(evidence)
  <2>1. Len(evidence) = 0 /\ evidence \in Seq(Record)
    BY <1>1
  <2>2. Contexts(evidence) = {}
    BY <2>1 DEF Contexts, OfKind
  <2> QED BY <2>1, <2>2 DEF EvidenceIsFine, VerifyChain, Apart
<1>6. Rooted /\ ~ Closed
  BY <1>1 DEF Rooted, Closed
<1>7. InHand
  BY <1>1, <1>3 DEF InHand, Rests
<1>8. AtDecision /\ DiagnosisIsReport /\ AdviceIsDecided /\ JournalTells
  BY <1>3 DEF AtDecision, DiagnosisIsReport, AdviceIsDecided, JournalTells, At, Fresh,
              Unhurt, Going, Deciding
<1>9. ResultIsJournal /\ ApprovedIsGrounded
  BY <1>1, <1>3, <1>6 DEF ResultIsJournal, ApprovedIsGrounded, At, Going
<1> QED BY <1>4, <1>5, <1>6, <1>7, <1>8, <1>9 DEF AgentInv

\* Nothing happens.
LEMMA AgentStutters == AgentInv /\ UNCHANGED vars => AgentInv'
<1> SUFFICES ASSUME AgentInv, UNCHANGED vars
             PROVE  AgentInv'
  OBVIOUS
<1>1. /\ UNCHANGED <<evidence, nodes, report, result, call, cli>>
      /\ cli \in Seq(Plain) /\ InHand
  BY InvFacts DEF vars
<1>2. \A i \in 1..Len(cli') : cli'[i].parents \subseteq 1..Len(evidence')
  BY <1>1 DEF InHand, Rests
<1> QED BY <1>1, <1>2, Same, CliInv

\* Every step keeps the invariant.
LEMMA AgentSteps == AgentInv /\ [Next]_vars => AgentInv'
<1> SUFFICES ASSUME AgentInv, [Next]_vars
             PROVE  AgentInv'
  OBVIOUS
<1>1. ASSUME NEW role \in Role, NEW budget \in 0..MaxBudget, NEW provider \in Provider,
             Begin(role, budget, provider)
      PROVE  AgentInv'
  BY <1>1, BeginInv
<1>2. CASE ToolStep
  BY <1>2, DeniedInv, ToolFailsInv, InspectInv, DiagnoseInv, AppendNextInv, DiagnosedInv,
     DiscoverInv, RecommendInv, NothingToRecommendInv, RecommendedInv DEF ToolStep
<1>3. CASE DecisionStep
  BY <1>3, PrepareInv, IssueInv, PrepareFailsInv, ResolveInv, HostSilentInv, SubmitInv,
     PersistInv, SubmitFailsInv, AuditInv, RecordUnavailableInv, AuditOutcomeInv,
     UnavailableFailsInv DEF DecisionStep
<1>4. CASE ReviewAttempt \/ Publish \/ Abandon
  BY <1>4, ReviewAttemptInv, PublishInv, AbandonInv
<1>5. ASSUME NEW role \in Role, NEW provider \in Provider, Recover(role, provider)
      PROVE  AgentInv'
  BY <1>5, RecoverInv
<1>6. CASE Expire
  BY <1>6, ExpireInv
<1>7. CASE CliStep
  BY <1>7, CliDiagnoseInv, CliAppendInv, CliRecommendInv DEF CliStep
<1>8. CASE UNCHANGED vars
  BY <1>8, AgentStutters
<1> QED BY <1>1, <1>2, <1>3, <1>4, <1>5, <1>6, <1>7, <1>8 DEF Next

\* In every state a call, the commands and the crashes between them reach
\* (agents/orchestrator.py, run), the evidence is fine, the call
\* and the journal agree, and a result is what its closed journal stands for.
THEOREM AgentInvariance == Spec => []AgentInv
<1> QED BY AgentStarts, AgentSteps, PTL DEF Spec

\* A journal of a root and its children holds no retry.
LEMMA EachOnce == AgentInv => SingleAttempt
<1> SUFFICES ASSUME AgentInv, NEW n \in 1..Len(nodes)
             PROVE  nodes[n].kind # "retry"
  BY DEF SingleAttempt
<1>1. nodes[n] \in Root \cup Kid
  BY InvFacts
<1> QED BY <1>1 DEF Root, Kid

\* A run makes one attempt: the reviewer's recoverable complaints never lead to a
\* retry, whatever fails (orchestrator.py, run; planner.py).
THEOREM OneAttemptOnly == Spec => []SingleAttempt
<1> QED BY AgentInvariance, EachOnce, PTL

\* A pair of two has two members.
LEMMA PairHasTwo ==
  ASSUME NEW a, NEW b, a # b
  PROVE  Cardinality({a, b}) = 2
<1>1. IsFiniteSet({a}) /\ Cardinality({a}) = 1
  BY FS_Singleton
<1>2. Cardinality({a} \cup {b}) = 2
  BY <1>1, FS_AddElement
<1>3. {a} \cup {b} = {a, b}
  OBVIOUS
<1> QED BY <1>2, <1>3

\* In fine evidence every context is decided once.
LEMMA DecisionsAreOne == AgentInv => OneDecision
<1> SUFFICES ASSUME AgentInv, NEW c \in Contexts(evidence)
             PROVE  /\ \A d \in Contexts(evidence) :
                         c = d \/ evidence[c].anchor # evidence[d].anchor
                    /\ LET made == DecisionRecords(evidence, c)
                           kinds == {evidence[i].kind : i \in made}
                       IN  /\ kinds \in {{}, {"proposal", "result"}, {"unavailable"}}
                           /\ Cardinality(made) = Cardinality(kinds)
  BY DEF OneDecision
<1>1. EvidenceIsFine(evidence)
  BY InvFacts
<1>2. \A d \in Contexts(evidence) : c = d \/ evidence[c].anchor # evidence[d].anchor
  BY <1>1 DEF EvidenceIsFine, Apart
<1>3. PICK made : made = DecisionRecords(evidence, c)
  OBVIOUS
<1>4. PICK kinds : kinds = {evidence[i].kind : i \in made}
  OBVIOUS
<1>5. DecidedBy(evidence, made)
  BY <1>1, <1>3 DEF EvidenceIsFine
<1>6. CASE made = {}
  <2>1. kinds = {}
    BY <1>4, <1>6
  <2> QED BY <1>2, <1>3, <1>4, <1>6, <2>1
<1>7. ASSUME NEW p \in 1..Len(evidence), NEW r \in 1..Len(evidence), made = {p, r},
             evidence[p].kind = "proposal", evidence[r].kind = "result"
      PROVE  /\ kinds = {"proposal", "result"} /\ Cardinality(made) = Cardinality(kinds)
  <2>1. kinds = {"proposal", "result"}
    BY <1>4, <1>7
  <2>2. p # r /\ "proposal" # "result"
    BY <1>7
  <2>3. Cardinality({p, r}) = 2 /\ Cardinality({"proposal", "result"}) = 2
    BY <2>2, PairHasTwo
  <2> QED BY <1>7, <2>1, <2>2, <2>3
<1>8. ASSUME NEW u \in 1..Len(evidence), made = {u}, evidence[u].kind = "unavailable"
      PROVE  /\ kinds = {"unavailable"} /\ Cardinality(made) = Cardinality(kinds)
  <2>1. kinds = {"unavailable"}
    BY <1>4, <1>8
  <2> QED BY <1>8, <2>1, FS_Singleton
<1> QED BY <1>2, <1>3, <1>4, <1>5, <1>6, <1>7, <1>8 DEF DecidedBy

\* Contexts are anchored apart, and each has a proposal with its result, or an
\* unavailable outcome, or nothing yet, and never two of them (decision_controller.py).
THEOREM ContextsAreDecidedOnce == Spec => []OneDecision
<1> QED BY AgentInvariance, DecisionsAreOne, PTL

Whole(a, b, c, d, e, f, s, t) ==
  [approved |-> a, reasons |-> b, evidence |-> c, diagnosis |-> d, tools |-> e, attempt |-> 0,
   leaf |-> f, summary |-> s, stages |-> t]
Cleared(r) == [r EXCEPT !.summary = TRUE, !.stages = {}]

\* A result without its summary.
LEMMA OnlySummary ==
  ASSUME NEW a, NEW b, NEW c, NEW d, NEW e, NEW f, NEW s, NEW t
  PROVE  Cleared(Whole(a, b, c, d, e, f, s, t)) = Whole(a, b, c, d, e, f, TRUE, {})
<1> DEFINE All == [approved : {a}, reasons : {b}, evidence : {c}, diagnosis : {d}, tools : {e},
                   attempt : {0}, leaf : {f}, summary : {s, TRUE}, stages : {t, {}}]
<1>1. PICK x, y : x = Whole(a, b, c, d, e, f, s, t) /\ y = Cleared(x)
  OBVIOUS
<1>2. x \in All
  BY <1>1 DEF Whole
<1>3. y \in All /\ y.summary = TRUE /\ y.stages = {}
  BY <1>1, <1>2 DEF Cleared
<1>4. /\ y.approved = a /\ y.reasons = b /\ y.evidence = c /\ y.diagnosis = d
      /\ y.tools = e /\ y.attempt = 0 /\ y.leaf = f
  BY <1>3
<1>5. y = Whole(a, b, c, d, e, f, TRUE, {})
  BY <1>3, <1>4 DEF Whole
<1> QED BY <1>1, <1>5

\* Results that differ in the summary only are alike without it.
LEMMA ClearedAlike ==
  ASSUME NEW a, NEW b, NEW c, NEW d, NEW e, NEW f, NEW s, NEW t, NEW s1, NEW t1
  PROVE  Cleared(Whole(a, b, c, d, e, f, s, t)) = Cleared(Whole(a, b, c, d, e, f, s1, t1))
BY OnlySummary, ZenonT(60)

\* The recovered result and the given one stand for the same journal.
LEMMA AnswersAreSame == AgentInv => SameAnswer
<1> SUFFICES ASSUME AgentInv, NEW provider \in Provider,
                    NEW r \in {result, call.result} \ {None},
                    Recovered(provider) # None
             PROVE  SameResult(Recovered(provider), r)
  BY DEF SameAnswer
<1>1. PICK summary \in BOOLEAN : r = FromJournal(summary)
  BY InvFacts DEF ResultIsJournal
<1>2. Recovered(provider) = FromJournal(TRUE)
  BY RecoveredIs
<1>3. PICK says, tools, diagnosis, leaf, stages :
        /\ says = Says /\ tools = ToolsTold /\ diagnosis = Told \cap Says.ids
        /\ leaf = Len(nodes) /\ stages = Stages(DidAll)
  OBVIOUS
<1>4. PICK r0 : r0 = Recovered(provider)
  OBVIOUS
<1>5. \A s : FromJournal(s) =
        [approved |-> says.args.approved, reasons |-> says.args.reasons,
         evidence |-> says.ids, diagnosis |-> diagnosis, tools |-> tools, attempt |-> 0,
         leaf |-> leaf, summary |-> s, stages |-> IF s THEN stages ELSE {}]
  BY <1>3 DEF FromJournal, AgentResult
<1>6. r0 = [approved |-> says.args.approved, reasons |-> says.args.reasons,
            evidence |-> says.ids, diagnosis |-> diagnosis, tools |-> tools, attempt |-> 0,
            leaf |-> leaf, summary |-> TRUE, stages |-> stages]
  BY <1>2, <1>4, <1>5
<1>7. r = [approved |-> says.args.approved, reasons |-> says.args.reasons,
           evidence |-> says.ids, diagnosis |-> diagnosis, tools |-> tools, attempt |-> 0,
           leaf |-> leaf, summary |-> summary, stages |-> IF summary THEN stages ELSE {}]
  BY <1>1, <1>5
<1>8. Cleared(r0) = Cleared(r)
  <2>1. PICK some : some = IF summary THEN stages ELSE {}
    OBVIOUS
  <2>2. PICK approved, reasons, ids : /\ approved = says.args.approved
                                      /\ reasons = says.args.reasons /\ ids = says.ids
    OBVIOUS
  <2>3. r0 = Whole(approved, reasons, ids, diagnosis, tools, leaf, TRUE, stages)
    BY <1>6, <2>2 DEF Whole
  <2>4. r = Whole(approved, reasons, ids, diagnosis, tools, leaf, summary, some)
    BY <1>7, <2>1, <2>2 DEF Whole
  <2>5. \A s, t, s1, t1 :
          Cleared(Whole(approved, reasons, ids, diagnosis, tools, leaf, s, t))
            = Cleared(Whole(approved, reasons, ids, diagnosis, tools, leaf, s1, t1))
    BY ClearedAlike
  <2>6. Cleared(Whole(approved, reasons, ids, diagnosis, tools, leaf, TRUE, stages))
          = Cleared(Whole(approved, reasons, ids, diagnosis, tools, leaf, summary, some))
    BY <2>5
  <2> QED BY <2>3, <2>4, <2>6
<1>9. r0.summary /\ r.summary => r0.stages = r.stages
  BY <1>6, <1>7
<1> QED BY <1>4, <1>8, <1>9 DEF SameResult, Cleared

\* What a later call recovers from a closed journal is what the first call answered
\* or is about to answer, up to the summary (orchestrator.py, recover_terminal_result).
THEOREM SameAnswerAgain == Spec => []SameAnswer
<1> QED BY AgentInvariance, AnswersAreSame, PTL

\* The closed journal of an approved result is grounded.
LEMMA ApprovedResult == AgentInv => ApprovalIsGrounded
<1> SUFFICES ASSUME AgentInv, result # None, result.approved
             PROVE  \/ report = <<>> /\ result.evidence = {}
                    \/ /\ {evidence[i] : i \in result.diagnosis}
                             = {Diagnostic(report[i], TRUE) : i \in 1..Len(report)}
                       /\ \E res \in OfKind(evidence, "result") : GroundedIn(result, res)
  BY DEF ApprovalIsGrounded
<1>1. ResultIsJournal /\ ApprovedIsGrounded /\ evidence \in Seq(Record) /\ report \in Report
  BY InvFacts
<1>2. Closed /\ \E summary \in BOOLEAN : result = FromJournal(summary)
  BY <1>1 DEF ResultIsJournal
<1>3. PICK ids, diagnosis : ids = Says.ids /\ diagnosis = Told \cap Says.ids
  OBVIOUS
<1>4. result.evidence = ids /\ result.diagnosis = diagnosis /\ Says.args.approved
  BY <1>2, <1>3 DEF FromJournal, AgentResult
<1>5. GroundedFor(ids, diagnosis)
  BY <1>1, <1>2, <1>3, <1>4 DEF ApprovedIsGrounded
<1>6. CASE report = <<>> /\ ids = {}
  BY <1>4, <1>6
<1>7. ASSUME RecordsAt(evidence, diagnosis) = Reported, NEW res \in 1..Len(evidence),
             Accepts(evidence, res, diagnosis),
             ActionsAt(evidence, ids \ diagnosis) = evidence[res].actions
      PROVE  /\ {evidence[i] : i \in result.diagnosis}
                   = {Diagnostic(report[i], TRUE) : i \in 1..Len(report)}
             /\ \E e \in OfKind(evidence, "result") : GroundedIn(result, e)
  <2>1. PICK ctx \in 1..Len(evidence), prop \in 1..Len(evidence) :
          /\ evidence[res].parents = {ctx, prop}
          /\ evidence[ctx].kind = "context" /\ evidence[prop].kind = "proposal"
          /\ evidence[prop].inTime /\ evidence[res].reasons = {}
          /\ evidence[res].actions = evidence[prop].proposal.actions
          /\ evidence[res].actions \subseteq Applicable(evidence, diagnosis)
    BY <1>7 DEF Accepts
  <2>2. res \in OfKind(evidence, "result")
    BY <1>7 DEF Accepts, OfKind
  <2>3. (CHOOSE i \in evidence[res].parents : evidence[i].kind = "proposal") = prop
    BY <2>1
  <2>4. {evidence[i] : i \in result.diagnosis} = Reported
    BY <1>4, <1>7 DEF RecordsAt
  <2>5. {evidence[i].action : i \in result.evidence \ result.diagnosis}
          = evidence[prop].proposal.actions
    BY <1>4, <1>7, <2>1 DEF ActionsAt
  <2>6. Applicable(evidence, diagnosis) \subseteq {ActionFor[report[i]] : i \in 1..Len(report)}
    <3>1. \A i \in diagnosis : \E k \in 1..Len(report) : evidence[i].finding = report[k]
      <4> TAKE i \in diagnosis
      <4>1. evidence[i] \in Reported
        BY <1>7 DEF RecordsAt
      <4>2. PICK k \in 1..Len(report) : evidence[i] = Diagnostic(report[k], TRUE)
        BY <4>1 DEF Reported
      <4> QED BY <4>2 DEF Diagnostic
    <3> QED BY <3>1 DEF Applicable, FindingsOf
  <2>7. GroundedIn(result, res)
    BY <2>1, <2>3, <2>5, <2>6 DEF GroundedIn
  <2> QED BY <2>2, <2>4, <2>7 DEF Reported
<1> QED BY <1>5, <1>6, <1>7 DEF GroundedFor

\* An approved result rests on the whole deterministic report, and what it recommends
\* on a proposal that was accepted for these findings, unless there was nothing to
\* report (reviewer.py, decision_controller.py).
THEOREM ApprovalsAreGrounded == Spec => []ApprovalIsGrounded
<1> QED BY AgentInvariance, ApprovedResult, PTL
=============================================================================
