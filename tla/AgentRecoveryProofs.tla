------------------------- MODULE AgentRecoveryProofs -------------------------
(***************************************************************************)
(* The journal of AgentOrchestrator can be recovered, for every report,    *)
(* budget, set of host proposals and number of faults and commands.        *)
(*                                                                         *)
(* AgentInv, of AgentOrchestratorProofs, tells what a result is that was   *)
(* recovered; it does not tell that one is.  For that, every check of      *)
(* validate_terminal_result has to pass on every entry, and each of them   *)
(* compares the entry with others, with the evidence as it is now and with *)
(* what the call had in mind when it was written.  TrailInv says so of     *)
(* every entry as soon as it is there, and of the call what the next entry *)
(* needs.  It is inductive relative to AgentInv.  First come the readings  *)
(* of a growing evidence, then the actions, then the review, and at the    *)
(* end the checks of the recovery, one lemma for each.                     *)
(***************************************************************************)
EXTENDS AgentOrchestratorProofs, SequenceTheorems

-----------------------------------------------------------------------------
(***************************************************************************)
(* The second inductive invariant: what is in a journal, entry by entry,   *)
(* so that every check of recover_terminal_result passes on it.            *)
(***************************************************************************)

\* The evidence holds a record once, and no bound finding that is not reported.
Distinct(log) == \A i, j \in 1..Len(log) : log[i] = log[j] => i = j
Ours(r) == r.kind = "diagnostic" /\ r.bound => r \in Reported
AllOurs(records) == \A i \in 1..Len(records) : Ours(records[i])

FindingsAreOurs ==
  Distinct(evidence) /\ AllOurs(evidence) /\ AllOurs(call.todo) /\ AllOurs(cli)

\* A decision in the evidence, which replays as long as its context loads.
Submitted(log, ctx, prop, res) ==
  /\ {ctx, prop, res} \subseteq 1..Len(log)
  /\ log[ctx].kind = "context"
  /\ log[prop].kind = "proposal" /\ log[prop].parents = {ctx}
  /\ log[res].kind = "result" /\ log[res].parents = {ctx, prop}
  /\ Validate(log, ctx, log[prop].proposal, log[prop].inTime)
       = [reasons |-> log[res].reasons, actions |-> log[res].actions]
  /\ ExactSubmission(log, ctx, prop, res)

Lacking(log, ctx, out) ==
  /\ {ctx, out} \subseteq 1..Len(log)
  /\ log[ctx].kind = "context"
  /\ log[out].kind = "unavailable" /\ log[out].parents = {ctx}
  /\ ExactUnavailable(log, ctx, out)

Accepting(log, args) == "res" \in DOMAIN args /\ log[args.res].reasons = {}

\* The tools that may follow an entry of the journal.
Followers(log, e) ==
  IF e.tool \in Tool /\ e.says # "done" THEN {"review"}
  ELSE IF e.tool = "inspect" THEN {"diagnose"}
  ELSE IF e.tool = "diagnose" THEN {"discover"}
  ELSE IF e.tool = "discover"
       THEN IF e.ids = {} THEN {"recommend"} ELSE {"decision", "review"}
  ELSE IF e.tool = "decision"
       THEN IF Accepting(log, e.args) THEN {"recommend"} ELSE {"review"}
  ELSE IF e.tool = "recommend" THEN {"review"} ELSE {}

After(n) == IF n = 1 THEN {"inspect"} ELSE Followers(evidence, nodes[n].call)

Chain ==
  \A n \in 2..Len(nodes) : nodes[n].parent = n - 1 /\ nodes[n].call.tool \in After(n - 1)

\* What the entry e of a tool says, after the entry prev and of the findings told.
Advice(log, ids, actions) == {Recommendation(log, ids, a) : a \in actions}

AdviceAfter(log, told, prev) ==
  IF prev.tool = "decision" THEN Advice(log, told, log[prev.args.res].actions) ELSE {}

Names(log, reported, told, prev, e) ==
  /\ e.tool = "inspect" \/ (e.tool = "diagnose" /\ e.says # "done") => e.ids = {}
  /\ e.tool = "diagnose" /\ e.says = "done" => RecordsAt(log, e.ids) = reported
  /\ e.tool = "discover" \/ (e.tool = "recommend" /\ e.says # "done") => e.ids = told
  /\ e.tool = "recommend" /\ e.says = "done" =>
       /\ told \subseteq e.ids
       /\ RecordsAt(log, e.ids \ told) = AdviceAfter(log, told, prev)

ToolFits(log, reported, told, prev, e) ==
  /\ e.args.diagnosis = IF e.tool = "recommend" THEN told ELSE {}
  /\ Names(log, reported, told, prev, e)

\* What the entry of a decision says: it replays, for the entry before it.
SubmittedBy(log, args) ==
  /\ Submitted(log, args.ctx, args.prop, args.res)
  /\ \E provider \in Provider : log[args.prop].binding = Binding(provider)
LackingBy(log, args) ==
  /\ Lacking(log, args.ctx, args.out)
  /\ \E provider \in Provider : log[args.out].binding = Binding(provider)

AuditFits(log, told, anchor, args) ==
  /\ args.ctx \in 1..Len(log) /\ log[args.ctx] = Context(0, anchor, told)
  /\ IF "res" \in DOMAIN args THEN SubmittedBy(log, args) ELSE LackingBy(log, args)

Fits(n) ==
  LET e == nodes[n].call
  IN  /\ e.tool \in Tool => ToolFits(evidence, Reported, Told, nodes[n - 1].call, e)
      /\ e.tool = "decision" => AuditFits(evidence, Told, n - 1, e.args)

EntriesFit == \A n \in 2..Len(nodes) : Fits(n)

\* The call goes on where the journal ends.
Turn(pc) ==
  IF pc \in {"diagnose", "diagnosing"} THEN "diagnose"
  ELSE IF pc \in {"recommend", "recommending"} THEN "recommend"
  ELSE IF pc \in {"prepare", "issue"} \cup Deciding THEN "decision"
  ELSE pc

CallIsInTurn ==
  Going =>
    /\ Turn(call.pc) \in After(Len(nodes))
    /\ ~ At("review") => ~ call.denied /\ ~ call.failed
    /\ At("diagnosing") \/ At("recommending") \/ call.got = {}
    /\ call.empty = ("diagnose" \in call.done /\ call.diagnosis = {})

\* What the review is about to hear of failures and of advice.
ReviewHears ==
  At("review") =>
    /\ call.denied = (Says.says = "denied")
    /\ call.failed = \/ Says.says = "failed" \/ Says.tool = "decision"
                     \/ Did(Len(nodes), "discover")
    /\ call.recommended = IF Did(Len(nodes), "recommend")
                          THEN Says.ids \ call.diagnosis ELSE {}

\* The decision of the call, until and after it is in the journal.
Audited(n) == nodes[n].call.tool = "decision" /\ "res" \in DOMAIN nodes[n].call.args

SubmissionIsTold ==
  IF call.submission = 0 THEN \A n \in 2..Len(nodes) : ~ Audited(n)
  ELSE \E n \in 2..Len(nodes) : Audited(n) /\ nodes[n].call.args.res = call.submission

Late == {"recommend", "recommending", "review"}

DecisionIsTold ==
  /\ Going /\ call.pc \notin Late \cup {"audit", "unavailable"} => call.submission = 0
  /\ call.pc \in Late => SubmissionIsTold
  /\ At("unavailable") => \/ call.submission = 0
                          \/ /\ call.reason = "submission_error"
                             /\ ~ NoSubmission(evidence, call.ctx)
  /\ call.pc \in Deciding =>
       evidence[call.ctx] = Context(0, Len(nodes), call.diagnosis)
  /\ At("audit") => \E prop \in 1..Len(evidence) :
       /\ Submitted(evidence, call.ctx, prop, call.submission)
       /\ evidence[prop].binding = Binding(call.provider)
  /\ At("auditOutcome") =>
       /\ Lacking(evidence, call.ctx, call.outcome)
       /\ evidence[call.outcome].binding = Binding(call.provider)

AdviceIsGiven ==
  At("recommending") =>
    RecordsAt(evidence, call.got) \cup {call.todo[i] : i \in 1..Len(call.todo)}
      = Advice(evidence, call.diagnosis, evidence[call.submission].actions)

CallIsTold == CallIsInTurn /\ ReviewHears /\ DecisionIsTold /\ AdviceIsGiven

\* The review of a closed journal is the one that its entries imply.
Advised ==
  (UNION {nodes[n].call.ids : n \in {m \in 2..Len(nodes) : Did(m, "recommend")}}) \ Told
DeniedIn == \E n \in 2..Len(nodes) : nodes[n].call.says = "denied"
FailedIn ==
  \E n \in 2..Len(nodes) :
    \/ nodes[n].call.says = "failed"
    \/ nodes[n].call.tool = "decision" /\ ~ Accepting(evidence, nodes[n].call.args)
EmptyIn  == "diagnose" \in DidAll /\ Told = {}
Implied  == Review(Told \cup Advised, Told, DeniedIn, FailedIn, EmptyIn, 0)

\* The two ways a journal is left that cannot be recovered.
Halfway ==
  /\ \E n \in 2..Len(nodes) : /\ nodes[n].call.tool = "decision"
                              /\ Accepting(evidence, nodes[n].call.args)
  /\ "recommend" \notin DidAll
Unheard ==
  /\ "discover" \in DidAll /\ Told # {}
  /\ \A n \in 2..Len(nodes) : nodes[n].call.tool # "decision"

ReviewIsImplied ==
  Closed /\ ~ Halfway /\ ~ Unheard => Says = ReviewCall(Implied, 0)

TrailInv ==
  /\ FindingsAreOurs /\ Chain /\ EntriesFit /\ CallIsTold /\ ReviewIsImplied

-----------------------------------------------------------------------------
\* A record is appended at most once.
LEMMA DistinctGrows ==
  ASSUME NEW log \in Seq(Record), Distinct(log), NEW r \in Record,
         NEW more, more = AppendRecord(log, r)
  PROVE  Distinct(more)
<1>1. CASE Held(log, r)
  BY <1>1 DEF AppendRecord
<1>2. CASE ~ Held(log, r)
  <2>1. more = Append(log, r)
    BY <1>2 DEF AppendRecord
  <2>2. /\ Len(log) \in Nat /\ Len(more) = Len(log) + 1
        /\ more[Len(log) + 1] = r /\ \A i \in 1..Len(log) : more[i] = log[i]
    BY <2>1
  <2>3. \A i \in 1..Len(log) : log[i] # r
    BY <1>2 DEF Held
  <2>4. \A i \in 1..Len(more) : i \in 1..Len(log) \/ i = Len(log) + 1
    BY <2>2
  <2>5. ASSUME NEW i \in 1..Len(more), NEW j \in 1..Len(more), more[i] = more[j]
        PROVE  i = j
    <3>1. CASE i \in 1..Len(log) /\ j \in 1..Len(log)
      BY <2>2, <2>5, <3>1 DEF Distinct
    <3>2. CASE i \in 1..Len(log) /\ j = Len(log) + 1
      BY <2>2, <2>3, <2>5, <3>2
    <3>3. CASE i = Len(log) + 1 /\ j \in 1..Len(log)
      BY <2>2, <2>3, <2>5, <3>3
    <3> QED BY <2>4, <3>1, <3>2, <3>3
  <2> QED BY <2>5 DEF Distinct
<1> QED BY <1>1, <1>2

\* What is in the longer log was there, or is the record that was appended.
LEMMA AppendedFrom ==
  ASSUME NEW log \in Seq(Record), NEW r \in Record, NEW more, more = AppendRecord(log, r)
  PROVE  \A i \in 1..Len(more) : more[i] = r \/ (i \in 1..Len(log) /\ more[i] = log[i])
<1>1. CASE Held(log, r)
  BY <1>1 DEF AppendRecord
<1>2. CASE ~ Held(log, r)
  <2>1. more = Append(log, r)
    BY <1>2 DEF AppendRecord
  <2>2. /\ Len(log) \in Nat /\ Len(more) = Len(log) + 1
        /\ more[Len(log) + 1] = r /\ \A i \in 1..Len(log) : more[i] = log[i]
    BY <2>1
  <2> QED BY <2>2
<1> QED BY <1>1, <1>2

-----------------------------------------------------------------------------
\* No context that is decided is decided again.
Settled(log, more) ==
  \A c \in 1..Len(log) : DecisionRecords(log, c) # {} =>
    DecisionRecords(more, c) = DecisionRecords(log, c)

\* A record that decides only a context without a decision settles nothing else.
LEMMA SettledByOne ==
  ASSUME NEW log \in Seq(Record), NEW r \in Record, NEW more, more = AppendRecord(log, r),
         \A c \in 1..Len(log) : Targets(r, c) => DecisionRecords(log, c) = {}
  PROVE  Settled(log, more)
<1>1. CASE Held(log, r)
  BY <1>1 DEF AppendRecord, Settled
<1>2. CASE ~ Held(log, r)
  <2>1. more = Append(log, r)
    BY <1>2 DEF AppendRecord
  <2>2. ASSUME NEW c \in 1..Len(log), DecisionRecords(log, c) # {}
        PROVE  DecisionRecords(more, c) = DecisionRecords(log, c)
    <3>1. ~ Targets(r, c)
      BY <2>2
    <3> QED BY <2>1, <3>1, DecisionsAppended
  <2> QED BY <2>2 DEF Settled
<1> QED BY <1>1, <1>2

\* What was validated is validated again.
LEMMA ValidStays ==
  ASSUME NEW log \in Seq(Record), VerifyChain(log), NEW more, Extends(log, more),
         NEW ctx \in 1..Len(log), NEW p, NEW inTime
  PROVE  Validate(more, ctx, p, inTime) = Validate(log, ctx, p, inTime)
<1>1. more[ctx] = log[ctx]
  BY DEF Extends
<1>2. PICK ids : ids = log[ctx].parents
  OBVIOUS
<1>3. ids \subseteq 1..Len(log)
  <2>1. ids \subseteq 1..(ctx - 1)
    BY <1>2 DEF VerifyChain
  <2> QED BY <2>1
<1>4. Applicable(more, ids) = Applicable(log, ids)
  BY <1>3, ReadingsStay
<1>5. Reasons(more, ctx, p, inTime) = Reasons(log, ctx, p, inTime)
  BY <1>1, <1>2, <1>4 DEF Reasons
<1> QED BY <1>5 DEF Validate

\* A decision of the evidence stays one when the evidence has grown.
LEMMA SubmittedStays ==
  ASSUME NEW log \in Seq(Record), VerifyChain(log), NEW more, Extends(log, more),
         Settled(log, more), Len(log) \in Nat, Len(more) \in Nat,
         NEW ctx, NEW prop, NEW res, Submitted(log, ctx, prop, res)
  PROVE  Submitted(more, ctx, prop, res)
<1>1. /\ ctx \in 1..Len(log) /\ prop \in 1..Len(log) /\ res \in 1..Len(log)
      /\ DecisionRecords(log, ctx) = {prop, res}
      /\ log[ctx].kind = "context"
      /\ log[prop].kind = "proposal" /\ log[prop].parents = {ctx}
      /\ log[res].kind = "result" /\ log[res].parents = {ctx, prop}
      /\ Validate(log, ctx, log[prop].proposal, log[prop].inTime)
           = [reasons |-> log[res].reasons, actions |-> log[res].actions]
  BY DEF Submitted, ExactSubmission
<1>2. /\ {ctx, prop, res} \subseteq 1..Len(more)
      /\ more[ctx] = log[ctx] /\ more[prop] = log[prop] /\ more[res] = log[res]
  BY <1>1 DEF Extends
<1>3. DecisionRecords(more, ctx) = {prop, res}
  BY <1>1 DEF Settled
<1>4. PICK p, inTime : p = log[prop].proposal /\ inTime = log[prop].inTime
  OBVIOUS
<1>5. Validate(more, ctx, p, inTime) = Validate(log, ctx, p, inTime)
  BY <1>1, ValidStays
<1> QED BY <1>1, <1>2, <1>3, <1>4, <1>5 DEF Submitted, ExactSubmission

\* A decision that there was none stays so.
LEMMA LackingStays ==
  ASSUME NEW log \in Seq(Record), NEW more, Extends(log, more),
         Settled(log, more), Len(log) \in Nat, Len(more) \in Nat,
         NEW ctx, NEW out, Lacking(log, ctx, out)
  PROVE  Lacking(more, ctx, out)
<1>1. /\ ctx \in 1..Len(log) /\ out \in 1..Len(log)
      /\ DecisionRecords(log, ctx) = {out}
      /\ log[ctx].kind = "context"
      /\ log[out].kind = "unavailable" /\ log[out].parents = {ctx}
  BY DEF Lacking, ExactUnavailable
<1>2. /\ {ctx, out} \subseteq 1..Len(more)
      /\ more[ctx] = log[ctx] /\ more[out] = log[out]
  BY <1>1 DEF Extends
<1>3. DecisionRecords(more, ctx) = {out}
  BY <1>1 DEF Settled
<1> QED BY <1>1, <1>2, <1>3 DEF Lacking, ExactUnavailable

\* The recommendations for the same findings are the same.
Within(ids, log) == ids \subseteq 1..Len(log)

\* Advice about old findings does not change with new records.
LEMMA AdviceStays ==
  ASSUME NEW log, NEW more, Extends(log, more), NEW ids, Within(ids, log), NEW actions
  PROVE  Advice(more, ids, actions) = Advice(log, ids, actions)
<1>1. \A i \in ids : more[i] = log[i]
  BY DEF Extends, Within
<1>2. ASSUME NEW a
      PROVE  Recommendation(more, ids, a) = Recommendation(log, ids, a)
  <2>1. {i \in ids : ActionFor[more[i].finding] = a} = {i \in ids : ActionFor[log[i].finding] = a}
    BY <1>1
  <2> QED BY <2>1 DEF Recommendation
<1> QED BY <1>2 DEF Advice

-----------------------------------------------------------------------------
\* An entry that fits still does when the evidence has grown.
LEMMA ToolFitsStays ==
  ASSUME NEW log \in Seq(Record), NEW more, Extends(log, more),
         NEW reported, NEW told, told \subseteq 1..Len(log),
         NEW prev, NEW e, e.ids \subseteq 1..Len(log), e.tool \in Tool,
         prev.tool = "decision" /\ e.tool = "recommend" /\ e.says = "done" =>
           prev.args.res \in 1..Len(log),
         ToolFits(log, reported, told, prev, e)
  PROVE  ToolFits(more, reported, told, prev, e)
<1>1. RecordsAt(more, e.ids) = RecordsAt(log, e.ids)
  BY ReadingsStay
<1>2. RecordsAt(more, e.ids \ told) = RecordsAt(log, e.ids \ told)
  <2>1. PICK ids : ids = e.ids \ told
    OBVIOUS
  <2>2. ids \subseteq 1..Len(log)
    BY <2>1
  <2> QED BY <2>1, <2>2, ReadingsStay
<1>3. e.tool = "recommend" /\ e.says = "done" =>
        AdviceAfter(more, told, prev) = AdviceAfter(log, told, prev)
  <2>1. CASE prev.tool = "decision" /\ e.tool = "recommend" /\ e.says = "done"
    <3>1. PICK actions : actions = log[prev.args.res].actions
      OBVIOUS
    <3>2. more[prev.args.res].actions = actions
      BY <2>1, <3>1 DEF Extends
    <3>3. PICK ids : ids = told
      OBVIOUS
    <3>4. Within(ids, log)
      BY <3>3 DEF Within
    <3>5. Advice(more, ids, actions) = Advice(log, ids, actions)
      BY <3>4, AdviceStays
    <3> QED BY <2>1, <3>1, <3>2, <3>3, <3>5 DEF AdviceAfter
  <2> QED BY <2>1 DEF AdviceAfter
<1>4. Names(log, reported, told, prev, e)
  BY DEF ToolFits
<1>5. Names(more, reported, told, prev, e)
  <2>1. CASE e.tool = "inspect"
    BY <1>4, <2>1 DEF Names
  <2>2. CASE e.tool = "diagnose"
    BY <1>1, <1>4, <2>2 DEF Names
  <2>3. CASE e.tool = "discover"
    BY <1>4, <2>3 DEF Names
  <2>4. CASE e.tool = "recommend"
    BY <1>2, <1>3, <1>4, <2>4 DEF Names
  <2> QED BY <2>1, <2>2, <2>3, <2>4 DEF Tool
<1> QED BY <1>5 DEF ToolFits

\* The entry of a decision goes on saying what it said.
LEMMA AuditFitsStays ==
  ASSUME NEW log \in Seq(Record), VerifyChain(log), NEW more, Extends(log, more),
         Settled(log, more), Len(log) \in Nat, Len(more) \in Nat,
         NEW told, NEW anchor, NEW args, AuditFits(log, told, anchor, args)
  PROVE  AuditFits(more, told, anchor, args)
<1>1. args.ctx \in 1..Len(log) /\ log[args.ctx] = Context(0, anchor, told)
  BY DEF AuditFits
<1>2. args.ctx \in 1..Len(more) /\ more[args.ctx] = Context(0, anchor, told)
  BY <1>1 DEF Extends
<1>3. CASE "res" \in DOMAIN args
  <2>1. PICK ctx, prop, res : ctx = args.ctx /\ prop = args.prop /\ res = args.res
    OBVIOUS
  <2>2. Submitted(log, ctx, prop, res)
        /\ \E provider \in Provider : log[prop].binding = Binding(provider)
    BY <1>3, <2>1 DEF AuditFits, SubmittedBy
  <2>3. Submitted(more, ctx, prop, res)
    BY <2>2, SubmittedStays
  <2>4. more[prop] = log[prop]
    BY <2>2 DEF Submitted, Extends
  <2> QED BY <1>2, <1>3, <2>1, <2>2, <2>3, <2>4 DEF AuditFits, SubmittedBy
<1>4. CASE "res" \notin DOMAIN args
  <2>1. PICK ctx, out : ctx = args.ctx /\ out = args.out
    OBVIOUS
  <2>2. Lacking(log, ctx, out)
        /\ \E provider \in Provider : log[out].binding = Binding(provider)
    BY <1>4, <2>1 DEF AuditFits, LackingBy
  <2>3. Lacking(more, ctx, out)
    BY <2>2, LackingStays
  <2>4. more[out] = log[out]
    BY <2>2 DEF Lacking, Extends
  <2> QED BY <1>2, <1>4, <2>1, <2>2, <2>3, <2>4 DEF AuditFits, LackingBy
<1> QED BY <1>3, <1>4

\* Whether a decision accepts does not change.
LEMMA AcceptingStays ==
  ASSUME NEW log, NEW more, Extends(log, more), NEW told, NEW anchor,
         NEW args, AuditFits(log, told, anchor, args)
  PROVE  Accepting(more, args) = Accepting(log, args)
<1>1. CASE "res" \in DOMAIN args
  <2>1. args.res \in 1..Len(log)
    BY <1>1 DEF AuditFits, SubmittedBy, Submitted
  <2> QED BY <2>1 DEF Accepting, Extends
<1>2. CASE "res" \notin DOMAIN args
  BY <1>2 DEF Accepting
<1> QED BY <1>1, <1>2

-----------------------------------------------------------------------------
\* The entry of a node that is not the root, and where the ids of the entries are.
LEMMA EntryAt ==
  ASSUME AgentInv, NEW n \in 2..Len(nodes)
  PROVE  /\ n \in Nat /\ n \in 1..Len(nodes) /\ n - 1 \in 1..Len(nodes)
         /\ nodes[n] \in Kid /\ nodes[n].call \in Entry
         /\ nodes[n].call.ids \subseteq 1..Len(evidence)
<1>1. nodes \in Seq(Root \cup Kid) /\ Len(nodes) \in Nat /\ Rooted /\ InHand
  BY InvFacts
<1>2. n \in Nat /\ n \in 1..Len(nodes) /\ n - 1 \in 1..Len(nodes) /\ n # 1
  BY <1>1
<1>3. nodes[n] \in Root \cup Kid /\ nodes[n].kind # "root"
  BY <1>1, <1>2 DEF Rooted
<1>4. nodes[n] \in Kid
  BY <1>3 DEF Root
<1>5. nodes[n].call \in Entry
  BY <1>4 DEF Kid
<1> QED BY <1>1, <1>2, <1>4, <1>5 DEF InHand

\* The findings told are in the evidence.
LEMMA ToldIsHeld ==
  ASSUME AgentInv
  PROVE  Told \subseteq 1..Len(evidence)
<1>1. \A n \in 2..Len(nodes) : nodes[n].call.ids \subseteq 1..Len(evidence)
  BY EntryAt
<1> QED BY <1>1 DEF Told

\* The tool of an entry, and that only a decision counts as accepting.
LEMMA DecisionAt ==
  ASSUME AgentInv, EntriesFit, NEW n \in 2..Len(nodes), nodes[n].call.tool = "decision"
  PROVE  AuditFits(evidence, Told, n - 1, nodes[n].call.args)
BY DEF EntriesFit, Fits

\* What the longer evidence says of the entries of the journal.
SameAccepted(more) ==
  \A n \in 2..Len(nodes) : nodes[n].call.tool = "decision" =>
    Accepting(more, nodes[n].call.args) = Accepting(evidence, nodes[n].call.args)

\* Whether a decision accepted does not change.
LEMMA AcceptedSame ==
  ASSUME AgentInv, EntriesFit, NEW more, Extends(evidence, more)
  PROVE  SameAccepted(more)
<1> SUFFICES ASSUME NEW n \in 2..Len(nodes), nodes[n].call.tool = "decision"
             PROVE  Accepting(more, nodes[n].call.args) = Accepting(evidence, nodes[n].call.args)
  BY DEF SameAccepted
<1>1. PICK args, told, anchor : args = nodes[n].call.args /\ told = Told /\ anchor = n - 1
  OBVIOUS
<1>2. AuditFits(evidence, told, anchor, args)
  BY <1>1, DecisionAt
<1>3. Accepting(more, args) = Accepting(evidence, args)
  BY <1>2, AcceptingStays
<1> QED BY <1>1, <1>3

\* So the same tools may follow an entry.
LEMMA SameAfter ==
  ASSUME AgentInv, EntriesFit, Extends(evidence, evidence'), nodes' = nodes,
         NEW n \in 1..Len(nodes)
  PROVE  After(n)' = After(n)
<1>1. SameAccepted(evidence')
  BY AcceptedSame
<1>2. CASE n = 1
  BY <1>2 DEF After
<1>3. CASE n # 1
  <2>1. n \in 2..Len(nodes)
    BY <1>3, InvFacts
  <2>2. nodes[n].call.tool = "decision" =>
          Accepting(evidence', nodes[n].call.args) = Accepting(evidence, nodes[n].call.args)
    BY <1>1, <2>1 DEF SameAccepted
  <2>3. PICK e : e = nodes[n].call
    OBVIOUS
  <2>4. Followers(evidence', e) = Followers(evidence, e)
    BY <2>2, <2>3 DEF Followers
  <2> QED BY <1>3, <2>3, <2>4 DEF After
<1> QED BY <1>2, <1>3

\* Growing evidence disturbs neither the journal nor its review.
LEMMA ChainStays ==
  ASSUME AgentInv, EntriesFit, Chain, Extends(evidence, evidence'), nodes' = nodes
  PROVE  Chain'
<1> SUFFICES ASSUME NEW n \in 2..Len(nodes)
             PROVE  nodes[n].parent = n - 1 /\ nodes[n].call.tool \in After(n - 1)'
  BY DEF Chain
<1>1. n - 1 \in 1..Len(nodes)
  BY EntryAt
<1>2. After(n - 1)' = After(n - 1)
  <2>1. PICK m : m = n - 1
    OBVIOUS
  <2>2. After(m)' = After(m)
    BY <1>1, <2>1, SameAfter
  <2> QED BY <2>1, <2>2
<1> QED BY <1>2 DEF Chain

\* Advice after a decision has the result of that decision to rest on.
LEMMA AdviceHasResult ==
  ASSUME AgentInv, EntriesFit, Chain, NEW n \in 2..Len(nodes),
         nodes[n].call.tool = "recommend", nodes[n - 1].call.tool = "decision"
  PROVE  /\ n - 1 \in 2..Len(nodes) /\ Accepting(evidence, nodes[n - 1].call.args)
         /\ nodes[n - 1].call.args.res \in 1..Len(evidence)
<1>1. nodes[n].call.tool \in After(n - 1) /\ n \in Nat /\ n - 1 \in 1..Len(nodes)
  BY EntryAt DEF Chain
<1>2. n - 1 # 1
  BY <1>1 DEF After
<1>3. n - 1 \in 2..Len(nodes)
  BY <1>1, <1>2, InvFacts
<1>4. nodes[n].call.tool \in Followers(evidence, nodes[n - 1].call)
  BY <1>1, <1>2 DEF After
<1>5. Accepting(evidence, nodes[n - 1].call.args)
  BY <1>4 DEF Followers, Tool
<1>6. PICK m, args : m = n - 1 /\ args = nodes[n - 1].call.args
  OBVIOUS
<1>7. AuditFits(evidence, Told, m - 1, args)
  BY <1>3, <1>6, DecisionAt
<1>8. args.res \in 1..Len(evidence)
  BY <1>5, <1>6, <1>7 DEF AuditFits, Accepting, SubmittedBy, Submitted
<1> QED BY <1>3, <1>5, <1>6, <1>8

\* Every entry still fits when the evidence has grown.
LEMMA FitsStays ==
  ASSUME AgentInv, EntriesFit, Chain, Extends(evidence, evidence'),
         Settled(evidence, evidence'), evidence' \in Seq(Record),
         nodes' = nodes, report' = report
  PROVE  EntriesFit'
<1>1. Told' = Told
  BY DEF Told, Did
<1>2. Reported' = Reported
  BY DEF Reported
<1> SUFFICES ASSUME NEW n \in 2..Len(nodes)
             PROVE  Fits(n)'
  BY DEF EntriesFit
<1>3. Fits(n)
  BY DEF EntriesFit
<1>4. PICK e, prev, told, reported, more : 
        /\ e = nodes[n].call /\ prev = nodes[n - 1].call
        /\ told = Told /\ reported = Reported /\ more = evidence'
  OBVIOUS
<1>5. e.tool \in Tool => ToolFits(more, reported, told, prev, e)
  <2> SUFFICES ASSUME e.tool \in Tool
               PROVE  ToolFits(more, reported, told, prev, e)
    OBVIOUS
  <2>1. ToolFits(evidence, reported, told, prev, e)
    BY <1>3, <1>4 DEF Fits
  <2>2. told \subseteq 1..Len(evidence) /\ e.ids \subseteq 1..Len(evidence)
    BY <1>4, ToldIsHeld, EntryAt
  <2>3. prev.tool = "decision" /\ e.tool = "recommend" /\ e.says = "done" =>
          prev.args.res \in 1..Len(evidence)
    BY <1>4, AdviceHasResult
  <2>4. Extends(evidence, more) /\ evidence \in Seq(Record)
    BY <1>4, InvFacts
  <2> QED BY <2>1, <2>2, <2>3, <2>4, ToolFitsStays
<1>6. e.tool = "decision" => AuditFits(more, told, n - 1, e.args)
  <2> SUFFICES ASSUME e.tool = "decision"
               PROVE  AuditFits(more, told, n - 1, e.args)
    OBVIOUS
  <2>1. PICK args, anchor : args = e.args /\ anchor = n - 1
    OBVIOUS
  <2>2. AuditFits(evidence, told, anchor, args)
    BY <1>3, <1>4, <2>1 DEF Fits
  <2>3. /\ Extends(evidence, more) /\ evidence \in Seq(Record) /\ VerifyChain(evidence)
        /\ Settled(evidence, more) /\ Len(evidence) \in Nat /\ Len(more) \in Nat
    BY <1>4, InvFacts DEF EvidenceIsFine
  <2>4. AuditFits(more, told, anchor, args)
    BY <2>2, <2>3, AuditFitsStays
  <2> QED BY <2>1, <2>4
<1> QED BY <1>1, <1>2, <1>4, <1>5, <1>6 DEF Fits

\* And the review still says what the entries imply.
LEMMA ImpliedStays ==
  ASSUME AgentInv, EntriesFit, ReviewIsImplied, Extends(evidence, evidence'), nodes' = nodes
  PROVE  ReviewIsImplied'
<1>1. SameAccepted(evidence')
  BY AcceptedSame
<1>2. /\ Told' = Told /\ DidAll' = DidAll /\ Advised' = Advised /\ DeniedIn' = DeniedIn
      /\ Closed' = Closed /\ Says' = Says
  BY DEF Told, DidAll, Did, Advised, DeniedIn, Closed, Says, ToolOf
<1>3. FailedIn' = FailedIn
  BY <1>1 DEF FailedIn, SameAccepted
<1>4. Halfway' = Halfway
  BY <1>1, <1>2 DEF Halfway, SameAccepted
<1>5. Unheard' = Unheard
  BY <1>2 DEF Unheard
<1>6. EmptyIn' = EmptyIn
  BY <1>2 DEF EmptyIn
<1>7. Implied' = Implied
  BY <1>2, <1>3, <1>6 DEF Implied
<1> QED BY <1>2, <1>4, <1>5, <1>7 DEF ReviewIsImplied

-----------------------------------------------------------------------------
\* The journal follows the plan: which entry comes at which place.
TheTool(n) == nodes[n].call.tool

Ordered ==
  /\ Len(nodes) \in 0..7
  /\ Len(nodes) >= 2 => TheTool(2) = "inspect"
  /\ Len(nodes) >= 3 => TheTool(3) = IF Did(2, "inspect") THEN "diagnose" ELSE "review"
  /\ Len(nodes) >= 4 =>
       /\ Did(2, "inspect") /\ TheTool(3) = "diagnose"
       /\ TheTool(4) = IF Did(3, "diagnose") THEN "discover" ELSE "review"
  /\ Len(nodes) >= 5 =>
       /\ Did(3, "diagnose") /\ TheTool(4) = "discover"
       /\ IF ~ Did(4, "discover") THEN TheTool(5) = "review"
          ELSE IF nodes[4].call.ids = {} THEN TheTool(5) = "recommend"
          ELSE TheTool(5) \in {"decision", "review"}
  /\ Len(nodes) >= 6 =>
       /\ Did(4, "discover")
       /\ \/ TheTool(5) = "recommend" /\ TheTool(6) = "review"
          \/ /\ TheTool(5) = "decision" /\ nodes[4].call.ids # {}
             /\ TheTool(6) = IF Accepting(evidence, nodes[5].call.args) THEN "recommend"
                                                                        ELSE "review"
  /\ Len(nodes) >= 7 =>
       TheTool(5) = "decision" /\ TheTool(6) = "recommend" /\ TheTool(7) = "review"

\* The links from entry to entry give the places of all of them.
LEMMA FollowsPlan ==
  ASSUME AgentInv, Chain
  PROVE  Ordered
<1>1. PICK N : N = Len(nodes)
  OBVIOUS
<1>2. N \in Nat
  BY <1>1, InvFacts
<1>3. N >= 2 => TheTool(2) = "inspect"
  BY <1>1, <1>2 DEF Chain, After, TheTool
<1>4. N >= 3 => TheTool(3) = IF Did(2, "inspect") THEN "diagnose" ELSE "review"
  <2> SUFFICES ASSUME N >= 3
               PROVE  TheTool(3) = IF Did(2, "inspect") THEN "diagnose" ELSE "review"
    OBVIOUS
  <2>1. TheTool(3) \in Followers(evidence, nodes[2].call)
    <3>1. 3 \in 2..Len(nodes)
      BY <1>1, <1>2
    <3>2. nodes[3].call.tool \in After(3 - 1)
      BY <3>1 DEF Chain
    <3> QED BY <3>2 DEF After, TheTool
  <2>2. nodes[2].call.tool = "inspect"
    BY <1>2, <1>3 DEF TheTool
  <2> QED BY <2>1, <2>2 DEF Followers, TheTool, Did, Tool
<1>5. N >= 4 =>
        /\ Did(2, "inspect") /\ TheTool(3) = "diagnose"
        /\ TheTool(4) = IF Did(3, "diagnose") THEN "discover" ELSE "review"
  <2> SUFFICES ASSUME N >= 4
               PROVE  /\ Did(2, "inspect") /\ TheTool(3) = "diagnose"
                      /\ TheTool(4) = IF Did(3, "diagnose") THEN "discover" ELSE "review"
    OBVIOUS
  <2>1. TheTool(4) \in Followers(evidence, nodes[3].call)
    <3>1. 4 \in 2..Len(nodes)
      BY <1>1, <1>2
    <3>2. nodes[4].call.tool \in After(4 - 1)
      BY <3>1 DEF Chain
    <3> QED BY <3>2 DEF After, TheTool
  <2>2. TheTool(3) \in {"diagnose", "review"}
    BY <1>2, <1>4
  <2>3. TheTool(3) = "diagnose"
    BY <2>1, <2>2 DEF Followers, TheTool, Tool
  <2>4. Did(2, "inspect")
    BY <1>2, <1>4, <2>3
  <2> QED BY <2>1, <2>3, <2>4 DEF Followers, TheTool, Did, Tool
<1>6. N >= 5 =>
        /\ Did(3, "diagnose") /\ TheTool(4) = "discover"
        /\ IF ~ Did(4, "discover") THEN TheTool(5) = "review"
           ELSE IF nodes[4].call.ids = {} THEN TheTool(5) = "recommend"
           ELSE TheTool(5) \in {"decision", "review"}
  <2> SUFFICES ASSUME N >= 5
               PROVE  /\ Did(3, "diagnose") /\ TheTool(4) = "discover"
                      /\ IF ~ Did(4, "discover") THEN TheTool(5) = "review"
                         ELSE IF nodes[4].call.ids = {} THEN TheTool(5) = "recommend"
                         ELSE TheTool(5) \in {"decision", "review"}
    OBVIOUS
  <2>1. TheTool(5) \in Followers(evidence, nodes[4].call)
    <3>1. 5 \in 2..Len(nodes)
      BY <1>1, <1>2
    <3>2. nodes[5].call.tool \in After(5 - 1)
      BY <3>1 DEF Chain
    <3> QED BY <3>2 DEF After, TheTool
  <2>2. TheTool(4) \in {"discover", "review"}
    BY <1>2, <1>5
  <2>3. TheTool(4) = "discover"
    BY <2>1, <2>2 DEF Followers, TheTool, Tool
  <2>4. Did(3, "diagnose")
    BY <1>2, <1>5, <2>3
  <2> QED BY <2>1, <2>3, <2>4 DEF Followers, TheTool, Did, Tool
<1>7. N >= 6 =>
        /\ Did(4, "discover")
        /\ \/ TheTool(5) = "recommend" /\ TheTool(6) = "review"
           \/ /\ TheTool(5) = "decision" /\ nodes[4].call.ids # {}
              /\ TheTool(6) = IF Accepting(evidence, nodes[5].call.args) THEN "recommend"
                                                                         ELSE "review"
  <2> SUFFICES ASSUME N >= 6
               PROVE  /\ Did(4, "discover")
                      /\ \/ TheTool(5) = "recommend" /\ TheTool(6) = "review"
                         \/ /\ TheTool(5) = "decision" /\ nodes[4].call.ids # {}
                            /\ TheTool(6) = IF Accepting(evidence, nodes[5].call.args)
                                            THEN "recommend" ELSE "review"
    OBVIOUS
  <2>1. TheTool(6) \in Followers(evidence, nodes[5].call)
    <3>1. 6 \in 2..Len(nodes)
      BY <1>1, <1>2
    <3>2. nodes[6].call.tool \in After(6 - 1)
      BY <3>1 DEF Chain
    <3> QED BY <3>2 DEF After, TheTool
  <2>2. nodes[5].call.tool # "review"
    BY <2>1 DEF Followers, Tool
  <2>3. /\ Did(4, "discover")
        /\ \/ TheTool(5) = "recommend"
           \/ TheTool(5) = "decision" /\ nodes[4].call.ids # {}
    BY <1>2, <1>6, <2>2 DEF TheTool
  <2> QED BY <2>1, <2>3 DEF Followers, TheTool, Tool
<1>8. N >= 7 => TheTool(5) = "decision" /\ TheTool(6) = "recommend" /\ TheTool(7) = "review"
  <2> SUFFICES ASSUME N >= 7
               PROVE  TheTool(5) = "decision" /\ TheTool(6) = "recommend" /\ TheTool(7) = "review"
    OBVIOUS
  <2>1. TheTool(7) \in Followers(evidence, nodes[6].call)
    <3>1. 7 \in 2..Len(nodes)
      BY <1>1, <1>2
    <3>2. nodes[7].call.tool \in After(7 - 1)
      BY <3>1 DEF Chain
    <3> QED BY <3>2 DEF After, TheTool
  <2>2. nodes[6].call.tool # "review"
    BY <2>1 DEF Followers, Tool
  <2>3. TheTool(5) = "decision" /\ TheTool(6) = "recommend"
    BY <1>2, <1>7, <2>2 DEF TheTool
  <2> QED BY <2>1, <2>3 DEF Followers, TheTool, Tool
<1>9. N <= 7
  <2> SUFFICES ASSUME N >= 8
               PROVE  FALSE
    BY <1>2
  <2>1. TheTool(8) \in Followers(evidence, nodes[7].call)
    <3>1. 8 \in 2..Len(nodes)
      BY <1>1, <1>2
    <3>2. nodes[8].call.tool \in After(8 - 1)
      BY <3>1 DEF Chain
    <3> QED BY <3>2 DEF After, TheTool
  <2>2. TheTool(7) = "review"
    BY <1>2, <1>8
  <2> QED BY <2>1, <2>2 DEF Followers, TheTool, Tool
<1>10. N \in 0..7
  BY <1>2, <1>9
<1> QED BY <1>1, <1>10, <1>3, <1>4, <1>5, <1>6, <1>7, <1>8, ZenonT(60) DEF Ordered

\* The place of an entry, from its tool.
LEMMA PlaceOf ==
  ASSUME AgentInv, Chain, NEW n \in 2..Len(nodes)
  PROVE  /\ TheTool(n) = "inspect"   => n = 2
         /\ TheTool(n) = "diagnose"  => n = 3
         /\ TheTool(n) = "discover"  => n = 4
         /\ TheTool(n) = "decision"  => n = 5
         /\ TheTool(n) = "recommend" => n \in {5, 6}
         /\ TheTool(n) = "review"    => n = Len(nodes)
<1>1. Ordered /\ Len(nodes) \in Nat
  BY FollowsPlan, InvFacts
<1>2. PICK N : N = Len(nodes)
  OBVIOUS
<1>3. N \in 0..7 /\ n \in 2..N
  BY <1>1, <1>2 DEF Ordered
<1>4. /\ N >= 2 => TheTool(2) = "inspect"
      /\ N >= 3 => TheTool(3) = "diagnose" \/ TheTool(3) = "review"
      /\ N >= 4 => TheTool(3) = "diagnose"
      /\ N >= 4 => TheTool(4) = "discover" \/ TheTool(4) = "review"
      /\ N >= 5 => TheTool(4) = "discover"
  BY <1>1, <1>2, ZenonT(60) DEF Ordered
<1>5. /\ N >= 5 => TheTool(5) = "recommend" \/ TheTool(5) = "decision" \/ TheTool(5) = "review"
      /\ N >= 6 => TheTool(5) = "recommend" \/ TheTool(5) = "decision"
  BY <1>1, <1>2, ZenonT(60) DEF Ordered
<1>6. /\ N >= 6 => TheTool(6) = "recommend" \/ TheTool(6) = "review"
      /\ N >= 7 => TheTool(6) = "recommend" /\ TheTool(7) = "review"
  BY <1>1, <1>2, ZenonT(60) DEF Ordered
<1>7. n \in {2, 3, 4, 5, 6, 7}
  BY <1>3
<1>8. TheTool(n) = "inspect" => n = 2
  BY <1>3, <1>4, <1>5, <1>6, <1>7
<1>9. TheTool(n) = "diagnose" => n = 3
  BY <1>3, <1>4, <1>5, <1>6, <1>7
<1>10. TheTool(n) = "discover" => n = 4
  BY <1>3, <1>4, <1>5, <1>6, <1>7
<1>11. TheTool(n) = "decision" => n = 5
  BY <1>3, <1>4, <1>5, <1>6, <1>7
<1>12. TheTool(n) = "recommend" => n \in {5, 6}
  BY <1>3, <1>4, <1>5, <1>6, <1>7
<1>13. TheTool(n) = "review" => n = N
  BY <1>3, <1>4, <1>5, <1>6, <1>7
<1> QED BY <1>2, <1>8, <1>9, <1>10, <1>11, <1>12, <1>13

-----------------------------------------------------------------------------
\* The findings that the journal tells, by the place of its diagnosis.
LEMMA ToldIs ==
  ASSUME AgentInv, Chain
  PROVE  Told = IF 3 \in 2..Len(nodes) /\ Did(3, "diagnose") THEN nodes[3].call.ids ELSE {}
<1>1. PICK S : S = {m \in 2..Len(nodes) : Did(m, "diagnose")}
  OBVIOUS
<1>2. \A m \in S : m = 3
  BY <1>1, PlaceOf DEF Did, TheTool
<1>3. 3 \in S <=> 3 \in 2..Len(nodes) /\ Did(3, "diagnose")
  BY <1>1
<1>4. Told = UNION {nodes[n].call.ids : n \in S}
  BY <1>1 DEF Told
<1>5. CASE 3 \in S
  <2>1. S = {3}
    BY <1>2, <1>5
  <2>2. {nodes[n].call.ids : n \in S} = {nodes[3].call.ids}
    BY <2>1
  <2>3. Told = nodes[3].call.ids
    BY <1>4, <2>2
  <2> QED BY <1>3, <1>5, <2>3
<1>6. CASE 3 \notin S
  <2>1. S = {}
    BY <1>2, <1>6
  <2>2. {nodes[n].call.ids : n \in S} = {}
    BY <2>1
  <2>3. Told = {}
    BY <1>4, <2>2
  <2> QED BY <1>3, <1>6, <2>3
<1> QED BY <1>5, <1>6

-----------------------------------------------------------------------------
\* The report does not change, and so neither does what is among the findings.
LEMMA OursAreKept ==
  ASSUME FindingsAreOurs, report' = report, evidence' = evidence,
         AllOurs(call'.todo), AllOurs(cli')
  PROVE  FindingsAreOurs'
<1>1. Reported' = Reported
  BY DEF Reported
<1>2. AllOurs(evidence)
  BY DEF FindingsAreOurs
<1>3. AllOurs(evidence)' /\ AllOurs(call.todo)' /\ AllOurs(cli)'
  BY <1>1, <1>2 DEF AllOurs, Ours
<1>4. Distinct(evidence')
  BY DEF FindingsAreOurs
<1> QED BY <1>3, <1>4 DEF FindingsAreOurs

\* One record more that is no stranger's finding.
LEMMA OursGrow ==
  ASSUME AgentInv, FindingsAreOurs, report' = report,
         NEW r \in Record, Ours(r), evidence' = AppendRecord(evidence, r),
         AllOurs(call'.todo), AllOurs(cli')
  PROVE  FindingsAreOurs'
<1>1. Reported' = Reported
  BY DEF Reported
<1>2. PICK more : more = evidence'
  OBVIOUS
<1>3. evidence \in Seq(Record) /\ more = AppendRecord(evidence, r)
      /\ Distinct(evidence) /\ AllOurs(evidence)
  BY <1>2, InvFacts DEF FindingsAreOurs
<1>4. Distinct(more)
  BY <1>3, DistinctGrows
<1>5. \A i \in 1..Len(more) : more[i] = r \/ (i \in 1..Len(evidence) /\ more[i] = evidence[i])
  BY <1>3, AppendedFrom
<1>6. \A i \in 1..Len(more) : Ours(more[i])
  BY <1>3, <1>5 DEF AllOurs
<1>7. AllOurs(evidence)' /\ AllOurs(call.todo)' /\ AllOurs(cli)'
  BY <1>1, <1>2, <1>6 DEF AllOurs, Ours
<1> QED BY <1>2, <1>4, <1>7 DEF FindingsAreOurs

\* What a call has to do is done, but in two places.
LEMMA NothingToDo ==
  ASSUME AgentInv', call'.pc \notin {"diagnosing", "recommending"}
  PROVE  AllOurs(call'.todo)
<1>1. InHand'
  BY DEF AgentInv
<1>2. call'.todo = <<>>
  BY <1>1 DEF InHand, At
<1> QED BY <1>2 DEF AllOurs

\* The parts of the invariant.
LEMMA TrailFacts ==
  ASSUME TrailInv
  PROVE  /\ FindingsAreOurs /\ Chain /\ EntriesFit /\ CallIsTold /\ ReviewIsImplied
         /\ CallIsInTurn /\ ReviewHears /\ DecisionIsTold /\ AdviceIsGiven
         /\ AllOurs(call.todo) /\ AllOurs(cli)
BY DEF TrailInv, CallIsTold, FindingsAreOurs

\* A step that leaves the journal as it is and lets the evidence grow.
LEMMA QuietTrail ==
  ASSUME AgentInv, TrailInv, nodes' = nodes, report' = report,
         evidence' \in Seq(Record), Extends(evidence, evidence'), Settled(evidence, evidence'),
         FindingsAreOurs', CallIsTold'
  PROVE  TrailInv'
<1>1. Chain /\ EntriesFit /\ ReviewIsImplied
  BY TrailFacts
<1>2. Chain' /\ EntriesFit' /\ ReviewIsImplied'
  BY <1>1, ChainStays, FitsStays, ImpliedStays
<1> QED BY <1>2 DEF TrailInv

\* A step that leaves both journal and evidence.
LEMMA StillTrail ==
  ASSUME AgentInv, AgentInv', TrailInv, UNCHANGED <<evidence, nodes, report, cli>>,
         call'.pc \in {"diagnosing", "recommending"} => AllOurs(call'.todo),
         CallIsTold'
  PROVE  TrailInv'
<1>1. Extends(evidence, evidence') /\ Settled(evidence, evidence') /\ evidence' \in Seq(Record)
  BY Same DEF Settled
<1>2. AllOurs(call'.todo)
  BY NothingToDo
<1>3. FindingsAreOurs'
  BY <1>2, TrailFacts, OursAreKept
<1> QED BY <1>1, <1>3, QuietTrail

\* Without a call at work there is nothing to be told.
LEMMA IdleTold ==
  ASSUME call'.pc \in {"idle", "publish"}
  PROVE  CallIsTold'
<1>1. /\ call'.pc \notin {"review", "unavailable", "audit", "auditOutcome", "recommending"}
      /\ call'.pc \notin Late \cup Deciding
  BY DEF Late, Deciding
<1>2. CallIsInTurn' /\ ReviewHears'
  BY <1>1 DEF CallIsInTurn, ReviewHears, Going, At
<1>3. DecisionIsTold' /\ AdviceIsGiven'
  BY <1>1 DEF DecisionIsTold, AdviceIsGiven, Going, At
<1> QED BY <1>2, <1>3 DEF CallIsTold

\* A step after which no call has anything to tell.
LEMMA NoCallTrail ==
  ASSUME AgentInv, AgentInv', TrailInv, call'.pc \in {"idle", "publish"},
         UNCHANGED <<evidence, nodes, report, cli>>
  PROVE  TrailInv'
BY IdleTold, StillTrail

\* After discover the journal ends with it, and nothing was decided yet.
LEMMA AtDiscover ==
  ASSUME AgentInv, TrailInv, call.pc \in {"prepare", "issue"} \cup Deciding
  PROVE  /\ Len(nodes) = 4 /\ TheTool(4) = "discover" /\ Did(4, "discover")
         /\ Says.tool = "discover" /\ Says.says = "done" /\ Says.ids # {}
         /\ Did(3, "diagnose") /\ nodes # <<>>
         /\ After(Len(nodes)) = {"decision", "review"}
         /\ \A n \in 2..Len(nodes) : ~ Audited(n)
<1>1. Going /\ "decision" \in After(Len(nodes)) /\ nodes # <<>>
  <2>1. Going /\ Turn(call.pc) = "decision"
    BY DEF Going, Deciding, Turn
  <2>2. nodes # <<>>
    BY <2>1, InvFacts DEF JournalTells
  <2> QED BY <2>1, <2>2, TrailFacts DEF CallIsInTurn
<1>2. PICK N : N = Len(nodes)
  OBVIOUS
<1>3. N \in Nat /\ N >= 1 /\ nodes \in Seq(Root \cup Kid)
  BY <1>1, <1>2, InvFacts
<1>4. N # 1
  BY <1>1, <1>2 DEF After
<1>5. N \in 2..Len(nodes)
  BY <1>2, <1>3, <1>4
<1>6. PICK e : e = nodes[N].call
  OBVIOUS
<1>7. "decision" \in Followers(evidence, e)
  BY <1>1, <1>2, <1>4, <1>6 DEF After
<1>8. e.tool = "discover" /\ e.ids # {} /\ e.says = "done"
  BY <1>7 DEF Followers, Tool
<1>9. Followers(evidence, e) = {"decision", "review"}
  BY <1>8 DEF Followers, Tool
<1>10. N = 4
  BY <1>5, <1>6, <1>8, PlaceOf, TrailFacts DEF TheTool
<1>11. Ordered
  BY TrailFacts, FollowsPlan
<1>12. Did(3, "diagnose")
  BY <1>2, <1>6, <1>8, <1>10, <1>11 DEF Ordered, TheTool
<1>13. \A n \in 2..Len(nodes) : ~ Audited(n)
  <2> SUFFICES ASSUME NEW n \in 2..Len(nodes), Audited(n)
               PROVE  FALSE
    OBVIOUS
  <2>1. n = 5
    BY PlaceOf, TrailFacts DEF Audited, TheTool
  <2> QED BY <1>2, <1>10, <2>1
<1>14. /\ Len(nodes) = 4 /\ TheTool(4) = "discover" /\ Did(4, "discover")
       /\ Says.tool = "discover" /\ Says.says = "done" /\ Says.ids # {}
  BY <1>2, <1>6, <1>8, <1>10 DEF TheTool, Did, Says
<1>15. After(Len(nodes)) = {"decision", "review"}
  BY <1>2, <1>4, <1>6, <1>9 DEF After
<1> QED BY <1>1, <1>12, <1>13, <1>14, <1>15

-----------------------------------------------------------------------------
\* A step of the decision: what remains to be shown is what is decided.
LEMMA MiddleTold ==
  ASSUME AgentInv, TrailInv, call.pc \in {"prepare", "issue"} \cup Deciding, MovesOn,
         call'.pc \in {"prepare", "issue", "review"} \cup Deciding,
         call'.denied = call.denied, call'.pc # "review" => call'.failed = call.failed,
         nodes' = nodes, Extends(evidence, evidence'), DecisionIsTold'
  PROVE  CallIsTold'
<1>1. /\ Len(nodes) = 4 /\ Says.tool = "discover" /\ Says.says = "done"
      /\ Did(4, "discover") /\ nodes # <<>>
      /\ After(Len(nodes)) = {"decision", "review"}
  BY AtDiscover
<1>2. /\ call.pc \notin {"idle", "publish", "review", "diagnosing", "recommending"}
      /\ call'.pc \notin {"idle", "publish", "diagnosing", "recommending"}
  BY DEF Deciding
<1>3. /\ ~ call.denied /\ ~ call.failed /\ call.got = {}
      /\ call.empty = ("diagnose" \in call.done /\ call.diagnosis = {})
      /\ call.recommended = {}
  BY <1>2, TrailFacts, InvFacts DEF CallIsInTurn, AdviceIsDecided, At, Going
<1>4. call \in Calls /\ call.denied \in BOOLEAN /\ call.failed \in BOOLEAN
  BY InvFacts DEF Calls
<1>5. /\ call'.got = {} /\ call'.recommended = {}
      /\ call'.empty = ("diagnose" \in call'.done /\ call'.diagnosis = {})
      /\ call'.denied = FALSE /\ (call'.pc = "review" => call'.failed = TRUE)
      /\ (call'.pc # "review" => call'.failed = FALSE)
  <2>1. call'.pc = "review" => call'.failed = TRUE
    BY DEF MovesOn, Middle, Deciding
  <2> QED BY <1>3, <1>4, <2>1 DEF MovesOn, Keeps
<1>6. After(Len(nodes))' = {"decision", "review"}
  <2>1. PICK m : m = Len(nodes)
    OBVIOUS
  <2>2. m \in 1..Len(nodes)
    BY <1>1, <2>1
  <2>3. After(m)' = After(m)
    BY <2>2, TrailFacts, SameAfter
  <2> QED BY <1>1, <2>1, <2>3
<1>7. Turn(call'.pc) \in {"decision", "review"}
  BY DEF Turn, Deciding
<1>8. CallIsInTurn'
  BY <1>2, <1>5, <1>6, <1>7 DEF CallIsInTurn, Going, At
<1>9. Says' = Says /\ Did(Len(nodes), "discover")' /\ ~ Did(Len(nodes), "recommend")'
  BY <1>1 DEF Says, Did
<1>10. ReviewHears'
  BY <1>1, <1>5, <1>9 DEF ReviewHears, At
<1>11. AdviceIsGiven'
  BY <1>2 DEF AdviceIsGiven, At
<1> QED BY <1>8, <1>10, <1>11 DEF CallIsTold

\* The call is undecided: without a submission the review finds none either.
LEMMA UndecidedTrail ==
  ASSUME AgentInv, AgentInv', TrailInv, call.pc \in {"prepare", "issue"} \cup Deciding,
         call' = Undecided, call.submission = 0, UNCHANGED <<evidence, nodes, report, cli>>
  PROVE  TrailInv'
<1>1. call \in Calls /\ call' = [call EXCEPT !.pc = "review", !.failed = TRUE]
  BY InvFacts DEF Undecided
<1>2. MovesOn /\ call'.pc = "review"
  BY <1>1, UndecidedMovesOn
<1>3. call'.denied = call.denied /\ call'.submission = 0
  BY <1>1 DEF Calls
<1>4. DecisionIsTold'
  <2>1. SubmissionIsTold'
    BY <1>3, AtDiscover DEF SubmissionIsTold, Audited
  <2> QED BY <1>2, <2>1 DEF DecisionIsTold, At, Late, Deciding
<1>5. Extends(evidence, evidence')
  BY Same
<1>6. CallIsTold'
  BY <1>2, <1>3, <1>4, <1>5, MiddleTold
<1> QED BY <1>2, <1>6, StillTrail

\* Something to decide is found after discover, with nothing decided yet.
LEMMA PrepareTrail ==
  ASSUME AgentInv, AgentInv', TrailInv, Prepare
  PROVE  TrailInv'
<1>1. /\ call.pc = "prepare" /\ call \in Calls
      /\ call' = [call EXCEPT !.pc = "issue"] \/ call' = Undecided
      /\ UNCHANGED <<evidence, nodes, report, cli>>
  BY InvFacts DEF Prepare, At, Calling
<1>2. call.submission = 0
  BY <1>1, TrailFacts DEF DecisionIsTold, Going, Late
<1>3. CASE call' = [call EXCEPT !.pc = "issue"]
  <2>1. call' \in Calls'
    BY <1>1, <1>3 DEF Calls, Place
  <2>2. /\ MovesOn /\ call'.pc = "issue" /\ call'.denied = call.denied
        /\ call'.failed = call.failed /\ call'.submission = 0
    BY <1>1, <1>2, <1>3, <2>1 DEF MovesOn, Keeps, Middle, Calls
  <2>3. DecisionIsTold'
    BY <2>2 DEF DecisionIsTold, At, Late, Deciding
  <2>4. Extends(evidence, evidence')
    BY <1>1, Same
  <2>5. CallIsTold'
    BY <1>1, <2>2, <2>3, <2>4, MiddleTold
  <2> QED BY <1>1, <2>2, <2>5, StillTrail
<1> QED BY <1>1, <1>2, <1>3, UndecidedTrail

\* A decision that cannot be prepared leaves the journal as it is for the review.
LEMMA PrepareFailsTrail ==
  ASSUME AgentInv, AgentInv', TrailInv, PrepareFails
  PROVE  TrailInv'
<1>1. /\ call.pc \in {"prepare", "issue"} /\ call' = Undecided
      /\ UNCHANGED <<evidence, nodes, report, cli>>
  BY DEF PrepareFails, Calling
<1>2. call.submission = 0
  BY <1>1, TrailFacts DEF DecisionIsTold, Going, Late
<1> QED BY <1>1, <1>2, UndecidedTrail

\* The context that is decided is the one of the call, as the evidence stays.
LEMMA SameContext ==
  ASSUME AgentInv, TrailInv, call.pc \in Deciding, evidence' = evidence, nodes' = nodes,
         call'.ctx = call.ctx, call'.diagnosis = call.diagnosis
  PROVE  evidence'[call'.ctx] = Context(0, Len(nodes'), call'.diagnosis)
BY TrailFacts DEF DecisionIsTold

\* Without a submission, or with one that stands in the way of the outcome.
LEMMA UnableTrail ==
  ASSUME AgentInv, AgentInv', TrailInv, call.pc \in Deciding, NEW reason \in Excuse,
         call' = Unable(reason), UNCHANGED <<evidence, nodes, report, cli>>,
         \/ call.submission = 0
         \/ reason = "submission_error" /\ ~ NoSubmission(evidence, call.ctx)
  PROVE  TrailInv'
<1>1. call \in Calls /\ call' = [call EXCEPT !.pc = "unavailable", !.reason = reason]
  BY InvFacts DEF Unable
<1>2. MovesOn /\ call'.pc = "unavailable" /\ call'.ctx = call.ctx
  BY <1>1, UnableMovesOn
<1>3. /\ call'.denied = call.denied /\ call'.failed = call.failed
      /\ call'.submission = call.submission /\ call'.reason = reason
      /\ call'.diagnosis = call.diagnosis
  BY <1>1 DEF Calls
<1>4. evidence'[call'.ctx] = Context(0, Len(nodes'), call'.diagnosis)
  BY <1>2, <1>3, SameContext
<1>5. NoSubmission(evidence', call'.ctx) <=> NoSubmission(evidence, call.ctx)
  BY <1>2
<1>6. DecisionIsTold'
  <2>1. \/ call'.submission = 0
        \/ /\ call'.reason = "submission_error"
           /\ ~ NoSubmission(evidence', call'.ctx)
    BY <1>3, <1>5
  <2> QED BY <1>2, <1>4, <2>1 DEF DecisionIsTold, At, Late
<1>7. Extends(evidence, evidence')
  BY Same
<1>8. CallIsTold'
  BY <1>2, <1>3, <1>6, <1>7, MiddleTold DEF Deciding
<1> QED BY <1>2, <1>8, StillTrail

\* A Host that does not answer leaves the decision to be recorded as unavailable.
LEMMA HostSilentTrail ==
  ASSUME AgentInv, AgentInv', TrailInv, HostSilent
  PROVE  TrailInv'
<1>1. PICK reason \in {"provider_pending", "provider_error"} : call' = Unable(reason)
  BY DEF HostSilent
<1>2. call.pc = "resolve" /\ UNCHANGED <<evidence, nodes, report, cli>>
  BY DEF HostSilent, At, Calling
<1>3. call.submission = 0
  BY <1>2, TrailFacts DEF DecisionIsTold, Going, Late
<1> QED BY <1>1, <1>2, <1>3, UnableTrail DEF Excuse, Deciding

\* A submission or its entry that fails leaves it so too, decided in the evidence or not.
LEMMA SubmitFailsTrail ==
  ASSUME AgentInv, AgentInv', TrailInv, SubmitFails
  PROVE  TrailInv'
<1>1. /\ call.pc \in {"submit", "persist", "audit"} /\ call' = Unable("submission_error")
      /\ UNCHANGED <<evidence, nodes, report, cli>>
  BY DEF SubmitFails, Calling
<1>2. CASE call.pc = "audit"
  <2>1. PICK prop \in 1..Len(evidence) :
          Submitted(evidence, call.ctx, prop, call.submission)
    BY <1>2, TrailFacts DEF DecisionIsTold, At
  <2>2. DecisionRecords(evidence, call.ctx) = {prop, call.submission}
    BY <2>1 DEF Submitted, ExactSubmission
  <2>3. ~ NoSubmission(evidence, call.ctx)
    BY <2>2 DEF NoSubmission
  <2> QED BY <1>1, <2>3, UnableTrail DEF Excuse, Deciding
<1>3. CASE call.pc # "audit"
  <2>1. call.submission = 0
    BY <1>1, <1>3, TrailFacts DEF DecisionIsTold, Going, Late
  <2> QED BY <1>1, <2>1, UnableTrail DEF Excuse, Deciding
<1> QED BY <1>2, <1>3

-----------------------------------------------------------------------------
\* What one more record changes.
LEMMA LastOf ==
  ASSUME NEW log \in Seq(Record), NEW r \in Record
  PROVE  /\ Len(Append(log, r)) = Len(log) + 1 /\ Append(log, r)[Len(log) + 1] = r
         /\ \A i \in 1..Len(log) : Append(log, r)[i] = log[i]
OBVIOUS

\* What a proposal and its result add to the evidence.
PairAdded(log, c, a, b, more) ==
  /\ Len(log) + 1 \in 1..Len(more) /\ Len(log) + 2 \in 1..Len(more)
  /\ more[Len(log) + 1] = a /\ more[Len(log) + 2] = b
  /\ ContentId(more, b) = Len(log) + 2
  /\ DecisionRecords(more, c) = {Len(log) + 1, Len(log) + 2}
  /\ Settled(log, more)
  /\ Distinct(log) => Distinct(more)
  /\ \A i \in 1..Len(more) : more[i] \in {a, b} \/ (i \in 1..Len(log) /\ more[i] = log[i])

\* The batch of a proposal and its result adds just these two, for their context.
LEMMA PairIs ==
  ASSUME NEW log, EvidenceIsFine(log), NEW c \in Contexts(log), NoSubmission(log, c),
         NEW a \in Proposes, a.parents = {c},
         NEW b \in Judges, b.parents = {c, Len(log) + 1},
         NEW more, more = AppendMany(log, <<a, b>>)
  PROVE  PairAdded(log, c, a, b, more)
<1>1. /\ a \in Record /\ a.kind = "proposal" /\ b \in Record /\ b.kind = "result"
      /\ \A d : Targets(a, d) <=> d = c
      /\ \A d : Targets(b, d) <=> d \in {c, Len(log) + 1}
  BY DEF Record, Proposes, Judges, Targets
<1>2. log \in Seq(Record) /\ VerifyChain(log) /\ c \in 1..Len(log) /\ Len(log) \in Nat
  BY DEF EvidenceIsFine, Contexts, OfKind
<1>3. PICK one : one = Append(log, a)
  OBVIOUS
<1>4. ~ Held(log, a) /\ one = AppendRecord(log, a)
  <2>1. ~ Held(log, a)
    BY <1>1, <1>2, DecidesAnew DEF NoSubmission
  <2> QED BY <1>3, <2>1 DEF AppendRecord
<1>5. /\ one \in Seq(Record) /\ Len(one) = Len(log) + 1 /\ one[Len(log) + 1] = a
      /\ \A i \in 1..Len(log) : one[i] = log[i]
  BY <1>1, <1>2, <1>3
<1>6. \A i \in 1..Len(one) : one[i] # b
  <2> SUFFICES ASSUME NEW i \in 1..Len(one), one[i] = b
               PROVE  FALSE
    OBVIOUS
  <2>1. CASE i = Len(log) + 1
    BY <1>1, <1>5, <2>1
  <2>2. CASE i # Len(log) + 1
    <3>1. i \in 1..Len(log)
      BY <1>2, <1>5, <2>2
    <3>2. log[i] = b
      BY <1>5, <3>1
    <3>3. Targets(log[i], c)
      BY <1>1, <3>2
    <3> QED BY <3>1, <3>3 DEF NoSubmission, DecisionRecords
  <2> QED BY <2>1, <2>2
<1>7. ~ Held(one, b) /\ more = AppendRecord(one, b)
  BY <1>4, <1>6, PairAppended DEF Held
<1>8. more = Append(one, b)
  BY <1>7 DEF AppendRecord
<1>9. /\ Len(more) = Len(one) + 1 /\ more[Len(one) + 1] = b
      /\ \A i \in 1..Len(one) : more[i] = one[i]
  <2>1. one \in Seq(Record)
    BY <1>5
  <2>2. b \in Record
    BY <1>1
  <2>3. /\ Len(Append(one, b)) = Len(one) + 1 /\ Append(one, b)[Len(one) + 1] = b
        /\ \A i \in 1..Len(one) : Append(one, b)[i] = one[i]
    BY <2>1, <2>2, LastOf
  <2> QED BY <1>8, <2>3
<1>10. /\ Len(more) = Len(log) + 2 /\ more[Len(log) + 2] = b /\ more[Len(log) + 1] = a
       /\ Len(log) + 1 \in 1..Len(more) /\ Len(log) + 2 \in 1..Len(more)
  BY <1>2, <1>5, <1>9
<1>11. ContentId(more, b) = Len(log) + 2
  <2>1. \A i \in 1..Len(more) : i \in 1..Len(one) \/ i = Len(log) + 2
    BY <1>2, <1>5, <1>10
  <2>2. \A i \in 1..Len(more) : more[i] = b => i = Len(log) + 2
    BY <1>6, <1>9, <2>1
  <2> QED BY <1>10, <2>2 DEF ContentId
<1>12. DecisionRecords(more, c) = {Len(log) + 1, Len(log) + 2}
  <2>1. DecisionRecords(one, c) = {Len(log) + 1}
    BY <1>1, <1>2, <1>3, DecisionsAppended DEF NoSubmission
  <2>2. Targets(b, c)
    BY <1>1
  <2>3. DecisionRecords(more, c) = DecisionRecords(one, c) \cup {Len(one) + 1}
    BY <1>1, <1>5, <1>8, <2>2, DecisionsAppended
  <2>4. Len(one) + 1 = Len(log) + 2
    BY <1>2, <1>5
  <2> QED BY <2>1, <2>3, <2>4
<1>13. Settled(log, more)
  <2> SUFFICES ASSUME NEW d \in 1..Len(log), DecisionRecords(log, d) # {}
               PROVE  DecisionRecords(more, d) = DecisionRecords(log, d)
    BY DEF Settled
  <2>1. d # c /\ d # Len(log) + 1
    BY <1>2 DEF NoSubmission
  <2>2. ~ Targets(a, d) /\ ~ Targets(b, d)
    BY <1>1, <2>1
  <2>3. DecisionRecords(one, d) = DecisionRecords(log, d)
    BY <1>1, <1>2, <1>3, <2>2, DecisionsAppended
  <2>4. DecisionRecords(more, d) = DecisionRecords(one, d)
    <3>1. one \in Seq(Record) /\ b \in Record
      BY <1>1, <1>5
    <3> QED BY <1>8, <2>2, <3>1, DecisionsAppended, ZenonT(60)
  <2> QED BY <2>3, <2>4
<1>14. Distinct(log) => Distinct(more)
  <2>1. Distinct(log) => Distinct(one)
    BY <1>1, <1>2, <1>4, DistinctGrows
  <2>2. Distinct(one) => Distinct(more)
    BY <1>1, <1>5, <1>7, DistinctGrows
  <2> QED BY <2>1, <2>2
<1>15. \A i \in 1..Len(more) : more[i] \in {a, b} \/ (i \in 1..Len(log) /\ more[i] = log[i])
  <2> SUFFICES ASSUME NEW i \in 1..Len(more)
               PROVE  more[i] \in {a, b} \/ (i \in 1..Len(log) /\ more[i] = log[i])
    OBVIOUS
  <2>1. i \in 1..Len(log) \/ i = Len(log) + 1 \/ i = Len(log) + 2
    BY <1>2, <1>10
  <2>2. CASE i \in 1..Len(log)
    <3>1. i \in 1..Len(one)
      BY <1>2, <1>5, <2>2
    <3> QED BY <1>5, <1>9, <2>2, <3>1
  <2> QED BY <1>10, <2>1, <2>2
<1> QED BY <1>10, <1>11, <1>12, <1>13, <1>14, <1>15 DEF PairAdded

\* What the outcome without a submission adds to the evidence.
LEMMA OutcomeIs ==
  ASSUME NEW log, EvidenceIsFine(log), NEW c \in 1..Len(log), NoSubmission(log, c),
         NEW r \in Lacks, r.parents = {c}, NEW more, more = AppendRecord(log, r)
  PROVE  /\ DecisionRecords(more, c) = {ContentId(more, r)}
         /\ Settled(log, more)
<1>1. /\ r \in Record /\ r.kind = "unavailable"
      /\ \A d : Targets(r, d) <=> d = c
  BY DEF Record, Lacks, Targets
<1>2. log \in Seq(Record) /\ Len(log) \in Nat
  BY DEF EvidenceIsFine
<1>3. ~ Held(log, r)
  BY <1>1, <1>2, DecidesAnew DEF NoSubmission
<1>4. more = Append(log, r)
  BY <1>3 DEF AppendRecord
<1>5. DecisionRecords(more, c) = {Len(log) + 1}
  BY <1>1, <1>2, <1>4, DecisionsAppended DEF NoSubmission
<1>6. /\ Len(more) = Len(log) + 1 /\ more[Len(log) + 1] = r
      /\ \A i \in 1..Len(log) : more[i] = log[i]
  BY <1>1, <1>2, <1>4
<1>7. ContentId(more, r) = Len(log) + 1
  <2>1. \A i \in 1..Len(more) : more[i] = r => i = Len(log) + 1
    BY <1>2, <1>3, <1>6 DEF Held
  <2>2. Len(log) + 1 \in 1..Len(more)
    BY <1>2, <1>6
  <2> QED BY <1>6, <2>1, <2>2 DEF ContentId
<1>8. Settled(log, more)
  BY <1>1, <1>2, SettledByOne DEF NoSubmission
<1> QED BY <1>5, <1>7, <1>8

-----------------------------------------------------------------------------
\* A provider answers for the context that was issued.
LEMMA ResolveTrail ==
  ASSUME AgentInv, AgentInv', TrailInv, Resolve
  PROVE  TrailInv'
<1>1. /\ call.pc = "resolve" /\ call \in Calls /\ call.submission = 0
      /\ UNCHANGED <<evidence, nodes, report, cli>>
  BY InvFacts, TrailFacts DEF Resolve, At, Calling, DecisionIsTold, Going, Late
<1>2. PICK p \in Offered :
        \/ call' = [call EXCEPT !.pc = "submit", !.proposal = p]
        \/ call' = Unable("provider_error")
  BY DEF Resolve
<1>3. p \in Proposal
  BY AgentAssumption DEF Offered, DeterministicProposals
<1>4. CASE call' = [call EXCEPT !.pc = "submit", !.proposal = p]
  <2>1. call' \in Calls'
    BY <1>1, <1>3, <1>4, ZenonT(60) DEF Calls, Place, Deciding
  <2>2. /\ MovesOn /\ call'.pc = "submit" /\ call'.ctx = call.ctx
        /\ call'.denied = call.denied /\ call'.failed = call.failed
        /\ call'.submission = 0 /\ call'.diagnosis = call.diagnosis
    BY <1>1, <1>4, <2>1 DEF MovesOn, Keeps, Middle, Deciding, Calls
  <2>3. evidence'[call'.ctx] = Context(0, Len(nodes'), call'.diagnosis)
    BY <1>1, <2>2, SameContext DEF Deciding
  <2>4. DecisionIsTold'
    BY <2>2, <2>3 DEF DecisionIsTold, At, Late
  <2>5. Extends(evidence, evidence')
    BY <1>1, Same
  <2>6. CallIsTold'
    BY <1>1, <2>2, <2>4, <2>5, MiddleTold DEF Deciding
  <2> QED BY <1>1, <2>2, <2>6, StillTrail
<1>5. CASE call' = Unable("provider_error")
  BY <1>1, <1>5, UnableTrail DEF Excuse, Deciding
<1> QED BY <1>2, <1>4, <1>5

\* A submission is timed, and nothing is written yet.
LEMMA SubmitTrail ==
  ASSUME AgentInv, AgentInv', TrailInv, Submit
  PROVE  TrailInv'
<1>1. /\ call.pc = "submit" /\ call \in Calls /\ call.submission = 0
      /\ UNCHANGED <<evidence, nodes, report, cli>>
  BY InvFacts, TrailFacts DEF Submit, At, Calling, DecisionIsTold, Going, Late
<1>2. \/ call' = [call EXCEPT !.pc = "persist", !.inTime = ~ late]
      \/ call' = Unable("submission_error")
  BY DEF Submit
<1>3. PICK inTime \in BOOLEAN : inTime = ~ late
  OBVIOUS
<1>4. CASE call' = [call EXCEPT !.pc = "persist", !.inTime = inTime]
  <2>1. call' \in Calls'
    BY <1>1, <1>4, ZenonT(60) DEF Calls, Place, Deciding
  <2>2. /\ MovesOn /\ call'.pc = "persist" /\ call'.ctx = call.ctx
        /\ call'.denied = call.denied /\ call'.failed = call.failed
        /\ call'.submission = 0 /\ call'.diagnosis = call.diagnosis
    BY <1>1, <1>4, <2>1 DEF MovesOn, Keeps, Middle, Deciding, Calls
  <2>3. evidence'[call'.ctx] = Context(0, Len(nodes'), call'.diagnosis)
    BY <1>1, <2>2, SameContext DEF Deciding
  <2>4. DecisionIsTold'
    BY <2>2, <2>3 DEF DecisionIsTold, At, Late
  <2>5. Extends(evidence, evidence')
    BY <1>1, Same
  <2>6. CallIsTold'
    BY <1>1, <2>2, <2>4, <2>5, MiddleTold DEF Deciding
  <2> QED BY <1>1, <2>2, <2>6, StillTrail
<1>5. CASE call' = Unable("submission_error")
  BY <1>1, <1>5, UnableTrail DEF Excuse, Deciding
<1> QED BY <1>2, <1>3, <1>4, <1>5

\* Without the record the run is given up or reviewed with a failure.
LEMMA UnavailableFailsTrail ==
  ASSUME AgentInv, AgentInv', TrailInv, UnavailableFails
  PROVE  TrailInv'
<1>1. /\ call.pc \in {"unavailable", "auditOutcome"}
      /\ call' = IF call.reason = "submission_error" THEN NoCall ELSE Undecided
      /\ UNCHANGED <<evidence, nodes, report, cli>>
  BY DEF UnavailableFails, At, Calling
<1>2. CASE call.reason = "submission_error"
  <2>1. call'.pc = "idle"
    BY <1>1, <1>2 DEF NoCall
  <2> QED BY <1>1, <2>1, NoCallTrail
<1>3. CASE call.reason # "submission_error"
  <2>1. call.submission = 0
    BY <1>1, <1>3, TrailFacts DEF DecisionIsTold, At, Going, Late
  <2> QED BY <1>1, <1>3, <2>1, UndecidedTrail DEF Deciding
<1> QED BY <1>2, <1>3

\* The end of a call, or of its process, leaves the trail where it is.
LEMMA EndTrail ==
  ASSUME AgentInv, AgentInv', TrailInv, Abandon \/ Publish
  PROVE  TrailInv'
<1>1. call'.pc = "idle" /\ UNCHANGED <<evidence, nodes, report, cli>>
  BY DEF Abandon, Publish, Calling, NoCall
<1> QED BY <1>1, NoCallTrail

-----------------------------------------------------------------------------
\* The context that is issued names the end of the journal and the whole diagnosis.
LEMMA IssueTrail ==
  ASSUME AgentInv, AgentInv', TrailInv, Issue
  PROVE  TrailInv'
<1>1. PICK ctx : ctx = Context(call.attempt, call.leaf, call.diagnosis)
  OBVIOUS
<1>2. /\ call.pc = "issue" /\ call \in Calls
      /\ evidence' = AppendRecord(evidence, ctx)
      /\ call' = [call EXCEPT !.pc = "resolve", !.ctx = ContentId(evidence', ctx)]
      /\ UNCHANGED <<nodes, report, cli>>
      /\ evidence \in Seq(Record) /\ Len(evidence) \in Nat
  BY <1>1, InvFacts DEF Issue, At, Calling
<1>3. call.attempt = 0 /\ call.leaf = Len(nodes) /\ call.leaf \in Nat
  BY <1>2, InvFacts DEF Calls, JournalTells, Going
<1>4. ctx \in Record /\ ctx.kind = "context" /\ ctx = Context(0, Len(nodes), call.diagnosis)
  <2>1. call.diagnosis \in SUBSET Nat
    BY HandIsNumbers
  <2>2. ctx \in Asks
    BY <1>1, <1>3, <2>1 DEF Context, Asks
  <2> QED BY <1>1, <1>3, <2>2 DEF Record, Context
<1>5. PICK more, c : more = evidence' /\ c = ContentId(more, ctx)
  OBVIOUS
<1>6. /\ more \in Seq(Record) /\ Extends(evidence, more)
      /\ c \in 1..Len(more) /\ more[c] = ctx
  BY <1>2, <1>4, <1>5, AppendIs
<1>7. c \in Nat
  BY <1>6
<1>8. call' = [call EXCEPT !.pc = "resolve", !.ctx = c]
  BY <1>2, <1>5
<1>9. call' \in Calls'
  BY <1>2, <1>7, <1>8, ZenonT(60) DEF Calls, Place, Deciding
<1>10. call.submission = 0
  BY <1>2, TrailFacts DEF DecisionIsTold, Going, Late
<1>11. /\ MovesOn /\ call'.pc = "resolve" /\ call'.ctx = c
       /\ call'.denied = call.denied /\ call'.failed = call.failed
       /\ call'.submission = 0 /\ call'.diagnosis = call.diagnosis
  BY <1>2, <1>8, <1>9, <1>10 DEF MovesOn, Keeps, Middle, Deciding, Calls
<1>12. evidence'[call'.ctx] = Context(0, Len(nodes'), call'.diagnosis)
  BY <1>2, <1>4, <1>5, <1>6, <1>11
<1>13. DecisionIsTold'
  BY <1>11, <1>12 DEF DecisionIsTold, At, Late
<1>14. CallIsTold'
  BY <1>2, <1>5, <1>6, <1>11, <1>13, MiddleTold DEF Deciding
<1>15. Settled(evidence, more)
  <2>1. \A d : ~ Targets(ctx, d)
    BY <1>4 DEF Targets
  <2> QED BY <1>2, <1>4, <1>5, <2>1, SettledByOne
<1>16. FindingsAreOurs'
  <2>1. Ours(ctx)
    BY <1>4 DEF Ours
  <2>2. AllOurs(call'.todo) /\ AllOurs(cli')
    BY <1>2, <1>11, NothingToDo, TrailFacts
  <2> QED BY <1>2, <1>4, <2>1, <2>2, TrailFacts, OursGrow
<1> QED BY <1>2, <1>5, <1>6, <1>14, <1>15, <1>16, QuietTrail

\* The outcome is the only record that decides its context.
LEMMA RecordUnavailableTrail ==
  ASSUME AgentInv, AgentInv', TrailInv, RecordUnavailable
  PROVE  TrailInv'
<1>1. PICK made : made = Unavailable(call.ctx, call.reason, Binding(call.provider))
  OBVIOUS
<1>2. /\ call.pc = "unavailable" /\ call \in Calls
      /\ NoSubmission(evidence, call.ctx)
      /\ evidence' = AppendRecord(evidence, made)
      /\ call' = [call EXCEPT !.pc = "auditOutcome", !.outcome = ContentId(evidence', made)]
      /\ UNCHANGED <<nodes, report, cli>>
      /\ EvidenceIsFine(evidence) /\ AtDecision
  BY <1>1, InvFacts DEF RecordUnavailable, At, Calling
<1>3. call.ctx \in 1..Len(evidence) /\ evidence[call.ctx].kind = "context"
  BY <1>2 DEF AtDecision, Deciding, Contexts, OfKind
<1>4. evidence \in Seq(Record) /\ Len(evidence) \in Nat /\ call.ctx \in Nat
  BY <1>2, <1>3 DEF EvidenceIsFine, Calls
<1>5. /\ made \in Lacks /\ made.parents = {call.ctx} /\ made.kind = "unavailable"
      /\ made.binding = Binding(call.provider)
  <2>1. Binding(call.provider) \in Bindings
    BY <1>2 DEF Binding, Bindings, Provider, Calls
  <2>2. call.reason \in Excuse
    BY <1>2 DEF Calls
  <2> QED BY <1>1, <1>4, <2>1, <2>2 DEF Unavailable, Lacks
<1>6. made \in Record
  BY <1>5 DEF Record
<1>7. PICK more, u : more = evidence' /\ u = ContentId(more, made)
  OBVIOUS
<1>8. /\ more \in Seq(Record) /\ Extends(evidence, more)
      /\ u \in 1..Len(more) /\ more[u] = made
  <2>1. more = AppendRecord(evidence, made)
    BY <1>2, <1>7
  <2> QED BY <1>4, <1>6, <1>7, <2>1, AppendIs
<1>9. DecisionRecords(more, call.ctx) = {u} /\ Settled(evidence, more)
  BY <1>2, <1>3, <1>5, <1>7, OutcomeIs
<1>10. u \in Nat
  BY <1>8
<1>11. call' = [call EXCEPT !.pc = "auditOutcome", !.outcome = u]
  BY <1>2, <1>7
<1>12. call' \in Calls'
  BY <1>2, <1>10, <1>11, ZenonT(60) DEF Calls, Place, Deciding
<1>13. call.submission = 0
  BY <1>2, TrailFacts DEF DecisionIsTold, At
<1>14. /\ MovesOn /\ call'.pc = "auditOutcome" /\ call'.ctx = call.ctx /\ call'.outcome = u
       /\ call'.denied = call.denied /\ call'.failed = call.failed
       /\ call'.submission = 0 /\ call'.diagnosis = call.diagnosis
       /\ call'.provider = call.provider
  BY <1>2, <1>11, <1>12, <1>13 DEF MovesOn, Keeps, Middle, Deciding, Calls
<1>15. more[call.ctx] = evidence[call.ctx]
  BY <1>3, <1>8 DEF Extends
<1>16. evidence'[call'.ctx] = Context(0, Len(nodes'), call'.diagnosis)
  BY <1>2, <1>7, <1>14, <1>15, TrailFacts DEF DecisionIsTold, Deciding
<1>17. Lacking(more, call.ctx, u)
  <2>1. {call.ctx, u} \subseteq 1..Len(more)
    BY <1>3, <1>8 DEF Extends
  <2> QED BY <1>3, <1>5, <1>8, <1>9, <1>15, <2>1 DEF Lacking, ExactUnavailable
<1>18. /\ Lacking(evidence', call'.ctx, call'.outcome)
       /\ evidence'[call'.outcome].binding = Binding(call'.provider)
  BY <1>5, <1>7, <1>8, <1>14, <1>17
<1>19. DecisionIsTold'
  BY <1>14, <1>16, <1>18 DEF DecisionIsTold, At, Late
<1>20. CallIsTold'
  BY <1>2, <1>7, <1>8, <1>14, <1>19, MiddleTold DEF Deciding
<1>21. FindingsAreOurs'
  <2>1. Ours(made)
    BY <1>5 DEF Ours
  <2>2. AllOurs(call'.todo) /\ AllOurs(cli')
    BY <1>2, <1>14, NothingToDo, TrailFacts
  <2> QED BY <1>2, <1>6, <2>1, <2>2, TrailFacts, OursGrow
<1> QED BY <1>2, <1>7, <1>8, <1>9, <1>20, <1>21, QuietTrail

\* The submission that is written replays from now on.
LEMMA PersistTrail ==
  ASSUME AgentInv, AgentInv', TrailInv, Persist
  PROVE  TrailInv'
<1>1. PICK a : a = [kind |-> "proposal", parents |-> {call.ctx},
                    proposal |-> call.proposal, binding |-> Binding(call.provider),
                    inTime |-> call.inTime]
  OBVIOUS
<1>2. PICK says : says = Validate(evidence, call.ctx, call.proposal, call.inTime)
  OBVIOUS
<1>3. PICK b : b = [kind |-> "result", parents |-> {call.ctx, Len(evidence) + 1},
                    reasons |-> says.reasons, actions |-> says.actions]
  OBVIOUS
<1>4. Submission(evidence, call.ctx, call.proposal, Binding(call.provider), call.inTime)
        = <<a, b>>
  BY <1>1, <1>2, <1>3 DEF Submission
<1>5. /\ call.pc = "persist" /\ call \in Calls
      /\ NoSubmission(evidence, call.ctx)
      /\ evidence' = AppendMany(evidence, <<a, b>>)
      /\ call' = [call EXCEPT !.pc = "audit", !.submission = ContentId(evidence', b)]
      /\ UNCHANGED <<nodes, report, cli>>
  BY <1>4 DEF Persist, At, Calling, AgentInv, AgentWellTyped
<1>6. EvidenceIsFine(evidence) /\ AtDecision /\ evidence \in Seq(Record)
  BY InvFacts
<1>7. call.proposal \in Proposal /\ call.ctx \in Contexts(evidence)
  BY <1>5, <1>6 DEF AtDecision, At, Deciding
<1>8. /\ call.ctx \in 1..Len(evidence) /\ call.ctx \in Nat /\ Len(evidence) \in Nat
      /\ evidence[call.ctx].kind = "context"
  BY <1>6, <1>7 DEF Contexts, OfKind
<1>9. /\ a \in Proposes /\ a.parents = {call.ctx} /\ a.kind = "proposal"
      /\ a.proposal = call.proposal /\ a.inTime = call.inTime
      /\ a.binding = Binding(call.provider)
  <2>1. Binding(call.provider) \in Bindings
    BY <1>5 DEF Binding, Bindings, Provider, Calls
  <2>2. call.inTime \in BOOLEAN
    BY <1>5 DEF Calls
  <2> QED BY <1>1, <1>7, <1>8, <2>1, <2>2 DEF Proposes
<1>10. /\ b \in Judges /\ b.parents = {call.ctx, Len(evidence) + 1} /\ b.kind = "result"
       /\ says = [reasons |-> b.reasons, actions |-> b.actions]
  <2>1. says.reasons \subseteq Objection
    BY <1>2 DEF Validate, Reasons, Objection
  <2>2. says.actions \subseteq Action
    <3>1. call.proposal.actions \subseteq Action
      BY <1>7 DEF Proposal
    <3> QED BY <1>2, <3>1 DEF Validate
  <2>3. b \in Judges
    BY <1>3, <1>8, <2>1, <2>2 DEF Judges
  <2>4. says = [reasons |-> says.reasons, actions |-> says.actions]
    BY <1>2 DEF Validate
  <2> QED BY <1>3, <2>3, <2>4
<1>11. PICK more, s, prop : /\ more = evidence' /\ s = ContentId(more, b)
                            /\ prop = Len(evidence) + 1
  OBVIOUS
<1>12. /\ EvidenceIsFine(more) /\ Extends(evidence, more)
       /\ s \in 1..Len(more) /\ more[s] = b
  BY <1>5, <1>6, <1>7, <1>9, <1>10, <1>11, PairIsFine DEF OfKind
<1>13. /\ prop \in 1..Len(more) /\ more[prop] = a
       /\ DecisionRecords(more, call.ctx) = {prop, s}
       /\ Settled(evidence, more)
       /\ Distinct(evidence) => Distinct(more)
       /\ \A i \in 1..Len(more) :
            more[i] \in {a, b} \/ (i \in 1..Len(evidence) /\ more[i] = evidence[i])
  <2>1. more = AppendMany(evidence, <<a, b>>) /\ b.parents = {call.ctx, Len(evidence) + 1}
    BY <1>5, <1>10, <1>11
  <2>2. PairAdded(evidence, call.ctx, a, b, more)
    BY <1>5, <1>6, <1>7, <1>9, <1>10, <2>1, PairIs
  <2> QED BY <1>11, <2>2 DEF PairAdded
<1>14. s \in Nat /\ more \in Seq(Record)
  BY <1>12 DEF EvidenceIsFine
<1>15. call' = [call EXCEPT !.pc = "audit", !.submission = s]
  BY <1>5, <1>11
<1>16. call' \in Calls'
  BY <1>5, <1>14, <1>15, ZenonT(60) DEF Calls, Place, Deciding
<1>17. /\ MovesOn /\ call'.pc = "audit" /\ call'.ctx = call.ctx /\ call'.submission = s
       /\ call'.denied = call.denied /\ call'.failed = call.failed
       /\ call'.diagnosis = call.diagnosis /\ call'.provider = call.provider
  BY <1>5, <1>15, <1>16 DEF MovesOn, Keeps, Middle, Deciding, Calls
<1>18. more[call.ctx] = evidence[call.ctx] /\ call.ctx \in 1..Len(more)
  BY <1>8, <1>12, <1>14 DEF Extends
<1>19. evidence'[call'.ctx] = Context(0, Len(nodes'), call'.diagnosis)
  BY <1>5, <1>11, <1>17, <1>18, TrailFacts DEF DecisionIsTold, Deciding
<1>20. Submitted(more, call.ctx, prop, s)
  <2>1. Validate(more, call.ctx, call.proposal, call.inTime) = says
    <3>1. VerifyChain(evidence)
      BY <1>6 DEF EvidenceIsFine
    <3> QED BY <1>2, <1>6, <1>8, <1>12, <3>1, ValidStays
  <2>2. Validate(more, call.ctx, more[prop].proposal, more[prop].inTime)
          = [reasons |-> more[s].reasons, actions |-> more[s].actions]
    BY <1>9, <1>10, <1>12, <1>13, <2>1
  <2>3. /\ {call.ctx, prop, s} \subseteq 1..Len(more)
        /\ more[call.ctx].kind = "context"
        /\ more[prop].kind = "proposal" /\ more[prop].parents = {call.ctx}
        /\ more[s].kind = "result" /\ more[s].parents = {call.ctx, prop}
    BY <1>8, <1>9, <1>10, <1>11, <1>12, <1>13, <1>18
  <2> QED BY <1>13, <2>2, <2>3 DEF Submitted, ExactSubmission
<1>21. \E p \in 1..Len(evidence') :
         /\ Submitted(evidence', call'.ctx, p, call'.submission)
         /\ evidence'[p].binding = Binding(call'.provider)
  BY <1>9, <1>11, <1>13, <1>17, <1>20
<1>22. DecisionIsTold'
  BY <1>17, <1>19, <1>21 DEF DecisionIsTold, At, Late
<1>23. CallIsTold'
  BY <1>5, <1>11, <1>12, <1>17, <1>22, MiddleTold DEF Deciding
<1>24. FindingsAreOurs'
  <2>1. AllOurs(call'.todo) /\ AllOurs(cli')
    BY <1>5, <1>17, NothingToDo, TrailFacts
  <2>2. Reported' = Reported
    BY <1>5 DEF Reported
  <2>3. Distinct(evidence) /\ AllOurs(evidence)
    BY TrailFacts DEF FindingsAreOurs
  <2>4. Ours(a) /\ Ours(b)
    BY <1>9, <1>10 DEF Ours
  <2>5. \A i \in 1..Len(more) : Ours(more[i])
    BY <1>13, <2>3, <2>4 DEF AllOurs
  <2>6. AllOurs(evidence)' /\ AllOurs(call.todo)' /\ AllOurs(cli)'
    BY <1>11, <2>1, <2>2, <2>5 DEF AllOurs, Ours
  <2> QED BY <1>11, <1>13, <2>3, <2>6 DEF FindingsAreOurs
<1> QED BY <1>5, <1>11, <1>12, <1>13, <1>14, <1>23, <1>24, QuietTrail

-----------------------------------------------------------------------------
\* Where a journal ends, from the tool that comes next.
LEMMA AfterPlace ==
  ASSUME AgentInv, TrailInv, nodes # <<>>
  PROVE  /\ "inspect" \in After(Len(nodes)) => Len(nodes) = 1
         /\ "diagnose" \in After(Len(nodes)) => Len(nodes) = 2
         /\ "discover" \in After(Len(nodes)) => Len(nodes) = 3 /\ Did(3, "diagnose")
         /\ "recommend" \in After(Len(nodes)) =>
              \/ Len(nodes) = 4 /\ Did(4, "discover") /\ nodes[4].call.ids = {}
              \/ /\ Len(nodes) = 5 /\ TheTool(5) = "decision"
                 /\ Accepting(evidence, nodes[5].call.args)
<1>1. PICK N : N = Len(nodes)
  OBVIOUS
<1>2. N \in Nat /\ N >= 1 /\ nodes \in Seq(Root \cup Kid)
  BY <1>1, InvFacts
<1>3. CASE N = 1
  BY <1>1, <1>3 DEF After
<1>4. CASE N # 1
  <2>1. N \in 2..Len(nodes)
    BY <1>1, <1>2, <1>4
  <2>2. PICK e : e = nodes[N].call
    OBVIOUS
  <2>3. After(N) = Followers(evidence, e)
    BY <1>4, <2>2 DEF After
  <2>4. /\ e.tool = "inspect" => N = 2
        /\ e.tool = "diagnose" => N = 3
        /\ e.tool = "discover" => N = 4
        /\ e.tool = "decision" => N = 5
    BY <2>1, <2>2, PlaceOf, TrailFacts DEF TheTool
  <2>5. "inspect" \notin After(N)
    BY <2>3 DEF Followers, Tool
  <2>6. "diagnose" \in After(N) => N = 2
    BY <2>3, <2>4 DEF Followers, Tool
  <2>7. "discover" \in After(N) => N = 3 /\ e.tool = "diagnose" /\ e.says = "done"
    BY <2>3, <2>4 DEF Followers, Tool
  <2>8. "recommend" \in After(N) =>
          \/ N = 4 /\ e.tool = "discover" /\ e.says = "done" /\ e.ids = {}
          \/ N = 5 /\ e.tool = "decision" /\ Accepting(evidence, e.args)
    BY <2>3, <2>4 DEF Followers, Tool
  <2>9. "discover" \in After(N) => N = 3 /\ Did(3, "diagnose")
    BY <2>2, <2>7 DEF Did
  <2>10. "recommend" \in After(N) =>
           \/ N = 4 /\ Did(4, "discover") /\ nodes[4].call.ids = {}
           \/ N = 5 /\ TheTool(5) = "decision" /\ Accepting(evidence, nodes[5].call.args)
    BY <2>2, <2>8 DEF Did, TheTool
  <2> QED BY <1>1, <2>5, <2>6, <2>9, <2>10
<1> QED BY <1>3, <1>4

\* What an entry more makes of the journal.
Journaled(entry) ==
  /\ nodes' = Append(nodes, Child(call.leaf, entry))
  /\ UNCHANGED <<evidence, report, cli>>

\* The end of the journal after one more entry.
LEMMA LastEntry ==
  ASSUME AgentInv, Going, NEW entry \in Entry, Journaled(entry)
  PROVE  /\ Len(nodes') = Len(nodes) + 1 /\ Len(nodes) \in Nat \ {0} /\ nodes # <<>>
         /\ \A n \in 1..Len(nodes) : nodes'[n] = nodes[n]
         /\ nodes'[Len(nodes) + 1].call = entry
         /\ nodes'[Len(nodes) + 1].parent = Len(nodes)
         /\ Says' = entry
         /\ After(Len(nodes))' = Followers(evidence, entry)
         /\ \A t : Did(Len(nodes), t)' = (entry.tool = t /\ entry.says = "done")
<1>1. nodes # <<>> /\ call.leaf = Len(nodes) /\ nodes \in Seq(Root \cup Kid) /\ Rooted
  BY InvFacts DEF JournalTells
<1>2. call.leaf \in Nat
  BY <1>1
<1>3. PICK leaf : leaf = call.leaf
  OBVIOUS
<1>4. nodes' = Append(nodes, Child(leaf, entry)) /\ evidence' = evidence
  BY <1>3 DEF Journaled
<1>5. /\ Len(nodes') = Len(nodes) + 1 /\ Len(nodes) \in Nat \ {0}
      /\ \A n \in 1..Len(nodes) : nodes'[n] = nodes[n]
      /\ nodes'[Len(nodes) + 1].call = entry
  BY <1>1, <1>2, <1>3, <1>4, JournalGrows
<1>6. PICK N : N = Len(nodes)
  OBVIOUS
<1>7. nodes'[N + 1].parent = N
  <2>1. Child(leaf, entry) \in Kid
    BY <1>2, <1>3 DEF Child, Kid
  <2>2. nodes'[N + 1] = Child(leaf, entry)
    BY <1>1, <1>4, <1>6, <2>1
  <2> QED BY <1>1, <1>3, <1>6, <2>2 DEF Child
<1>8. Len(nodes') = N + 1 /\ N + 1 # 1 /\ nodes'[N + 1].call = entry
  BY <1>5, <1>6
<1>9. Says' = entry
  BY <1>8 DEF Says
<1>10. After(Len(nodes))' = Followers(evidence, entry)
  BY <1>4, <1>8 DEF After
<1>11. \A t : Did(Len(nodes), t)' = (entry.tool = t /\ entry.says = "done")
  BY <1>8 DEF Did
<1> QED BY <1>1, <1>5, <1>6, <1>7, <1>9, <1>10, <1>11

\* An entry that follows the plan and fits what was told keeps the journal so.
LEMMA EntriesGrow ==
  ASSUME AgentInv, TrailInv, Going, NEW entry \in Entry, Journaled(entry),
         entry.tool \in After(Len(nodes)), NEW told, told = Told',
         entry.tool \in Tool =>
           ToolFits(evidence, Reported, told, nodes[Len(nodes)].call, entry),
         entry.tool = "decision" => AuditFits(evidence, told, Len(nodes), entry.args)
  PROVE  Chain' /\ EntriesFit'
<1>1. PICK N : N = Len(nodes)
  OBVIOUS
<1>2. /\ Len(nodes') = N + 1 /\ N \in Nat \ {0} /\ nodes # <<>>
      /\ \A n \in 1..N : nodes'[n] = nodes[n]
      /\ nodes'[N + 1].call = entry /\ nodes'[N + 1].parent = N
  BY <1>1, LastEntry
<1>3. evidence' = evidence /\ Reported' = Reported
  BY DEF Journaled, Reported
<1>4. \A n \in 1..N : After(n)' = After(n)
  BY <1>2, <1>3 DEF After
<1>5. Chain /\ EntriesFit
  BY TrailFacts
<1>6. Chain'
  <2> SUFFICES ASSUME NEW n \in 2..Len(nodes')
               PROVE  nodes'[n].parent = n - 1 /\ nodes'[n].call.tool \in After(n - 1)'
    BY DEF Chain
  <2>1. PICK m : m = n - 1
    OBVIOUS
  <2>2. n \in 2..(N + 1) /\ m \in 1..N
    BY <1>2, <2>1
  <2>3. CASE n = N + 1
    <3>1. m = N
      BY <1>2, <2>1, <2>3
    <3> QED BY <1>1, <1>2, <1>4, <2>1, <2>2, <2>3, <3>1
  <2>4. CASE n # N + 1
    <3>1. n \in 2..Len(nodes) /\ n \in 1..N
      BY <1>1, <1>2, <2>2, <2>4
    <3>2. nodes[n].parent = m /\ nodes[n].call.tool \in After(m)
      BY <1>5, <2>1, <3>1 DEF Chain
    <3> QED BY <1>2, <1>4, <2>1, <2>2, <3>1, <3>2
  <2> QED BY <2>3, <2>4
<1>7. Told' = Told \/ (N = 2 /\ entry.tool = "diagnose")
  <2>1. entry.tool = "diagnose" \/ Told' = Told
    <3>1. nodes \in Seq(Root \cup Kid) /\ nodes # <<>> /\ Rooted /\ call.leaf \in Nat
      BY <1>1, <1>2, InvFacts DEF JournalTells
    <3>2. PICK leaf \in Nat : leaf = call.leaf
      BY <3>1
    <3>3. nodes' = Append(nodes, Child(leaf, entry))
      BY <3>2 DEF Journaled
    <3> QED BY <3>1, <3>2, <3>3, JournalGrows
  <2>2. entry.tool = "diagnose" => N = 2
    BY <1>1, <1>2, AfterPlace
  <2> QED BY <2>1, <2>2
<1>8. EntriesFit'
  <2> SUFFICES ASSUME NEW n \in 2..Len(nodes')
               PROVE  Fits(n)'
    BY DEF EntriesFit
  <2>1. PICK m : m = n - 1
    OBVIOUS
  <2>2. n \in 2..(N + 1) /\ m \in 1..N /\ nodes'[m] = nodes[m]
    BY <1>2, <2>1
  <2>3. PICK e, prev : e = nodes'[n].call /\ prev = nodes[m].call
    OBVIOUS
  <2>4. /\ e.tool \in Tool => ToolFits(evidence, Reported, told, prev, e)
        /\ e.tool = "decision" => AuditFits(evidence, told, m, e.args)
    <3>1. CASE n = N + 1
      <4>1. m = N /\ e = entry /\ prev = nodes[N].call
        BY <1>2, <2>1, <2>3, <3>1
      <4> QED BY <1>1, <4>1
    <3>2. CASE n # N + 1
      <4>1. n \in 2..Len(nodes) /\ n \in 1..N
        BY <1>1, <1>2, <2>2, <3>2
      <4>2. e = nodes[n].call
        BY <1>2, <2>3, <4>1
      <4>3. Fits(n)
        BY <1>5, <4>1 DEF EntriesFit
      <4>4. /\ e.tool \in Tool => ToolFits(evidence, Reported, Told, prev, e)
            /\ e.tool = "decision" => AuditFits(evidence, Told, m, e.args)
        BY <2>1, <2>3, <4>2, <4>3 DEF Fits
      <4>5. CASE told = Told
        BY <4>4, <4>5
      <4>6. CASE told # Told
        <5>1. N = 2
          BY <1>7, <4>6
        <5>2. n = 2 /\ 2 \in 2..Len(nodes)
          BY <1>1, <4>1, <5>1
        <5>3. e.tool = "inspect"
          <6>1. Ordered
            BY <1>5, FollowsPlan
          <6> QED BY <1>1, <4>2, <5>1, <5>2, <6>1 DEF Ordered, TheTool
        <5>4. ToolFits(evidence, Reported, told, prev, e)
          BY <4>4, <5>3 DEF ToolFits, Names, Tool
        <5> QED BY <5>3, <5>4
      <4> QED BY <4>5, <4>6
    <3> QED BY <3>1, <3>2
  <2>5. nodes'[n - 1].call = prev
    BY <2>1, <2>2, <2>3
  <2> QED BY <1>3, <2>1, <2>3, <2>4, <2>5 DEF Fits
<1> QED BY <1>6, <1>8

\* A step that only adds an entry to the journal, which is not the review.
LEMMA JournalTrail ==
  ASSUME AgentInv, AgentInv', TrailInv, Going, NEW entry \in Entry, Journaled(entry),
         entry.tool \in After(Len(nodes)), entry.tool # "review",
         call'.pc \notin {"diagnosing", "recommending"}, NEW told, told = Told',
         entry.tool \in Tool =>
           ToolFits(evidence, Reported, told, nodes[Len(nodes)].call, entry),
         entry.tool = "decision" => AuditFits(evidence, told, Len(nodes), entry.args),
         CallIsTold'
  PROVE  TrailInv'
<1>1. Chain' /\ EntriesFit'
  BY EntriesGrow
<1>2. FindingsAreOurs'
  <2>1. AllOurs(call'.todo) /\ AllOurs(cli')
    BY NothingToDo, TrailFacts DEF Journaled
  <2> QED BY <2>1, TrailFacts, OursAreKept DEF Journaled
<1>3. ~ Closed'
  <2>1. Says' = entry
    BY LastEntry
  <2> QED BY <2>1 DEF Closed, Says, ToolOf
<1> QED BY <1>1, <1>2, <1>3 DEF TrailInv, ReviewIsImplied

-----------------------------------------------------------------------------
\* A submission that was made is in the journal when a tool is at work.
LEMMA ToldAtTools ==
  ASSUME AgentInv, TrailInv, call.pc \in Tool \cup {"diagnosing", "recommending"}
  PROVE  SubmissionIsTold
<1>1. Going /\ nodes # <<>>
  BY InvFacts DEF Going, Tool, JournalTells
<1>2. CASE call.pc \in Late
  BY <1>2, TrailFacts DEF DecisionIsTold
<1>3. CASE call.pc \notin Late
  <2>1. call.pc \in {"inspect", "diagnose", "diagnosing", "discover"}
    BY <1>3 DEF Tool, Late
  <2>2. call.submission = 0
    BY <1>1, <1>3, <2>1, TrailFacts DEF DecisionIsTold
  <2>3. Turn(call.pc) \in {"inspect", "diagnose", "discover"}
    BY <2>1 DEF Turn, Deciding
  <2>4. Len(nodes) \in {1, 2, 3}
    BY <1>1, <2>3, AfterPlace, TrailFacts DEF CallIsInTurn
  <2>5. \A n \in 2..Len(nodes) : ~ Audited(n)
    <3> SUFFICES ASSUME NEW n \in 2..Len(nodes), Audited(n)
                 PROVE  FALSE
      OBVIOUS
    <3>1. n = 5
      BY PlaceOf, TrailFacts DEF Audited, TheTool
    <3>2. PICK N : N = Len(nodes)
      OBVIOUS
    <3>3. N \in {1, 2, 3} /\ n \in 2..N
      BY <2>4, <3>2
    <3> QED BY <3>1, <3>3
  <2> QED BY <2>2, <2>5 DEF SubmissionIsTold
<1> QED BY <1>2, <1>3

\* An entry without a submission leaves what is told of one.
LEMMA SubmissionGrows ==
  ASSUME AgentInv, Going, NEW entry \in Entry, Journaled(entry), SubmissionIsTold,
         call'.submission = call.submission,
         entry.tool # "decision" \/ "res" \notin DOMAIN entry.args
  PROVE  SubmissionIsTold'
<1>1. PICK N : N = Len(nodes)
  OBVIOUS
<1>2. /\ Len(nodes') = N + 1 /\ N \in Nat \ {0}
      /\ \A n \in 1..N : nodes'[n] = nodes[n]
      /\ nodes'[N + 1].call = entry
  BY <1>1, LastEntry
<1>3. \A n \in 2..N : Audited(n)' = Audited(n) /\ nodes'[n].call = nodes[n].call
  BY <1>2 DEF Audited
<1>4. ~ Audited(N + 1)'
  BY <1>2 DEF Audited
<1>5. \A n \in 2..Len(nodes') : n = N + 1 \/ n \in 2..N
  BY <1>2
<1>6. CASE call.submission = 0
  <2>1. \A n \in 2..N : ~ Audited(n)
    BY <1>1, <1>6 DEF SubmissionIsTold
  <2>2. \A n \in 2..Len(nodes') : ~ Audited(n)'
    BY <1>3, <1>4, <1>5, <2>1
  <2> QED BY <1>6, <2>2 DEF SubmissionIsTold
<1>7. CASE call.submission # 0
  <2>1. PICK n \in 2..N : Audited(n) /\ nodes[n].call.args.res = call.submission
    BY <1>1, <1>7 DEF SubmissionIsTold
  <2>2. n \in 2..Len(nodes')
    BY <1>2
  <2>3. Audited(n)' /\ nodes'[n].call.args.res = call'.submission
    BY <1>3, <2>1
  <2> QED BY <1>7, <2>2, <2>3 DEF SubmissionIsTold
<1> QED BY <1>6, <1>7

-----------------------------------------------------------------------------
\* What the gateway and the handlers leave of a call, while a tool is at work.
LEMMA AtTools ==
  ASSUME AgentInv, TrailInv, call.pc \in Tool \cup {"diagnosing", "recommending"}
  PROVE  /\ Going /\ nodes # <<>> /\ call.leaf = Len(nodes)
         /\ Turn(call.pc) \in Tool /\ Turn(call.pc) \in After(Len(nodes))
         /\ ~ call.denied /\ ~ call.failed /\ call.recommended = {}
         /\ call.empty = ("diagnose" \in call.done /\ call.diagnosis = {})
         /\ call.diagnosis = Told /\ Business = Told
         /\ SubmissionIsTold
<1>1. call.pc \notin {"idle", "publish", "review"}
  BY DEF Tool
<1>2. Turn(call.pc) \in Tool
  BY DEF Turn, Tool, Deciding
<1>3. SubmissionIsTold
  BY ToldAtTools
<1>4. call.recommended = {} /\ call.diagnosis = Told /\ call.leaf = Len(nodes) /\ nodes # <<>>
  BY <1>1, InvFacts DEF AdviceIsDecided, JournalTells, Going, At
<1>5. /\ Turn(call.pc) \in After(Len(nodes)) /\ ~ call.denied /\ ~ call.failed
      /\ call.empty = ("diagnose" \in call.done /\ call.diagnosis = {})
  BY <1>1, TrailFacts DEF CallIsInTurn, Going, At
<1> QED BY <1>1, <1>2, <1>3, <1>4, <1>5 DEF Going, Business

\* A call that goes from a tool to the review.
LEMMA ReviewTold ==
  ASSUME AgentInv, TrailInv, Going, NEW entry \in Entry, Journaled(entry),
         call'.pc = "review", call'.got = {},
         call'.empty = ("diagnose" \in call'.done /\ call'.diagnosis = {}),
         "review" \in Followers(evidence, entry),
         call'.denied = (entry.says = "denied"),
         call'.failed = \/ entry.says = "failed" \/ entry.tool = "decision"
                        \/ (entry.tool = "discover" /\ entry.says = "done"),
         call'.recommended = IF entry.tool = "recommend" /\ entry.says = "done"
                             THEN entry.ids \ call'.diagnosis ELSE {},
         SubmissionIsTold'
  PROVE  CallIsTold'
<1>1. /\ Says' = entry /\ After(Len(nodes))' = Followers(evidence, entry)
      /\ \A t : Did(Len(nodes), t)' = (entry.tool = t /\ entry.says = "done")
  BY LastEntry
<1>2. /\ Did(Len(nodes), "discover")' = (entry.tool = "discover" /\ entry.says = "done")
      /\ Did(Len(nodes), "recommend")' = (entry.tool = "recommend" /\ entry.says = "done")
  BY <1>1
<1>3. call'.pc \notin {"idle", "publish", "diagnosing", "recommending", "audit", "unavailable",
                       "auditOutcome"}
  OBVIOUS
<1>4. CallIsInTurn'
  <2>1. Turn(call'.pc) = "review"
    BY DEF Turn, Deciding
  <2> QED BY <1>1, <2>1 DEF CallIsInTurn, At
<1>5. ReviewHears'
  BY <1>1, <1>2 DEF ReviewHears
<1>6. DecisionIsTold'
  BY DEF DecisionIsTold, Late, Deciding, At
<1>7. AdviceIsGiven'
  BY DEF AdviceIsGiven, At
<1> QED BY <1>4, <1>5, <1>6, <1>7 DEF CallIsTold

\* A tool was refused or failed.
LEMMA GiveUpTrail ==
  ASSUME AgentInv, AgentInv', TrailInv, call.pc \in Tool \cup {"diagnosing", "recommending"},
         NEW says \in {"denied", "failed"}, GiveUp(Turn(call.pc), says),
         UNCHANGED <<evidence, report, cli>>
  PROVE  TrailInv'
<1>1. PICK tool : tool = Turn(call.pc)
  OBVIOUS
<1>2. PICK entry : entry = ToolCall(tool, says, Business, call.diagnosis)
  OBVIOUS
<1>3. /\ Going /\ tool \in Tool /\ tool \in After(Len(nodes))
      /\ ~ call.denied /\ ~ call.failed /\ call.recommended = {}
      /\ call.empty = ("diagnose" \in call.done /\ call.diagnosis = {})
      /\ call.diagnosis = Told /\ Business = Told
      /\ SubmissionIsTold
  BY <1>1, AtTools
<1>4. /\ entry \in Entry /\ entry.tool = tool /\ entry.says = says /\ entry.ids = Business
      /\ entry.args.diagnosis = IF tool = "recommend" THEN Told ELSE {}
  <2>1. Business \in SUBSET Nat /\ call.diagnosis \in SUBSET Nat
    BY HandIsNumbers
  <2>2. /\ entry \in Entry /\ entry.tool = tool /\ entry.says = says /\ entry.ids = Business
    BY <1>2, <1>3, <2>1, ToolCallIs
  <2> QED BY <1>2, <1>3, <2>2 DEF ToolCall
<1>5. Journaled(entry)
  BY <1>1, <1>2 DEF GiveUp, AppendChild, PersistNode, Journaled
<1>6. Told' = Told
  <2>1. nodes \in Seq(Root \cup Kid) /\ nodes # <<>> /\ Rooted /\ call.leaf \in Nat
    BY <1>3, InvFacts DEF JournalTells
  <2>2. PICK leaf \in Nat : leaf = call.leaf
    BY <2>1
  <2>3. nodes' = Append(nodes, Child(leaf, entry))
    BY <1>5, <2>2 DEF Journaled
  <2> QED BY <1>4, <2>1, <2>2, <2>3, JournalGrows
<1>7. ToolFits(evidence, Reported, Told, nodes[Len(nodes)].call, entry)
  <2>1. tool \in {"inspect", "diagnose"} => Told = {}
    <3>1. tool \in {"inspect", "diagnose"} => call.pc \in Fresh
      BY <1>1, <1>3 DEF Turn, Fresh, Deciding, Tool
    <3> QED BY <1>3, <3>1, InvFacts DEF DiagnosisIsReport
  <2>2. entry.says # "done"
    BY <1>4
  <2>3. Names(evidence, Reported, Told, nodes[Len(nodes)].call, entry)
    BY <1>3, <1>4, <2>1, <2>2 DEF Names
  <2> QED BY <1>4, <2>3 DEF ToolFits
<1>8. call \in Calls /\ call.denied \in BOOLEAN /\ call.failed \in BOOLEAN
  BY InvFacts DEF Calls
<1>9. PICK d, f, n : /\ d = (call.denied \/ says = "denied")
                     /\ f = (call.failed \/ says = "failed")
                     /\ n = Len(nodes) + 1
  OBVIOUS
<1>10. call' = [call EXCEPT !.pc = "review", !.leaf = n, !.denied = d, !.failed = f,
                  !.todo = <<>>, !.got = {}]
  BY <1>9 DEF GiveUp
<1>11. /\ call'.pc = "review" /\ call'.denied = d /\ call'.failed = f
       /\ call'.got = {} /\ call'.done = call.done /\ call'.diagnosis = call.diagnosis
       /\ call'.recommended = call.recommended /\ call'.empty = call.empty
       /\ call'.submission = call.submission
  BY <1>8, <1>10 DEF Calls
<1>12. entry.tool # "decision" /\ entry.tool # "review" /\ entry.says # "done"
  BY <1>3, <1>4 DEF Tool
<1>13. SubmissionIsTold'
  BY <1>3, <1>4, <1>5, <1>11, <1>12, SubmissionGrows
<1>14. CallIsTold'
  <2>1. "review" \in Followers(evidence, entry)
    BY <1>3, <1>4, <1>12 DEF Followers
  <2>2. d = (entry.says = "denied")
    BY <1>3, <1>4, <1>9
  <2>3. f = \/ entry.says = "failed" \/ entry.tool = "decision"
            \/ (entry.tool = "discover" /\ entry.says = "done")
    BY <1>3, <1>4, <1>9, <1>12
  <2> QED BY <1>3, <1>4, <1>5, <1>11, <1>12, <1>13, <2>1, <2>2, <2>3, ReviewTold
<1>15. call'.pc \notin {"diagnosing", "recommending"}
  BY <1>11
<1> QED BY <1>3, <1>4, <1>5, <1>6, <1>7, <1>12, <1>14, <1>15, JournalTrail

\* A refused tool is the one whose turn it is.
LEMMA DeniedTrail ==
  ASSUME AgentInv, AgentInv', TrailInv, Denied
  PROVE  TrailInv'
<1>1. /\ call.pc \in Tool /\ GiveUp(call.pc, "denied")
      /\ UNCHANGED <<evidence, report, cli>>
  BY DEF Denied, IsTool, Calling
<1>2. Turn(call.pc) = call.pc
  BY <1>1 DEF Turn, Tool, Deciding
<1> QED BY <1>1, <1>2, GiveUpTrail

\* And so is one that failed, before or while it appends.
LEMMA ToolFailsTrail ==
  ASSUME AgentInv, AgentInv', TrailInv, ToolFails
  PROVE  TrailInv'
<1>1. /\ call.pc \in Tool \cup {"diagnosing", "recommending"}
      /\ UNCHANGED <<evidence, report, cli>>
      /\ GiveUp(CASE call.pc = "diagnosing" -> "diagnose"
                  [] call.pc = "recommending" -> "recommend"
                  [] OTHER -> call.pc, "failed")
  BY DEF ToolFails, IsTool, Calling, At
<1>2. Turn(call.pc) = (CASE call.pc = "diagnosing" -> "diagnose"
                  [] call.pc = "recommending" -> "recommend"
                  [] OTHER -> call.pc)
  BY <1>1 DEF Turn, Tool, Deciding
<1>3. GiveUp(Turn(call.pc), "failed")
  BY <1>1, <1>2
<1> QED BY <1>1, <1>3, GiveUpTrail

-----------------------------------------------------------------------------
\* A tool that did its work: next is what it makes of the call.
LEMMA ProceedTrail ==
  ASSUME AgentInv, AgentInv', TrailInv, call.pc \in Tool \cup {"diagnosing", "recommending"},
         NEW tool, tool = Turn(call.pc), NEW ids, ids \subseteq 1..Len(evidence),
         NEW next \in Calls, Proceed(tool, ids, next), UNCHANGED <<evidence, report, cli>>,
         NEW entry, entry = ToolCall(tool, "done", ids, call.diagnosis),
         next.pc \in {"diagnose", "discover", "recommend", "prepare", "review"},
         Turn(next.pc) \in Followers(evidence, entry),
         next.submission = call.submission, next.got = {},
         next.denied = call.denied, next.failed = call.failed,
         next.done = call.done,
         next.diagnosis = IF tool = "diagnose" THEN ids ELSE call.diagnosis,
         next.empty = ("diagnose" \in call.done \cup {tool} /\ next.diagnosis = {}),
         next.pc \in {"diagnose", "discover", "prepare"} => call.submission = 0,
         next.pc = "review" =>
           tool = "recommend" /\ next.recommended = ids \ call.diagnosis,
         Names(evidence, Reported, next.diagnosis, nodes[Len(nodes)].call, entry)
  PROVE  TrailInv'
<1>1. /\ Going /\ nodes # <<>> /\ tool \in Tool /\ tool \in After(Len(nodes))
      /\ ~ call.denied /\ ~ call.failed /\ SubmissionIsTold
      /\ call.diagnosis = Told /\ call \in Calls /\ Len(nodes) \in Nat
  BY AtTools, InvFacts
<1>2. /\ entry \in Entry /\ entry.tool = tool /\ entry.says = "done" /\ entry.ids = ids
      /\ entry.args.diagnosis = IF tool = "recommend" THEN call.diagnosis ELSE {}
  <2>1. ids \in SUBSET Nat /\ call.diagnosis \in SUBSET Nat
    BY HandIsNumbers
  <2>2. entry \in Entry
    BY <1>1, DoneCall
  <2> QED BY <2>2 DEF ToolCall
<1>3. Journaled(entry)
  BY DEF Proceed, AppendChild, PersistNode, Journaled
<1>4. PICK leaf, done : leaf = Len(nodes) + 1 /\ done = call.done \cup {tool}
  OBVIOUS
<1>5. call' = [next EXCEPT !.leaf = leaf, !.done = done]
  BY <1>4 DEF Proceed, Calls
<1>6. /\ call'.pc = next.pc /\ call'.submission = call.submission /\ call'.got = {}
      /\ call'.denied = call.denied /\ call'.failed = call.failed
      /\ call'.diagnosis = next.diagnosis /\ call'.empty = next.empty
      /\ call'.recommended = next.recommended
      /\ call'.empty = ("diagnose" \in call'.done /\ call'.diagnosis = {})
  BY <1>4, <1>5 DEF Calls
<1>7. call'.pc \notin {"idle", "publish", "diagnosing", "recommending"} \cup Deciding
  BY <1>6 DEF Deciding
<1>8. PICK told : told = Told'
  OBVIOUS
<1>9. told = next.diagnosis
  <2>1. JournalTells'
    BY DEF AgentInv
  <2>2. call'.diagnosis = Told'
    BY <1>7, <2>1 DEF JournalTells, Going
  <2> QED BY <1>6, <1>8, <2>2
<1>10. ToolFits(evidence, Reported, told, nodes[Len(nodes)].call, entry)
  BY <1>2, <1>9 DEF ToolFits
<1>11. entry.tool # "decision" /\ entry.tool # "review"
  BY <1>1, <1>2 DEF Tool
<1>12. SubmissionIsTold'
  BY <1>1, <1>2, <1>3, <1>6, <1>11, SubmissionGrows
<1>13. CASE next.pc = "review"
  <2>1. "review" \in Followers(evidence, entry)
    BY <1>13 DEF Turn, Deciding
  <2>2. tool = "recommend" /\ next.recommended = ids \ call.diagnosis
    BY <1>13
  <2>3. /\ call'.denied = (entry.says = "denied")
        /\ call'.failed = \/ entry.says = "failed" \/ entry.tool = "decision"
                          \/ (entry.tool = "discover" /\ entry.says = "done")
    <3>1. call'.denied = FALSE /\ call'.failed = FALSE
      BY <1>1, <1>6 DEF Calls
    <3> QED BY <1>2, <2>2, <3>1
  <2>4. call'.recommended = IF entry.tool = "recommend" /\ entry.says = "done"
                            THEN entry.ids \ call'.diagnosis ELSE {}
    BY <1>2, <1>6, <2>2
  <2>5. CallIsTold'
    BY <1>1, <1>2, <1>3, <1>6, <1>12, <1>13, <2>1, <2>3, <2>4, ReviewTold
  <2> QED BY <1>1, <1>2, <1>3, <1>7, <1>8, <1>10, <1>11, <2>5, JournalTrail
<1>14. CASE next.pc # "review"
  <2>1. call'.pc \in {"diagnose", "discover", "recommend", "prepare"}
    BY <1>6, <1>14
  <2>2. After(Len(nodes))' = Followers(evidence, entry)
    BY <1>1, <1>2, <1>3, LastEntry
  <2>3. CallIsInTurn'
    <3>1. Turn(call'.pc) \in After(Len(nodes))'
      BY <1>6, <2>2
    <3>2. ~ call'.denied /\ ~ call'.failed /\ call'.got = {}
          /\ call'.empty = ("diagnose" \in call'.done /\ call'.diagnosis = {})
      BY <1>1, <1>6
    <3> QED BY <3>1, <3>2 DEF CallIsInTurn
  <2>4. ReviewHears' /\ AdviceIsGiven'
    BY <2>1 DEF ReviewHears, AdviceIsGiven, At
  <2>5. call'.pc # "recommend" => call'.submission = 0
    BY <1>6, <2>1
  <2>6. DecisionIsTold'
    BY <1>12, <2>1, <2>5 DEF DecisionIsTold, Late, Deciding, At
  <2>7. CallIsTold'
    BY <2>3, <2>4, <2>6 DEF CallIsTold
  <2> QED BY <1>1, <1>2, <1>3, <1>7, <1>8, <1>10, <1>11, <2>7, JournalTrail
<1> QED BY <1>13, <1>14

\* inspect names nothing.
LEMMA InspectTrail ==
  ASSUME AgentInv, AgentInv', TrailInv, Inspect
  PROVE  TrailInv'
<1>1. /\ call.pc = "inspect" /\ call \in Calls
      /\ Authorize(call.role, "inspect", call.budget)
      /\ UNCHANGED <<evidence, report, cli>>
      /\ DiagnosisIsReport /\ JournalTells
  BY InvFacts DEF Inspect, At, Calling
<1>2. PICK paid : paid = Pay("inspect")
  OBVIOUS
<1>3. paid \in Calls /\ \E b \in Nat : paid = [call EXCEPT !.budget = b]
  BY <1>1, <1>2, PayIs
<1>4. PICK next : next = [paid EXCEPT !.pc = "diagnose"]
  OBVIOUS
<1>5. Proceed("inspect", {}, next)
  BY <1>2, <1>4 DEF Inspect
<1>6. next \in Calls
  BY <1>3, <1>4 DEF Calls, Place, Tool
<1>7. /\ next.pc = "diagnose" /\ next.done = call.done /\ next.diagnosis = call.diagnosis
      /\ next.got = call.got /\ next.empty = call.empty
      /\ next.denied = call.denied /\ next.failed = call.failed
      /\ next.submission = call.submission
  BY <1>1, <1>3, <1>4 DEF Calls
<1>8. call.got = {} /\ call.submission = 0
  BY <1>1, TrailFacts DEF DiagnosisIsReport, DecisionIsTold, At, Fresh, Going, Late
<1>9. Turn(call.pc) = "inspect" /\ Turn(next.pc) = "diagnose"
  BY <1>1, <1>7 DEF Turn, Deciding
<1>10. PICK entry : entry = ToolCall("inspect", "done", {}, call.diagnosis)
  OBVIOUS
<1>11. entry.tool = "inspect" /\ entry.says = "done" /\ entry.ids = {}
  BY <1>10 DEF ToolCall
<1>12. "diagnose" \in Followers(evidence, entry)
  BY <1>11 DEF Followers
<1>13. Names(evidence, Reported, next.diagnosis, nodes[Len(nodes)].call, entry)
  BY <1>11 DEF Names
<1>14. next.empty = ("diagnose" \in call.done \cup {"inspect"} /\ next.diagnosis = {})
  BY <1>1, <1>7, AtTools DEF Tool
<1>15. call.pc \in Tool
  BY <1>1 DEF Tool
<1> QED BY <1>1, <1>5, <1>6, <1>7, <1>8, <1>9, <1>10, <1>12, <1>13, <1>14, <1>15, ProceedTrail

\* diagnose names the records of the report.
LEMMA DiagnosedTrail ==
  ASSUME AgentInv, AgentInv', TrailInv, Diagnosed
  PROVE  TrailInv'
<1>1. /\ call.pc = "diagnosing" /\ call \in Calls /\ call.todo = <<>>
      /\ UNCHANGED <<evidence, report, cli>> /\ DiagnosisIsReport
  BY InvFacts DEF Diagnosed, At, Calling
<1>2. PICK got, none : got = call.got /\ none = (call.got = {})
  OBVIOUS
<1>3. got \in SUBSET Nat /\ none \in BOOLEAN /\ got \subseteq 1..Len(evidence)
  BY <1>2, HandIsNumbers
<1>4. PICK next : next = [call EXCEPT !.pc = "discover", !.diagnosis = got,
                                      !.empty = none, !.got = {}]
  OBVIOUS
<1>5. Proceed("diagnose", got, next)
  BY <1>2, <1>4 DEF Diagnosed
<1>6. next \in Calls
  BY <1>1, <1>3, <1>4, ZenonT(60) DEF Calls, Place, Tool
<1>7. /\ next.pc = "discover" /\ next.done = call.done /\ next.diagnosis = got
      /\ next.got = {} /\ next.empty = none
      /\ next.denied = call.denied /\ next.failed = call.failed
      /\ next.submission = call.submission
  BY <1>1, <1>4 DEF Calls
<1>8. RecordsAt(evidence, got) = Reported
  <2>1. RecordsAt(evidence, call.got) \cup {call.todo[i] : i \in 1..Len(call.todo)} = Reported
    BY <1>1 DEF DiagnosisIsReport, At
  <2>2. {call.todo[i] : i \in 1..Len(call.todo)} = {}
    BY <1>1
  <2> QED BY <1>2, <2>1, <2>2
<1>9. call.submission = 0
  BY <1>1, TrailFacts DEF DecisionIsTold, Going, Late
<1>10. Turn(call.pc) = "diagnose" /\ Turn(next.pc) = "discover"
  BY <1>1, <1>7 DEF Turn, Deciding
<1>11. PICK entry : entry = ToolCall("diagnose", "done", got, call.diagnosis)
  OBVIOUS
<1>12. entry.tool = "diagnose" /\ entry.says = "done" /\ entry.ids = got
  BY <1>11 DEF ToolCall
<1>13. "discover" \in Followers(evidence, entry)
  BY <1>12 DEF Followers
<1>14. Names(evidence, Reported, next.diagnosis, nodes[Len(nodes)].call, entry)
  BY <1>8, <1>12 DEF Names
<1>15. next.empty = ("diagnose" \in call.done \cup {"diagnose"} /\ next.diagnosis = {})
  BY <1>2, <1>7
<1> QED BY <1>1, <1>3, <1>5, <1>6, <1>7, <1>9, <1>10, <1>11, <1>13, <1>14, <1>15, ProceedTrail

\* discover names the diagnosis.
LEMMA DiscoverTrail ==
  ASSUME AgentInv, AgentInv', TrailInv, Discover
  PROVE  TrailInv'
<1>1. /\ call.pc = "discover" /\ call \in Calls
      /\ Authorize(call.role, "discover", call.budget)
      /\ UNCHANGED <<evidence, report, cli>>
  BY InvFacts DEF Discover, At, Calling
<1>2. PICK paid : paid = Pay("discover")
  OBVIOUS
<1>3. paid \in Calls /\ \E b \in Nat : paid = [call EXCEPT !.budget = b]
  BY <1>1, <1>2, PayIs
<1>4. PICK pc : pc = IF call.diagnosis = {} THEN "recommend" ELSE "prepare"
  OBVIOUS
<1>5. PICK next : next = [paid EXCEPT !.pc = pc]
  OBVIOUS
<1>6. PICK ids : ids = call.diagnosis
  OBVIOUS
<1>7. Proceed("discover", ids, next) /\ ids \subseteq 1..Len(evidence)
  BY <1>2, <1>4, <1>5, <1>6, HandIsNumbers DEF Discover
<1>8. next \in Calls
  BY <1>3, <1>4, <1>5, ZenonT(60) DEF Calls, Place, Tool
<1>9. /\ next.pc = pc /\ next.done = call.done /\ next.diagnosis = ids
      /\ next.got = call.got /\ next.empty = call.empty
      /\ next.denied = call.denied /\ next.failed = call.failed
      /\ next.submission = call.submission
  BY <1>1, <1>3, <1>5, <1>6 DEF Calls
<1>10. call.got = {} /\ call.submission = 0
  BY <1>1, TrailFacts DEF CallIsInTurn, DecisionIsTold, At, Going, Late
<1>11. Turn(call.pc) = "discover"
  BY <1>1 DEF Turn, Deciding
<1>12. PICK entry : entry = ToolCall("discover", "done", ids, call.diagnosis)
  OBVIOUS
<1>13. entry.tool = "discover" /\ entry.says = "done" /\ entry.ids = ids
  BY <1>12 DEF ToolCall
<1>14. Turn(next.pc) \in Followers(evidence, entry)
  <2>1. Turn(next.pc) = IF ids = {} THEN "recommend" ELSE "decision"
    BY <1>4, <1>6, <1>9 DEF Turn, Deciding
  <2> QED BY <1>13, <2>1 DEF Followers
<1>15. Names(evidence, Reported, next.diagnosis, nodes[Len(nodes)].call, entry)
  BY <1>9, <1>13 DEF Names
<1>16. next.empty = ("diagnose" \in call.done \cup {"discover"} /\ next.diagnosis = {})
  BY <1>1, <1>6, <1>9, AtTools DEF Tool
<1>17. call.pc \in Tool /\ next.pc \in {"recommend", "prepare"}
  BY <1>1, <1>4, <1>9 DEF Tool
<1> QED BY <1>1, <1>6, <1>7, <1>8, <1>9, <1>10, <1>11, <1>12, <1>14, <1>15, <1>16, <1>17, ProceedTrail

\* Without a finding nothing is decided and nothing recommended.
LEMMA NothingToRecommendTrail ==
  ASSUME AgentInv, AgentInv', TrailInv, NothingToRecommend
  PROVE  TrailInv'
<1>1. /\ call.pc = "recommend" /\ call \in Calls /\ call.empty
      /\ UNCHANGED <<evidence, report, cli>>
  BY InvFacts DEF NothingToRecommend, AsksGateway, At, Calling
<1>2. PICK next : next = [call EXCEPT !.pc = "review"]
  OBVIOUS
<1>3. Proceed("recommend", {}, next)
  BY <1>2 DEF NothingToRecommend
<1>4. next \in Calls
  BY <1>1, <1>2 DEF Calls, Place
<1>5. /\ next.pc = "review" /\ next.done = call.done /\ next.diagnosis = call.diagnosis
      /\ next.got = call.got /\ next.empty = call.empty
      /\ next.denied = call.denied /\ next.failed = call.failed
      /\ next.submission = call.submission /\ next.recommended = call.recommended
  BY <1>1, <1>2 DEF Calls
<1>6. call.pc \in Tool /\ Turn(call.pc) = "recommend" /\ Turn(next.pc) = "review"
  BY <1>1, <1>5 DEF Tool, Turn, Deciding
<1>7. /\ call.recommended = {} /\ call.diagnosis = Told /\ nodes # <<>>
      /\ call.empty = ("diagnose" \in call.done /\ call.diagnosis = {})
      /\ "recommend" \in After(Len(nodes))
  BY <1>6, AtTools
<1>8. Told = {} /\ call.got = {}
  BY <1>1, <1>7, TrailFacts DEF CallIsInTurn, Going, At
<1>9. nodes[Len(nodes)].call.tool # "decision"
  <2>1. Len(nodes) = 5 => 4 \in 2..Len(nodes) /\ 5 \in 2..Len(nodes)
    OBVIOUS
  <2>2. Len(nodes) = 5 /\ TheTool(5) = "decision" => nodes[4].call.ids # {} /\ Fits(4)
    <3> SUFFICES ASSUME Len(nodes) = 5, TheTool(5) = "decision"
                 PROVE  nodes[4].call.ids # {} /\ Fits(4)
      OBVIOUS
    <3>1. Ordered
      BY TrailFacts, FollowsPlan
    <3>2. nodes[4].call.ids # {}
      BY <3>1 DEF Ordered
    <3> QED BY <2>1, <3>2, TrailFacts DEF EntriesFit
  <2>3. Len(nodes) = 5 => TheTool(4) = "discover"
    BY TrailFacts, FollowsPlan DEF Ordered
  <2>4. ~ (Len(nodes) = 5 /\ TheTool(5) = "decision")
    <3> SUFFICES ASSUME Len(nodes) = 5, TheTool(5) = "decision"
                 PROVE  FALSE
      OBVIOUS
    <3>1. PICK e, prev : e = nodes[4].call /\ prev = nodes[4 - 1].call
      OBVIOUS
    <3>2. e.tool = "discover" /\ e.ids # {}
      BY <2>2, <2>3, <3>1 DEF TheTool
    <3>3. ToolFits(evidence, Reported, Told, prev, e)
      BY <2>2, <3>1, <3>2 DEF Fits, Tool
    <3>4. e.ids = Told
      BY <3>2, <3>3 DEF ToolFits, Names
    <3> QED BY <1>8, <3>2, <3>4
  <2>5. \/ Len(nodes) = 4 /\ Did(4, "discover")
        \/ Len(nodes) = 5 /\ TheTool(5) = "decision"
    BY <1>7, AfterPlace
  <2>6. Len(nodes) = 4 /\ Did(4, "discover")
    BY <2>4, <2>5
  <2> QED BY <2>6 DEF Did
<1>10. PICK entry : entry = ToolCall("recommend", "done", {}, call.diagnosis)
  OBVIOUS
<1>11. entry.tool = "recommend" /\ entry.says = "done" /\ entry.ids = {}
  BY <1>10 DEF ToolCall
<1>12. "review" \in Followers(evidence, entry)
  BY <1>11 DEF Followers
<1>13. Names(evidence, Reported, next.diagnosis, nodes[Len(nodes)].call, entry)
  <2>1. next.diagnosis = {}
    BY <1>5, <1>7, <1>8
  <2>2. RecordsAt(evidence, {}) = {}
    BY DEF RecordsAt
  <2>3. AdviceAfter(evidence, {}, nodes[Len(nodes)].call) = {}
    BY <1>9 DEF AdviceAfter
  <2> QED BY <1>11, <2>1, <2>2, <2>3 DEF Names
<1>14. next.empty = ("diagnose" \in call.done \cup {"recommend"} /\ next.diagnosis = {})
  BY <1>5, <1>7
<1>15. next.recommended = {} \ call.diagnosis
  BY <1>5, <1>7
<1> QED BY <1>1, <1>3, <1>4, <1>5, <1>6, <1>8, <1>10, <1>12, <1>13, <1>14, <1>15, ProceedTrail

-----------------------------------------------------------------------------
\* recommend follows the decision whose submission the call holds.
LEMMA AtRecommend ==
  ASSUME AgentInv, TrailInv, call.pc \in {"recommend", "recommending"}, Told # {}
  PROVE  /\ Len(nodes) = 5 /\ TheTool(5) = "decision" /\ Audited(5)
         /\ nodes[5].call.args.res = call.submission
         /\ evidence[call.submission].reasons = {}
<1>1. /\ nodes # <<>> /\ SubmissionIsTold /\ "recommend" \in After(Len(nodes))
  <2>1. Turn(call.pc) = "recommend" /\ call.pc \in Tool \cup {"diagnosing", "recommending"}
    BY DEF Turn, Tool, Deciding
  <2> QED BY <2>1, AtTools
<1>2. ~ (Len(nodes) = 4 /\ Did(4, "discover") /\ nodes[4].call.ids = {})
  <2> SUFFICES ASSUME Len(nodes) = 4, Did(4, "discover"), nodes[4].call.ids = {}
               PROVE  FALSE
    OBVIOUS
  <2>1. Fits(4)
    BY TrailFacts DEF EntriesFit
  <2>2. PICK e, prev : e = nodes[4].call /\ prev = nodes[4 - 1].call
    OBVIOUS
  <2>3. e.tool = "discover" /\ e.ids = {}
    BY <2>2 DEF Did
  <2>4. ToolFits(evidence, Reported, Told, prev, e)
    BY <2>1, <2>2, <2>3 DEF Fits, Tool
  <2>5. e.ids = Told
    BY <2>3, <2>4 DEF ToolFits, Names
  <2> QED BY <2>3, <2>5
<1>3. Len(nodes) = 5 /\ TheTool(5) = "decision" /\ Accepting(evidence, nodes[5].call.args)
  BY <1>1, <1>2, AfterPlace
<1>4. Audited(5) /\ 5 \in 2..Len(nodes)
  BY <1>3 DEF Audited, Accepting, TheTool
<1>5. nodes[5].call.args.res = call.submission
  <2>1. PICK n \in 2..Len(nodes) : Audited(n) /\ nodes[n].call.args.res = call.submission
    BY <1>1, <1>4 DEF SubmissionIsTold
  <2>2. n = 5
    BY <2>1, PlaceOf, TrailFacts DEF Audited, TheTool
  <2> QED BY <2>1, <2>2
<1>6. evidence[call.submission].reasons = {}
  BY <1>3, <1>5 DEF Accepting
<1> QED BY <1>3, <1>4, <1>5, <1>6

\* recommend names the findings and the records of what was accepted.
LEMMA RecommendedTrail ==
  ASSUME AgentInv, AgentInv', TrailInv, Recommended
  PROVE  TrailInv'
<1>1. /\ call.pc = "recommending" /\ call \in Calls /\ call.todo = <<>>
      /\ UNCHANGED <<evidence, report, cli>> /\ DiagnosisIsReport /\ AdviceIsDecided
  BY InvFacts DEF Recommended, At, Calling
<1>2. PICK got : got = call.got
  OBVIOUS
<1>3. /\ got \in SUBSET Nat /\ got \subseteq 1..Len(evidence)
      /\ Business \subseteq 1..Len(evidence)
  BY <1>2, HandIsNumbers
<1>4. PICK next : next = [call EXCEPT !.pc = "review", !.recommended = got, !.got = {}]
  OBVIOUS
<1>5. PICK ids : ids = Business \cup got
  OBVIOUS
<1>6. Proceed("recommend", ids, next) /\ ids \subseteq 1..Len(evidence)
  BY <1>2, <1>3, <1>4, <1>5 DEF Recommended
<1>7. next \in Calls
  BY <1>1, <1>3, <1>4 DEF Calls, Place
<1>8. /\ next.pc = "review" /\ next.done = call.done /\ next.diagnosis = call.diagnosis
      /\ next.got = {} /\ next.recommended = got /\ next.empty = call.empty
      /\ next.denied = call.denied /\ next.failed = call.failed
      /\ next.submission = call.submission
  BY <1>1, <1>4 DEF Calls
<1>9. /\ call.diagnosis = Told /\ Business = Told /\ nodes # <<>>
      /\ call.empty = ("diagnose" \in call.done /\ call.diagnosis = {})
  BY <1>1, AtTools
<1>10. Told # {}
  BY <1>1, <1>9 DEF AdviceIsDecided, At
<1>11. /\ Len(nodes) = 5 /\ TheTool(5) = "decision"
       /\ nodes[5].call.args.res = call.submission
  BY <1>1, <1>10, AtRecommend
<1>12. PICK actions : actions = evidence[call.submission].actions
  OBVIOUS
<1>13. RecordsAt(evidence, got) = Advice(evidence, Told, actions)
  <2>1. RecordsAt(evidence, call.got) \cup {call.todo[i] : i \in 1..Len(call.todo)}
          = Advice(evidence, call.diagnosis, evidence[call.submission].actions)
    BY <1>1, TrailFacts DEF AdviceIsGiven, At
  <2>2. {call.todo[i] : i \in 1..Len(call.todo)} = {}
    BY <1>1
  <2> QED BY <1>2, <1>9, <1>12, <2>1, <2>2
<1>14. \A i \in got : evidence[i].kind = "recommendation"
  <2> SUFFICES ASSUME NEW i \in got
               PROVE  evidence[i].kind = "recommendation"
    OBVIOUS
  <2>1. evidence[i] \in RecordsAt(evidence, got)
    BY DEF RecordsAt
  <2>2. PICK a \in actions : evidence[i] = Recommendation(evidence, Told, a)
    BY <1>13, <2>1 DEF Advice
  <2> QED BY <2>2 DEF Recommendation
<1>15. \A i \in Told : evidence[i].kind = "diagnostic"
  <2> SUFFICES ASSUME NEW i \in Told
               PROVE  evidence[i].kind = "diagnostic"
    OBVIOUS
  <2>1. RecordsAt(evidence, call.diagnosis) = Reported
    BY <1>1 DEF DiagnosisIsReport, Going, Fresh
  <2>2. evidence[i] \in Reported
    BY <1>9, <2>1 DEF RecordsAt
  <2> QED BY <2>2 DEF Reported, Diagnostic
<1>16. ids \ Told = got
  <2>1. \A i \in got : i \notin Told
    BY <1>14, <1>15
  <2> QED BY <1>5, <1>9, <2>1
<1>17. Turn(call.pc) = "recommend" /\ Turn(next.pc) = "review"
  BY <1>1, <1>8 DEF Turn, Deciding
<1>18. PICK entry : entry = ToolCall("recommend", "done", ids, call.diagnosis)
  OBVIOUS
<1>19. entry.tool = "recommend" /\ entry.says = "done" /\ entry.ids = ids
  BY <1>18 DEF ToolCall
<1>20. "review" \in Followers(evidence, entry)
  BY <1>19 DEF Followers
<1>21. Names(evidence, Reported, next.diagnosis, nodes[Len(nodes)].call, entry)
  <2>1. next.diagnosis = Told
    BY <1>8, <1>9
  <2>2. AdviceAfter(evidence, Told, nodes[Len(nodes)].call) = Advice(evidence, Told, actions)
    BY <1>11, <1>12 DEF AdviceAfter, TheTool
  <2>3. Told \subseteq ids
    BY <1>5, <1>9
  <2>4. RecordsAt(evidence, ids \ Told) = AdviceAfter(evidence, Told, nodes[Len(nodes)].call)
    BY <1>13, <1>16, <2>2
  <2> QED BY <1>19, <2>1, <2>3, <2>4 DEF Names
<1>22. next.empty = ("diagnose" \in call.done \cup {"recommend"} /\ next.diagnosis = {})
  BY <1>8, <1>9
<1>23. next.recommended = ids \ call.diagnosis
  BY <1>8, <1>9, <1>16
<1>24. PICK tool : tool = "recommend"
  OBVIOUS
<1>25. /\ tool = Turn(call.pc) /\ Proceed(tool, ids, next)
       /\ entry = ToolCall(tool, "done", ids, call.diagnosis)
       /\ next.diagnosis = (IF tool = "diagnose" THEN ids ELSE call.diagnosis)
       /\ next.empty = ("diagnose" \in call.done \cup {tool} /\ next.diagnosis = {})
       /\ next.pc = "review" => tool = "recommend" /\ next.recommended = ids \ call.diagnosis
  BY <1>6, <1>8, <1>17, <1>18, <1>22, <1>23, <1>24
<1>26. /\ call.pc \in Tool \cup {"diagnosing", "recommending"}
       /\ next.pc \in {"diagnose", "discover", "recommend", "prepare", "review"}
       /\ next.pc \in {"diagnose", "discover", "prepare"} => call.submission = 0
       /\ Turn(next.pc) \in Followers(evidence, entry)
  BY <1>1, <1>8, <1>17, <1>20
<1>27. ids \subseteq 1..Len(evidence) /\ next \in Calls /\ UNCHANGED <<evidence, report, cli>>
  BY <1>1, <1>6, <1>7
<1> QED BY <1>8, <1>21, <1>25, <1>26, <1>27, ProceedTrail, ZenonT(60)

-----------------------------------------------------------------------------
\* The decision is put in the journal, and recommend follows if it accepts.
LEMMA AuditedTrail ==
  ASSUME AgentInv, AgentInv', TrailInv, call.pc \in Deciding,
         NEW args \in [ctx : Nat, prop : Nat, res : Nat] \cup [ctx : Nat, out : Nat],
         NEW ids, ids \subseteq 1..Len(evidence),
         AppendChild(call.leaf, AuditCall(args, ids)),
         NEW accepts \in BOOLEAN, accepts = Accepting(evidence, args),
         NEW pc, pc = IF accepts THEN "recommend" ELSE "review",
         NEW failed, failed = ~ accepts,
         call' = [call EXCEPT !.pc = pc, !.failed = failed, !.leaf = Len(nodes) + 1],
         UNCHANGED <<evidence, report, cli>>,
         AuditFits(evidence, Told, Len(nodes), args),
         NEW entry, entry = AuditCall(args, ids), SubmissionIsTold'
  PROVE  TrailInv'
<1>1. /\ nodes # <<>> /\ "decision" \in After(Len(nodes))
  BY AtDiscover
<1>2. call.pc \notin {"idle", "publish", "review", "diagnosing", "recommending"}
  BY DEF Deciding
<1>3. /\ Going /\ ~ call.denied /\ call.got = {} /\ call.recommended = {}
      /\ call.empty = ("diagnose" \in call.done /\ call.diagnosis = {})
  BY <1>2, TrailFacts, InvFacts DEF CallIsInTurn, AdviceIsDecided, At, Going
<1>4. call \in Calls /\ evidence \in Seq(Record) /\ Len(nodes) \in Nat
  BY InvFacts
<1>5. /\ entry \in Entry /\ entry.tool = "decision" /\ entry.says = "recorded"
      /\ entry.ids = ids /\ entry.args = args
  <2>1. ids \in SUBSET Nat
    BY <1>4
  <2>2. /\ entry.tool = "decision" /\ entry.says = "recorded"
        /\ entry.ids = ids /\ entry.args = args
    BY DEF AuditCall
  <2>3. entry \in Entry
    BY <2>1 DEF AuditCall, AuditEntry, Entry
  <2> QED BY <2>2, <2>3
<1>6. Journaled(entry)
  BY DEF AppendChild, PersistNode, Journaled
<1>7. PICK told : told = Told'
  OBVIOUS
<1>8. told = Told
  <2>1. nodes \in Seq(Root \cup Kid) /\ Rooted /\ call.leaf \in Nat
    BY <1>3, InvFacts DEF JournalTells
  <2>2. PICK leaf \in Nat : leaf = call.leaf
    BY <2>1
  <2>3. nodes' = Append(nodes, Child(leaf, entry))
    BY <1>6, <2>2 DEF Journaled
  <2> QED BY <1>1, <1>5, <1>7, <2>1, <2>2, <2>3, JournalGrows
<1>9. /\ call'.pc = pc /\ call'.failed = failed /\ call'.denied = call.denied
      /\ call'.got = call.got /\ call'.recommended = call.recommended
      /\ call'.empty = call.empty /\ call'.done = call.done
      /\ call'.diagnosis = call.diagnosis
  BY <1>4 DEF Calls
<1>10. entry.tool \notin Tool /\ entry.tool # "review"
  BY <1>5 DEF Tool
<1>11. pc \in Followers(evidence, entry)
  BY <1>5, <1>10 DEF Followers
<1>12. CallIsTold'
  <2>1. CASE accepts
    <3>1. pc = "recommend" /\ call'.pc = "recommend" /\ ~ call'.failed /\ ~ call'.denied
      BY <1>3, <1>9, <2>1
    <3>2. After(Len(nodes))' = Followers(evidence, entry)
      BY <1>3, <1>5, <1>6, LastEntry
    <3>3. CallIsInTurn'
      <4>1. Turn(call'.pc) = pc
        BY <3>1 DEF Turn
      <4>2. /\ call'.got = {}
            /\ call'.empty = ("diagnose" \in call'.done /\ call'.diagnosis = {})
        BY <1>3, <1>9
      <4> QED BY <1>11, <3>1, <3>2, <4>1, <4>2 DEF CallIsInTurn
    <3>4. ReviewHears' /\ AdviceIsGiven'
      BY <3>1 DEF ReviewHears, AdviceIsGiven, At
    <3>5. DecisionIsTold'
      BY <3>1 DEF DecisionIsTold, Late, Deciding, At
    <3> QED BY <3>3, <3>4, <3>5 DEF CallIsTold
  <2>2. CASE ~ accepts
    <3>1. call'.pc = "review" /\ "review" \in Followers(evidence, entry)
      BY <1>9, <1>11, <2>2
    <3>2. /\ call'.got = {} /\ call'.empty = ("diagnose" \in call'.done /\ call'.diagnosis = {})
          /\ call'.denied = (entry.says = "denied")
      BY <1>3, <1>4, <1>5, <1>9 DEF Calls
    <3>3. call'.failed = \/ entry.says = "failed" \/ entry.tool = "decision"
                         \/ (entry.tool = "discover" /\ entry.says = "done")
      <4>1. call'.failed = TRUE
        BY <1>9, <2>2
      <4> QED BY <1>5, <4>1
    <3>4. call'.recommended = IF entry.tool = "recommend" /\ entry.says = "done"
                              THEN entry.ids \ call'.diagnosis ELSE {}
      BY <1>3, <1>5, <1>9
    <3> QED BY <1>3, <1>5, <1>6, <3>1, <3>2, <3>3, <3>4, ReviewTold
  <2> QED BY <2>1, <2>2
<1>13. call'.pc \notin {"diagnosing", "recommending"}
  BY <1>9
<1>14. AuditFits(evidence, told, Len(nodes), entry.args)
  BY <1>5, <1>8
<1>15. "decision" \in After(Len(nodes)) /\ entry.tool = "decision"
  BY <1>1, <1>5
<1> QED BY <1>3, <1>5, <1>6, <1>7, <1>10, <1>12, <1>13, <1>14, <1>15, JournalTrail

\* A submission in the journal replays, for the findings told.
LEMMA AuditTrail ==
  ASSUME AgentInv, AgentInv', TrailInv, Audit
  PROVE  TrailInv'
<1>1. /\ call.pc = "audit" /\ call \in Calls /\ call.provider \in Provider
      /\ UNCHANGED <<evidence, report, cli>>
  BY InvFacts DEF Audit, At, Calling, Calls
<1>2. PICK p \in 1..Len(evidence) :
        /\ Submitted(evidence, call.ctx, p, call.submission)
        /\ evidence[p].binding = Binding(call.provider)
  BY <1>1, TrailFacts DEF DecisionIsTold, At
<1>3. /\ {call.ctx, p, call.submission} \subseteq 1..Len(evidence) /\ p # call.ctx
      /\ evidence[call.submission].parents = {call.ctx, p}
  BY <1>2 DEF Submitted
<1>4. p = CHOOSE i \in evidence[call.submission].parents : i # call.ctx
  BY <1>3
<1>5. PICK args, ids :
        /\ args = [ctx |-> call.ctx, prop |-> p, res |-> call.submission]
        /\ ids = {call.ctx, p, call.submission}
  OBVIOUS
<1>6. PICK accepts : accepts = Accepting(evidence, args)
  OBVIOUS
<1>7. accepts = Accepted /\ accepts \in BOOLEAN
  BY <1>5, <1>6 DEF Accepting, Accepted
<1>8. PICK pc, failed : /\ pc = IF accepts THEN "recommend" ELSE "review"
                        /\ failed = ~ accepts
  OBVIOUS
<1>9. /\ AppendChild(call.leaf, AuditCall(args, ids))
      /\ call' = [call EXCEPT !.pc = pc, !.failed = failed, !.leaf = Len(nodes) + 1]
  BY <1>4, <1>5, <1>7, <1>8 DEF Audit
<1>10. call.diagnosis = Told /\ Going
  BY <1>1, InvFacts DEF JournalTells, Going
<1>11. AuditFits(evidence, Told, Len(nodes), args)
  <2>1. evidence[call.ctx] = Context(0, Len(nodes), Told)
    BY <1>1, <1>10, TrailFacts DEF DecisionIsTold, Deciding
  <2>2. SubmittedBy(evidence, args)
    BY <1>1, <1>2, <1>5 DEF SubmittedBy
  <2> QED BY <1>3, <1>5, <2>1, <2>2 DEF AuditFits
<1>12. args \in [ctx : Nat, prop : Nat, res : Nat] /\ ids \subseteq 1..Len(evidence)
  BY <1>3, <1>5
<1>13. PICK entry : entry = AuditCall(args, ids)
  OBVIOUS
<1>14. SubmissionIsTold'
  <2>1. entry.tool = "decision" /\ entry.args = args
    BY <1>13 DEF AuditCall
  <2>2. entry \in Entry
    <3>1. ids \in SUBSET Nat
      BY <1>12
    <3> QED BY <1>12, <1>13, <3>1 DEF AuditCall, AuditEntry, Entry
  <2>3. Journaled(entry)
    BY <1>1, <1>9, <1>13 DEF AppendChild, PersistNode, Journaled
  <2>4. PICK N : N = Len(nodes)
    OBVIOUS
  <2>5. Len(nodes') = N + 1 /\ N \in Nat \ {0} /\ nodes'[N + 1].call = entry
    BY <1>10, <2>2, <2>3, <2>4, LastEntry
  <2>6. Audited(N + 1)'
    BY <1>5, <2>1, <2>5 DEF Audited
  <2>7. nodes'[N + 1].call.args.res = call'.submission /\ N + 1 \in 2..Len(nodes')
    <3>1. call'.submission = call.submission
      BY <1>1, <1>9 DEF Calls
    <3> QED BY <1>5, <2>1, <2>5, <3>1
  <2>8. call'.submission # 0
    <3>1. call'.submission = call.submission /\ call.submission # 0
      BY <1>1, <1>3, <1>9 DEF Calls
    <3> QED BY <3>1
  <2> QED BY <2>6, <2>7, <2>8 DEF SubmissionIsTold
<1>15. args \in [ctx : Nat, prop : Nat, res : Nat] \cup [ctx : Nat, out : Nat]
  BY <1>12
<1>16. call.pc \in Deciding /\ accepts \in BOOLEAN /\ ids \subseteq 1..Len(evidence)
  BY <1>1, <1>7, <1>12 DEF Deciding
<1>17. accepts = Accepting(evidence, args)
  BY <1>6
<1>18. /\ AppendChild(call.leaf, AuditCall(args, ids))
       /\ call' = [call EXCEPT !.pc = pc, !.failed = failed, !.leaf = Len(nodes) + 1]
  BY <1>9
<1> QED BY <1>1, <1>8, <1>11, <1>13, <1>14, <1>15, <1>16, <1>17, <1>18, AuditedTrail, ZenonT(60)

\* And so does the outcome without one.
LEMMA AuditOutcomeTrail ==
  ASSUME AgentInv, AgentInv', TrailInv, AuditOutcome
  PROVE  TrailInv'
<1>1. /\ call.pc = "auditOutcome" /\ call \in Calls /\ call.provider \in Provider
      /\ UNCHANGED <<evidence, report, cli>>
  BY InvFacts DEF AuditOutcome, At, Calling, Calls
<1>2. /\ Lacking(evidence, call.ctx, call.outcome)
      /\ evidence[call.outcome].binding = Binding(call.provider)
      /\ call.submission = 0
  BY <1>1, TrailFacts DEF DecisionIsTold, At, Going, Late
<1>3. PICK args, ids : /\ args = [ctx |-> call.ctx, out |-> call.outcome]
                       /\ ids = {call.ctx, call.outcome}
  OBVIOUS
<1>4. AppendChild(call.leaf, AuditCall(args, ids))
  BY <1>3 DEF AuditOutcome
<1>5. {call.ctx, call.outcome} \subseteq 1..Len(evidence)
  BY <1>2 DEF Lacking
<1>6. args \in [ctx : Nat, out : Nat] /\ ids \subseteq 1..Len(evidence)
  BY <1>3, <1>5
<1>7. "res" \notin DOMAIN args
  BY <1>3
<1>8. PICK accepts, pc, failed : accepts = FALSE /\ pc = "review" /\ failed = TRUE
  OBVIOUS
<1>9. accepts = Accepting(evidence, args)
  BY <1>7, <1>8 DEF Accepting
<1>10. call' = [call EXCEPT !.pc = pc, !.failed = failed, !.leaf = Len(nodes) + 1]
  BY <1>1, <1>8 DEF AuditOutcome, Undecided, Calls
<1>11. call.diagnosis = Told /\ Going
  BY <1>1, InvFacts DEF JournalTells, Going
<1>12. AuditFits(evidence, Told, Len(nodes), args)
  <2>1. evidence[call.ctx] = Context(0, Len(nodes), Told)
    BY <1>1, <1>11, TrailFacts DEF DecisionIsTold, Deciding
  <2>2. LackingBy(evidence, args)
    BY <1>1, <1>2, <1>3 DEF LackingBy
  <2> QED BY <1>3, <1>5, <1>7, <2>1, <2>2 DEF AuditFits
<1>13. PICK entry : entry = AuditCall(args, ids)
  OBVIOUS
<1>14. SubmissionIsTold'
  <2>1. entry.tool = "decision" /\ entry.args = args
    BY <1>13 DEF AuditCall
  <2>2. entry \in Entry
    <3>1. ids \in SUBSET Nat
      BY <1>6
    <3> QED BY <1>6, <1>13, <3>1 DEF AuditCall, AuditEntry, Entry
  <2>3. Journaled(entry)
    BY <1>1, <1>4, <1>13 DEF AppendChild, PersistNode, Journaled
  <2>4. SubmissionIsTold
    BY <1>1, <1>2, AtDiscover DEF SubmissionIsTold, Deciding
  <2>5. call'.submission = call.submission
    BY <1>1, <1>10 DEF Calls
  <2> QED BY <1>7, <1>11, <2>1, <2>2, <2>3, <2>4, <2>5, SubmissionGrows
<1>15. /\ accepts \in BOOLEAN /\ pc = (IF accepts THEN "recommend" ELSE "review")
       /\ failed = ~ accepts /\ call.pc \in Deciding
  BY <1>1, <1>8 DEF Deciding
<1> QED BY <1>1, <1>4, <1>6, <1>9, <1>10, <1>12, <1>13, <1>14, <1>15, AuditedTrail

-----------------------------------------------------------------------------
\* What recommend has to append is the advice on the actions, in some order.
LEMMA SequenceHas ==
  ASSUME NEW S, IsFiniteSet(S), NEW s, s = SetToSeq(S)
  PROVE  {s[i] : i \in 1..Len(s)} = S
<1>1. Cardinality(S) \in Nat /\ ExistsBijection(1..Cardinality(S), S)
  BY FS_CardinalityType
<1>2. PICK n : n = Cardinality(S)
  OBVIOUS
<1>3. \E f \in [1..n -> S] : IsInjective(f)
  BY <1>1, <1>2 DEF ExistsBijection, Bijection, Injection
<1>4. s \in [1..n -> S] /\ IsInjective(s)
  BY <1>2, <1>3 DEF SetToSeq
<1>5. s \in Injection(1..n, S)
  BY <1>4 DEF Injection
<1>6. Cardinality(1..n) = n
  BY <1>1, <1>2, FS_Interval
<1>7. s \in Surjection(1..n, S)
  BY <1>2, <1>5, <1>6, FS_Injection
<1>8. \A t \in S : \E i \in 1..n : s[i] = t
  BY <1>7 DEF Surjection
<1>9. Len(s) = n
  BY <1>1, <1>2, <1>4
<1> QED BY <1>4, <1>8, <1>9

Holds(records, todo) == {todo[i] : i \in 1..Len(todo)} = records

\* The records to append are the advice for the actions, and no findings.
LEMMA AdviceToGive ==
  ASSUME NEW log, NEW ids \in SUBSET Nat, NEW actions \in SUBSET Action,
         NEW todo, todo = Recommendations(log, ids, actions)
  PROVE  Holds(Advice(log, ids, actions), todo) /\ AllOurs(todo)
<1>1. PICK S : S = {Recommendation(log, ids, a) : a \in actions}
  OBVIOUS
<1>2. PICK f : f = [a \in actions |-> Recommendation(log, ids, a)]
  OBVIOUS
<1>3. f \in Surjection(actions, S)
  BY <1>1, <1>2 DEF Surjection
<1>4. IsFiniteSet(actions)
  BY DecisionAssumption, FS_Subset
<1>5. IsFiniteSet(S)
  BY <1>3, <1>4, FS_Surjection
<1>6. {todo[i] : i \in 1..Len(todo)} = S
  <2>1. todo = SetToSeq(S)
    BY <1>1 DEF Recommendations
  <2> QED BY <1>5, <2>1, SequenceHas
<1>7. \A s \in S : s.kind = "recommendation"
  BY <1>1 DEF Recommendation
<1>8. \A i \in 1..Len(todo) : Ours(todo[i])
  BY <1>6, <1>7 DEF Ours
<1>9. Advice(log, ids, actions) = S
  BY <1>1 DEF Advice
<1> QED BY <1>6, <1>8, <1>9 DEF Holds, AllOurs

-----------------------------------------------------------------------------
\* A call that others work beside is told what it was told.
LEMMA TurnStays ==
  ASSUME AgentInv, TrailInv, Extends(evidence, evidence'), nodes' = nodes, Going
  PROVE  After(Len(nodes))' = After(Len(nodes))
<1>1. nodes # <<>> /\ nodes \in Seq(Root \cup Kid)
  BY InvFacts DEF JournalTells
<1>2. PICK N : N = Len(nodes)
  OBVIOUS
<1>3. N \in 1..Len(nodes)
  BY <1>1, <1>2
<1>4. After(N)' = After(N)
  BY <1>3, TrailFacts, SameAfter
<1> QED BY <1>2, <1>4

\* The context of a decision is in the evidence.
LEMMA ContextHeld ==
  ASSUME AgentInv, call.pc \in Deciding
  PROVE  call.ctx \in 1..Len(evidence)
BY InvFacts DEF AtDecision, Contexts, OfKind

\* The decision that is acted upon is in the evidence.
LEMMA SubmissionHeld ==
  ASSUME AgentInv, At("recommending")
  PROVE  call.submission \in 1..Len(evidence)
BY InvFacts DEF AdviceIsDecided, Accepts

\* What was decided stays decided while records of others are added.
LEMMA DecisionStays ==
  ASSUME AgentInv, TrailInv, Extends(evidence, evidence'), Settled(evidence, evidence'),
         evidence' \in Seq(Record), UNCHANGED <<nodes, call>>
  PROVE  DecisionIsTold'
<1>1. DecisionIsTold /\ EvidenceIsFine(evidence) /\ Len(evidence) \in Nat
  BY TrailFacts, InvFacts
<1>2. PICK more : more = evidence' /\ Len(more) \in Nat
  OBVIOUS
<1>3. evidence \in Seq(Record) /\ VerifyChain(evidence) /\ Extends(evidence, more)
      /\ Settled(evidence, more)
  BY <1>1, <1>2 DEF EvidenceIsFine
<1>4. call.pc \in Late => SubmissionIsTold'
  BY <1>1 DEF DecisionIsTold, SubmissionIsTold, Audited
<1>5. At("unavailable") => \/ call.submission = 0
                           \/ /\ call.reason = "submission_error"
                              /\ ~ NoSubmission(more, call.ctx)
  <2> SUFFICES ASSUME At("unavailable"), call.submission # 0
               PROVE  call.reason = "submission_error" /\ ~ NoSubmission(more, call.ctx)
    OBVIOUS
  <2>1. call.reason = "submission_error" /\ DecisionRecords(evidence, call.ctx) # {}
    BY <1>1 DEF DecisionIsTold, NoSubmission
  <2>2. call.ctx \in 1..Len(evidence)
    BY ContextHeld DEF At, Deciding
  <2>3. DecisionRecords(more, call.ctx) # {}
    BY <1>3, <2>1, <2>2 DEF Settled
  <2> QED BY <2>1, <2>3 DEF NoSubmission
<1>6. call.pc \in Deciding => more[call.ctx] = Context(0, Len(nodes), call.diagnosis)
  BY <1>1, <1>3, ContextHeld DEF DecisionIsTold, Extends
<1>7. At("audit") => \E prop \in 1..Len(more) :
        /\ Submitted(more, call.ctx, prop, call.submission)
        /\ more[prop].binding = Binding(call.provider)
  <2> SUFFICES ASSUME At("audit")
               PROVE  \E prop \in 1..Len(more) :
                        /\ Submitted(more, call.ctx, prop, call.submission)
                        /\ more[prop].binding = Binding(call.provider)
    OBVIOUS
  <2>1. PICK prop \in 1..Len(evidence) :
          /\ Submitted(evidence, call.ctx, prop, call.submission)
          /\ evidence[prop].binding = Binding(call.provider)
    BY <1>1 DEF DecisionIsTold
  <2>2. PICK c, s : c = call.ctx /\ s = call.submission
    OBVIOUS
  <2>3. Submitted(more, c, prop, s)
    BY <1>1, <1>2, <1>3, <2>1, <2>2, SubmittedStays
  <2>4. prop \in 1..Len(more) /\ more[prop] = evidence[prop]
    BY <1>1, <1>2, <1>3 DEF Extends
  <2> QED BY <2>1, <2>2, <2>3, <2>4
<1>8. At("auditOutcome") => /\ Lacking(more, call.ctx, call.outcome)
                            /\ more[call.outcome].binding = Binding(call.provider)
  <2> SUFFICES ASSUME At("auditOutcome")
               PROVE  /\ Lacking(more, call.ctx, call.outcome)
                      /\ more[call.outcome].binding = Binding(call.provider)
    OBVIOUS
  <2>1. /\ Lacking(evidence, call.ctx, call.outcome)
        /\ evidence[call.outcome].binding = Binding(call.provider)
    BY <1>1 DEF DecisionIsTold
  <2>2. PICK c, u : c = call.ctx /\ u = call.outcome
    OBVIOUS
  <2>3. Lacking(more, c, u) /\ u \in 1..Len(evidence)
    BY <1>1, <1>2, <1>3, <2>1, <2>2, LackingStays DEF Lacking
  <2>4. more[u] = evidence[u]
    BY <1>3, <2>3 DEF Extends
  <2> QED BY <2>1, <2>2, <2>3, <2>4
<1>9. Going /\ call.pc \notin Late \cup {"audit", "unavailable"} => call.submission = 0
  BY <1>1 DEF DecisionIsTold
<1> QED BY <1>2, <1>4, <1>5, <1>6, <1>7, <1>8, <1>9 DEF DecisionIsTold, Going, At

\* So does all that the call still has to say.
LEMMA BesideTold ==
  ASSUME AgentInv, TrailInv, Extends(evidence, evidence'), Settled(evidence, evidence'),
         evidence' \in Seq(Record), UNCHANGED <<nodes, call>>
  PROVE  CallIsTold'
<1>1. CallIsInTurn'
  <2>1. Going => After(Len(nodes))' = After(Len(nodes))
    BY TurnStays
  <2> QED BY <2>1, TrailFacts DEF CallIsInTurn, Going, At
<1>2. ReviewHears'
  BY TrailFacts DEF ReviewHears, At, Says, Did
<1>3. DecisionIsTold'
  BY DecisionStays
<1>4. AdviceIsGiven'
  <2> SUFFICES ASSUME At("recommending")
               PROVE  RecordsAt(evidence', call.got)
                        \cup {call.todo[i] : i \in 1..Len(call.todo)}
                        = Advice(evidence', call.diagnosis, evidence'[call.submission].actions)
    BY DEF AdviceIsGiven, At
  <2>1. call.submission \in 1..Len(evidence)
    BY SubmissionHeld
  <2>2. PICK more, ids, got, actions :
          /\ more = evidence' /\ ids = call.diagnosis /\ got = call.got
          /\ actions = evidence[call.submission].actions
    OBVIOUS
  <2>3. more[call.submission] = evidence[call.submission] /\ Extends(evidence, more)
    BY <2>1, <2>2 DEF Extends
  <2>4. ids \subseteq 1..Len(evidence) /\ got \subseteq 1..Len(evidence)
    BY <2>2, HandIsNumbers
  <2>5. RecordsAt(more, got) = RecordsAt(evidence, got)
    BY <2>3, <2>4, ReadingsStay
  <2>6. Advice(more, ids, actions) = Advice(evidence, ids, actions)
    <3>1. Within(ids, evidence)
      BY <2>4 DEF Within
    <3> QED BY <2>3, <3>1, AdviceStays
  <2>7. RecordsAt(evidence, got) \cup {call.todo[i] : i \in 1..Len(call.todo)}
          = Advice(evidence, ids, actions)
    BY <2>2, TrailFacts DEF AdviceIsGiven
  <2> QED BY <2>2, <2>3, <2>5, <2>6, <2>7
<1> QED BY <1>1, <1>2, <1>3, <1>4 DEF CallIsTold

\* A step of the command line, or none.
LEMMA CliTrail ==
  ASSUME AgentInv, TrailInv, UNCHANGED <<nodes, report, call>>,
         Extends(evidence, evidence'), Settled(evidence, evidence'),
         evidence' \in Seq(Record), FindingsAreOurs'
  PROVE  TrailInv'
BY BesideTold, QuietTrail

\* The same, when the evidence stays and the commands have other records to append.
LEMMA CliOnlyTrail ==
  ASSUME AgentInv, TrailInv, UNCHANGED <<evidence, nodes, report, call>>, AllOurs(cli')
  PROVE  TrailInv'
<1>1. Extends(evidence, evidence') /\ Settled(evidence, evidence') /\ evidence' \in Seq(Record)
  BY Same DEF Settled
<1>2. FindingsAreOurs'
  BY TrailFacts, OursAreKept
<1> QED BY <1>1, <1>2, CliTrail

\* The findings of a command name no input.
LEMMA CliDiagnoseTrail ==
  ASSUME AgentInv, TrailInv, CliDiagnose
  PROVE  TrailInv'
<1>1. /\ cli' = [i \in 1..Len(report) |-> Diagnostic(report[i], FALSE)]
      /\ UNCHANGED <<evidence, nodes, report, call>> /\ report \in Report
  BY InvFacts DEF CliDiagnose
<1>2. PICK n : n = Len(report) /\ n \in Nat
  <2>1. report \in Seq(Finding)
    BY <1>1, AgentAssumption
  <2> QED BY <2>1
<1>3. PICK more : more = cli'
  OBVIOUS
<1>4. more = [i \in 1..n |-> Diagnostic(report[i], FALSE)]
  BY <1>1, <1>2, <1>3
<1>5. Len(more) = n
  BY <1>2, <1>4
<1>6. \A i \in 1..Len(more) : more[i].bound = FALSE
  BY <1>4, <1>5 DEF Diagnostic
<1>7. AllOurs(more)
  BY <1>6 DEF AllOurs, Ours
<1> QED BY <1>1, <1>3, <1>7, CliOnlyTrail

\* A command that recommends has only recommendations to append.
LEMMA CliRecommendTrail ==
  ASSUME AgentInv, TrailInv, NEW ids \in SUBSET Diagnosis(evidence), CliRecommend(ids)
  PROVE  TrailInv'
<1>1. PICK actions, todo : /\ actions = Applicable(evidence, ids)
                           /\ todo = Recommendations(evidence, ids, actions)
  OBVIOUS
<1>2. /\ cli' = todo /\ UNCHANGED <<evidence, nodes, report, call>>
      /\ evidence \in Seq(Record)
  BY <1>1, InvFacts DEF CliRecommend
<1>3. ids \subseteq 1..Len(evidence) /\ \A i \in ids : evidence[i].kind = "diagnostic"
  BY DEF Diagnosis, OfKind
<1>4. ids \in SUBSET Nat
  BY <1>2, <1>3
<1>5. actions \in SUBSET Action
  <2>1. \A i \in ids : evidence[i].finding \in Finding
    <3> TAKE i \in ids
    <3>1. evidence[i] \in Record
      BY <1>2, <1>3
    <3>2. evidence[i] \in Finds
      BY <1>3, <3>1, RecordKinds
    <3> QED BY <3>2 DEF Finds
  <2> QED BY <1>1, <2>1, DecisionAssumption DEF Applicable, FindingsOf
<1>6. AllOurs(todo)
  BY <1>1, <1>4, <1>5, AdviceToGive
<1> QED BY <1>2, <1>6, CliOnlyTrail

\* A plain record settles nothing.
LEMMA PlainSettles ==
  ASSUME NEW log \in Seq(Record), NEW r \in Plain, NEW more, more = AppendRecord(log, r)
  PROVE  Settled(log, more)
<1>1. r.kind \in {"diagnostic", "recommendation"}
  BY DEF Plain, Finds, Advises
<1>2. r \in Record /\ \A c : ~ Targets(r, c)
  BY <1>1 DEF Record, Targets
<1> QED BY <1>2, SettledByOne

\* A record that a command appends decides nothing.
LEMMA CliAppendTrail ==
  ASSUME AgentInv, TrailInv, CliAppend
  PROVE  TrailInv'
<1>1. PICK r : r = Head(cli)
  OBVIOUS
<1>2. /\ cli # <<>> /\ evidence' = AppendRecord(evidence, r) /\ cli' = Tail(cli)
      /\ UNCHANGED <<nodes, report, call>>
      /\ cli \in Seq(Plain) /\ evidence \in Seq(Record)
  BY <1>1, InvFacts DEF CliAppend
<1>3. /\ r \in Plain /\ r = cli[1] /\ 1 \in 1..Len(cli)
      /\ \A i \in 1..Len(cli') : i + 1 \in 1..Len(cli) /\ cli'[i] = cli[i + 1]
  BY <1>1, <1>2, NextOf
<1>4. r \in Record
  BY <1>3 DEF Record
<1>5. Extends(evidence, evidence') /\ evidence' \in Seq(Record) /\ Settled(evidence, evidence')
  BY <1>2, <1>3, <1>4, AppendIs, PlainSettles
<1>6. Ours(r) /\ AllOurs(cli')
  BY <1>3, TrailFacts DEF AllOurs
<1>7. FindingsAreOurs'
  BY <1>2, <1>4, <1>6, TrailFacts, OursGrow
<1> QED BY <1>2, <1>5, <1>7, CliTrail

\* Time and stuttering change nothing of it.
LEMMA ExpireTrail ==
  ASSUME AgentInv, TrailInv, Expire \/ UNCHANGED vars
  PROVE  TrailInv'
<1>1. UNCHANGED <<evidence, nodes, report, call, cli>>
  BY DEF Expire, vars
<1> QED BY <1>1, TrailFacts, CliOnlyTrail

-----------------------------------------------------------------------------
\* The diagnostics start: what they report are findings of this run.
LEMMA DiagnoseTrail ==
  ASSUME AgentInv, AgentInv', TrailInv, Diagnose
  PROVE  TrailInv'
<1>1. /\ call.pc = "diagnose" /\ call \in Calls /\ report \in Report
      /\ Authorize(call.role, "diagnose", call.budget)
      /\ UNCHANGED <<evidence, nodes, report, cli>>
  BY InvFacts DEF Diagnose, At, Calling
<1>2. PICK paid : paid = Pay("diagnose")
  OBVIOUS
<1>3. paid \in Calls /\ \E b \in Nat : paid = [call EXCEPT !.budget = b]
  BY <1>1, <1>2, PayIs
<1>4. PICK todo : todo = [i \in 1..Len(report) |-> Diagnostic(report[i], TRUE)]
  OBVIOUS
<1>5. call' = [paid EXCEPT !.pc = "diagnosing", !.todo = todo]
  BY <1>2, <1>4 DEF Diagnose
<1>6. /\ call'.pc = "diagnosing" /\ call'.todo = todo /\ call'.diagnosis = call.diagnosis
      /\ call'.done = call.done /\ call'.empty = call.empty
      /\ call'.submission = call.submission /\ call'.denied = call.denied
      /\ call'.failed = call.failed
  BY <1>1, <1>3, <1>5 DEF Calls
<1>7. AllOurs(call'.todo)
  <2>1. report \in Seq(Finding)
    BY <1>1, AgentAssumption
  <2>2. PICK n : n = Len(report) /\ n \in Nat
    BY <2>1
  <2>3. todo = [i \in 1..n |-> Diagnostic(report[i], TRUE)]
    BY <1>4, <2>2
  <2>4. Len(todo) = n
    BY <2>2, <2>3
  <2>5. \A i \in 1..Len(todo) : todo[i] = Diagnostic(report[i], TRUE)
    BY <2>3, <2>4
  <2>6. \A i \in 1..Len(todo) : todo[i] \in Reported
    BY <2>2, <2>4, <2>5 DEF Reported
  <2> QED BY <1>6, <2>6 DEF AllOurs, Ours
<1>8. /\ Going /\ "diagnose" \in After(Len(nodes)) /\ ~ call.denied /\ ~ call.failed
      /\ call.empty = ("diagnose" \in call.done /\ call.diagnosis = {})
  <2>1. call.pc \in Tool \cup {"diagnosing", "recommending"} /\ Turn(call.pc) = "diagnose"
    BY <1>1 DEF Tool, Turn
  <2> QED BY <2>1, AtTools
<1>9. After(Len(nodes))' = After(Len(nodes))
  BY <1>1, <1>8, Same, TurnStays
<1>10. CallIsInTurn'
  <2>1. Turn(call'.pc) = "diagnose"
    BY <1>6 DEF Turn
  <2>2. ~ call'.denied /\ ~ call'.failed
    BY <1>6, <1>8
  <2>3. call'.empty = ("diagnose" \in call'.done /\ call'.diagnosis = {})
    BY <1>6, <1>8
  <2>4. At("diagnosing")'
    BY <1>6 DEF At
  <2> QED BY <1>8, <1>9, <2>1, <2>2, <2>3, <2>4 DEF CallIsInTurn
<1>11. call.submission = 0
  BY <1>1, TrailFacts DEF DecisionIsTold, Going, Late
<1>12. DecisionIsTold' /\ ReviewHears' /\ AdviceIsGiven'
  BY <1>6, <1>11 DEF DecisionIsTold, ReviewHears, AdviceIsGiven, At, Late, Deciding
<1>13. CallIsTold'
  BY <1>10, <1>12 DEF CallIsTold
<1> QED BY <1>1, <1>7, <1>13, StillTrail

\* A tool writes its next record, which settles no decision.
LEMMA AppendNextTrail ==
  ASSUME AgentInv, TrailInv, AppendNext
  PROVE  TrailInv'
<1>1. PICK r, todo : r = Head(call.todo) /\ todo = Tail(call.todo)
  OBVIOUS
<1>2. PICK c : c = ContentId(evidence', r)
  OBVIOUS
<1>3. /\ call \in Calls /\ call.todo # <<>>
      /\ evidence' = AppendRecord(evidence, r)
      /\ call' = [call EXCEPT !.todo = todo, !.got = @ \cup {c}]
      /\ UNCHANGED <<nodes, report, cli>>
      /\ InHand /\ evidence \in Seq(Record)
  BY <1>1, <1>2, InvFacts DEF AppendNext, Calling
<1>4. call.pc \in {"diagnosing", "recommending"}
  BY <1>3 DEF InHand, At
<1>5. /\ r \in Plain /\ r = call.todo[1] /\ 1 \in 1..Len(call.todo)
      /\ todo \in Seq(Plain)
      /\ \A i \in 1..Len(todo) : i + 1 \in 1..Len(call.todo) /\ todo[i] = call.todo[i + 1]
      /\ {call.todo[i] : i \in 1..Len(call.todo)} = {r} \cup {todo[i] : i \in 1..Len(todo)}
  <2>1. call.todo \in Seq(Plain)
    BY <1>3 DEF Calls
  <2> QED BY <1>1, <1>3, <2>1, NextOf, ZenonT(60)
<1>6. r \in Record
  BY <1>5 DEF Record
<1>7. /\ evidence' \in Seq(Record) /\ Extends(evidence, evidence')
      /\ Settled(evidence, evidence') /\ c \in 1..Len(evidence') /\ evidence'[c] = r
  <2>1. PICK more : more = evidence'
    OBVIOUS
  <2>2. more = AppendRecord(evidence, r) /\ c = ContentId(more, r) /\ evidence \in Seq(Record)
    BY <1>2, <1>3, <2>1
  <2>3. /\ more \in Seq(Record) /\ Extends(evidence, more)
        /\ c \in 1..Len(more) /\ more[c] = r
    BY <1>6, <2>2, AppendIs
  <2>4. Settled(evidence, more)
    BY <1>5, <2>2, PlainSettles
  <2> QED BY <2>1, <2>3, <2>4
<1>8. PICK got : got = call.got \cup {c}
  OBVIOUS
<1>9. call' = [call EXCEPT !.todo = todo, !.got = got]
  BY <1>3, <1>8
<1>10. /\ call'.pc = call.pc /\ call'.todo = todo /\ call'.got = got
       /\ call'.diagnosis = call.diagnosis /\ call'.done = call.done
       /\ call'.empty = call.empty /\ call'.submission = call.submission
       /\ call'.denied = call.denied /\ call'.failed = call.failed
  BY <1>3, <1>9 DEF Calls
<1>11. FindingsAreOurs'
  <2>1. Ours(r) /\ AllOurs(todo) /\ AllOurs(cli)
    BY <1>5, TrailFacts DEF AllOurs
  <2>2. AllOurs(call'.todo) /\ AllOurs(cli')
    BY <1>3, <1>10, <2>1
  <2> QED BY <1>3, <1>6, <2>1, <2>2, TrailFacts, OursGrow
<1>12. /\ Going /\ Turn(call.pc) \in After(Len(nodes)) /\ ~ call.denied /\ ~ call.failed
       /\ call.empty = ("diagnose" \in call.done /\ call.diagnosis = {})
       /\ SubmissionIsTold
  BY <1>4, AtTools
<1>13. After(Len(nodes))' = After(Len(nodes))
  BY <1>3, <1>7, <1>12, TurnStays
<1>14. CallIsInTurn'
  <2>1. ~ call'.denied /\ ~ call'.failed /\ Turn(call'.pc) \in After(Len(nodes))'
    BY <1>10, <1>12, <1>13
  <2>2. call'.empty = ("diagnose" \in call'.done /\ call'.diagnosis = {})
    BY <1>10, <1>12
  <2>3. At("diagnosing")' \/ At("recommending")'
    BY <1>4, <1>10 DEF At
  <2> QED BY <2>1, <2>2, <2>3 DEF CallIsInTurn
<1>15. DecisionIsTold'
  <2>1. SubmissionIsTold'
    BY <1>3, <1>10, <1>12 DEF SubmissionIsTold, Audited
  <2>2. call.pc = "diagnosing" => call.submission = 0
    BY TrailFacts DEF DecisionIsTold, Going, Late
  <2> QED BY <1>4, <1>10, <2>1, <2>2 DEF DecisionIsTold, At, Late, Deciding
<1>16. ReviewHears'
  BY <1>4, <1>10 DEF ReviewHears, At
<1>17. AdviceIsGiven'
  <2> SUFFICES ASSUME call.pc = "recommending"
               PROVE  AdviceIsGiven'
    BY <1>10 DEF AdviceIsGiven, At
  <2>1. call.submission \in 1..Len(evidence)
    BY SubmissionHeld DEF At
  <2>2. PICK more, ids, actions, old :
          /\ more = evidence' /\ ids = call.diagnosis /\ old = call.got
          /\ actions = evidence[call.submission].actions
    OBVIOUS
  <2>3. more[call.submission] = evidence[call.submission] /\ Extends(evidence, more)
    BY <1>7, <2>1, <2>2 DEF Extends
  <2>4. ids \subseteq 1..Len(evidence) /\ old \subseteq 1..Len(evidence)
    BY <2>2, HandIsNumbers
  <2>5. RecordsAt(more, old) = RecordsAt(evidence, old)
    BY <2>3, <2>4, ReadingsStay
  <2>6. Advice(more, ids, actions) = Advice(evidence, ids, actions)
    <3>1. Within(ids, evidence)
      BY <2>4 DEF Within
    <3> QED BY <2>3, <3>1, AdviceStays
  <2>7. RecordsAt(evidence, old) \cup {call.todo[i] : i \in 1..Len(call.todo)}
          = Advice(evidence, ids, actions)
    BY <2>2, TrailFacts DEF AdviceIsGiven, At
  <2>8. RecordsAt(more, got) = RecordsAt(more, old) \cup {r}
    BY <1>7, <1>8, <2>2 DEF RecordsAt
  <2>9. RecordsAt(more, got) \cup {todo[i] : i \in 1..Len(todo)} = Advice(more, ids, actions)
    BY <1>5, <2>5, <2>6, <2>7, <2>8
  <2>10. more[call'.submission].actions = actions
    BY <1>10, <2>2, <2>3
  <2>11. RecordsAt(evidence', call'.got) \cup {call'.todo[i] : i \in 1..Len(call'.todo)}
           = Advice(evidence', call'.diagnosis, evidence'[call'.submission].actions)
    BY <1>10, <2>2, <2>9, <2>10
  <2> QED BY <2>11 DEF AdviceIsGiven
<1>18. CallIsTold'
  BY <1>14, <1>15, <1>16, <1>17 DEF CallIsTold
<1> QED BY <1>3, <1>7, <1>11, <1>18, QuietTrail

\* recommend starts, or is refused by the decision that it replays.
LEMMA RecommendTrail ==
  ASSUME AgentInv, AgentInv', TrailInv, Recommend
  PROVE  TrailInv'
<1>1. /\ call.pc = "recommend" /\ call \in Calls
      /\ Authorize(call.role, "recommend", call.budget)
      /\ UNCHANGED <<evidence, report, cli>>
      /\ EvidenceIsFine(evidence)
  BY InvFacts DEF Recommend, At, Calling
<1>2. call.pc \in Tool \cup {"diagnosing", "recommending"} /\ Turn(call.pc) = "recommend"
  BY <1>1 DEF Tool, Turn
<1>3. CASE ~ Decided
  <2>1. PICK tool, says : tool = "recommend" /\ says = "failed"
    OBVIOUS
  <2>2. GiveUp(tool, says) /\ tool = Turn(call.pc)
    BY <1>2, <1>3, <2>1 DEF Recommend
  <2>3. says \in {"denied", "failed"} /\ GiveUp(Turn(call.pc), says)
    BY <2>1, <2>2
  <2> QED BY <1>1, <1>2, <2>3, GiveUpTrail
<1>4. CASE Decided
  <2>1. PICK paid : paid = Pay("recommend")
    OBVIOUS
  <2>2. paid \in Calls /\ \E b \in Nat : paid = [call EXCEPT !.budget = b]
    BY <1>1, <2>1, PayIs
  <2>3. PICK ids, actions : ids = call.diagnosis /\ actions = evidence[call.submission].actions
    OBVIOUS
  <2>4. PICK todo : todo = Recommendations(evidence, ids, actions)
    OBVIOUS
  <2>5. /\ call' = [paid EXCEPT !.pc = "recommending", !.todo = todo]
        /\ nodes' = nodes
    BY <1>4, <2>1, <2>3, <2>4 DEF Recommend
  <2>6. ids \subseteq 1..Len(evidence) /\ ids \in SUBSET Nat
    BY <2>3, HandIsNumbers
  <2>7. actions \in SUBSET Action
    BY <1>1, <1>4, <2>3, <2>6, DecidedAccepts
  <2>8. {todo[i] : i \in 1..Len(todo)} = Advice(evidence, ids, actions) /\ AllOurs(todo)
    <3>1. ids \in SUBSET Nat /\ actions \in SUBSET Action
      BY <2>6, <2>7
    <3>2. Holds(Advice(evidence, ids, actions), todo) /\ AllOurs(todo)
      BY <2>4, <3>1, AdviceToGive
    <3> QED BY <3>2 DEF Holds
  <2>9. /\ call'.pc = "recommending" /\ call'.todo = todo /\ call'.diagnosis = call.diagnosis
        /\ call'.got = call.got /\ call'.done = call.done
        /\ call'.empty = call.empty /\ call'.submission = call.submission
        /\ call'.denied = call.denied /\ call'.failed = call.failed
    BY <1>1, <2>2, <2>5 DEF Calls
  <2>10. /\ Going /\ "recommend" \in After(Len(nodes)) /\ ~ call.denied /\ ~ call.failed
         /\ call.empty = ("diagnose" \in call.done /\ call.diagnosis = {})
         /\ SubmissionIsTold
    BY <1>2, AtTools
  <2>11. After(Len(nodes))' = After(Len(nodes))
    BY <1>1, <2>5, <2>10, Same, TurnStays
  <2>12. CallIsInTurn'
    <3>1. Turn(call'.pc) = "recommend"
      BY <2>9 DEF Turn, Deciding
    <3>2. ~ call'.denied /\ ~ call'.failed
      BY <2>9, <2>10
    <3>3. call'.empty = ("diagnose" \in call'.done /\ call'.diagnosis = {})
      BY <2>9, <2>10
    <3>4. At("recommending")'
      BY <2>9 DEF At
    <3> QED BY <2>10, <2>11, <3>1, <3>2, <3>3, <3>4 DEF CallIsInTurn
  <2>13. SubmissionIsTold'
    BY <2>5, <2>9, <2>10 DEF SubmissionIsTold, Audited
  <2>14. DecisionIsTold' /\ ReviewHears'
    BY <2>9, <2>13 DEF DecisionIsTold, ReviewHears, At, Late, Deciding
  <2>15. call.got = {}
    BY <1>1, TrailFacts DEF CallIsInTurn, Going, At
  <2>16. AdviceIsGiven'
    <3>1. RecordsAt(evidence', call'.got) = {}
      BY <2>9, <2>15 DEF RecordsAt
    <3>2. evidence'[call'.submission].actions = actions
      BY <1>1, <2>3, <2>9
    <3>3. RecordsAt(evidence', call'.got) \cup {call'.todo[i] : i \in 1..Len(call'.todo)}
           = Advice(evidence', call'.diagnosis, evidence'[call'.submission].actions)
      BY <1>1, <2>3, <2>8, <2>9, <3>1, <3>2
    <3> QED BY <3>3 DEF AdviceIsGiven
  <2>17. CallIsTold'
    BY <2>12, <2>14, <2>16 DEF CallIsTold
  <2>18. AllOurs(call'.todo)
    BY <2>8, <2>9
  <2> QED BY <1>1, <2>5, <2>17, <2>18, StillTrail
<1> QED BY <1>3, <1>4

\* A call starts: its journal is one root.
LEMMA BeginTrail ==
  ASSUME AgentInv, AgentInv', TrailInv, NEW role \in Role, NEW budget \in 0..MaxBudget,
         NEW provider \in Provider, Begin(role, budget, provider)
  PROVE  TrailInv'
<1>1. /\ nodes = <<>> /\ UNCHANGED <<evidence, report, cli>>
      /\ call' = [NoCall EXCEPT !.pc = "inspect", !.role = role,
                    !.budget = budget, !.provider = provider, !.leaf = 1]
  BY DEF Begin, CreateSession, Calling
<1>2. PICK root : root = [kind |-> "root", parent |-> 0, retryOf |-> 0,
                          call |-> "comprehensive"]
  OBVIOUS
<1>3. nodes' = <<root>>
  BY <1>1, <1>2 DEF Begin, CreateSession, PersistNode
<1>4. Len(nodes') = 1 /\ nodes'[1].kind = "root"
  BY <1>2, <1>3
<1>5. 2..Len(nodes') = {}
  BY <1>4
<1>6. /\ call'.pc = "inspect" /\ call'.done = {} /\ call'.diagnosis = {}
      /\ call'.got = {} /\ call'.submission = 0
  BY <1>1 DEF NoCall
<1>7. call'.denied = FALSE /\ call'.failed = FALSE /\ call'.empty = FALSE
  BY <1>1 DEF NoCall
<1>8. FindingsAreOurs'
  <2>1. AllOurs(call'.todo) /\ AllOurs(cli')
    BY <1>1, <1>6, TrailFacts, NothingToDo DEF AllOurs, Ours, Reported
  <2> QED BY <1>1, <2>1, TrailFacts, OursAreKept
<1>9. Chain' /\ EntriesFit'
  BY <1>5 DEF Chain, EntriesFit
<1>10. ReviewIsImplied'
  <2>1. ~ Closed'
    BY <1>4 DEF Closed
  <2> QED BY <2>1 DEF ReviewIsImplied
<1>11. CallIsInTurn'
  <2>1. After(Len(nodes))' = {"inspect"}
    BY <1>4 DEF After
  <2>2. Turn(call'.pc) = "inspect"
    BY <1>6 DEF Turn, Deciding
  <2> QED BY <1>6, <1>7, <2>1, <2>2 DEF CallIsInTurn
<1>12. DecisionIsTold' /\ ReviewHears' /\ AdviceIsGiven'
  BY <1>6 DEF DecisionIsTold, ReviewHears, AdviceIsGiven, At, Late, Deciding
<1> QED BY <1>8, <1>9, <1>10, <1>11, <1>12 DEF TrailInv, CallIsTold

\* Nothing changes but the result when it is recovered.
LEMMA RecoverTrail ==
  ASSUME AgentInv, AgentInv', TrailInv, NEW role \in Role, NEW provider \in Provider,
         Recover(role, provider)
  PROVE  TrailInv'
<1>1. call.pc = "idle" /\ UNCHANGED <<evidence, nodes, report, call, cli>>
  BY DEF Recover, At, Calling
<1>2. call'.pc \in {"idle", "publish"}
  BY <1>1
<1> QED BY <1>1, <1>2, NoCallTrail

\* Nothing is told at the start.
LEMMA TrailStarts == Init => TrailInv
<1> SUFFICES ASSUME Init
             PROVE  TrailInv
  OBVIOUS
<1>1. /\ evidence = <<>> /\ nodes = <<>> /\ call = NoCall /\ cli = <<>>
  BY DEF Init, EvidenceInit, SessionInit
<1>2. call.pc = "idle" /\ call.todo = <<>>
  BY <1>1 DEF NoCall
<1>3. Len(evidence) = 0 /\ Len(nodes) = 0 /\ Len(cli) = 0 /\ Len(call.todo) = 0
  BY <1>1, <1>2
<1>4. 2..Len(nodes) = {} /\ 1..Len(evidence) = {} /\ 1..Len(cli) = {}
      /\ 1..Len(call.todo) = {}
  BY <1>3
<1>5. FindingsAreOurs /\ Chain /\ EntriesFit
  BY <1>4 DEF FindingsAreOurs, Distinct, AllOurs, Chain, EntriesFit
<1>6. ReviewIsImplied
  BY <1>1 DEF ReviewIsImplied, Closed
<1>7. CallIsTold
  BY <1>2 DEF CallIsTold, CallIsInTurn, ReviewHears, DecisionIsTold, AdviceIsGiven, At,
              Going, Late, Deciding
<1> QED BY <1>5, <1>6, <1>7 DEF TrailInv

-----------------------------------------------------------------------------
(***************************************************************************)
(* What the entries of the journal name resolves in the evidence.          *)
(***************************************************************************)
ActionsTold ==
  {evidence[nodes[n].call.args.res].actions : n \in {m \in 2..Len(nodes) : Audited(m)}}

\* As many images as arguments, when no two arguments share one.
LEMMA OneToOne ==
  ASSUME NEW S, IsFiniteSet(S), NEW f, f = [s \in S |-> f[s]],
         \A a, b \in S : f[a] = f[b] => a = b,
         NEW T, T = {f[s] : s \in S}
  PROVE  Cardinality(T) = Cardinality(S)
<1>1. f \in Bijection(S, T)
  BY DEF Bijection, Injection, Surjection, IsInjective
<1> QED BY <1>1, FS_Bijection DEF ExistsBijection

\* Places in the evidence are finitely many.
LEMMA NumbersAreFinite ==
  ASSUME AgentInv, NEW ids, ids \subseteq 1..Len(evidence)
  PROVE  IsFiniteSet(ids)
<1>1. Len(evidence) \in Nat
  BY InvFacts
<1>2. IsFiniteSet(1..Len(evidence))
  BY <1>1, FS_Interval
<1> QED BY <1>2, FS_Subset

\* The findings told are reported ones, each once.
LEMMA ToldIsReported ==
  ASSUME AgentInv, EntriesFit, Chain
  PROVE  /\ "diagnose" \in DidAll => RecordsAt(evidence, Told) = Reported
         /\ "diagnose" \notin DidAll => Told = {}
         /\ \A i \in Told : evidence[i] \in Reported
<1>1. Told = IF 3 \in 2..Len(nodes) /\ Did(3, "diagnose") THEN nodes[3].call.ids ELSE {}
  BY ToldIs
<1>2. "diagnose" \in DidAll <=> 3 \in 2..Len(nodes) /\ Did(3, "diagnose")
  <2>1. \A n \in 2..Len(nodes) : Did(n, "diagnose") => n = 3
    BY PlaceOf DEF Did, TheTool
  <2> QED BY <2>1 DEF DidAll, Tool
<1>3. ASSUME 3 \in 2..Len(nodes), Did(3, "diagnose")
      PROVE  RecordsAt(evidence, Told) = Reported
  <2>1. Fits(3)
    BY <1>3 DEF EntriesFit
  <2>2. PICK e, prev : e = nodes[3].call /\ prev = nodes[3 - 1].call
    OBVIOUS
  <2>3. e.tool = "diagnose" /\ e.says = "done"
    BY <1>3, <2>2 DEF Did
  <2>4. ToolFits(evidence, Reported, Told, prev, e)
    BY <2>1, <2>2, <2>3 DEF Fits, Tool
  <2>5. RecordsAt(evidence, e.ids) = Reported
    BY <2>3, <2>4 DEF ToolFits, Names
  <2> QED BY <1>1, <1>3, <2>2, <2>5
<1>4. ASSUME NEW i \in Told
      PROVE  evidence[i] \in Reported
  <2>1. 3 \in 2..Len(nodes) /\ Did(3, "diagnose")
    BY <1>1, <1>4
  <2>2. RecordsAt(evidence, Told) = Reported
    BY <1>3, <2>1
  <2> QED BY <1>4, <2>2 DEF RecordsAt
<1> QED BY <1>1, <1>2, <1>3, <1>4

\* Findings that were reported are told apart by what was found.
LEMMA FindingsOnce ==
  ASSUME AgentInv, Distinct(evidence), NEW ids, ids \subseteq 1..Len(evidence),
         \A i \in ids : evidence[i] \in Reported
  PROVE  Cardinality(FindingsOf(evidence, ids)) = Cardinality(ids)
<1>1. IsFiniteSet(ids)
  BY NumbersAreFinite
<1>2. PICK f : f = [i \in ids |-> evidence[i].finding]
  OBVIOUS
<1>3. ASSUME NEW a \in ids, NEW b \in ids, f[a] = f[b]
      PROVE  a = b
  <2>1. \A i \in ids : evidence[i] = Diagnostic(evidence[i].finding, TRUE)
    <3> TAKE i \in ids
    <3>1. PICK k \in 1..Len(report) : evidence[i] = Diagnostic(report[k], TRUE)
      BY DEF Reported
    <3>2. evidence[i].finding = report[k]
      BY <3>1 DEF Diagnostic
    <3> QED BY <3>1, <3>2
  <2>2. evidence[a] = evidence[b]
    BY <1>2, <1>3, <2>1
  <2> QED BY <1>3, <2>2 DEF Distinct
<1>4. FindingsOf(evidence, ids) = {f[i] : i \in ids}
  BY <1>2 DEF FindingsOf
<1>5. f = [i \in ids |-> f[i]]
  BY <1>2
<1> QED BY <1>1, <1>3, <1>4, <1>5, OneToOne

\* What recommend named is advice on the findings told, or it named nothing more.
LEMMA AdvisedIs ==
  ASSUME AgentInv, Chain, NEW m \in 2..Len(nodes), Did(m, "recommend")
  PROVE  Advised = nodes[m].call.ids \ Told
<1>1. \A n \in 2..Len(nodes) : Did(n, "recommend") => n = m
  <2> SUFFICES ASSUME NEW n \in 2..Len(nodes), Did(n, "recommend"), n # m
               PROVE  FALSE
    OBVIOUS
  <2>1. n \in {5, 6} /\ m \in {5, 6}
    BY PlaceOf DEF Did, TheTool
  <2>2. TheTool(5) = "recommend" /\ TheTool(6) = "recommend" /\ Len(nodes) >= 6
    BY <2>1, InvFacts DEF Did, TheTool
  <2> QED BY <2>2, FollowsPlan DEF Ordered
<1>2. PICK S : S = {n \in 2..Len(nodes) : Did(n, "recommend")}
  OBVIOUS
<1>3. S = {m}
  BY <1>1, <1>2
<1>4. Advised = (UNION {nodes[n].call.ids : n \in S}) \ Told
  BY <1>2 DEF Advised
<1>5. {nodes[n].call.ids : n \in S} = {nodes[m].call.ids}
  BY <1>3
<1>6. UNION {nodes[n].call.ids : n \in S} = nodes[m].call.ids
  BY <1>5
<1> QED BY <1>4, <1>6

\* Without recommend in the journal there is no advice in it.
LEMMA NothingAdvised ==
  ASSUME "recommend" \notin DidAll
  PROVE  Advised = {}
<1>1. \A n \in 2..Len(nodes) : ~ Did(n, "recommend")
  BY DEF DidAll, Tool
<1>2. {m \in 2..Len(nodes) : Did(m, "recommend")} = {}
  BY <1>1
<1> QED BY <1>2 DEF Advised

\* A result in the journal that accepts names applicable actions, at least one.
LEMMA ResultTold ==
  ASSUME AgentInv, EntriesFit, NEW n \in 2..Len(nodes), Audited(n),
         NEW res, res = nodes[n].call.args.res
  PROVE  /\ Submitted(evidence, nodes[n].call.args.ctx, nodes[n].call.args.prop, res)
         /\ evidence[res].reasons = {} =>
              evidence[res].actions \subseteq Applicable(evidence, Told)
         /\ evidence[res].reasons # {} => evidence[res].actions = {}
<1>1. PICK args : args = nodes[n].call.args
  OBVIOUS
<1>2. AuditFits(evidence, Told, n - 1, args) /\ "res" \in DOMAIN args
  BY <1>1, DecisionAt DEF Audited
<1>3. /\ Submitted(evidence, args.ctx, args.prop, res)
      /\ evidence[args.ctx] = Context(0, n - 1, Told)
  BY <1>1, <1>2 DEF AuditFits, SubmittedBy
<1>4. PICK p, t : p = evidence[args.prop].proposal /\ t = evidence[args.prop].inTime
  OBVIOUS
<1>5. PICK reasons : reasons = Reasons(evidence, args.ctx, p, t)
  OBVIOUS
<1>6. Validate(evidence, args.ctx, p, t)
        = [reasons |-> evidence[res].reasons, actions |-> evidence[res].actions]
  BY <1>3, <1>4 DEF Submitted
<1>7. /\ evidence[res].reasons = reasons
      /\ evidence[res].actions = IF reasons = {} THEN p.actions ELSE {}
  BY <1>5, <1>6 DEF Validate
<1>8. reasons = {} => p.actions \subseteq Applicable(evidence, Told)
  <2> SUFFICES ASSUME reasons = {}
               PROVE  p.actions \subseteq Applicable(evidence, Told)
    OBVIOUS
  <2>1. "action_not_applicable" \notin Reasons(evidence, args.ctx, p, t)
    BY <1>5
  <2>2. p.actions \subseteq Applicable(evidence, evidence[args.ctx].parents)
    BY <2>1 DEF Reasons
  <2>3. evidence[args.ctx].parents = Told
    BY <1>3 DEF Context
  <2> QED BY <2>2, <2>3
<1> QED BY <1>1, <1>3, <1>7, <1>8

\* The records that are the advice on actions that the findings call for.
LEMMA AdviceResolves ==
  ASSUME AgentInv, Distinct(evidence), NEW told,
         NEW actions, actions \subseteq Applicable(evidence, told),
         NEW ids, ids \subseteq 1..Len(evidence),
         RecordsAt(evidence, ids) = Advice(evidence, told, actions)
  PROVE  /\ ids \subseteq OfKind(evidence, "recommendation")
         /\ \A r \in ids : evidence[r].parents # {} /\ evidence[r].parents \subseteq told
         /\ {evidence[r].action : r \in ids} = actions
         /\ Cardinality(ids) = Cardinality(actions)
<1>1. \A r \in ids : \E a \in actions : evidence[r] = Recommendation(evidence, told, a)
  BY DEF RecordsAt, Advice
<1>2. \A a \in actions : \E r \in ids : evidence[r] = Recommendation(evidence, told, a)
  BY DEF RecordsAt, Advice
<1>3. \A a : /\ Recommendation(evidence, told, a).kind = "recommendation"
             /\ Recommendation(evidence, told, a).action = a
             /\ Recommendation(evidence, told, a).parents
                  = {i \in told : ActionFor[evidence[i].finding] = a}
  BY DEF Recommendation
<1>4. ids \subseteq OfKind(evidence, "recommendation")
  BY <1>1, <1>3 DEF OfKind
<1>5. \A r \in ids : evidence[r].parents # {} /\ evidence[r].parents \subseteq told
  <2> TAKE r \in ids
  <2>1. PICK a \in actions : evidence[r] = Recommendation(evidence, told, a)
    BY <1>1
  <2>2. evidence[r].parents = {i \in told : ActionFor[evidence[i].finding] = a}
    BY <1>3, <2>1
  <2>3. \E i \in told : ActionFor[evidence[i].finding] = a
    BY DEF Applicable, FindingsOf
  <2> QED BY <2>2, <2>3
<1>6. \A r \in ids : /\ evidence[r].action \in actions
                     /\ evidence[r] = Recommendation(evidence, told, evidence[r].action)
  BY <1>1, <1>3
<1>7. PICK f : f = [r \in ids |-> evidence[r].action]
  OBVIOUS
<1>8. {f[r] : r \in ids} = actions
  <2>1. \A r \in ids : f[r] \in actions
    BY <1>6, <1>7
  <2>2. \A a \in actions : \E r \in ids : f[r] = a
    BY <1>2, <1>3, <1>7
  <2> QED BY <2>1, <2>2
<1>9. ASSUME NEW a \in ids, NEW b \in ids, f[a] = f[b]
      PROVE  a = b
  <2>1. evidence[a] = evidence[b]
    BY <1>6, <1>7, <1>9
  <2> QED BY <1>9, <2>1 DEF Distinct
<1>10. Cardinality(actions) = Cardinality(ids)
  <2>1. f = [r \in ids |-> f[r]]
    BY <1>7
  <2>2. IsFiniteSet(ids)
    BY NumbersAreFinite
  <2> QED BY <1>8, <1>9, <2>1, <2>2, OneToOne
<1>11. {evidence[r].action : r \in ids} = actions
  BY <1>7, <1>8
<1> QED BY <1>4, <1>5, <1>10, <1>11

\* The recommendations of the journal rest on its diagnosis and are those of its decision.
LEMMA AdviceToldResolves ==
  ASSUME AgentInv, TrailInv, NEW m \in 2..Len(nodes), Did(m, "recommend")
  PROVE  /\ Advised \subseteq OfKind(evidence, "recommendation")
         /\ \A r \in Advised : evidence[r].parents # {} /\ evidence[r].parents \subseteq Told
         /\ \A S \in ActionsTold : /\ {evidence[r].action : r \in Advised} = S
                                   /\ Cardinality(Advised) = Cardinality(S)
<1>1. PICK e, prev, ids : e = nodes[m].call /\ prev = nodes[m - 1].call /\ ids = e.ids \ Told
  OBVIOUS
<1>2. /\ AgentInv /\ Chain /\ EntriesFit /\ Distinct(evidence)
  BY TrailFacts DEF FindingsAreOurs
<1>3. e.tool = "recommend" /\ e.says = "done"
  BY <1>1 DEF Did
<1>4. Advised = ids /\ ids \subseteq 1..Len(evidence) /\ m - 1 \in 1..Len(nodes)
  <2>1. Advised = nodes[m].call.ids \ Told
    BY <1>2, AdvisedIs
  <2> QED BY <1>1, <2>1, EntryAt
<1>5. RecordsAt(evidence, ids) = AdviceAfter(evidence, Told, prev)
  <2>1. Fits(m)
    BY <1>2 DEF EntriesFit
  <2>2. ToolFits(evidence, Reported, Told, prev, e)
    BY <1>1, <1>3, <2>1 DEF Fits, Tool
  <2> QED BY <1>1, <1>3, <2>2 DEF ToolFits, Names
<1>6. CASE prev.tool = "decision"
  <2>1. /\ m - 1 \in 2..Len(nodes) /\ Accepting(evidence, prev.args)
    BY <1>1, <1>2, <1>3, <1>6, AdviceHasResult
  <2>2. PICK n, res, actions : n = m - 1 /\ res = prev.args.res /\ actions = evidence[res].actions
    OBVIOUS
  <2>3. n \in 2..Len(nodes) /\ Audited(n) /\ res = nodes[n].call.args.res
        /\ evidence[res].reasons = {}
    BY <1>1, <1>6, <2>1, <2>2 DEF Audited, Accepting
  <2>4. actions \subseteq Applicable(evidence, Told)
    BY <1>2, <2>2, <2>3, ResultTold
  <2>5. RecordsAt(evidence, ids) = Advice(evidence, Told, actions)
    BY <1>5, <1>6, <2>2 DEF AdviceAfter
  <2>6. PICK told : told = Told
    OBVIOUS
  <2>7. /\ ids \subseteq OfKind(evidence, "recommendation")
        /\ \A r \in ids : evidence[r].parents # {} /\ evidence[r].parents \subseteq told
        /\ {evidence[r].action : r \in ids} = actions
        /\ Cardinality(ids) = Cardinality(actions)
    <3>1. /\ actions \subseteq Applicable(evidence, told)
          /\ RecordsAt(evidence, ids) = Advice(evidence, told, actions)
      BY <2>4, <2>5, <2>6
    <3> QED BY <1>2, <1>4, <3>1, AdviceResolves
  <2>8. \A S \in ActionsTold : S = actions
    <3> SUFFICES ASSUME NEW k \in 2..Len(nodes), Audited(k)
                 PROVE  k = n
      BY <2>2, <2>3 DEF ActionsTold
    <3>1. k = 5 /\ n = 5
      BY <1>2, <2>3, PlaceOf DEF Audited, TheTool
    <3> QED BY <3>1
  <2> QED BY <1>4, <2>6, <2>7, <2>8
<1>7. CASE prev.tool # "decision"
  <2>1. RecordsAt(evidence, ids) = {}
    BY <1>5, <1>7 DEF AdviceAfter
  <2>2. ids = {}
    BY <2>1 DEF RecordsAt
  <2>3. m = 5
    <3>1. m \in {5, 6}
      BY <1>1, <1>2, <1>3, PlaceOf DEF TheTool
    <3>2. m # 6
      <4> SUFFICES ASSUME m = 6
                   PROVE  FALSE
        OBVIOUS
      <4>1. Len(nodes) >= 6 /\ TheTool(6) = "recommend" /\ TheTool(5) # "decision"
        BY <1>1, <1>3, <1>7, InvFacts DEF TheTool
      <4>2. Ordered
        BY <1>2, FollowsPlan
      <4> QED BY <4>1, <4>2 DEF Ordered
    <3> QED BY <3>1, <3>2
  <2>4. \A k \in 2..Len(nodes) : ~ Audited(k)
    BY <1>1, <1>2, <1>3, <2>3, PlaceOf DEF Audited, TheTool
  <2>5. ActionsTold = {}
    BY <2>4 DEF ActionsTold
  <2> QED BY <1>4, <2>2, <2>5
<1> QED BY <1>6, <1>7

\* What a journal names resolves, unless accepted advice was not completed.
LEMMA JournalResolves ==
  ASSUME AgentInv, TrailInv, ~ Halfway
  PROVE  Resolves(Told, Advised, ActionsTold)
<1>1. Chain /\ EntriesFit /\ Distinct(evidence)
  BY TrailFacts DEF FindingsAreOurs
<1>2. Told \subseteq 1..Len(evidence) /\ \A i \in Told : evidence[i] \in Reported
  BY <1>1, ToldIsHeld, ToldIsReported
<1>3. Told \subseteq Diagnosis(evidence)
  <2>1. \A i \in Told : evidence[i].kind = "diagnostic"
    BY <1>2 DEF Reported, Diagnostic
  <2> QED BY <1>2, <2>1 DEF Diagnosis, OfKind
<1>4. Cardinality(FindingsOf(evidence, Told)) = Cardinality(Told)
  <2>1. PICK told : told = Told
    OBVIOUS
  <2>2. told \subseteq 1..Len(evidence) /\ \A i \in told : evidence[i] \in Reported
    BY <1>2, <2>1
  <2>3. Cardinality(FindingsOf(evidence, told)) = Cardinality(told)
    BY <1>1, <2>2, FindingsOnce
  <2> QED BY <2>1, <2>3
<1>5. /\ Advised \subseteq OfKind(evidence, "recommendation")
      /\ \A r \in Advised : evidence[r].parents # {} /\ evidence[r].parents \subseteq Told
      /\ \A S \in ActionsTold : /\ {evidence[r].action : r \in Advised} = S
                                /\ Cardinality(Advised) = Cardinality(S)
  <2>1. CASE "recommend" \in DidAll
    <3>1. PICK m \in 2..Len(nodes) : Did(m, "recommend")
      BY <2>1 DEF DidAll
    <3> QED BY <3>1, AdviceToldResolves
  <2>2. CASE "recommend" \notin DidAll
    <3>1. Advised = {}
      BY <2>2, NothingAdvised
    <3>2. \A S \in ActionsTold : S = {}
      <4> SUFFICES ASSUME NEW n \in 2..Len(nodes), Audited(n)
                   PROVE  evidence[nodes[n].call.args.res].actions = {}
        BY DEF ActionsTold
      <4>1. PICK res : res = nodes[n].call.args.res
        OBVIOUS
      <4>2. evidence[res].reasons # {}
        BY <2>2, <4>1 DEF Halfway, Audited, Accepting
      <4> QED BY <1>1, <4>1, <4>2, ResultTold
    <3> QED BY <3>1, <3>2
  <2> QED BY <2>1, <2>2
<1> QED BY <1>3, <1>4, <1>5 DEF Resolves

-----------------------------------------------------------------------------
(***************************************************************************)
(* The review: what the call has heard is what the entries say.            *)
(***************************************************************************)

\* Until it is closed, an entry that only the review may follow is the last.
LEMMA ReviewAfter ==
  ASSUME AgentInv, TrailInv, Going, NEW m \in 2..Len(nodes), After(m) = {"review"}
  PROVE  m = Len(nodes)
<1> SUFFICES ASSUME m # Len(nodes)
             PROVE  FALSE
  OBVIOUS
<1>1. Chain /\ Rooted /\ Len(nodes) \in Nat /\ ~ Closed /\ nodes \in Seq(Root \cup Kid)
  BY TrailFacts, InvFacts DEF ResultIsJournal
<1>2. PICK n : n = m + 1
  OBVIOUS
<1>3. n \in 2..Len(nodes) /\ n - 1 = m
  BY <1>1, <1>2
<1>4. nodes[n].call.tool = "review"
  BY <1>1, <1>3 DEF Chain
<1>5. n = Len(nodes)
  BY <1>1, <1>3, <1>4, PlaceOf DEF TheTool
<1>6. nodes[n] \in Kid
  BY <1>3, EntryAt
<1> QED BY <1>1, <1>4, <1>5, <1>6 DEF Closed, ToolOf, Kid

\* What the call hands to the reviewer, as it stands in the journal.
LEMMA AtReview ==
  ASSUME AgentInv, TrailInv, At("review")
  PROVE  /\ Going /\ nodes # <<>> /\ Len(nodes) \in 2..Len(nodes)
         /\ "review" \in Followers(evidence, Says)
         /\ call.diagnosis = Told /\ call.done = DidAll /\ call.leaf = Len(nodes)
         /\ call.denied = (Says.says = "denied")
         /\ call.failed = \/ Says.says = "failed" \/ Says.tool = "decision"
                          \/ Did(Len(nodes), "discover")
         /\ call.recommended = IF Did(Len(nodes), "recommend") THEN Says.ids \ Told ELSE {}
         /\ call.empty = ("diagnose" \in DidAll /\ Told = {})
         /\ SubmissionIsTold
<1>1. call.pc = "review" /\ Going
  BY DEF At, Going
<1>2. /\ nodes # <<>> /\ call.diagnosis = Told /\ call.done = DidAll /\ call.leaf = Len(nodes)
      /\ Len(nodes) \in Nat /\ nodes \in Seq(Root \cup Kid)
  BY <1>1, InvFacts DEF JournalTells
<1>3. "review" \in After(Len(nodes))
  <2>1. Turn(call.pc) = "review"
    BY <1>1 DEF Turn, Deciding
  <2> QED BY <1>1, <2>1, TrailFacts DEF CallIsInTurn
<1>4. Len(nodes) # 1
  BY <1>3 DEF After
<1>5. "review" \in Followers(evidence, Says)
  BY <1>3, <1>4 DEF After, Says
<1>6. Len(nodes) \in 2..Len(nodes)
  <2>1. PICK N : N = Len(nodes)
    OBVIOUS
  <2>2. N \in Nat /\ N # 0
    BY <1>2, <2>1
  <2>3. N \in 2..N
    BY <1>4, <2>1, <2>2
  <2> QED BY <2>1, <2>3
<1>7. /\ call.denied = (Says.says = "denied")
      /\ call.failed = \/ Says.says = "failed" \/ Says.tool = "decision"
                       \/ Did(Len(nodes), "discover")
      /\ call.recommended = IF Did(Len(nodes), "recommend")
                            THEN Says.ids \ call.diagnosis ELSE {}
  BY TrailFacts DEF ReviewHears
<1>8. call.empty = ("diagnose" \in call.done /\ call.diagnosis = {})
  BY <1>1, TrailFacts DEF CallIsInTurn
<1>9. SubmissionIsTold
  BY <1>1, TrailFacts DEF DecisionIsTold, Late
<1> QED BY <1>1, <1>2, <1>5, <1>6, <1>7, <1>8, <1>9

\* The reviewer hears of a refusal when there is one in the journal.
LEMMA HeardDenied ==
  ASSUME AgentInv, TrailInv, At("review")
  PROVE  DeniedIn <=> Says.says = "denied"
<1>1. Len(nodes) \in 2..Len(nodes) /\ Going
  BY AtReview
<1>2. ASSUME NEW n \in 2..Len(nodes), nodes[n].call.says = "denied"
      PROVE  n = Len(nodes)
  <2>1. nodes[n].call \in Entry /\ n # 1
    BY EntryAt
  <2>2. nodes[n].call.tool \in Tool
    BY <1>2, <2>1 DEF Entry, ToolEntry, AuditEntry, ReviewEntry
  <2>3. After(n) = {"review"}
    BY <1>2, <2>1, <2>2 DEF After, Followers
  <2> QED BY <1>1, <2>3, ReviewAfter
<1> QED BY <1>1, <1>2 DEF DeniedIn, Says

\* And of a failure, a decision that did not accept among them.
LEMMA HeardFailed ==
  ASSUME AgentInv, TrailInv, At("review"), ~ Unheard
  PROVE  FailedIn <=> call.failed
<1>1. /\ Len(nodes) \in 2..Len(nodes) /\ Going /\ "review" \in Followers(evidence, Says)
      /\ call.failed = \/ Says.says = "failed" \/ Says.tool = "decision"
                       \/ Did(Len(nodes), "discover")
  BY AtReview
<1>2. ASSUME NEW n \in 2..Len(nodes),
             \/ nodes[n].call.says = "failed"
             \/ nodes[n].call.tool = "decision" /\ ~ Accepting(evidence, nodes[n].call.args)
      PROVE  n = Len(nodes)
  <2>1. nodes[n].call \in Entry /\ n # 1
    BY EntryAt
  <2>2. CASE nodes[n].call.says = "failed"
    <3>1. nodes[n].call.tool \in Tool
      BY <2>1, <2>2 DEF Entry, ToolEntry, AuditEntry, ReviewEntry
    <3>2. After(n) = {"review"}
      BY <2>1, <2>2, <3>1 DEF After, Followers
    <3> QED BY <1>1, <3>2, ReviewAfter
  <2>3. CASE nodes[n].call.tool = "decision" /\ ~ Accepting(evidence, nodes[n].call.args)
    <3>1. After(n) = {"review"}
      BY <2>1, <2>3 DEF After, Followers, Tool
    <3> QED BY <1>1, <3>1, ReviewAfter
  <2> QED BY <1>2, <2>2, <2>3
<1>3. Says.tool = "decision" => ~ Accepting(evidence, Says.args)
  BY <1>1 DEF Followers, Tool
<1>4. ~ Did(Len(nodes), "discover")
  <2> SUFFICES ASSUME Did(Len(nodes), "discover")
               PROVE  FALSE
    OBVIOUS
  <2>1. PICK N : N = Len(nodes)
    OBVIOUS
  <2>2. N = 4 /\ N \in 2..Len(nodes)
    BY <1>1, <2>1, TrailFacts, PlaceOf DEF Did, TheTool
  <2>3. PICK e, prev : e = nodes[N].call /\ prev = nodes[N - 1].call
    OBVIOUS
  <2>4. e.tool = "discover" /\ e.says = "done" /\ "review" \in Followers(evidence, e)
    BY <1>1, <2>1, <2>3 DEF Did, Says
  <2>5. e.ids # {}
    BY <2>4 DEF Followers, Tool
  <2>6. ToolFits(evidence, Reported, Told, prev, e)
    BY <2>2, <2>3, <2>4, TrailFacts DEF EntriesFit, Fits, Tool
  <2>7. Told # {}
    BY <2>4, <2>5, <2>6 DEF ToolFits, Names
  <2>8. "discover" \in DidAll
    BY <1>1 DEF DidAll, Tool
  <2>9. \A n \in 2..Len(nodes) : nodes[n].call.tool # "decision"
    <3> SUFFICES ASSUME NEW n \in 2..Len(nodes), nodes[n].call.tool = "decision"
                 PROVE  FALSE
      OBVIOUS
    <3>1. n = 5
      BY TrailFacts, PlaceOf DEF TheTool
    <3> QED BY <2>1, <2>2, <3>1
  <2> QED BY <2>7, <2>8, <2>9 DEF Unheard
<1> QED BY <1>1, <1>2, <1>3, <1>4 DEF FailedIn, Says

\* And of the recommendations.
LEMMA HeardAdvice ==
  ASSUME AgentInv, TrailInv, At("review")
  PROVE  call.recommended = Advised
<1>1. /\ Len(nodes) \in 2..Len(nodes) /\ Going /\ Chain
      /\ call.recommended = IF Did(Len(nodes), "recommend") THEN Says.ids \ Told ELSE {}
  BY AtReview, TrailFacts
<1>2. CASE Did(Len(nodes), "recommend")
  <2>1. PICK N : N = Len(nodes)
    OBVIOUS
  <2>2. Advised = nodes[N].call.ids \ Told
    BY <1>1, <1>2, <2>1, AdvisedIs
  <2> QED BY <1>1, <1>2, <2>1, <2>2 DEF Says
<1>3. CASE ~ Did(Len(nodes), "recommend")
  <2>1. ASSUME NEW n \in 2..Len(nodes), Did(n, "recommend")
        PROVE  n = Len(nodes)
    <3>1. n # 1
      BY EntryAt
    <3>2. After(n) = {"review"}
      BY <2>1, <3>1 DEF After, Followers, Did, Tool
    <3> QED BY <1>1, <3>2, ReviewAfter
  <2>2. "recommend" \notin DidAll
    BY <1>3, <2>1 DEF DidAll
  <2> QED BY <1>1, <1>3, <2>2, NothingAdvised
<1> QED BY <1>2, <1>3

\* And of the actions of the decision.
LEMMA HeardActions ==
  ASSUME AgentInv, TrailInv, SubmissionIsTold
  PROVE  AcceptedActions = ActionsTold
<1>1. CASE call.submission = 0
  <2>1. {m \in 2..Len(nodes) : Audited(m)} = {}
    BY <1>1 DEF SubmissionIsTold
  <2> QED BY <1>1, <2>1 DEF AcceptedActions, ActionsTold
<1>2. CASE call.submission # 0
  <2>1. PICK n \in 2..Len(nodes) : Audited(n) /\ nodes[n].call.args.res = call.submission
    BY <1>2 DEF SubmissionIsTold
  <2>2. \A m \in 2..Len(nodes) : Audited(m) => m = n
    <3> SUFFICES ASSUME NEW m \in 2..Len(nodes), Audited(m)
                 PROVE  m = n
      OBVIOUS
    <3>1. m = 5 /\ n = 5
      BY <2>1, TrailFacts, PlaceOf DEF Audited, TheTool
    <3> QED BY <3>1
  <2>3. PICK S : S = {m \in 2..Len(nodes) : Audited(m)}
    OBVIOUS
  <2>4. S = {n}
    BY <2>1, <2>2, <2>3
  <2>5. ActionsTold = {evidence[nodes[m].call.args.res].actions : m \in S}
    BY <2>3 DEF ActionsTold
  <2>6. ActionsTold = {evidence[call.submission].actions}
    BY <2>1, <2>4, <2>5
  <2> QED BY <1>2, <2>6 DEF AcceptedActions
<1> QED BY <1>1, <1>2

\* What the review says is what the entries imply.
LEMMA VerdictImplied ==
  ASSUME AgentInv, TrailInv, At("review"), ~ Halfway, ~ Unheard
  PROVE  Verdict = Implied
<1>1. PICK told, advised, actions : told = Told /\ advised = Advised /\ actions = ActionsTold
  OBVIOUS
<1>2. /\ call.diagnosis = told /\ call.recommended = advised /\ AcceptedActions = actions
      /\ call.attempt = 0
  BY <1>1, AtReview, HeardAdvice, HeardActions, InvFacts DEF Calls
<1>3. Resolves(told, advised, actions)
  BY <1>1, JournalResolves
<1>4. call.denied = DeniedIn /\ call.failed = FailedIn /\ call.empty = EmptyIn
  <2>1. call.denied = (Says.says = "denied")
    BY AtReview
  <2>2. DeniedIn \in BOOLEAN /\ FailedIn \in BOOLEAN /\ call.failed \in BOOLEAN
    BY InvFacts DEF DeniedIn, FailedIn, Calls
  <2>3. call.empty = EmptyIn
    BY AtReview DEF EmptyIn
  <2> QED BY <2>1, <2>2, <2>3, HeardDenied, HeardFailed
<1>5. Verdict = Judge(told, advised, actions, DeniedIn, FailedIn, EmptyIn, 0)
  BY <1>2, <1>4 DEF Verdict
<1>6. Verdict = Review(told \cup advised, told, DeniedIn, FailedIn \/ FALSE, EmptyIn, 0)
  BY <1>3, <1>5, ZenonT(60) DEF Judge
<1>7. (FailedIn \/ FALSE) = FailedIn
  BY DEF FailedIn
<1> QED BY <1>1, <1>6, <1>7 DEF Implied

\* The review itself adds nothing to what the entries imply.
LEMMA ReviewAdds ==
  ASSUME AgentInv, Going, NEW entry \in ReviewEntry, Journaled(entry)
  PROVE  /\ Told' = Told /\ Advised' = Advised /\ DidAll' = DidAll
         /\ DeniedIn' = DeniedIn /\ FailedIn' = FailedIn /\ EmptyIn' = EmptyIn
         /\ Halfway' = Halfway /\ Unheard' = Unheard
<1>1. PICK N : N = Len(nodes)
  OBVIOUS
<1>2. /\ Len(nodes') = N + 1 /\ N \in Nat \ {0} /\ nodes # <<>>
      /\ \A n \in 1..N : nodes'[n] = nodes[n]
      /\ nodes'[N + 1].call = entry
  BY <1>1, LastEntry DEF Entry
<1>3. entry.tool = "review" /\ entry.says = "reviewed" /\ evidence' = evidence
  BY DEF ReviewEntry, Journaled
<1>4. /\ \A n \in 2..N : n \in 2..Len(nodes') /\ nodes'[n] = nodes[n]
      /\ \A n \in 2..Len(nodes') : n \in 2..N \/ nodes'[n].call = entry
  BY <1>2
<1>5. \A t : t # "review" => {m \in 2..Len(nodes') : Did(m, t)'} = {m \in 2..N : Did(m, t)}
  BY <1>3, <1>4 DEF Did
<1>6. \A S : S \subseteq 2..N => {nodes'[n].call.ids : n \in S} = {nodes[n].call.ids : n \in S}
  BY <1>4
<1>7. Told' = Told
  <2>1. PICK S : S = {m \in 2..N : Did(m, "diagnose")}
    OBVIOUS
  <2>2. Told' = UNION {nodes'[n].call.ids : n \in S}
    BY <1>5, <2>1 DEF Told
  <2>3. Told = UNION {nodes[n].call.ids : n \in S}
    BY <1>1, <2>1 DEF Told
  <2>4. S \subseteq 2..N
    BY <2>1
  <2> QED BY <1>6, <2>2, <2>3, <2>4
<1>8. Advised' = Advised
  <2>1. PICK S : S = {m \in 2..N : Did(m, "recommend")}
    OBVIOUS
  <2>2. Advised' = (UNION {nodes'[n].call.ids : n \in S}) \ Told'
    BY <1>5, <2>1 DEF Advised
  <2>3. Advised = (UNION {nodes[n].call.ids : n \in S}) \ Told
    BY <1>1, <2>1 DEF Advised
  <2>4. S \subseteq 2..N
    BY <2>1
  <2> QED BY <1>6, <1>7, <2>2, <2>3, <2>4
<1>9. DidAll' = DidAll
  <2>1. \A t \in Tool : (\E n \in 2..Len(nodes') : Did(n, t)')
                          <=> (\E n \in 2..Len(nodes) : Did(n, t))
    BY <1>1, <1>3, <1>4 DEF Did, Tool
  <2> QED BY <2>1 DEF DidAll
<1>10. DeniedIn' = DeniedIn
  BY <1>1, <1>3, <1>4 DEF DeniedIn
<1>11. FailedIn' = FailedIn
  BY <1>1, <1>3, <1>4 DEF FailedIn, Accepting
<1>12. EmptyIn' = EmptyIn
  BY <1>7, <1>9 DEF EmptyIn
<1>13. Halfway' = Halfway
  BY <1>1, <1>3, <1>4, <1>9 DEF Halfway, Accepting
<1>14. Unheard' = Unheard
  BY <1>1, <1>3, <1>4, <1>7, <1>9 DEF Unheard
<1> QED BY <1>7, <1>8, <1>9, <1>10, <1>11, <1>12, <1>13, <1>14

\* The review is journalled.
LEMMA ReviewAttemptTrail ==
  ASSUME AgentInv, AgentInv', TrailInv, ReviewAttempt
  PROVE  TrailInv'
<1>1. PICK decision : decision = Verdict
  OBVIOUS
<1>2. /\ At("review") /\ call \in Calls /\ call.attempt = 0
      /\ UNCHANGED <<evidence, report, cli>>
  BY InvFacts DEF ReviewAttempt, Calling, Calls
<1>3. Going /\ nodes # <<>> /\ "review" \in Followers(evidence, Says)
      /\ Len(nodes) \in 2..Len(nodes)
  BY <1>2, AtReview
<1>4. /\ decision.approved \in BOOLEAN /\ decision.reasons \in SUBSET Complaint
      /\ decision.retry = FALSE
      /\ decision.evidence = IF Resolved THEN Business ELSE {}
  BY <1>1, <1>2, VerdictIs
<1>5. decision.evidence \in SUBSET Nat
  BY <1>4, HandIsNumbers
<1>6. PICK entry : entry = ReviewCall(decision, 0)
  OBVIOUS
<1>7. entry \in Entry /\ entry.tool = "review"
  BY <1>4, <1>5, <1>6, ReviewIsEntry
<1>8. entry \in ReviewEntry
  BY <1>7, EntryTools
<1>9. nodes' = Append(nodes, Child(call.leaf, entry)) /\ call'.pc = "publish"
  BY <1>1, <1>2, <1>4, <1>6 DEF ReviewAttempt, PersistNode, Verdict, AcceptedActions, Calls
<1>10. Journaled(entry)
  BY <1>2, <1>9 DEF Journaled
<1>11. Chain' /\ EntriesFit'
  <2>1. entry.tool \in After(Len(nodes))
    BY <1>3, <1>7 DEF After, Says
  <2>2. entry.tool \notin Tool /\ entry.tool # "decision"
    BY <1>7 DEF Tool
  <2> QED BY <1>3, <1>7, <1>10, <2>1, <2>2, EntriesGrow
<1>12. FindingsAreOurs'
  <2>1. AllOurs(call'.todo)
    BY <1>9, NothingToDo
  <2> QED BY <1>2, <2>1, TrailFacts, OursAreKept DEF AllOurs, Ours, Reported
<1>13. CallIsTold'
  BY <1>9, IdleTold
<1>14. ReviewIsImplied'
  <2> SUFFICES ASSUME ~ Halfway', ~ Unheard'
               PROVE  Says' = ReviewCall(Implied', 0)
    BY DEF ReviewIsImplied
  <2>1. /\ Told' = Told /\ Advised' = Advised /\ DeniedIn' = DeniedIn /\ FailedIn' = FailedIn
        /\ EmptyIn' = EmptyIn /\ Halfway' = Halfway /\ Unheard' = Unheard
    BY <1>3, <1>8, <1>10, ReviewAdds
  <2>2. Implied' = Implied
    BY <2>1 DEF Implied
  <2>3. decision = Implied
    BY <1>1, <1>2, <2>1, VerdictImplied
  <2>4. Says' = entry
    BY <1>3, <1>7, <1>10, LastEntry
  <2> QED BY <1>6, <2>2, <2>3, <2>4
<1> QED BY <1>11, <1>12, <1>13, <1>14 DEF TrailInv

-----------------------------------------------------------------------------
\* Every step keeps the invariant.
LEMMA TrailSteps ==
  ASSUME AgentInv, AgentInv', TrailInv, [Next]_vars
  PROVE  TrailInv'
<1>1. ASSUME NEW role \in Role, NEW budget \in 0..MaxBudget, NEW provider \in Provider,
             Begin(role, budget, provider)
      PROVE  TrailInv'
  BY <1>1, BeginTrail
<1>2. CASE ToolStep
  BY <1>2, DeniedTrail, ToolFailsTrail, InspectTrail, DiagnoseTrail, AppendNextTrail,
     DiagnosedTrail, DiscoverTrail, RecommendTrail, NothingToRecommendTrail,
     RecommendedTrail DEF ToolStep
<1>3. CASE DecisionStep
  BY <1>3, PrepareTrail, IssueTrail, PrepareFailsTrail, ResolveTrail, HostSilentTrail,
     SubmitTrail, PersistTrail, SubmitFailsTrail, AuditTrail, RecordUnavailableTrail,
     AuditOutcomeTrail, UnavailableFailsTrail DEF DecisionStep
<1>4. CASE ReviewAttempt \/ Publish \/ Abandon
  BY <1>4, ReviewAttemptTrail, EndTrail
<1>5. ASSUME NEW role \in Role, NEW provider \in Provider, Recover(role, provider)
      PROVE  TrailInv'
  BY <1>5, RecoverTrail
<1>6. CASE Expire \/ UNCHANGED vars
  BY <1>6, ExpireTrail
<1>7. CASE CliStep
  BY <1>7, CliDiagnoseTrail, CliAppendTrail, CliRecommendTrail DEF CliStep
<1> QED BY <1>1, <1>2, <1>3, <1>4, <1>5, <1>6, <1>7 DEF Next

\* What is in the journal passes, entry by entry, through every failure, death, recovery
\* and command beside the run (agents/orchestrator.py, _execute_once and its tools).
THEOREM TrailInvariance == Spec => []TrailInv
<1>1. Init => TrailInv
  BY TrailStarts
<1>2. AgentInv /\ AgentInv' /\ TrailInv /\ [Next]_vars => TrailInv'
  BY TrailSteps
<1> QED BY <1>1, <1>2, AgentInvariance, PTL DEF Spec

-----------------------------------------------------------------------------
(***************************************************************************)
(* What recover_terminal_result reads from a closed journal.               *)
(***************************************************************************)
LEMMA AttemptIs ==
  ASSUME AgentInv, Closed
  PROVE  /\ nodes # <<>> /\ Len(nodes) \in 2..Len(nodes) /\ Len(nodes) \in Nat
         /\ Len(Attempt) = Len(nodes) - 1
         /\ \A i \in 1..(Len(nodes) - 1) : Attempt[i] = i + 1 /\ i + 1 \in 2..Len(nodes)
         /\ \A n \in 2..Len(nodes) : n - 1 \in 1..(Len(nodes) - 1) /\ Attempt[n - 1] = n
         /\ Last(Attempt) = Len(nodes) /\ Members(Attempt) = 2..Len(nodes)
         /\ Attempts = <<Attempt>> /\ Last(Attempts) = Attempt
<1>1. nodes # <<>> /\ Len(nodes) \in 2..Len(nodes) /\ nodes \in Seq(Root \cup Kid) /\ Rooted
  BY ClosedJournal, InvFacts DEF Closed
<1>2. PICK N : N = Len(nodes)
  OBVIOUS
<1>3. N \in Nat /\ N \in 2..N
  BY <1>1, <1>2
<1>4. Attempt = [i \in 1..(N - 1) |-> 1 + i]
  BY <1>2 DEF Attempt
<1>5. Len(Attempt) = N - 1
  BY <1>3, <1>4
<1>6. \A i \in 1..(N - 1) : Attempt[i] = i + 1 /\ i + 1 \in 2..N
  BY <1>3, <1>4
<1>7. \A n \in 2..N : n - 1 \in 1..(N - 1) /\ Attempt[n - 1] = n
  BY <1>3, <1>4
<1>8. Last(Attempt) = N
  BY <1>3, <1>5, <1>6 DEF Last
<1>9. Members(Attempt) = 2..N
  <2>1. \A n \in 2..N : n - 1 \in 1..Len(Attempt) /\ Attempt[n - 1] = n
    BY <1>5, <1>7
  <2>2. \A i \in 1..Len(Attempt) : Attempt[i] \in 2..N
    BY <1>5, <1>6
  <2> QED BY <2>1, <2>2 DEF Members
<1>10. Attempts = <<Attempt>> /\ Last(Attempts) = Attempt
  BY <1>1, OneAttempt
<1> QED BY <1>1, <1>2, <1>3, <1>5, <1>6, <1>7, <1>8, <1>9, <1>10

\* What validate_terminal_result collects from the entries.
LEMMA AttemptReads ==
  ASSUME AgentInv, Closed
  PROVE  /\ \A t : Done(Attempt, t) = {n \in 2..Len(nodes) : Did(n, t)}
         /\ DiagnosisOf(Attempt) = Told /\ RecommendedOf(Attempt) = Advised
         /\ DoneIn(Attempt) = DidAll /\ PublicTools(Attempt) = ToolsTold
         /\ Audits(Attempt) = {i \in 1..(Len(nodes) - 1) : TheTool(i + 1) = "decision"}
         /\ ActionsOf(Attempt) = ActionsTold
<1>1. nodes # <<>> /\ nodes \in Seq(Root \cup Kid)
  BY AttemptIs, InvFacts
<1>2. PICK N, a : N = Len(nodes) /\ a = Attempt
  OBVIOUS
<1>3. /\ N \in Nat /\ Len(a) = N - 1 /\ Members(a) = 2..N
      /\ \A i \in 1..(N - 1) : a[i] = i + 1 /\ i + 1 \in 2..N
      /\ \A n \in 2..N : n - 1 \in 1..(N - 1) /\ a[n - 1] = n
  BY <1>2, AttemptIs
<1>4. \A t : Done(a, t) = {n \in 2..N : Did(n, t)}
  BY <1>3 DEF Done, ToolOf, IsDone, Did
<1>5. DiagnosisOf(a) = Told /\ DoneIn(a) = DidAll /\ PublicTools(a) = ToolsTold
  BY <1>1, <1>2, JournalReadings
<1>6. RecommendedOf(a) = Advised
  <2>1. Done(a, "recommend") = {n \in 2..N : Did(n, "recommend")}
    BY <1>4
  <2> QED BY <1>2, <1>5, <2>1 DEF RecommendedOf, IdsOf, Advised
<1>7. Audits(a) = {i \in 1..(N - 1) : TheTool(i + 1) = "decision"}
  BY <1>3 DEF Audits, ToolOf, TheTool
<1>8. ActionsOf(a) = ActionsTold
  <2>1. ASSUME NEW i \in 1..(N - 1)
        PROVE  i \in Audits(a) /\ IsSubmission(a[i]) <=> Audited(a[i])
    BY <1>3, <1>7 DEF Audited, IsSubmission, ArgsOf, TheTool
  <2>2. ActionsOf(a) = {evidence[nodes[a[i]].call.args.res].actions :
                          i \in {j \in 1..(N - 1) : Audited(a[j])}}
    BY <1>7, <2>1 DEF ActionsOf, ArgsOf
  <2>3. \A i \in 1..(N - 1) : a[i] \in 2..N
    BY <1>3
  <2>4. \A n \in 2..N : \E i \in 1..(N - 1) : a[i] = n
    BY <1>3
  <2>5. PICK act : act = [n \in 2..N |-> evidence[nodes[n].call.args.res].actions]
    OBVIOUS
  <2>6. \A n \in 2..N : act[n] = evidence[nodes[n].call.args.res].actions
    BY <2>5
  <2>7. ActionsOf(a) = {act[a[i]] : i \in {j \in 1..(N - 1) : Audited(a[j])}}
    BY <2>2, <2>3, <2>6
  <2>8. ActionsTold = {act[n] : n \in {m \in 2..N : Audited(m)}}
    BY <1>2, <2>6 DEF ActionsTold
  <2>9. ASSUME NEW x \in ActionsOf(a)
        PROVE  x \in ActionsTold
    <3>1. PICK i \in 1..(N - 1) : Audited(a[i]) /\ x = act[a[i]]
      BY <2>7, <2>9
    <3> QED BY <2>3, <2>8, <3>1
  <2>10. ASSUME NEW x \in ActionsTold
         PROVE  x \in ActionsOf(a)
    <3>1. PICK n \in 2..N : Audited(n) /\ x = act[n]
      BY <2>8, <2>10
    <3>2. PICK i \in 1..(N - 1) : a[i] = n
      BY <2>4, <3>1
    <3> QED BY <2>7, <3>1, <3>2
  <2> QED BY <2>9, <2>10
<1> QED BY <1>2, <1>4, <1>5, <1>6, <1>7, <1>8

\* The review that is recomputed from the entries.
LEMMA ExpectedIs ==
  ASSUME AgentInv, TrailInv, Closed, ~ Halfway
  PROVE  ExpectedReview(Attempt, 1) = Implied
<1>1. PICK told, advised, actions : told = Told /\ advised = Advised /\ actions = ActionsTold
  OBVIOUS
<1>2. Resolves(told, advised, actions)
  BY <1>1, JournalResolves
<1>3. PICK N, a : N = Len(nodes) /\ a = Attempt
  OBVIOUS
<1>4. /\ N \in Nat /\ Len(a) = N - 1 /\ Members(a) = 2..N
      /\ \A i \in 1..(N - 1) : a[i] = i + 1 /\ i + 1 \in 2..N
      /\ \A n \in 2..N : n - 1 \in 1..(N - 1) /\ a[n - 1] = n
  BY <1>3, AttemptIs
<1>5. /\ \A t : Done(a, t) = {n \in 2..N : Did(n, t)}
      /\ DiagnosisOf(a) = told /\ RecommendedOf(a) = advised /\ ActionsOf(a) = actions
      /\ Audits(a) = {i \in 1..(N - 1) : TheTool(i + 1) = "decision"}
  BY <1>1, <1>3, AttemptReads
<1>6. (\E n \in Failures(a) : nodes[n].call.says = "denied") = DeniedIn
  BY <1>3, <1>4 DEF Failures, DeniedIn
<1>7. (\/ \E n \in Failures(a) : nodes[n].call.says = "failed"
       \/ \E i \in Audits(a) : ~ IsAccepted(a[i])) = FailedIn
  <2>1. (\E n \in Failures(a) : nodes[n].call.says = "failed")
          <=> \E n \in 2..N : nodes[n].call.says = "failed"
    BY <1>4 DEF Failures
  <2>2. \A n \in 2..N : IsAccepted(n) <=> Accepting(evidence, nodes[n].call.args)
    BY DEF IsAccepted, IsSubmission, ArgsOf, Accepting
  <2>3. (\E i \in Audits(a) : ~ IsAccepted(a[i]))
          <=> \E n \in 2..N : /\ nodes[n].call.tool = "decision"
                              /\ ~ Accepting(evidence, nodes[n].call.args)
    <3>1. ASSUME NEW i \in Audits(a), ~ IsAccepted(a[i])
          PROVE  \E n \in 2..N : /\ nodes[n].call.tool = "decision"
                                 /\ ~ Accepting(evidence, nodes[n].call.args)
      <4>1. i \in 1..(N - 1) /\ TheTool(i + 1) = "decision"
        BY <1>5, <3>1
      <4>2. a[i] = i + 1 /\ i + 1 \in 2..N
        BY <1>4, <4>1
      <4> QED BY <2>2, <3>1, <4>1, <4>2 DEF TheTool
    <3>2. ASSUME NEW n \in 2..N, nodes[n].call.tool = "decision",
                 ~ Accepting(evidence, nodes[n].call.args)
          PROVE  \E i \in Audits(a) : ~ IsAccepted(a[i])
      <4>1. n - 1 \in 1..(N - 1) /\ a[n - 1] = n /\ (n - 1) + 1 = n
        BY <1>4
      <4>2. n - 1 \in Audits(a)
        BY <1>5, <3>2, <4>1 DEF TheTool
      <4> QED BY <2>2, <3>2, <4>1, <4>2
    <3> QED BY <3>1, <3>2
  <2> QED BY <1>3, <2>1, <2>3 DEF FailedIn
<1>8. (Done(a, "diagnose") # {} /\ DiagnosisOf(a) = {}) = EmptyIn
  <2>1. Done(a, "diagnose") # {} <=> "diagnose" \in DidAll
    BY <1>3, <1>5 DEF DidAll, Tool
  <2> QED BY <1>1, <1>5, <2>1 DEF EmptyIn
<1>9. PICK denied, failed, empty : denied = DeniedIn /\ failed = FailedIn /\ empty = EmptyIn
  OBVIOUS
<1>10. failed \in BOOLEAN
  BY <1>9 DEF FailedIn
<1>11. ExpectedReview(a, 1) = Judge(told, advised, actions, denied, failed, empty, 0)
  <2>1. 1 - 1 = 0
    OBVIOUS
  <2> QED BY <1>5, <1>6, <1>7, <1>8, <1>9, <2>1, ZenonT(60) DEF ExpectedReview
<1>12. Judge(told, advised, actions, denied, failed, empty, 0)
         = Review(told \cup advised, told, denied, failed \/ FALSE, empty, 0)
  BY <1>2, ZenonT(60) DEF Judge
<1>13. (failed \/ FALSE) = failed
  BY <1>10
<1> QED BY <1>1, <1>3, <1>9, <1>11, <1>12, <1>13 DEF Implied

-----------------------------------------------------------------------------
\* From the last entry, the way up is the whole journal.
UpToNow(n) == [k \in 1..n |-> k]

\* The numbers up to the next one.
LEMMA OneMoreNumber ==
  ASSUME NEW n \in Nat
  PROVE  Append(UpToNow(n), n + 1) = UpToNow(n + 1)
<1>1. PICK s, t : s = UpToNow(n) /\ t = UpToNow(n + 1)
  OBVIOUS
<1>2. s \in Seq(Nat) /\ Len(s) = n /\ \A k \in 1..n : s[k] = k
  <2>1. s = [k \in 1..n |-> k] /\ \A k \in 1..n : k \in Nat
    BY <1>1 DEF UpToNow
  <2> QED BY <2>1
<1>3. PICK app : app = Append(s, n + 1)
  OBVIOUS
<1>4. app \in Seq(Nat) /\ Len(app) = n + 1 /\ app[n + 1] = n + 1
      /\ \A k \in 1..n : app[k] = k
  BY <1>2, <1>3
<1>5. \A k \in 1..(n + 1) : app[k] = k
  BY <1>4
<1>6. app \in [1..(n + 1) -> Nat]
  BY <1>4
<1>7. app = [k \in 1..(n + 1) |-> k]
  BY <1>5, <1>6
<1> QED BY <1>1, <1>3, <1>7 DEF UpToNow

IsAbove(f) ==
  f = [n \in 0..Len(nodes) |-> IF n = 0 THEN <<>> ELSE Append(f[nodes[n].parent], n)]

\* The function of branch exists, as every entry has the one before it as its parent.
LEMMA AboveExists ==
  ASSUME NEW N \in Nat, N = Len(nodes), \A n \in 1..N : nodes[n].parent = n - 1
  PROVE  \E f : IsAbove(f)
<1>1. PICK f : f = [n \in 0..N |-> UpToNow(n)]
  OBVIOUS
<1>2. \A n \in 0..N : f[n] = IF n = 0 THEN <<>> ELSE Append(f[nodes[n].parent], n)
  <2> TAKE n \in 0..N
  <2>1. CASE n = 0
    <3>1. UpToNow(0) = <<>>
      BY DEF UpToNow
    <3> QED BY <1>1, <2>1, <3>1
  <2>2. CASE n # 0
    <3>1. PICK m : m = n - 1
      OBVIOUS
    <3>2. m \in Nat /\ m \in 0..N /\ n = m + 1 /\ n \in 1..N
      BY <2>2, <3>1
    <3>3. nodes[n].parent = m /\ f[m] = UpToNow(m) /\ f[n] = UpToNow(n)
      BY <1>1, <3>1, <3>2
    <3>4. Append(UpToNow(m), m + 1) = UpToNow(m + 1)
      BY <3>2, OneMoreNumber
    <3> QED BY <2>2, <3>2, <3>3, <3>4
  <2> QED BY <2>1, <2>2
<1>3. f = [n \in 0..N |-> IF n = 0 THEN <<>> ELSE Append(f[nodes[n].parent], n)]
  BY <1>1, <1>2
<1> QED BY <1>3 DEF IsAbove

\* It gives all numbers up to its argument: the least one at which it would not is none.
LEMMA AboveIs ==
  ASSUME NEW N \in Nat, N = Len(nodes), \A n \in 1..N : nodes[n].parent = n - 1,
         NEW f, IsAbove(f)
  PROVE  f[N] = UpToNow(N)
<1> DEFINE T == {n \in 0..N : f[n] # UpToNow(n)}
<1>1. SUFFICES ASSUME N \in T
               PROVE  FALSE
  OBVIOUS
<1>2. PICK n \in T : \A m \in T : n <= m
  <2>1. T \subseteq Nat
    OBVIOUS
  <2> QED BY <1>1, <2>1, LeastNumber
<1>3. \A k \in 0..N : f[k] = IF k = 0 THEN <<>> ELSE Append(f[nodes[k].parent], k)
  BY DEF IsAbove
<1>4. CASE n = 0
  <2>1. UpToNow(0) = <<>>
    BY DEF UpToNow
  <2> QED BY <1>2, <1>3, <1>4, <2>1
<1>5. CASE n # 0
  <2>1. PICK m : m = n - 1
    OBVIOUS
  <2>2. m \in Nat /\ m \in 0..N /\ n = m + 1 /\ n \in 1..N /\ n \in 0..N /\ m \notin T
    BY <1>2, <1>5, <2>1
  <2>3. f[m] = UpToNow(m)
    BY <2>2
  <2>4. f[n] = Append(f[m], n)
    BY <1>3, <1>5, <2>1, <2>2
  <2>5. Append(UpToNow(m), m + 1) = UpToNow(m + 1)
    BY <2>2, OneMoreNumber
  <2> QED BY <1>2, <2>2, <2>3, <2>4, <2>5
<1> QED BY <1>4, <1>5

\* The journal is one branch under its root.
LEMMA JournalIsBranch ==
  ASSUME AgentInv, TrailInv, nodes # <<>>
  PROVE  OneBranch(Len(nodes))
<1>1. PICK N : N = Len(nodes)
  OBVIOUS
<1>2. /\ N \in Nat \ {0} /\ nodes \in Seq(Root \cup Kid) /\ Rooted /\ Chain
  BY <1>1, InvFacts, TrailFacts
<1>3. nodes[1].kind = "root" /\ nodes[1].parent = 0
  <2>1. 1 \in 1..Len(nodes)
    BY <1>1, <1>2
  <2>2. nodes[1].kind = "root" /\ nodes[1] \in Root \cup Kid
    BY <1>2, <2>1 DEF Rooted
  <2> QED BY <2>2 DEF Root, Kid
<1>4. \A n \in 1..N : nodes[n].parent = n - 1
  <2> TAKE n \in 1..N
  <2>1. CASE n = 1
    BY <1>3, <2>1
  <2>2. CASE n # 1
    <3>1. n \in 2..Len(nodes)
      BY <1>1, <1>2, <2>2
    <3> QED BY <1>2, <3>1 DEF Chain
  <2> QED BY <2>1, <2>2
<1>5. PICK f : f = CHOOSE g : IsAbove(g)
  OBVIOUS
<1>6. IsAbove(f)
  BY <1>1, <1>2, <1>4, <1>5, AboveExists
<1>7. f[N] = UpToNow(N)
  BY <1>1, <1>2, <1>4, <1>6, AboveIs
<1>8. Branch(N) = f[N]
  BY <1>5 DEF Branch, IsAbove
<1>9. Replay = UpToNow(N)
  BY <1>1 DEF Replay, UpToNow
<1> QED BY <1>1, <1>3, <1>7, <1>8, <1>9 DEF OneBranch

-----------------------------------------------------------------------------
(***************************************************************************)
(* The plan that was followed, as validate_terminal_result compares it.    *)
(***************************************************************************)
\* The tools that are made public.
Stage == Tool \cup {"review"}

\* The plan, place by place.
LEMMA PlanIs ==
  /\ Plan \in Seq(Stage) /\ Len(Plan) = 5
  /\ Plan[1] = "inspect" /\ Plan[2] = "diagnose" /\ Plan[3] = "discover"
  /\ Plan[4] = "recommend" /\ Plan[5] = "review"
  /\ \A k \in 1..5 : Plan[k] \in Stage
<1>1. /\ Plan \in Seq(Stage) /\ Len(Plan) = 5
      /\ Plan[1] = "inspect" /\ Plan[2] = "diagnose" /\ Plan[3] = "discover"
      /\ Plan[4] = "recommend" /\ Plan[5] = "review"
  BY DEF Plan, Stage, Tool
<1>2. PICK p : p = Plan
  OBVIOUS
<1>3. p \in Seq(Stage) /\ Len(p) = 5
  BY <1>1, <1>2
<1>4. \A k \in 1..5 : p[k] \in Stage
  <2>1. \A k \in 1..Len(p) : p[k] \in Stage
    BY <1>3, ElementOfSeq
  <2> QED BY <1>3, <2>1
<1> QED BY <1>1, <1>2, <1>4

\* The plan up to a tool, and the same followed by the review.
PlanTo(n) == [k \in 1..n |-> Plan[k]]
Cut(n) == Append(PlanTo(n), "review")

\* The tools of the plan up to one of them.
LEMMA PlanToIs ==
  ASSUME NEW n \in 0..5
  PROVE  /\ PlanTo(n) \in Seq(Stage) /\ Len(PlanTo(n)) = n
         /\ \A k \in 1..n : PlanTo(n)[k] = Plan[k]
<1>1. PICK s : s = PlanTo(n)
  OBVIOUS
<1>2. s = [k \in 1..n |-> Plan[k]]
  BY <1>1 DEF PlanTo
<1>3. \A k \in 1..n : Plan[k] \in Stage
  BY PlanIs
<1>4. n \in Nat
  OBVIOUS
<1>5. s \in [1..n -> Stage]
  BY <1>2, <1>3
<1>6. s \in Seq(Stage) /\ Len(s) = n
  BY <1>4, <1>5
<1> QED BY <1>1, <1>2, <1>6

\* The next tool of the plan makes it longer by one.
LEMMA PlanGoesOn ==
  ASSUME NEW n \in 0..4, NEW t, t = Plan[n + 1]
  PROVE  Append(PlanTo(n), t) = PlanTo(n + 1)
<1>1. PICK s, r, m : s = PlanTo(n) /\ r = PlanTo(n + 1) /\ m = n + 1
  OBVIOUS
<1>2. n \in Nat /\ m \in Nat /\ n \in 0..5 /\ m \in 0..5 /\ m \in 1..5
  BY <1>1
<1>3. s \in Seq(Stage) /\ Len(s) = n /\ \A k \in 1..n : s[k] = Plan[k]
  BY <1>1, <1>2, PlanToIs
<1>4. r \in Seq(Stage) /\ Len(r) = m /\ \A k \in 1..m : r[k] = Plan[k]
  BY <1>1, <1>2, PlanToIs
<1>5. t \in Stage
  <2>1. Plan[m] \in Stage
    BY <1>2, PlanIs
  <2> QED BY <1>1, <2>1
<1>6. PICK app : app = Append(s, t)
  OBVIOUS
<1>7. app \in Seq(Stage) /\ Len(app) = m /\ app[m] = t /\ \A k \in 1..n : app[k] = s[k]
  BY <1>1, <1>3, <1>5, <1>6
<1>8. \A k \in 1..Len(app) : app[k] = r[k]
  BY <1>1, <1>2, <1>3, <1>4, <1>7
<1>9. app = r
  BY <1>4, <1>7, <1>8, SeqEqual
<1> QED BY <1>1, <1>6, <1>9

\* What validate_terminal_result asks of the tools of a journal.
LEMMA CutIs ==
  ASSUME NEW n \in 1..4
  PROVE  /\ Cut(n) \in Seq(Stage) /\ Cut(n) # <<>> /\ Len(Cut(n)) = n + 1
         /\ Front(Cut(n)) = SubSeq(Front(Plan), 1, Len(Cut(n)) - 1)
<1>1. PICK s, t : s = PlanTo(n) /\ t = Cut(n)
  OBVIOUS
<1>2. s \in Seq(Stage) /\ Len(s) = n /\ \A k \in 1..n : s[k] = Plan[k]
  <2>1. n \in 0..5
    OBVIOUS
  <2> QED BY <1>1, <2>1, PlanToIs
<1>3. /\ t \in Seq(Stage) /\ Len(t) = n + 1 /\ t # <<>>
      /\ \A k \in 1..n : t[k] = Plan[k]
  <2>1. t = Append(s, "review") /\ "review" \in Stage
    BY <1>1 DEF Cut, Stage
  <2> QED BY <1>2, <2>1
<1>4. PICK p : p = Front(Plan)
  OBVIOUS
<1>5. p \in Seq(Stage) /\ Len(p) = 4 /\ \A k \in 1..4 : p[k] = Plan[k]
  <2>1. p = SubSeq(Plan, 1, 4)
    BY <1>4, PlanIs DEF Front
  <2>2. \A k \in 1..4 : Plan[k] \in Stage
    <3>1. \A k \in 1..4 : k \in 1..5
      OBVIOUS
    <3> QED BY <3>1, PlanIs
  <2> QED BY <2>1, <2>2, SubSeqProperties
<1>6. PICK a : a = Front(t)
  OBVIOUS
<1>7. a \in Seq(Stage) /\ Len(a) = n /\ \A k \in 1..n : a[k] = Plan[k]
  <2>1. a = SubSeq(t, 1, n)
    BY <1>3, <1>6 DEF Front
  <2>2. \A k \in 1..n : t[k] \in Stage
    BY <1>3
  <2>3. n \in Int /\ 1 \in Int /\ 1 <= n
    OBVIOUS
  <2>4. /\ a \in Seq(Stage) /\ Len(a) = n - 1 + 1
        /\ \A k \in 1..(n - 1 + 1) : a[k] = t[1 + k - 1]
    BY <2>1, <2>2, <2>3, SubSeqProperties
  <2> QED BY <1>3, <2>4
<1>8. PICK b : b = SubSeq(p, 1, n)
  OBVIOUS
<1>9. b \in Seq(Stage) /\ Len(b) = n /\ \A k \in 1..n : b[k] = Plan[k]
  <2>1. \A k \in 1..n : p[k] \in Stage
    <3>1. \A k \in 1..n : k \in 1..4
      OBVIOUS
    <3>2. \A k \in 1..Len(p) : p[k] \in Stage
      BY <1>5, ElementOfSeq
    <3> QED BY <1>5, <3>1, <3>2
  <2>2. n \in Int /\ 1 \in Int /\ 1 <= n
    OBVIOUS
  <2>3. /\ b \in Seq(Stage) /\ Len(b) = n - 1 + 1
        /\ \A k \in 1..(n - 1 + 1) : b[k] = p[1 + k - 1]
    BY <1>8, <2>1, <2>2, SubSeqProperties
  <2> QED BY <1>5, <2>3
<1>10. a = b
  BY <1>7, <1>9, SeqEqual
<1>11. Len(t) - 1 = n
  BY <1>3
<1> QED BY <1>1, <1>3, <1>4, <1>6, <1>8, <1>10, <1>11

\* With every tool before the review it is the plan.
LEMMA CutPlan == Cut(4) = Plan
<1>1. 4 + 1 = 5 /\ 4 \in 0..4 /\ 5 \in 0..5
  OBVIOUS
<1>2. Cut(4) = PlanTo(5)
  BY <1>1, PlanGoesOn, PlanIs DEF Cut
<1>3. PlanTo(5) \in Seq(Stage) /\ Len(PlanTo(5)) = 5 /\ \A k \in 1..5 : PlanTo(5)[k] = Plan[k]
  BY <1>1, PlanToIs
<1>4. Len(Plan) = 5 /\ Plan \in Seq(Stage)
  BY PlanIs
<1>5. PlanTo(5) = Plan
  BY <1>3, <1>4, SeqEqual
<1> QED BY <1>2, <1>5

\* What is made public of a journal, by the function that computes it.
LEMMA ToldBy ==
  ASSUME AgentInv, Closed, NEW N, N = Len(nodes)
  PROVE  \E f : /\ ToolsTold = f[N - 1] /\ f[0] = <<>>
                /\ \A n \in 2..N : f[n - 1] = IF TheTool(n) = "decision" THEN f[n - 2]
                                             ELSE Append(f[n - 2], TheTool(n))
<1>1. N \in Nat /\ N \in 2..N
  BY ClosedJournal, InvFacts
<1>2. PICK S : S = Tool \cup {"decision", "review"}
  OBVIOUS
<1>3. PICK tools : tools = [i \in 1..(N - 1) |-> nodes[1 + i].call.tool]
  OBVIOUS
<1>4. \A n \in 2..N : nodes[n].call.tool \in S
  BY <1>2, EntryAt, EntryTools
<1>5. tools \in [1..(N - 1) -> S]
  BY <1>1, <1>3, <1>4
<1>6. N - 1 \in Nat /\ tools \in Seq(S) /\ Len(tools) = N - 1
  BY <1>1, <1>5
<1>7. ToolsTold = WithoutDecision(tools)
  BY <1>3 DEF ToolsTold
<1>8. PICK f : IsUpTo(f, tools, N - 1) /\ WithoutDecision(tools) = f[N - 1]
  BY <1>6, WithoutIs
<1>9. f[0] = <<>>
  BY <1>6, <1>8 DEF IsUpTo
<1>10. ASSUME NEW n \in 2..N
       PROVE  f[n - 1] = IF TheTool(n) = "decision" THEN f[n - 2]
                         ELSE Append(f[n - 2], TheTool(n))
  <2>1. PICK k : k = n - 1
    OBVIOUS
  <2>2. k \in 1..(N - 1) /\ k - 1 = n - 2 /\ 1 + k = n
    BY <1>1, <2>1
  <2>3. tools[k] = TheTool(n)
    BY <1>3, <2>2 DEF TheTool
  <2>4. f[k] = IF tools[k] = "decision" THEN f[k - 1] ELSE Append(f[k - 1], tools[k])
    BY <1>6, <1>8, <2>2, UpToStep
  <2> QED BY <2>1, <2>2, <2>3, <2>4
<1> QED BY <1>7, <1>8, <1>9, <1>10

\* The ways a journal can be closed, and what is made public of each.
Shape(N, told) ==
  \/ N = 3 /\ told = Cut(1) /\ TheTool(2) = "inspect" /\ ~ Did(2, "inspect")
  \/ N = 4 /\ told = Cut(2) /\ TheTool(3) = "diagnose" /\ ~ Did(3, "diagnose")
  \/ /\ N = 5 /\ told = Cut(3) /\ TheTool(4) = "discover"
     /\ Did(4, "discover") => nodes[4].call.ids # {}
  \/ /\ N = 6 /\ told = Cut(3) /\ TheTool(5) = "decision"
     /\ ~ Accepting(evidence, nodes[5].call.args)
  \/ N = 6 /\ told = Plan /\ TheTool(5) = "recommend"
  \/ N = 7 /\ told = Plan

\* One entry more that is not the decision, and is the next of the plan or the review.
LEMMA NextTold ==
  ASSUME NEW f, NEW n \in 0..4, NEW k \in Nat, f[k] = PlanTo(n),
         NEW t, t # "decision",
         f[k + 1] = IF t = "decision" THEN f[k] ELSE Append(f[k], t)
  PROVE  /\ t = Plan[n + 1] => f[k + 1] = PlanTo(n + 1)
         /\ t = "review" => f[k + 1] = Cut(n)
<1>1. f[k + 1] = Append(PlanTo(n), t)
  OBVIOUS
<1>2. ASSUME t = Plan[n + 1]
      PROVE  f[k + 1] = PlanTo(n + 1)
  BY <1>1, <1>2, PlanGoesOn
<1> QED BY <1>1, <1>2 DEF Cut

\* A closed journal has one of these shapes.
LEMMA ShapeOf ==
  ASSUME AgentInv, TrailInv, Closed
  PROVE  Shape(Len(nodes), ToolsTold)
<1>1. PICK N, told : N = Len(nodes) /\ told = ToolsTold
  OBVIOUS
<1>2. Ordered
  BY FollowsPlan, TrailFacts
<1>3. N \in 2..N /\ N \in 0..7 /\ TheTool(N) = "review"
  <2>1. N \in 2..N
    BY <1>1, ClosedJournal
  <2>2. N \in 0..7
    BY <1>1, <1>2 DEF Ordered
  <2>3. TheTool(N) = "review"
    BY <1>1 DEF Closed, TheTool, ToolOf
  <2> QED BY <2>1, <2>2, <2>3
<1>4. PICK f : /\ told = f[N - 1] /\ f[0] = <<>>
               /\ \A n \in 2..N : f[n - 1] = IF TheTool(n) = "decision" THEN f[n - 2]
                                            ELSE Append(f[n - 2], TheTool(n))
  BY <1>1, ToldBy
<1>5. TheTool(2) = "inspect"
  BY <1>1, <1>2, <1>3 DEF Ordered
<1>6. N # 2 /\ N \in 3..7
  BY <1>3, <1>5
<1>7. f[0] = PlanTo(0)
  <2>1. PlanTo(0) \in Seq(Stage) /\ Len(PlanTo(0)) = 0
    BY PlanToIs
  <2> QED BY <1>4, <2>1
<1>8. ASSUME NEW k \in 0..5, k + 2 <= N
      PROVE  f[k + 1] = IF TheTool(k + 2) = "decision" THEN f[k]
                        ELSE Append(f[k], TheTool(k + 2))
  <2>1. PICK n : n = k + 2
    OBVIOUS
  <2>2. n \in 2..N /\ n - 1 = k + 1 /\ n - 2 = k
    BY <1>6, <1>8, <2>1
  <2> QED BY <1>4, <2>1, <2>2
<1>9. f[1] = PlanTo(1)
  <2>1. 0 \in 0..5 /\ 0 \in 0..4 /\ 0 \in Nat /\ 0 + 1 = 1 /\ 0 + 2 = 2 /\ 2 <= N
    BY <1>6
  <2>2. f[0 + 1] = IF TheTool(2) = "decision" THEN f[0] ELSE Append(f[0], TheTool(2))
    BY <1>8, <2>1
  <2>3. TheTool(2) # "decision" /\ TheTool(2) = Plan[0 + 1]
    BY <1>5, PlanIs
  <2> QED BY <1>7, <2>1, <2>2, <2>3, NextTold
<1>10. ASSUME NEW k \in 1..5, NEW n \in 1..4, k + 2 <= N, f[k] = PlanTo(n),
              TheTool(k + 2) # "decision"
       PROVE  /\ TheTool(k + 2) = Plan[n + 1] => f[k + 1] = PlanTo(n + 1)
              /\ TheTool(k + 2) = "review" => f[k + 1] = Cut(n)
  <2>1. k \in 0..5 /\ n \in 0..4 /\ k \in Nat
    OBVIOUS
  <2>2. PICK t : t = TheTool(k + 2)
    OBVIOUS
  <2>3. f[k + 1] = IF t = "decision" THEN f[k] ELSE Append(f[k], t)
    BY <1>8, <1>10, <2>1, <2>2
  <2>4. t # "decision"
    BY <1>10, <2>2
  <2> QED BY <1>10, <2>1, <2>2, <2>3, <2>4, NextTold
<1>11. CASE N = 3
  <2>1. TheTool(3) = IF Did(2, "inspect") THEN "diagnose" ELSE "review"
    BY <1>1, <1>2, <1>11 DEF Ordered
  <2>2. TheTool(1 + 2) = "review"
    BY <1>3, <1>11
  <2>3. f[1 + 1] = Cut(1)
    BY <1>9, <1>10, <1>11, <2>2
  <2>4. ~ Did(2, "inspect")
    BY <1>3, <1>11, <2>1
  <2> QED BY <1>1, <1>4, <1>5, <1>11, <2>3, <2>4 DEF Shape
<1>12. ASSUME N >= 4
       PROVE  TheTool(3) = "diagnose" /\ f[2] = PlanTo(2)
  <2>1. TheTool(3) = "diagnose"
    BY <1>1, <1>2, <1>12 DEF Ordered
  <2>2. TheTool(1 + 2) # "decision" /\ TheTool(1 + 2) = Plan[1 + 1]
    BY <2>1, PlanIs
  <2>3. 1 \in 1..5 /\ 1 \in 1..4 /\ 1 + 2 <= N
    BY <1>6
  <2>4. f[1 + 1] = PlanTo(1 + 1)
    BY <1>9, <1>10, <2>2, <2>3, ZenonT(60)
  <2> QED BY <2>1, <2>4
<1>13. CASE N = 4
  <2>1. TheTool(4) = IF Did(3, "diagnose") THEN "discover" ELSE "review"
    BY <1>1, <1>2, <1>13 DEF Ordered
  <2>2. TheTool(2 + 2) = "review"
    BY <1>3, <1>13
  <2>3. f[2 + 1] = Cut(2)
    BY <1>10, <1>12, <1>13, <2>2
  <2>4. ~ Did(3, "diagnose")
    BY <1>3, <1>13, <2>1
  <2> QED BY <1>1, <1>4, <1>12, <1>13, <2>3, <2>4 DEF Shape
<1>14. ASSUME N >= 5
       PROVE  TheTool(4) = "discover" /\ f[3] = PlanTo(3)
  <2>1. TheTool(4) = "discover"
    BY <1>1, <1>2, <1>14 DEF Ordered
  <2>2. TheTool(2 + 2) # "decision" /\ TheTool(2 + 2) = Plan[2 + 1]
    BY <2>1, PlanIs
  <2>3. 2 \in 1..5 /\ 2 \in 1..4 /\ 2 + 2 <= N /\ f[2] = PlanTo(2)
    BY <1>6, <1>12, <1>14
  <2>4. f[2 + 1] = PlanTo(2 + 1)
    BY <1>10, <2>2, <2>3, ZenonT(60)
  <2> QED BY <2>1, <2>4
<1>15. CASE N = 5
  <2>1. TheTool(3 + 2) = "review"
    BY <1>3, <1>15
  <2>2. f[3 + 1] = Cut(3)
    BY <1>10, <1>14, <1>15, <2>1
  <2>3. Did(4, "discover") => nodes[4].call.ids # {}
    <3>1. IF ~ Did(4, "discover") THEN TheTool(5) = "review"
          ELSE IF nodes[4].call.ids = {} THEN TheTool(5) = "recommend"
          ELSE TheTool(5) \in {"decision", "review"}
      BY <1>1, <1>2, <1>15 DEF Ordered
    <3> QED BY <1>3, <1>15, <3>1
  <2> QED BY <1>1, <1>4, <1>14, <1>15, <2>2, <2>3 DEF Shape
<1>16. CASE N = 6
  <2>1. \/ TheTool(5) = "recommend"
        \/ /\ TheTool(5) = "decision"
           /\ TheTool(6) = IF Accepting(evidence, nodes[5].call.args) THEN "recommend"
                                                                      ELSE "review"
    BY <1>1, <1>2, <1>16 DEF Ordered
  <2>2. TheTool(4 + 2) = "review"
    BY <1>3, <1>16
  <2>3. CASE TheTool(5) = "recommend"
    <3>1. TheTool(3 + 2) # "decision" /\ TheTool(3 + 2) = Plan[3 + 1]
      BY <2>3, PlanIs
    <3>2. f[3 + 1] = PlanTo(3 + 1)
      BY <1>10, <1>14, <1>16, <3>1
    <3>3. f[4] = PlanTo(4)
      BY <3>2
    <3>4. f[4 + 1] = Cut(4)
      BY <1>10, <1>16, <2>2, <3>3
    <3> QED BY <1>1, <1>4, <1>16, <2>3, <3>4, CutPlan DEF Shape
  <2>4. CASE TheTool(5) = "decision"
    <3>1. f[3 + 1] = IF TheTool(3 + 2) = "decision" THEN f[3]
                     ELSE Append(f[3], TheTool(3 + 2))
      BY <1>8, <1>16
    <3>2. f[4] = PlanTo(3)
      BY <1>14, <1>16, <2>4, <3>1
    <3>3. f[4 + 1] = Cut(3)
      BY <1>10, <1>16, <2>2, <3>2
    <3>4. ~ Accepting(evidence, nodes[5].call.args)
      BY <1>3, <1>16, <2>1, <2>4
    <3> QED BY <1>1, <1>4, <1>16, <2>4, <3>3, <3>4 DEF Shape
  <2> QED BY <2>1, <2>3, <2>4
<1>17. CASE N = 7
  <2>1. TheTool(5) = "decision" /\ TheTool(6) = "recommend"
    BY <1>1, <1>2, <1>17 DEF Ordered
  <2>2. f[3 + 1] = IF TheTool(3 + 2) = "decision" THEN f[3]
                   ELSE Append(f[3], TheTool(3 + 2))
    BY <1>8, <1>17
  <2>3. f[4] = PlanTo(3)
    BY <1>14, <1>17, <2>1, <2>2
  <2>4. TheTool(4 + 2) # "decision" /\ TheTool(4 + 2) = Plan[3 + 1]
    BY <2>1, PlanIs
  <2>5. f[4 + 1] = PlanTo(3 + 1)
    BY <1>10, <1>17, <2>3, <2>4
  <2>6. f[5] = PlanTo(4)
    BY <2>5
  <2>7. TheTool(5 + 2) = "review"
    BY <1>3, <1>17
  <2>8. f[5 + 1] = Cut(4)
    BY <1>10, <1>17, <2>6, <2>7
  <2> QED BY <1>1, <1>4, <1>17, <2>8, CutPlan DEF Shape
<1> QED BY <1>6, <1>11, <1>13, <1>15, <1>16, <1>17

\* What the reviewer says, field by field.
LEMMA ReviewFields ==
  ASSUME NEW found, NEW claimed, NEW denied \in BOOLEAN, NEW failed \in BOOLEAN,
         NEW empty, NEW attempt,
         NEW says, says = Review(found, claimed, denied, failed, empty, attempt)
  PROVE  /\ says.approved \in BOOLEAN /\ says.reasons \in SUBSET Complaint
         /\ says.evidence = found
         /\ says.approved => ~ denied /\ ~ failed
         /\ says = [approved |-> says.approved, reasons |-> says.reasons,
                    evidence |-> says.evidence, retry |-> says.retry]
<1> DEFINE nothing == empty /\ claimed = {} /\ ~ failed /\ ~ denied
           reasons == {r \in Recoverable \cup {"permission_denied", "tool_failure"} :
             \/ r = "missing_evidence"  /\ ~ nothing /\ found = {}
             \/ r = "permission_denied" /\ denied
             \/ r = "missing_diagnosis" /\ ~ nothing /\ claimed \cap found = {}
             \/ r = "evidence_mismatch" /\ ~ (claimed \subseteq found)
             \/ r = "tool_failure"      /\ failed}
<1>1. PICK why, again : why = reasons
                        /\ again = (reasons # {} /\ attempt < 1 /\ reasons \subseteq Recoverable)
  OBVIOUS
<1>2. says = [approved |-> why = {}, reasons |-> why, evidence |-> found, retry |-> again]
  BY <1>1 DEF Review
<1>3. why \in SUBSET Complaint
  BY <1>1 DEF Complaint
<1>4. why = {} => ~ denied /\ ~ failed
  <2>1. denied => "permission_denied" \in why
    BY <1>1
  <2>2. failed => "tool_failure" \in why
    BY <1>1
  <2> QED BY <2>1, <2>2
<1>5. PICK ok : ok = (why = {})
  OBVIOUS
<1>6. ok \in BOOLEAN /\ (ok => why = {})
  BY <1>5
<1> HIDE DEF reasons, nothing
<1>7. says = [approved |-> ok, reasons |-> why, evidence |-> found, retry |-> again]
  BY <1>2, <1>5
<1>8. says.approved = ok /\ says.reasons = why /\ says.evidence = found /\ says.retry = again
  BY <1>7
<1> QED BY <1>3, <1>4, <1>6, <1>7, <1>8

\* The review that a journal implies.
LEMMA ImpliedFields ==
  /\ Implied.approved \in BOOLEAN /\ Implied.reasons \in SUBSET Complaint
  /\ Implied.evidence = Told \cup Advised
  /\ Implied.approved => ~ DeniedIn /\ ~ FailedIn
  /\ Implied = [approved |-> Implied.approved, reasons |-> Implied.reasons,
                evidence |-> Implied.evidence, retry |-> Implied.retry]
<1>1. DeniedIn \in BOOLEAN /\ FailedIn \in BOOLEAN
  BY DEF DeniedIn, FailedIn
<1>2. PICK found, claimed, denied, failed, empty, attempt :
        /\ found = Told \cup Advised /\ claimed = Told /\ denied = DeniedIn
        /\ failed = FailedIn /\ empty = EmptyIn /\ attempt = 0
  OBVIOUS
<1>3. Implied = Review(found, claimed, denied, failed, empty, attempt)
  BY <1>2 DEF Implied
<1>4. denied \in BOOLEAN /\ failed \in BOOLEAN
  BY <1>1, <1>2
<1>5. PICK says : says = Implied
  OBVIOUS
<1>6. /\ says.approved \in BOOLEAN /\ says.reasons \in SUBSET Complaint
      /\ says.evidence = found
      /\ says.approved => ~ denied /\ ~ failed
      /\ says = [approved |-> says.approved, reasons |-> says.reasons,
                 evidence |-> says.evidence, retry |-> says.retry]
  BY <1>3, <1>4, <1>5, ReviewFields
<1> QED BY <1>2, <1>5, <1>6

\* An entry of a tool that did not do its work is a refusal or a failure.
LEMMA UndoneIsTold ==
  ASSUME AgentInv, NEW n \in 2..Len(nodes), TheTool(n) \in Tool, ~ Did(n, TheTool(n))
  PROVE  DeniedIn \/ FailedIn
<1>1. nodes[n].call \in Entry
  BY EntryAt
<1>2. nodes[n].call \in ToolEntry
  BY <1>1, EntryTools DEF TheTool
<1>3. nodes[n].call.says \in {"done", "denied", "failed"}
  BY <1>2 DEF ToolEntry
<1>4. nodes[n].call.says \in {"denied", "failed"}
  BY <1>3 DEF Did, TheTool
<1> QED BY <1>4 DEF DeniedIn, FailedIn

\* An approved journal went through the whole plan.
LEMMA ApprovedIsWhole ==
  ASSUME AgentInv, TrailInv, Closed, ~ Unheard, Implied.approved
  PROVE  ToolsTold = Plan
<1>1. PICK N, told : N = Len(nodes) /\ told = ToolsTold
  OBVIOUS
<1>2. ~ DeniedIn /\ ~ FailedIn
  BY ImpliedFields
<1>3. Shape(N, told)
  BY <1>1, ShapeOf
<1>4. ASSUME N = 3, TheTool(2) = "inspect", ~ Did(2, "inspect")
      PROVE  FALSE
  <2>1. 2 \in 2..Len(nodes) /\ TheTool(2) \in Tool
    BY <1>1, <1>4 DEF Tool
  <2> QED BY <1>2, <1>4, <2>1, UndoneIsTold
<1>5. ASSUME N = 4, TheTool(3) = "diagnose", ~ Did(3, "diagnose")
      PROVE  FALSE
  <2>1. 3 \in 2..Len(nodes) /\ TheTool(3) \in Tool
    BY <1>1, <1>5 DEF Tool
  <2> QED BY <1>2, <1>5, <2>1, UndoneIsTold
<1>6. ASSUME N = 5, TheTool(4) = "discover", Did(4, "discover") => nodes[4].call.ids # {}
      PROVE  FALSE
  <2>1. 4 \in 2..Len(nodes) /\ TheTool(4) \in Tool
    BY <1>1, <1>6 DEF Tool
  <2>2. Did(4, "discover")
    BY <1>2, <1>6, <2>1, UndoneIsTold
  <2>3. Told # {}
    <3>1. Fits(4)
      BY <2>1, TrailFacts DEF EntriesFit
    <3>2. PICK e, prev : e = nodes[4].call /\ prev = nodes[4 - 1].call
      OBVIOUS
    <3>3. e.tool = "discover" /\ e.tool \in Tool
      BY <1>6, <2>1, <3>2 DEF TheTool
    <3>4. ToolFits(evidence, Reported, Told, prev, e)
      BY <3>1, <3>2, <3>3 DEF Fits
    <3>5. e.ids = Told
      BY <3>3, <3>4 DEF ToolFits, Names
    <3> QED BY <1>6, <2>2, <3>2, <3>5
  <2>4. "discover" \in DidAll
    BY <2>1, <2>2 DEF DidAll, Tool
  <2>5. PICK n \in 2..Len(nodes) : TheTool(n) = "decision"
    BY <2>3, <2>4 DEF Unheard, TheTool
  <2>6. n = 5
    BY <2>5, PlaceOf, TrailFacts
  <2>7. TheTool(5) = "review"
    BY <1>1, <1>6 DEF Closed, TheTool, ToolOf
  <2> QED BY <2>5, <2>6, <2>7
<1>7. ASSUME N = 6, TheTool(5) = "decision", ~ Accepting(evidence, nodes[5].call.args)
      PROVE  FALSE
  <2>1. 5 \in 2..Len(nodes)
    BY <1>1, <1>7
  <2> QED BY <1>2, <1>7, <2>1 DEF FailedIn, TheTool
<1> QED BY <1>1, <1>3, <1>4, <1>5, <1>6, <1>7 DEF Shape

\* The plan was followed as far as the journal goes.
LEMMA PlanIsFollowed ==
  ASSUME AgentInv, TrailInv, Closed, ~ Unheard
  PROVE  PlanFollowed(Attempt, Implied.approved) /\ ToolsTold \in Seq(Stage)
<1>1. PICK N, told, a : N = Len(nodes) /\ told = ToolsTold /\ a = Attempt
  OBVIOUS
<1>2. Shape(N, told)
  BY <1>1, ShapeOf
<1>3. \E n \in 1..4 : told = Cut(n)
  <2>1. 1 \in 1..4 /\ 2 \in 1..4 /\ 3 \in 1..4 /\ 4 \in 1..4
    OBVIOUS
  <2>2. told \in {Cut(1), Cut(2), Cut(3), Plan}
    BY <1>2 DEF Shape
  <2> QED BY <2>1, <2>2, CutPlan
<1>4. /\ told \in Seq(Stage) /\ told # <<>>
      /\ Front(told) = SubSeq(Front(Plan), 1, Len(told) - 1)
  BY <1>3, CutIs
<1>5. PublicTools(a) = told
  BY <1>1, AttemptReads
<1>6. ToolOf(Last(a)) = "review"
  BY <1>1, AttemptIs DEF Closed
<1>7. PICK ok : ok = Implied.approved
  OBVIOUS
<1>8. ok => told = Plan
  BY <1>1, <1>7, ApprovedIsWhole
<1>9. PlanFollowed(a, ok)
  BY <1>4, <1>5, <1>6, <1>8 DEF PlanFollowed
<1> QED BY <1>1, <1>4, <1>7, <1>9

\* The entry of a tool passes what validate_terminal_result asks of it.
LEMMA ToolEntriesPass ==
  ASSUME AgentInv, TrailInv, Closed,
         NEW i \in 1..(Len(Attempt) - 1) \ Audits(Attempt)
  PROVE  ToolEntryValid(Attempt, i)
<1>1. PICK N, a, told : N = Len(nodes) /\ a = Attempt /\ told = Told
  OBVIOUS
<1>2. PICK n : n = i + 1
  OBVIOUS
<1>3. /\ N \in Nat /\ N \in 2..N /\ Len(a) = N - 1 /\ DiagnosisOf(a) = told
      /\ Audits(a) = {k \in 1..(N - 1) : TheTool(k + 1) = "decision"}
  BY <1>1, AttemptIs, AttemptReads
<1>4. /\ i \in 1..(N - 2) /\ i \in 1..(N - 1) /\ n \in 2..N /\ n # N /\ n + 1 \in 2..N
      /\ TheTool(n) # "decision"
  <2>1. i \in 1..((N - 1) - 1) /\ i \notin Audits(a)
    BY <1>1, <1>3
  <2>2. i \in 1..(N - 2) /\ i \in 1..(N - 1)
    BY <1>3, <2>1
  <2>3. TheTool(n) # "decision"
    BY <1>2, <1>3, <2>1, <2>2
  <2> QED BY <1>2, <1>3, <2>2, <2>3
<1>5. a[i] = n
  BY <1>1, <1>2, <1>4, AttemptIs
<1>6. TheTool(n) # "review"
  BY <1>1, <1>4, PlaceOf, TrailFacts
<1>7. PICK e, prev : e = nodes[n].call /\ prev = nodes[n - 1].call
  OBVIOUS
<1>8. e \in Entry /\ e.tool = TheTool(n)
  BY <1>1, <1>4, <1>7, EntryAt DEF TheTool
<1>9. e.tool \in Tool
  BY <1>4, <1>6, <1>8, EntryTools
<1>10. ToolFits(evidence, Reported, told, prev, e)
  <2>1. Fits(n)
    BY <1>1, <1>4, TrailFacts DEF EntriesFit
  <2> QED BY <1>1, <1>7, <1>9, <2>1 DEF Fits
<1>11. ToolOf(n) = e.tool /\ IdsOf(n) = e.ids /\ ArgsOf(n) = e.args
       /\ (IsDone(n) <=> e.says = "done")
  BY <1>7 DEF ToolOf, IdsOf, ArgsOf, IsDone
<1>12. PICK before : before = IF e.tool \in {"discover", "recommend"} THEN told ELSE {}
  OBVIOUS
<1>13. e.args.diagnosis = IF e.tool = "recommend" THEN told ELSE {}
  BY <1>10 DEF ToolFits
<1>14. Names(evidence, Reported, told, prev, e)
  BY <1>10 DEF ToolFits
<1>15. e.says # "done" => e.ids = before
  BY <1>9, <1>12, <1>14 DEF Names, Tool
<1>16. e.says = "done" /\ e.tool \in {"inspect", "discover"} => e.ids = before
  BY <1>12, <1>14 DEF Names
<1>17. e.says = "done" /\ e.tool = "recommend" => before \subseteq e.ids
  BY <1>12, <1>14 DEF Names
<1>18. ASSUME e.says # "done"
       PROVE  i = Len(a) - 1
  <2>1. PICK m : m = n + 1
    OBVIOUS
  <2>2. m \in 2..N /\ m - 1 = n /\ n # 1
    BY <1>4, <2>1
  <2>3. nodes[m].call.tool \in After(n)
    BY <1>1, <2>2, TrailFacts DEF Chain
  <2>4. After(n) = {"review"}
    BY <1>7, <1>9, <1>18, <2>2 DEF After, Followers
  <2>5. TheTool(m) = "review"
    BY <2>3, <2>4 DEF TheTool
  <2>6. m = N
    BY <1>1, <2>2, <2>5, PlaceOf, TrailFacts
  <2> QED BY <1>2, <1>3, <2>1, <2>6
<1>19. ToolEntryValid(a, i)
  BY <1>3, <1>5, <1>11, <1>12, <1>13, <1>15, <1>16, <1>17, <1>18, ZenonT(60)
     DEF ToolEntryValid
<1> QED BY <1>1, <1>19

\* Where no other findings are in the evidence, those of the journal are all.
LEMMA ToldIsAll ==
  ASSUME AgentInv, TrailInv, Undisturbed, Told # {}
  PROVE  DiagnosisForRun(evidence, Told)
<1>1. PICK log, told : log = evidence /\ told = Told
  OBVIOUS
<1>2. /\ told \subseteq 1..Len(log) /\ VerifyChain(log) /\ Distinct(log) /\ AllOurs(log)
      /\ log \in Seq(Record) /\ Len(log) \in Nat
  BY <1>1, ToldIsHeld, InvFacts, TrailFacts DEF EvidenceIsFine, FindingsAreOurs
<1>3. RecordsAt(log, told) = Reported
  BY <1>1, ToldIsReported, TrailFacts
<1>4. Cardinality(FindingsOf(log, told)) = Cardinality(told)
  BY <1>1, <1>2, ToldIsReported, FindingsOnce, TrailFacts
<1>5. \A i \in 1..Len(log) : log[i].kind = "diagnostic" => log[i].bound
  BY <1>1 DEF Undisturbed, IsForeign
<1>6. ASSUME NEW i \in 1..Len(log), log[i].kind = "diagnostic"
      PROVE  i \in told
  <2>1. log[i] \in Reported
    BY <1>2, <1>5, <1>6 DEF AllOurs, Ours
  <2>2. PICK j \in told : log[j] = log[i]
    BY <1>3, <2>1 DEF RecordsAt
  <2>3. i = j
    BY <1>2, <2>2 DEF Distinct
  <2> QED BY <2>2, <2>3
<1>7. ASSUME NEW i \in told
      PROVE  log[i].kind = "diagnostic"
  <2>1. log[i] \in Reported
    BY <1>1, <1>7, ToldIsReported, TrailFacts
  <2> QED BY <2>1 DEF Reported, Diagnostic
<1>8. told = Diagnosis(log)
  <2>1. Diagnosis(log) = {i \in 1..Len(log) : log[i].kind = "diagnostic"}
    BY DEF Diagnosis, OfKind
  <2> QED BY <1>2, <1>6, <1>7, <2>1
<1> QED BY <1>1, <1>2, <1>4, <1>8 DEF DiagnosisForRun

\* A decision in the journal replays, with the provider that it was made by.
LEMMA AuditReplays ==
  ASSUME AgentInv, TrailInv, Closed, Undisturbed, Told # {},
         NEW n \in 2..Len(nodes), TheTool(n) = "decision"
  PROVE  \E provider \in Provider : DecisionReplays(n, n - 1, Attempt, 1, provider)
<1>1. PICK told, a, args : told = Told /\ a = Attempt /\ args = nodes[n].call.args
  OBVIOUS
<1>2. AuditFits(evidence, told, n - 1, args)
  BY <1>1, DecisionAt, TrailFacts DEF TheTool
<1>3. args.ctx \in 1..Len(evidence) /\ evidence[args.ctx] = Context(0, n - 1, told)
  BY <1>2 DEF AuditFits
<1>4. /\ evidence[args.ctx].parents = told /\ evidence[args.ctx].attempt = 0
      /\ evidence[args.ctx].anchor = n - 1
  BY <1>3 DEF Context
<1>5. LoadContext(evidence, args.ctx)
  BY <1>1, <1>4, ToldIsAll DEF LoadContext
<1>6. DiagnosisOf(a) = told
  BY <1>1, AttemptReads
<1>7. ArgsOf(n) = args
  BY <1>1 DEF ArgsOf
<1>8. CASE IsSubmission(n)
  <2>1. SubmittedBy(evidence, args)
    BY <1>2, <1>7, <1>8 DEF AuditFits, IsSubmission
  <2>2. Submitted(evidence, args.ctx, args.prop, args.res)
    BY <2>1 DEF SubmittedBy
  <2>3. PICK provider \in Provider : evidence[args.prop].binding = Binding(provider)
    BY <2>1 DEF SubmittedBy
  <2>4. ReplaySubmission(evidence, args.ctx, args.prop, args.res)
    BY <1>5, <2>2, ZenonT(60) DEF ReplaySubmission, Submitted
  <2>5. 1 - 1 = 0
    OBVIOUS
  <2>6. DecisionReplays(n, n - 1, a, 1, provider)
    BY <1>4, <1>6, <1>7, <1>8, <2>3, <2>4, <2>5, ZenonT(60) DEF DecisionReplays
  <2> QED BY <1>1, <2>6
<1>9. CASE ~ IsSubmission(n)
  <2>1. LackingBy(evidence, args)
    BY <1>2, <1>7, <1>9 DEF AuditFits, IsSubmission
  <2>2. Lacking(evidence, args.ctx, args.out)
    BY <2>1 DEF LackingBy
  <2>3. PICK provider \in Provider : evidence[args.out].binding = Binding(provider)
    BY <2>1 DEF LackingBy
  <2>4. ReplayUnavailable(evidence, args.ctx, args.out)
    BY <1>5, <2>2, ZenonT(60) DEF ReplayUnavailable, Lacking
  <2>5. 1 - 1 = 0
    OBVIOUS
  <2>6. DecisionReplays(n, n - 1, a, 1, provider)
    BY <1>4, <1>6, <1>7, <1>9, <2>3, <2>4, <2>5, ZenonT(60) DEF DecisionReplays
  <2> QED BY <1>1, <2>6
<1> QED BY <1>8, <1>9

\* The decision of a closed journal has its place, after what was discovered.
LEMMA AuditHasPlace ==
  ASSUME AgentInv, TrailInv, Closed, NEW n \in 2..Len(nodes), TheTool(n) = "decision"
  PROVE  /\ n = 5 /\ 6 \in 2..Len(nodes) /\ Did(4, "discover") /\ Told # {}
         /\ TheTool(6) = IF Accepting(evidence, nodes[5].call.args) THEN "recommend"
                                                                    ELSE "review"
<1>1. n = 5
  BY PlaceOf, TrailFacts
<1>2. PICK N : N = Len(nodes)
  OBVIOUS
<1>3. N \in Nat /\ TheTool(N) = "review"
  BY <1>2, InvFacts DEF Closed, TheTool, ToolOf
<1>4. N # 5 /\ N >= 6 /\ 4 \in 2..N
  BY <1>1, <1>2, <1>3
<1>5. Ordered
  BY FollowsPlan, TrailFacts
<1>6. /\ Did(4, "discover") /\ nodes[4].call.ids # {}
      /\ TheTool(6) = IF Accepting(evidence, nodes[5].call.args) THEN "recommend"
                                                                 ELSE "review"
  <2>1. /\ Did(4, "discover")
        /\ \/ TheTool(5) = "recommend" /\ TheTool(6) = "review"
           \/ /\ TheTool(5) = "decision" /\ nodes[4].call.ids # {}
              /\ TheTool(6) = IF Accepting(evidence, nodes[5].call.args) THEN "recommend"
                                                                         ELSE "review"
    BY <1>2, <1>4, <1>5 DEF Ordered
  <2>2. TheTool(5) = "decision"
    BY <1>1
  <2> QED BY <2>1, <2>2
<1>7. Told = nodes[4].call.ids
  <2>1. Fits(4)
    BY <1>2, <1>4, TrailFacts DEF EntriesFit
  <2>2. PICK e, prev : e = nodes[4].call /\ prev = nodes[4 - 1].call
    OBVIOUS
  <2>3. e.tool = "discover" /\ e.tool \in Tool
    BY <1>6, <2>2 DEF Did, Tool
  <2>4. ToolFits(evidence, Reported, Told, prev, e)
    BY <2>1, <2>2, <2>3 DEF Fits
  <2> QED BY <2>2, <2>3, <2>4 DEF ToolFits, Names
<1> QED BY <1>1, <1>2, <1>4, <1>6, <1>7

\* There is a decision in a closed journal exactly when one was due, and it replays.
LEMMA AuditsPass ==
  ASSUME AgentInv, TrailInv, Closed, Undisturbed, ~ Unheard
  PROVE  \E provider \in Provider : AuditsValid(Attempt, 1, provider)
<1>1. PICK N, a, told : N = Len(nodes) /\ a = Attempt /\ told = Told
  OBVIOUS
<1>2. /\ N \in Nat /\ N \in 2..N /\ Len(a) = N - 1 /\ DiagnosisOf(a) = told
      /\ Audits(a) = {k \in 1..(N - 1) : TheTool(k + 1) = "decision"}
      /\ \A t : Done(a, t) = {n \in 2..N : Did(n, t)}
      /\ \A k \in 1..(N - 1) : a[k] = k + 1
  BY <1>1, AttemptIs, AttemptReads
<1>3. CASE \A n \in 2..N : TheTool(n) # "decision"
  <2>1. Audits(a) = {}
    <3>1. \A k \in 1..(N - 1) : k + 1 \in 2..N
      BY <1>2
    <3> QED BY <1>2, <1>3, <3>1
  <2>2. Cardinality(Audits(a)) = 0
    BY <2>1, FS_EmptySet
  <2>3. ~ (told # {} /\ Done(a, "discover") # {})
    <3>1. Done(a, "discover") # {} => "discover" \in DidAll
      BY <1>1, <1>2 DEF DidAll, Tool
    <3>2. ~ ("discover" \in DidAll /\ Told # {})
      BY <1>1, <1>3 DEF Unheard, TheTool
    <3> QED BY <1>1, <3>1, <3>2
  <2>4. AuditsValid(a, 1, "disabled")
    BY <1>2, <2>1, <2>2, <2>3, ZenonT(60) DEF AuditsValid
  <2>5. "disabled" \in Provider
    BY DEF Provider
  <2> QED BY <1>1, <2>4, <2>5
<1>4. CASE \E n \in 2..N : TheTool(n) = "decision"
  <2>1. PICK m \in 2..N : TheTool(m) = "decision"
    BY <1>4
  <2>2. /\ m = 5 /\ 6 \in 2..N /\ Did(4, "discover") /\ told # {}
        /\ TheTool(6) = IF Accepting(evidence, nodes[5].call.args) THEN "recommend"
                                                                   ELSE "review"
    BY <1>1, <2>1, AuditHasPlace
  <2>3. 5 \in 2..N /\ TheTool(5) = "decision" /\ 4 \in 1..(N - 1) /\ 5 \in 1..(N - 1)
    BY <1>2, <2>1, <2>2
  <2>4. Audits(a) = {4}
    <3>1. ASSUME NEW k \in 1..(N - 1), TheTool(k + 1) = "decision"
          PROVE  k = 4
      <4>1. k + 1 \in 2..N
        BY <1>2
      <4>2. k + 1 = 5
        BY <1>1, <3>1, <4>1, AuditHasPlace
      <4> QED BY <4>2
    <3>2. 4 \in 1..(N - 1) /\ TheTool(4 + 1) = "decision"
      BY <2>3
    <3> QED BY <1>2, <3>1, <3>2
  <2>5. Cardinality(Audits(a)) = 1
    BY <2>4, FS_Singleton
  <2>6. a[4 - 1] = 4 /\ a[4] = 5 /\ a[4 + 1] = 6
    <3>1. 3 \in 1..(N - 1) /\ 4 - 1 = 3 /\ 4 + 1 = 5
      BY <1>2, <2>3
    <3> QED BY <1>2, <2>3, <3>1
  <2>7. 4 \in Done(a, "discover")
    <3>1. 4 \in 2..N
      BY <1>2, <2>3
    <3> QED BY <1>2, <2>2, <3>1
  <2>8. PICK provider \in Provider : DecisionReplays(5, 5 - 1, Attempt, 1, provider)
    BY <1>1, <2>2, <2>3, AuditReplays
  <2>9. DecisionReplays(5, 4, a, 1, provider)
    <3>1. 5 - 1 = 4
      OBVIOUS
    <3> QED BY <1>1, <2>8, <3>1
  <2>10. ToolOf(6) = IF IsAccepted(5) THEN "recommend" ELSE "review"
    <3>1. IsAccepted(5) <=> Accepting(evidence, nodes[5].call.args)
      BY DEF IsAccepted, IsSubmission, ArgsOf, Accepting
    <3> QED BY <2>2, <3>1 DEF TheTool, ToolOf
  <2>11. AuditValid(a, 1, 4, provider)
    <3>1. 4 > 1
      OBVIOUS
    <3> QED BY <1>2, <2>2, <2>6, <2>7, <2>9, <2>10, <3>1, ZenonT(60) DEF AuditValid
  <2>12. AuditsValid(a, 1, provider)
    BY <1>2, <2>2, <2>4, <2>5, <2>7, <2>11, ZenonT(60) DEF AuditsValid
  <2> QED BY <1>1, <2>12
<1> QED BY <1>3, <1>4

\* The two exceptions, as they are read off the attempt.
LEMMA ExceptionsRead ==
  ASSUME AgentInv, TrailInv, Closed
  PROVE  /\ Unheard => DecisionIsDue(Attempt) /\ Audits(Attempt) = {}
         /\ Halfway => LeftHalfway(Attempt)
<1>1. PICK N, a, told : N = Len(nodes) /\ a = Attempt /\ told = Told
  OBVIOUS
<1>2. /\ N \in Nat /\ N \in 2..N /\ Len(a) = N - 1 /\ DiagnosisOf(a) = told
      /\ Audits(a) = {k \in 1..(N - 1) : TheTool(k + 1) = "decision"}
      /\ \A t : Done(a, t) = {n \in 2..N : Did(n, t)}
      /\ \A k \in 1..(N - 1) : a[k] = k + 1
  BY <1>1, AttemptIs, AttemptReads
<1>3. ASSUME Unheard
      PROVE  DecisionIsDue(a) /\ Audits(a) = {}
  <2>1. "discover" \in DidAll /\ told # {} /\ \A n \in 2..N : TheTool(n) # "decision"
    BY <1>1, <1>3 DEF Unheard, TheTool
  <2>2. Done(a, "discover") # {}
    BY <1>1, <1>2, <2>1 DEF DidAll
  <2>3. \A k \in 1..(N - 1) : k + 1 \in 2..N
    BY <1>2
  <2>4. Audits(a) = {}
    BY <1>2, <2>1, <2>3
  <2> QED BY <1>2, <2>1, <2>2, <2>4 DEF DecisionIsDue
<1>4. ASSUME Halfway
      PROVE  LeftHalfway(a)
  <2>1. PICK n \in 2..N : /\ nodes[n].call.tool = "decision"
                          /\ Accepting(evidence, nodes[n].call.args)
    BY <1>1, <1>4 DEF Halfway
  <2>2. "recommend" \notin DidAll
    BY <1>4 DEF Halfway
  <2>3. Done(a, "recommend") = {}
    BY <1>1, <1>2, <2>2 DEF DidAll, Tool
  <2>4. PICK k : k = n - 1
    OBVIOUS
  <2>5. k \in 1..(N - 1) /\ k + 1 = n
    BY <1>2, <2>4
  <2>6. k \in Audits(a) /\ a[k] = n
    BY <1>2, <2>1, <2>5 DEF TheTool
  <2>7. IsAccepted(n)
    BY <2>1 DEF IsAccepted, IsSubmission, ArgsOf, Accepting
  <2> QED BY <2>3, <2>6, <2>7 DEF LeftHalfway
<1> QED BY <1>1, <1>3, <1>4

-----------------------------------------------------------------------------
(***************************************************************************)
(* What is recovered: the result of a closed journal passes every check.   *)
(***************************************************************************)
\* The result that is read off the journal.
Read == [approved |-> Implied.approved, reasons |-> Implied.reasons,
         evidence |-> Told \cup Advised, diagnosis |-> Told, tools |-> ToolsTold,
         attempt |-> 0, leaf |-> Len(nodes), summary |-> TRUE,
         stages |-> Stages(DidAll)]

\* The review in the journal says what the result says.
LEMMA SaysImplied ==
  ASSUME AgentInv, TrailInv, Closed, ~ Unheard, ~ Halfway
  PROVE  /\ Says = ReviewCall(Implied, 0)
         /\ Says.args.approved = Implied.approved /\ Says.args.reasons = Implied.reasons
         /\ Says.ids = Told \cup Advised
<1>1. Says = ReviewCall(Implied, 0)
  BY TrailFacts DEF ReviewIsImplied
<1>2. PICK says : says = Implied
  OBVIOUS
<1>3. /\ ReviewCall(says, 0).ids = says.evidence
      /\ ReviewCall(says, 0).args.approved = says.approved
      /\ ReviewCall(says, 0).args.reasons = says.reasons
  BY DEF ReviewCall
<1>4. says.evidence = Told \cup Advised
  BY <1>2, ImpliedFields
<1> QED BY <1>1, <1>2, <1>3, <1>4

\* It is a result, whatever the journal.
LEMMA ReadIsResult ==
  ASSUME AgentInv, TrailInv, Closed, ~ Unheard
  PROVE  Read # None
<1>1. PICK N, says, told, advised, tools, done :
        /\ N = Len(nodes) /\ says = Implied /\ told = Told /\ advised = Advised
        /\ tools = ToolsTold /\ done = DidAll
  OBVIOUS
<1>2. says.approved \in BOOLEAN /\ says.reasons \in SUBSET Complaint
  BY <1>1, ImpliedFields
<1>3. told \cup advised \in SUBSET Nat /\ told \in SUBSET Nat
  <2>1. ASSUME NEW n \in 2..Len(nodes)
        PROVE  nodes[n].call.ids \in SUBSET Nat
    BY EntryAt, EntryTools
  <2>2. Told \subseteq Nat
    BY <2>1 DEF Told
  <2>3. Advised \subseteq Nat
    BY <2>1 DEF Advised
  <2> QED BY <1>1, <2>2, <2>3
<1>4. tools \in Seq(Tool \cup {"review"})
  BY <1>1, PlanIsFollowed DEF Stage
<1>5. N \in Nat
  BY <1>1, InvFacts
<1>6. Stages(done) \in SUBSET Tool
  BY <1>1 DEF Stages, DidAll
<1>7. PICK approved, reasons, ids, stages :
        /\ approved = says.approved /\ reasons = says.reasons
        /\ ids = told \cup advised /\ stages = Stages(done)
  OBVIOUS
<1>8. Read = [approved |-> approved, reasons |-> reasons, evidence |-> ids,
              diagnosis |-> told, tools |-> tools, attempt |-> 0, leaf |-> N,
              summary |-> TRUE, stages |-> stages]
  BY <1>1, <1>7, ZenonT(60) DEF Read
<1>9. /\ approved \in BOOLEAN /\ ids \in SUBSET Nat /\ stages \in SUBSET Tool
      /\ reasons \in SUBSET (Recoverable \cup {"permission_denied", "tool_failure"})
  BY <1>2, <1>3, <1>6, <1>7 DEF Complaint
<1>10. 0 \in Nat /\ TRUE \in BOOLEAN
  OBVIOUS
<1>11. Read \in [approved : BOOLEAN,
                 reasons : SUBSET (Recoverable \cup {"permission_denied", "tool_failure"}),
                 evidence : SUBSET Nat, diagnosis : SUBSET Nat,
                 tools : Seq(Tool \cup {"review"}), attempt : Nat, leaf : Nat,
                 summary : BOOLEAN, stages : SUBSET Tool]
  BY <1>3, <1>4, <1>5, <1>8, <1>9, <1>10
<1> QED BY <1>11, NoneAssumption

\* The single attempt is valid for it.
LEMMA ReadAttemptValid ==
  ASSUME AgentInv, TrailInv, Closed, ~ Unheard, ~ Halfway,
         NEW provider, AuditsValid(Attempt, 1, provider),
         NEW r, r = Read
  PROVE  AttemptValid(1, provider, r)
<1>1. PICK a, says : a = Attempt /\ says = Implied
  OBVIOUS
<1>2. Attempts = <<a>> /\ Attempts[1] = a /\ Len(Attempts) = 1
  <2>1. Attempts = <<a>>
    BY <1>1, AttemptIs
  <2> QED BY <2>1
<1>3. ExpectedReview(a, 1) = says
  BY <1>1, ExpectedIs
<1>4. /\ r.approved = says.approved /\ r.reasons = says.reasons
      /\ r.evidence = says.evidence /\ r.tools = ToolsTold
  <2>1. /\ r.approved = Implied.approved /\ r.reasons = Implied.reasons
        /\ r.evidence = Told \cup Advised /\ r.tools = ToolsTold
    BY DEF Read
  <2> QED BY <1>1, <2>1, ImpliedFields
<1>5. PlanFollowed(a, (1 = Len(Attempts)) /\ r.approved)
  <2>1. PICK ok : ok = says.approved
    OBVIOUS
  <2>2. ok \in BOOLEAN
    BY <1>1, <2>1, ImpliedFields
  <2>3. PlanFollowed(a, ok)
    BY <1>1, <2>1, PlanIsFollowed
  <2>4. ((1 = Len(Attempts)) /\ r.approved) = ok
    BY <1>2, <1>4, <2>1, <2>2
  <2> QED BY <2>3, <2>4
<1>6. \A i \in 1..(Len(a) - 1) \ Audits(a) : ToolEntryValid(a, i)
  BY <1>1, ToolEntriesPass
<1>7. nodes[Last(a)].call = ReviewCall(says, 1 - 1)
  <2>1. Last(a) = Len(nodes) /\ 1 - 1 = 0
    BY <1>1, AttemptIs
  <2> QED BY <1>1, <2>1, SaysImplied DEF Says
<1>8. PublicTools(a) = r.tools
  BY <1>1, <1>4, AttemptReads
<1>9. [says EXCEPT !.retry = FALSE] =
        [approved |-> r.approved, reasons |-> r.reasons,
         evidence |-> r.evidence, retry |-> FALSE]
  <2>1. says = [approved |-> says.approved, reasons |-> says.reasons,
                evidence |-> says.evidence, retry |-> says.retry]
    BY <1>1, ImpliedFields
  <2>2. PICK ok, why, ids, again : /\ ok = says.approved /\ why = says.reasons
                                   /\ ids = says.evidence /\ again = says.retry
    OBVIOUS
  <2>3. says = [approved |-> ok, reasons |-> why, evidence |-> ids, retry |-> again]
    BY <2>1, <2>2
  <2>4. PICK no : no = FALSE
    OBVIOUS
  <2>5. [says EXCEPT !.retry = no]
          = [approved |-> ok, reasons |-> why, evidence |-> ids, retry |-> no]
    BY <2>3
  <2> QED BY <1>4, <2>2, <2>4, <2>5, ZenonT(60)
<1>10. AuditsValid(a, 1, provider)
  BY <1>1
<1> QED BY <1>2, <1>3, <1>5, <1>6, <1>7, <1>8, <1>9, <1>10, ZenonT(120) DEF AttemptValid

\* And so is all of it.
LEMMA ReadIsValid ==
  ASSUME AgentInv, TrailInv, Closed, ~ Unheard, ~ Halfway,
         NEW provider, AuditsValid(Attempt, 1, provider),
         NEW r, r = Read
  PROVE  TerminalValid(r, provider)
<1>1. PICK a, told, advised, actions :
        a = Attempt /\ told = Told /\ advised = Advised /\ actions = ActionsTold
  OBVIOUS
<1>2. Attempts = <<a>> /\ Last(Attempts) = a
  BY <1>1, AttemptIs
<1>3. Len(Attempts) = 1
  BY <1>2
<1>4. /\ r.leaf = Len(nodes) /\ r.attempt = 0 /\ r.diagnosis = told
      /\ r.evidence = told \cup advised /\ r.stages = Stages(DidAll)
  BY <1>1 DEF Read
<1>5. OneBranch(r.leaf)
  <2>1. nodes # <<>>
    BY AttemptIs
  <2> QED BY <1>4, <2>1, JournalIsBranch
<1>6. Len(Attempts) = r.attempt + 1
  BY <1>3, <1>4
<1>7. \A k \in 1..Len(Attempts) : AttemptValid(k, provider, r)
  <2>1. AttemptValid(1, provider, r)
    BY ReadAttemptValid
  <2>2. \A k \in 1..Len(Attempts) : k = 1
    BY <1>3
  <2> QED BY <2>1, <2>2
<1>8. /\ DiagnosisOf(a) = told /\ RecommendedOf(a) = advised /\ ActionsOf(a) = actions
      /\ DoneIn(a) = DidAll
  BY <1>1, AttemptReads
<1>9. EvidenceValid(a, r)
  <2>1. VerifyChain(evidence)
    BY InvFacts DEF EvidenceIsFine
  <2>2. Resolves(told, advised, actions)
    BY <1>1, JournalResolves
  <2> QED BY <1>4, <1>8, <2>1, <2>2, ZenonT(60) DEF EvidenceValid
<1>10. r.stages = Stages(DoneIn(a))
  BY <1>4, <1>8
<1> QED BY <1>2, <1>5, <1>6, <1>7, <1>9, <1>10, ZenonT(60) DEF TerminalValid

\* With the provider that decided, the result that was read is the one recovered.
LEMMA ClosedIsRead ==
  ASSUME AgentInv, TrailInv, Closed, ~ Unheard, ~ Halfway,
         NEW provider, AuditsValid(Attempt, 1, provider)
  PROVE  Recovered(provider) = Read
<1>1. PICK a, told, advised, says, N :
        /\ a = Attempt /\ told = Told /\ advised = Advised /\ says = Implied
        /\ N = Len(nodes)
  OBVIOUS
<1>2. Last(Attempts) = a /\ Len(Attempts) - 1 = 0
  <2>1. Attempts = <<a>> /\ Last(Attempts) = a
    BY <1>1, AttemptIs
  <2>2. Len(Attempts) = 1
    BY <2>1
  <2> QED BY <2>1, <2>2
<1>3. /\ ArgsOf(N).approved = says.approved /\ ArgsOf(N).reasons = says.reasons
      /\ IdsOf(N) = told \cup advised
  BY <1>1, SaysImplied DEF ArgsOf, IdsOf, Says
<1>4. /\ DiagnosisOf(a) = told /\ PublicTools(a) = ToolsTold /\ DoneIn(a) = DidAll
  BY <1>1, AttemptReads
<1>5. PICK r : r = AgentResult([approved |-> ArgsOf(N).approved, reasons |-> ArgsOf(N).reasons,
                                evidence |-> IdsOf(N)],
                     PublicTools(a), DiagnosisOf(a), Len(Attempts) - 1, N, TRUE, DoneIn(a))
  OBVIOUS
<1>6. r = Read
  <2>1. PICK decision : decision = [approved |-> says.approved, reasons |-> says.reasons,
                                    evidence |-> told \cup advised]
    OBVIOUS
  <2>2. decision.approved = says.approved /\ decision.reasons = says.reasons
        /\ decision.evidence = told \cup advised
    BY <2>1
  <2>3. r = AgentResult(decision, ToolsTold, told, 0, N, TRUE, DidAll)
    BY <1>2, <1>3, <1>4, <1>5, <2>1, ZenonT(60)
  <2> QED BY <1>1, <2>2, <2>3, ZenonT(60) DEF AgentResult, Read
<1>7. r.diagnosis \subseteq r.evidence
  <2>1. r.diagnosis = Told /\ r.evidence = Told \cup Advised
    BY <1>6 DEF Read
  <2> QED BY <2>1
<1>8. TerminalValid(r, provider)
  BY <1>6, ReadIsValid
<1>9. Recovered(provider) = IF Closed /\ r.diagnosis \subseteq r.evidence
                               /\ TerminalValid(r, provider) THEN r ELSE None
  BY <1>1, <1>2, <1>5, ZenonT(60) DEF Recovered
<1> QED BY <1>6, <1>7, <1>8, <1>9

\* Both exceptions apart, some provider recovers the journal.
LEMMA ClosedRecovers == AgentInv /\ TrailInv => JournalRecovers
<1>1. SUFFICES ASSUME AgentInv, TrailInv, Closed, Undisturbed, ~ Unheard, ~ Halfway
               PROVE  \E provider \in Provider : Recovered(provider) # None
  <2>1. ASSUME AgentInv, Closed
        PROVE  Last(Attempts) = Attempt
    BY <2>1, AttemptIs
  <2> QED BY <2>1, ExceptionsRead, ZenonT(60) DEF JournalRecovers
<1>2. PICK provider \in Provider : AuditsValid(Attempt, 1, provider)
  BY <1>1, AuditsPass
<1>3. Recovered(provider) = Read
  BY <1>1, <1>2, ClosedIsRead
<1> QED BY <1>1, <1>3, ReadIsResult

\* A journal that reached its review is turned into a result again, whatever failed on
\* the way, by a call with the provider that decided: every check of
\* recover_terminal_result and validate_terminal_result passes on what
\* _execute_once wrote (agents/orchestrator.py).  The exceptions are a decision that
\* was due but is not in the journal, and an accepted one without its recommendations.
THEOREM ClosedJournalsRecover == Spec => []JournalRecovers
BY AgentInvariance, TrailInvariance, ClosedRecovers, PTL
=============================================================================
