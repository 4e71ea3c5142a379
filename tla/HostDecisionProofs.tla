------------------------- MODULE HostDecisionProofs -------------------------
(***************************************************************************)
(* Theorems about HostDecision, for any number of keys, clients, proposals *)
(* failures and crashes.                                                   *)
(***************************************************************************)
EXTENDS HostDecision, TLAPS

\* Where a runner holds the lock of the agent result, and where it works on a
\* journal it has opened and on a decision that was not made.
Undecided == {"tools", "asking", "waiting", "proposed", "refused"}
AtWork    == Undecided \cup {"decided"}
Inside    == AtWork \cup {"publishing"}

RunnersLive ==
  \A r \in Key : runner[r].pc # "idle" => sessions[r] # None /\ ~ sessions[r].done

LockIsHeld == \A r \in Key : runner[r].pc \in Inside => lock = r

JournalIsOpen ==
  /\ journal = "none" => decision = None
  /\ \A r \in Key : /\ runner[r].pc \in AtWork => journal = "open"
                    /\ runner[r].pc \in Undecided => decision = None
                    /\ runner[r].pc = "proposed" => runner[r].proposal \in Proposal

\* A context is issued after the journal was opened, and to nobody before it is asked.
NoContextYet ==
  /\ journal = "none" =>
       \A k \in Key : /\ sessions[k] # None => ~ sessions[k].context
                      /\ stored[k] # None => ~ stored[k].context
  /\ \A r \in Key : runner[r].pc \in {"tools", "asking"} => ~ sessions[r].context

\* A final record on file is of a session that is done with the same outcome.
FileTellsMemory ==
  \A k \in Key : stored[k] # None =>
    /\ sessions[k] # None
    /\ stored[k].lifecycle # "awaiting_proposal" =>
         sessions[k].done /\ sessions[k].outcome = stored[k].outcome

\* A call is about a session, and what it is about to report is the outcome of it.
CallsTellMemory ==
  \A c \in Client :
    /\ call[c].pc # "idle" => call[c].key \in Key /\ sessions[call[c].key] # None
    /\ call[c].pc = "report" =>
         /\ call[c].outcome \in Outcome
         /\ sessions[call[c].key].done /\ sessions[call[c].key].outcome = call[c].outcome

HInv == /\ TypeOK /\ RunnersLive /\ LockIsHeld /\ JournalIsOpen /\ NoContextYet
        /\ FileTellsMemory /\ CallsTellMemory /\ DurableAnswers

-----------------------------------------------------------------------------
LEMMA NoneFacts ==
  /\ \A s \in Session : s # None
  /\ \A s \in StoredSession : s # None
  /\ \A o \in Outcome : o # None
  /\ \A k \in Key : k # None
  /\ \A d \in Decision : d # None
  BY NoneAssumption, AgentAssumption

LEMMA StoppedFacts == Stopped \in Runner /\ Stopped.pc = "idle"
  BY DEF Stopped, Runner

LEMMA NoCallFacts == NoCall \in Call /\ NoCall.pc = "idle"
  BY DEF NoCall, Call

LEMMA OutcomeFacts ==
  /\ NoAction \in Outcome
  /\ \A p \in Proposal : DecisionOutcome(p) \in Outcome
  BY DEF Outcome, NoAction, DecisionOutcome

LEMMA InitHostInv == Init => HInv
<1> SUFFICES ASSUME Init PROVE HInv
  OBVIOUS
<1>1. /\ journal = "none" /\ decision = None /\ result = None /\ lock = None
      /\ runner = [k \in Key |-> Stopped] /\ ttl = "unset" /\ faults = 0
      /\ sessions = [k \in Key |-> None] /\ stored = [k \in Key |-> None]
      /\ call = [c \in Client |-> NoCall] /\ answers = {} /\ crashes = 0
  BY DEF Init, AgentInit
<1>2. TypeOK
  BY <1>1, StoppedFacts, NoCallFacts DEF TypeOK
<1>3. RunnersLive /\ LockIsHeld /\ JournalIsOpen
  BY <1>1, StoppedFacts DEF RunnersLive, LockIsHeld, JournalIsOpen, Inside, AtWork, Undecided
<1>4. NoContextYet /\ FileTellsMemory /\ DurableAnswers
  BY <1>1, StoppedFacts DEF NoContextYet, FileTellsMemory, DurableAnswers
<1>5. CallsTellMemory
  BY <1>1, NoCallFacts DEF CallsTellMemory
<1> QED BY <1>2, <1>3, <1>4, <1>5 DEF HInv

-----------------------------------------------------------------------------
(* The agent's part of a runner *)

\* A step of runner r from one place to another that leaves the sessions alone.
LEMMA AgentFrame ==
  ASSUME HInv, NEW r \in Key, NEW x \in Runner,
         runner[r].pc # "idle", x.pc # "idle",
         runner' = [runner EXCEPT ![r] = x], UNCHANGED hostVars,
         journal' \in {"none", "open"} \cup AgentResult,
         decision' \in Decision \cup {None}, result' \in AgentResult \cup {None},
         lock' \in Key \cup {None}, ttl' \in {"unset", "running", "over"}, faults' \in Nat,
         \/ lock \in {None, r}
         \/ x.pc \notin Inside /\ UNCHANGED <<lock, journal, decision>>,
         x.pc \in Inside => lock' = r,
         x.pc \in AtWork => journal' = "open",
         x.pc \in Undecided => decision' = None,
         x.pc = "proposed" => x.proposal \in Proposal,
         journal' = "none" => journal = "none" /\ decision' = decision,
         x.pc \in {"tools", "asking"} => ~ sessions[r].context
  PROVE  HInv'
<1>1. /\ runner' \in [Key -> Runner] /\ runner'[r] = x
      /\ \A q \in Key \ {r} : runner'[q] = runner[q]
  BY DEF HInv, TypeOK
<1>2. UNCHANGED <<sessions, stored, call, answers, crashes>>
  BY DEF hostVars
<1>3. TypeOK'
  BY <1>1, <1>2 DEF HInv, TypeOK
<1>4. RunnersLive'
  BY <1>1, <1>2 DEF HInv, RunnersLive
<1>5. lock \in {None, r} => \A q \in Key \ {r} : runner[q].pc \notin Inside
  BY NoneFacts DEF HInv, LockIsHeld
<1>6. LockIsHeld'
  BY <1>1, <1>5 DEF HInv, LockIsHeld
<1>7. JournalIsOpen'
  BY <1>1, <1>5 DEF HInv, JournalIsOpen, Inside, AtWork
<1>8. NoContextYet'
  BY <1>1, <1>2 DEF HInv, NoContextYet
<1>9. FileTellsMemory' /\ CallsTellMemory' /\ DurableAnswers'
  BY <1>2 DEF HInv, FileTellsMemory, CallsTellMemory, DurableAnswers
<1> QED BY <1>3, <1>4, <1>6, <1>7, <1>8, <1>9 DEF HInv

LEMMA GotoFacts ==
  ASSUME HInv, NEW r \in Key, NEW pc, Goto(r, pc),
         pc \in {"entering", "tools", "asking", "waiting", "refused", "decided", "returned",
                "raised"}
  PROVE  \E x \in Runner : x.pc = pc /\ runner' = [runner EXCEPT ![r] = x]
<1> DEFINE x == [runner[r] EXCEPT !.pc = pc]
<1>1. x \in Runner /\ x.pc = pc
  BY DEF HInv, TypeOK, Runner
<1>2. runner' = [runner EXCEPT ![r] = x]
  BY DEF Goto, HInv, TypeOK
<1> QED BY <1>1, <1>2

LEMMA EndFacts ==
  ASSUME HInv, NEW r \in Key, NEW pc \in {"publishing", "returned"},
         NEW y \in AgentResult \cup {None}, End(r, pc, y)
  PROVE  \E x \in Runner : x.pc = pc /\ runner' = [runner EXCEPT ![r] = x]
<1> DEFINE x == [runner[r] EXCEPT !.pc = pc, !.result = y]
<1>1. x \in Runner /\ x.pc = pc
  BY DEF HInv, TypeOK, Runner
<1>2. runner' = [runner EXCEPT ![r] = x]
  BY DEF End, HInv, TypeOK, Runner
<1> QED BY <1>1, <1>2

LEMMA FaultFacts == ASSUME HInv, Fault \/ NoFault PROVE faults' \in Nat
  BY DEF HInv, TypeOK, Fault, NoFault

\* What the runner of an agent step knows.
LEMMA InsideFacts ==
  ASSUME HInv, NEW r \in Key
  PROVE  /\ runner[r].pc \in Inside => lock = r
         /\ runner[r].pc \in AtWork => journal = "open"
         /\ runner[r].pc \in Undecided => decision = None
         /\ runner[r].pc = "proposed" => runner[r].proposal \in Proposal
  BY DEF HInv, LockIsHeld, JournalIsOpen

LEMMA HostTypes ==
  ASSUME HInv
  PROVE  /\ journal \in {"none", "open"} \cup AgentResult
         /\ decision \in Decision \cup {None} /\ result \in AgentResult \cup {None}
         /\ lock \in Key \cup {None} /\ ttl \in {"unset", "running", "over"}
         /\ faults \in Nat /\ runner \in [Key -> Runner]
  BY DEF HInv, TypeOK

LEMMA EnterLemma ==
  ASSUME HInv, NEW r \in Key, UNCHANGED hostVars,
         Pipeline(r) \/ ReturnPublished(r) \/ Recover(r) \/ RefuseUnfinished(r) \/ FirstRun(r)
  PROVE  HInv'
<1> USE HostTypes
<1>1. CASE Pipeline(r)
  <2>1. PICK pc \in {"entering", "raised"} : Goto(r, pc) /\ (Fault \/ NoFault)
    BY <1>1 DEF Pipeline
  <2>2. PICK x \in Runner : x.pc = pc /\ runner' = [runner EXCEPT ![r] = x]
    BY <2>1, GotoFacts
  <2>3. /\ runner[r].pc = "pipeline" /\ faults' \in Nat
        /\ UNCHANGED <<journal, decision, result, lock, ttl>>
    BY <1>1, <2>1, FaultFacts DEF Pipeline, At
  <2> QED BY <2>2, <2>3, AgentFrame DEF Inside, AtWork, Undecided
<1>2. CASE ReturnPublished(r) \/ RefuseUnfinished(r)
  <2>1. \/ Goto(r, "raised")
        \/ End(r, "returned", result)
    BY <1>2 DEF ReturnPublished, RefuseUnfinished
  <2>2. PICK x \in Runner : /\ x.pc \in {"returned", "raised"}
                            /\ runner' = [runner EXCEPT ![r] = x]
    BY <2>1, GotoFacts, EndFacts
  <2>3. /\ runner[r].pc = "entering"
        /\ UNCHANGED <<journal, decision, result, lock, ttl, faults>>
    BY <1>2 DEF ReturnPublished, RefuseUnfinished, EntersLock, At
  <2> QED BY <2>2, <2>3, AgentFrame DEF Inside, AtWork, Undecided
<1>3. CASE Recover(r)
  <2>1. /\ runner[r].pc = "entering" /\ lock = None /\ journal \in AgentResult
        /\ UNCHANGED <<journal, decision, result, ttl, faults>>
        /\ \/ End(r, "publishing", journal) /\ lock' = r
           \/ Goto(r, "raised") /\ UNCHANGED lock
    BY <1>3 DEF Recover, EntersLock, At
  <2>2. PICK x \in Runner : /\ runner' = [runner EXCEPT ![r] = x]
                            /\ \/ x.pc = "publishing" /\ lock' = r
                               \/ x.pc = "raised" /\ UNCHANGED lock
    BY <2>1, GotoFacts, EndFacts
  <2> QED BY <2>1, <2>2, AgentFrame DEF Inside, AtWork, Undecided
<1>4. CASE FirstRun(r)
  <2>1. /\ runner[r].pc = "entering" /\ lock = None /\ journal = "none"
        /\ UNCHANGED <<decision, result, ttl, faults>>
        /\ Goto(r, "tools") /\ lock' = r /\ journal' = "open"
    BY <1>4 DEF FirstRun, EntersLock, At
  <2>2. PICK x \in Runner : x.pc = "tools" /\ runner' = [runner EXCEPT ![r] = x]
    BY <2>1, GotoFacts
  <2>3. decision = None /\ ~ sessions[r].context
    BY <2>1 DEF HInv, JournalIsOpen, NoContextYet, RunnersLive
  <2> QED BY <2>1, <2>2, <2>3, AgentFrame DEF Inside, AtWork, Undecided
<1> QED BY <1>1, <1>2, <1>3, <1>4

\* The review publishes what it says.
LEMMA ReviewFacts ==
  ASSUME HInv, NEW r \in Key, NEW y \in AgentResult, Review(r, y)
  PROVE  /\ journal' = y /\ y \notin {"none", "open"}
         /\ \E x \in Runner : x.pc = "publishing" /\ runner' = [runner EXCEPT ![r] = x]
  BY EndFacts DEF Review, AgentResult

LEMMA WorkLemma ==
  ASSUME HInv, NEW r \in Key, UNCHANGED hostVars,
         \/ Tools(r) \/ Refused(r) \/ Decide(r) \/ Recommend(r) \/ Abandon(r)
         \/ Publish(r)
  PROVE  HInv'
<1> USE HostTypes
<1> DEFINE Reviewed == \E y \in AgentResult : Review(r, y)
<1>1. ASSUME runner[r].pc \in {"tools", "refused", "decided"}, Reviewed, faults' \in Nat,
             UNCHANGED <<decision, result, lock>>, ttl' = ttl
      PROVE  HInv'
  <2>1. PICK y \in AgentResult : Review(r, y)
    BY <1>1
  <2>2. PICK x \in Runner : x.pc = "publishing" /\ runner' = [runner EXCEPT ![r] = x]
    BY <2>1, ReviewFacts
  <2>3. lock = r
    BY <1>1, InsideFacts DEF Inside, AtWork, Undecided
  <2>4. journal' \in AgentResult /\ journal' # "none"
    BY <2>1, ReviewFacts
  <2> QED BY <1>1, <2>2, <2>3, <2>4, AgentFrame DEF Inside, AtWork, Undecided
<1>2. CASE Refused(r) \/ Recommend(r)
  <2>1. Reviewed /\ faults' \in Nat
    BY <1>2, FaultFacts DEF Refused, Recommend, AgentResult
  <2>2. /\ runner[r].pc \in {"refused", "decided"} /\ UNCHANGED <<decision, result, lock>>
        /\ ttl' = ttl
    BY <1>2 DEF Refused, Recommend, At
  <2> QED BY <1>1, <2>1, <2>2
<1>3. CASE /\ Tools(r) /\ ttl' = ttl
           /\ \/ Review(r, "no_action") /\ NoFault
              \/ Review(r, "failed") /\ Fault
  <2>1. Reviewed /\ faults' \in Nat
    BY <1>3, FaultFacts DEF AgentResult
  <2>2. runner[r].pc = "tools" /\ UNCHANGED <<decision, result, lock>>
    BY <1>3 DEF Tools, At
  <2> QED BY <1>1, <1>3, <2>1, <2>2
<1>4. CASE Tools(r) /\ Goto(r, "asking") /\ ttl' = "running" /\ NoFault /\ UNCHANGED journal
  <2>1. runner[r].pc = "tools" /\ UNCHANGED <<decision, result, lock, journal, faults>>
    BY <1>4 DEF Tools, At, NoFault
  <2>2. PICK x \in Runner : x.pc = "asking" /\ runner' = [runner EXCEPT ![r] = x]
    BY <1>4, GotoFacts
  <2>3. lock = r /\ journal = "open" /\ decision = None
    BY <2>1, InsideFacts DEF Inside, AtWork, Undecided
  <2>4. ~ sessions[r].context
    BY <2>1 DEF HInv, NoContextYet
  <2> QED BY <1>4, <2>1, <2>2, <2>3, <2>4, AgentFrame DEF Inside, AtWork, Undecided
<1>5. CASE Decide(r)
  <2> DEFINE made == [proposal |-> runner[r].proposal,
                      accepted |-> Accepts(runner[r].proposal)]
  <2>1. /\ runner[r].pc = "proposed" /\ UNCHANGED <<journal, result, lock, ttl>>
        /\ \/ decision' = made /\ Goto(r, "decided") /\ NoFault
           \/ UNCHANGED decision /\ Goto(r, "refused") /\ Fault
    BY <1>5 DEF Decide, At
  <2>2. lock = r /\ journal = "open" /\ decision = None
    BY <2>1, InsideFacts DEF Inside, AtWork, Undecided
  <2>3. decision' \in Decision \cup {None} /\ faults' \in Nat
    <3>1. runner[r].proposal \in Proposal
      BY <2>1, InsideFacts
    <3>2. Accepts(runner[r].proposal) \in BOOLEAN
      BY DEF Accepts
    <3>3. made \in Decision
      BY <3>1, <3>2 DEF Decision
    <3> QED BY <2>1, <2>2, <3>3, FaultFacts
  <2>4. CASE decision' = made /\ Goto(r, "decided")
    <3>1. PICK x \in Runner : x.pc = "decided" /\ runner' = [runner EXCEPT ![r] = x]
      BY <2>4, GotoFacts
    <3> QED BY <2>1, <2>2, <2>3, <3>1, AgentFrame DEF Inside, AtWork, Undecided
  <2>5. CASE UNCHANGED decision /\ Goto(r, "refused")
    <3>1. PICK x \in Runner : x.pc = "refused" /\ runner' = [runner EXCEPT ![r] = x]
      BY <2>5, GotoFacts
    <3> QED BY <2>1, <2>2, <2>3, <2>5, <3>1, AgentFrame DEF Inside, AtWork, Undecided
  <2> QED BY <2>1, <2>4, <2>5
<1>6. CASE Abandon(r)
  <2>1. /\ runner[r].pc \in {"tools", "refused", "decided"} /\ Goto(r, "raised")
        /\ lock' = None /\ faults' \in Nat /\ UNCHANGED <<journal, decision, result, ttl>>
    BY <1>6, FaultFacts DEF Abandon
  <2>2. PICK x \in Runner : x.pc = "raised" /\ runner' = [runner EXCEPT ![r] = x]
    BY <2>1, GotoFacts
  <2>3. lock = r
    BY <2>1, InsideFacts DEF Inside, AtWork, Undecided
  <2> QED BY <2>1, <2>2, <2>3, AgentFrame DEF Inside, AtWork, Undecided
<1>7. CASE Publish(r)
  <2>1. /\ runner[r].pc = "publishing" /\ lock' = None /\ faults' \in Nat
        /\ result' \in AgentResult \cup {None} /\ UNCHANGED <<journal, decision, ttl>>
        /\ \/ Goto(r, "returned")
           \/ Goto(r, "raised")
    <3>1. runner[r].result \in AgentResult \cup {None}
      BY DEF Runner
    <3> QED BY <1>7, <3>1, FaultFacts DEF Publish, At
  <2>2. lock = r
    BY <2>1, InsideFacts DEF Inside
  <2>3. ASSUME NEW pc \in {"returned", "raised"}, NEW x \in Runner,
               x.pc = pc, runner' = [runner EXCEPT ![r] = x]
        PROVE  HInv'
    BY <2>1, <2>2, <2>3, AgentFrame DEF Inside, AtWork, Undecided
  <2>4. CASE Goto(r, "raised")
    BY <2>3, <2>4, GotoFacts
  <2>5. CASE Goto(r, "returned")
    BY <2>3, <2>5, GotoFacts
  <2> QED BY <2>1, <2>4, <2>5
<1> QED BY <1>2, <1>3, <1>4, <1>5, <1>6, <1>7 DEF Tools

LEMMA AgentActsLemma == ASSUME HInv, NEW r \in Key, AgentActs(r) PROVE HInv'
  BY EnterLemma, WorkLemma DEF AgentActs, AgentStep
-----------------------------------------------------------------------------
(* The sessions *)

\* A record on file that is final stays as it is.
RecordStays(k) ==
  stored[k] # None /\ stored[k].lifecycle # "awaiting_proposal" =>
    /\ stored'[k] # None
    /\ stored'[k].lifecycle = stored[k].lifecycle
    /\ stored'[k].outcome = stored[k].outcome

LEMMA SessionFacts ==
  ASSUME HInv, NEW k \in Key, sessions[k] # None
  PROVE  /\ sessions[k] \in Session
         /\ sessions[k].failed \/ sessions[k].outcome # None => sessions[k].done
         /\ stored[k] # None /\ stored[k].lifecycle # "awaiting_proposal" =>
              sessions[k].done /\ sessions[k].outcome = stored[k].outcome
         /\ journal = "none" => ~ sessions[k].context
  BY DEF HInv, TypeOK, FileTellsMemory, NoContextYet

LEMMA RunnerFacts ==
  ASSUME HInv, NEW k \in Key, runner[k].pc # "idle"
  PROVE  /\ sessions[k] \in Session /\ ~ sessions[k].done
         /\ ~ sessions[k].failed /\ sessions[k].outcome = None
         /\ stored[k] # None => stored[k].lifecycle = "awaiting_proposal"
         /\ journal = "none" => ~ sessions[k].context
  BY SessionFacts DEF HInv, RunnersLive

\* What _persist writes for a session that has no outcome when it failed.
LEMMA StoredFacts ==
  ASSUME NEW s \in Session, s.failed => s.outcome = None,
         s.failed \/ s.outcome # None => s.done
  PROVE  /\ Stored(s) \in StoredSession
         /\ Stored(s).lifecycle = "terminal" <=> Stored(s).outcome # None
         /\ Stored(s).lifecycle # "awaiting_proposal" => s.done
         /\ Stored(s).outcome = s.outcome /\ Stored(s).context = s.context
         /\ ~ s.failed /\ s.outcome # None => Stored(s).lifecycle = "terminal"
  BY DEF Stored, StoredSession, Session

\* The session of one key changes, with its record, its runner and some calls.
SessionStep(k, s, f, x) ==
  /\ sessions' = [sessions EXCEPT ![k] = s] /\ runner' = [runner EXCEPT ![k] = x]
  /\ UNCHANGED <<journal, decision, result, lock, ttl, answers, crashes>>
  /\ faults' \in Nat /\ call' \in [Client -> Call]
  /\ \A c \in Client :
       \/ call'[c] = call[c]
       \/ /\ call'[c].pc # "idle" => call'[c].key = k
          /\ call'[c].pc = "report" => /\ call'[c].outcome \in Outcome
                                       /\ s.done /\ s.outcome = call'[c].outcome
  /\ s.failed \/ s.outcome # None => s.done
  /\ sessions[k] # None /\ sessions[k].done => s.done /\ s.outcome = sessions[k].outcome
  /\ journal = "none" => ~ s.context
  /\ \/ stored' = stored
     \/ /\ stored' = [stored EXCEPT ![k] = f] /\ f \in StoredSession
        /\ f.lifecycle = "terminal" <=> f.outcome # None
        /\ f.lifecycle # "awaiting_proposal" => s.done /\ s.outcome = f.outcome
        /\ journal = "none" => ~ f.context
        /\ stored[k] # None /\ stored[k].lifecycle # "awaiting_proposal" =>
             f.lifecycle = stored[k].lifecycle /\ f.outcome = stored[k].outcome
  /\ x.pc # "idle" => ~ s.done
  /\ x.pc \in Inside => runner[k].pc \in Inside
  /\ x.pc \in AtWork => runner[k].pc \in AtWork
  /\ x.pc \in Undecided => runner[k].pc \in Undecided
  /\ x.pc = "proposed" => x.proposal \in Proposal
  /\ x.pc \in {"tools", "asking"} => ~ s.context

LEMMA SessionFrame ==
  ASSUME HInv, NEW k \in Key, NEW s \in Session, NEW f, NEW x \in Runner,
         SessionStep(k, s, f, x)
  PROVE  HInv' /\ \A q \in Key : RecordStays(q)
<1> USE DEF SessionStep
<1>1. /\ sessions \in [Key -> Session \cup {None}] /\ sessions'[k] = s
      /\ sessions' \in [Key -> Session \cup {None}]
      /\ \A q \in Key \ {k} : sessions'[q] = sessions[q]
  BY DEF HInv, TypeOK
<1>2. /\ runner' \in [Key -> Runner] /\ runner'[k] = x
      /\ \A q \in Key \ {k} : runner'[q] = runner[q]
  BY HostTypes
<1>3. /\ stored \in [Key -> StoredSession \cup {None}]
      /\ stored' \in [Key -> StoredSession \cup {None}]
      /\ \A q \in Key \ {k} : stored'[q] = stored[q]
      /\ stored'[k] = stored[k] \/ (stored'[k] = f /\ stored' = [stored EXCEPT ![k] = f])
  BY DEF HInv, TypeOK
<1>4. \A q \in Key : RecordStays(q)
  BY <1>3, NoneFacts DEF RecordStays
<1>5. s # None
  BY NoneFacts
<1>6. TypeOK'
  <2>1. \A q \in Key :
          /\ sessions'[q] # None =>
               (sessions'[q].failed \/ sessions'[q].outcome # None => sessions'[q].done)
          /\ stored'[q] # None =>
               (stored'[q].lifecycle = "terminal" <=> stored'[q].outcome # None)
    BY <1>1, <1>3 DEF HInv, TypeOK
  <2> QED BY <1>1, <1>2, <1>3, <2>1 DEF HInv, TypeOK
<1>7. RunnersLive' /\ LockIsHeld' /\ JournalIsOpen'
  BY <1>1, <1>2, <1>5 DEF HInv, RunnersLive, LockIsHeld, JournalIsOpen
<1>8. NoContextYet'
  BY <1>1, <1>2, <1>3 DEF HInv, NoContextYet
<1>9. FileTellsMemory'
  BY <1>1, <1>3, <1>5 DEF HInv, FileTellsMemory
<1>10. CallsTellMemory'
  BY <1>1, <1>5 DEF HInv, CallsTellMemory
<1>11. DurableAnswers'
  BY <1>4, NoneFacts DEF HInv, TypeOK, DurableAnswers, RecordStays
<1> QED BY <1>4, <1>6, <1>7, <1>8, <1>9, <1>10, <1>11 DEF HInv

\* A call changes, and nothing else.
LEMMA CallFrame ==
  ASSUME HInv, NEW c \in Client, NEW y \in Call, call' = [call EXCEPT ![c] = y],
         UNCHANGED <<journal, decision, result, lock, runner, ttl, sessions, stored, crashes>>,
         UNCHANGED answers, faults' \in Nat,
         y.pc # "idle" => y.key \in Key /\ sessions[y.key] # None,
         y.pc = "report" => /\ y.outcome \in Outcome
                            /\ sessions[y.key].done /\ sessions[y.key].outcome = y.outcome
  PROVE  HInv' /\ \A q \in Key : RecordStays(q)
<1>1. /\ call' \in [Client -> Call] /\ call'[c] = y
      /\ \A d \in Client \ {c} : call'[d] = call[d]
  BY DEF HInv, TypeOK
<1>2. TypeOK'
  BY <1>1 DEF HInv, TypeOK
<1>3. /\ RunnersLive' /\ LockIsHeld' /\ JournalIsOpen' /\ NoContextYet'
      /\ FileTellsMemory' /\ DurableAnswers'
  BY DEF HInv, RunnersLive, LockIsHeld, JournalIsOpen, NoContextYet, FileTellsMemory,
         DurableAnswers
<1>4. CallsTellMemory'
  BY <1>1 DEF HInv, CallsTellMemory
<1>5. \A q \in Key : RecordStays(q)
  BY DEF RecordStays
<1> QED BY <1>2, <1>3, <1>4, <1>5 DEF HInv

LEMMA AgentKeeps ==
  ASSUME HInv, NEW r \in Key, AgentActs(r)
  PROVE  HInv' /\ \A q \in Key : RecordStays(q)
  BY AgentActsLemma, NoneFacts DEF AgentActs, hostVars, RecordStays

LEMMA ResolveLemma ==
  ASSUME HInv, NEW r \in Key, Resolve(r)
  PROVE  HInv' /\ \A q \in Key : RecordStays(q)
<1> DEFINE s == [sessions[r] EXCEPT !.context = TRUE]
<1>1. /\ runner[r].pc = "asking" /\ sessions' = [sessions EXCEPT ![r] = s]
      /\ UNCHANGED <<journal, decision, result, lock, ttl, call, answers, crashes>>
  BY DEF Resolve, At, Remember
<1>2. /\ sessions[r] \in Session /\ ~ sessions[r].done
      /\ ~ sessions[r].failed /\ sessions[r].outcome = None
      /\ stored[r] # None => stored[r].lifecycle = "awaiting_proposal"
  BY <1>1, RunnerFacts
<1>3. /\ s \in Session /\ ~ s.done /\ ~ s.failed /\ s.outcome = None
  BY <1>2 DEF Session
<1>4. /\ Stored(s) \in StoredSession
      /\ Stored(s).lifecycle = "terminal" <=> Stored(s).outcome # None
      /\ Stored(s).lifecycle = "awaiting_proposal"
  BY <1>3, StoredFacts
<1>5. /\ faults' \in Nat /\ stored' \in {stored, [stored EXCEPT ![r] = Stored(s)]}
  BY FaultFacts DEF Resolve, Saved, SaveFailed, Written
<1>6. journal = "open"
  BY <1>1, InsideFacts DEF AtWork, Undecided
<1>7. call \in [Client -> Call]
  BY DEF HInv, TypeOK
<1>8. ASSUME NEW pc \in {"waiting", "refused"}, Goto(r, pc)
      PROVE  HInv' /\ \A q \in Key : RecordStays(q)
  <2>1. PICK x \in Runner : x.pc = pc /\ runner' = [runner EXCEPT ![r] = x]
    BY <1>8, GotoFacts
  <2>2. SessionStep(r, s, Stored(s), x)
    <3> HIDE DEF s
    <3> QED BY <1>1, <1>2, <1>3, <1>4, <1>5, <1>6, <1>7, <2>1
            DEF SessionStep, Inside, AtWork, Undecided
  <2> QED BY <1>3, <2>1, <2>2, SessionFrame
<1>9. Goto(r, "waiting") \/ Goto(r, "refused")
  BY DEF Resolve
<1> QED BY <1>8, <1>9

LEMMA AwaitLemma ==
  ASSUME HInv, NEW r \in Key, Await(r)
  PROVE  HInv' /\ \A q \in Key : RecordStays(q)
<1>1. /\ runner[r].pc = "waiting"
      /\ UNCHANGED <<journal, decision, result, lock, ttl, faults>> /\ UNCHANGED hostVars
  BY DEF Await, At
<1>2. lock = r /\ journal = "open" /\ decision = None
  BY <1>1, InsideFacts DEF Inside, AtWork, Undecided
<1>3. \A q \in Key : RecordStays(q)
  BY <1>1 DEF hostVars, RecordStays
<1>4. CASE Goto(r, "refused")
  <2>1. PICK x \in Runner : x.pc = "refused" /\ runner' = [runner EXCEPT ![r] = x]
    BY <1>4, GotoFacts
  <2> QED BY <1>1, <1>2, <1>3, <2>1, HostTypes, AgentFrame DEF Inside, AtWork, Undecided
<1>5. CASE /\ sessions[r].proposal # None
           /\ runner' = [runner EXCEPT ![r].pc = "proposed",
                                       ![r].proposal = sessions[r].proposal]
  <2> DEFINE x == [runner[r] EXCEPT !.pc = "proposed", !.proposal = sessions[r].proposal]
  <2>1. sessions[r].proposal \in Proposal
    BY <1>1, <1>5, RunnerFacts DEF Session
  <2>2. x \in Runner /\ x.pc = "proposed" /\ x.proposal \in Proposal
    BY <2>1, HostTypes DEF Runner
  <2>3. runner' = [runner EXCEPT ![r] = x]
    BY <1>5, HostTypes DEF Runner
  <2> HIDE DEF x
  <2> QED BY <1>1, <1>2, <1>3, <2>2, <2>3, HostTypes, AgentFrame
          DEF Inside, AtWork, Undecided
<1> QED BY <1>4, <1>5 DEF Await

\* The end of a runner: s is what becomes of its session.
LEMMA ConcludeLemma ==
  ASSUME HInv, NEW r \in Key, NEW s \in Session, Conclude(r, s), runner[r].pc # "idle",
         s.done, s.failed => s.outcome = None, journal = "none" => ~ s.context
  PROVE  HInv' /\ \A q \in Key : RecordStays(q)
<1> DEFINE t == [s EXCEPT !.failed = TRUE]
<1>1. /\ runner' = [runner EXCEPT ![r] = Stopped]
      /\ UNCHANGED <<journal, decision, result, lock, ttl, call, answers, crashes>>
  BY DEF Conclude
<1>2. /\ sessions[r] \in Session /\ ~ sessions[r].done
      /\ stored[r] # None => stored[r].lifecycle = "awaiting_proposal"
  BY RunnerFacts
<1>3. /\ Stored(s) \in StoredSession
      /\ Stored(s).lifecycle = "terminal" <=> Stored(s).outcome # None
      /\ Stored(s).outcome = s.outcome /\ Stored(s).context = s.context
  BY StoredFacts
<1>4. /\ t \in Session /\ t.done /\ t.outcome = s.outcome /\ t.context = s.context
  BY DEF Session
<1>5. /\ faults' \in Nat /\ stored' \in {stored, [stored EXCEPT ![r] = Stored(s)]}
      /\ \/ sessions' = [sessions EXCEPT ![r] = s]
         \/ sessions' = [sessions EXCEPT ![r] = t]
  BY FaultFacts DEF Conclude, Saved, SaveFailed, Written, Remember
<1>6. call \in [Client -> Call]
  BY DEF HInv, TypeOK
<1>7. ASSUME NEW u \in Session, u.done, u.outcome = s.outcome, u.context = s.context,
             sessions' = [sessions EXCEPT ![r] = u]
      PROVE  HInv' /\ \A q \in Key : RecordStays(q)
  <2> DEFINE f == Stored(s)
  <2>1. \/ stored' = stored
        \/ /\ stored' = [stored EXCEPT ![r] = f] /\ f \in StoredSession
           /\ f.lifecycle = "terminal" <=> f.outcome # None
           /\ f.lifecycle # "awaiting_proposal" => u.done /\ u.outcome = f.outcome
           /\ journal = "none" => ~ f.context
           /\ stored[r] # None /\ stored[r].lifecycle # "awaiting_proposal" =>
                f.lifecycle = stored[r].lifecycle /\ f.outcome = stored[r].outcome
    BY <1>2, <1>3, <1>5, <1>7
  <2> HIDE DEF f
  <2>2. Stopped.pc \notin Inside \cup {"tools", "asking", "proposed"}
    BY StoppedFacts DEF Inside, AtWork, Undecided
  <2>3. AtWork \subseteq Inside /\ Undecided \subseteq Inside
    BY DEF Inside, AtWork
  <2>4. /\ sessions[r] # None /\ sessions[r].done =>
             u.done /\ u.outcome = sessions[r].outcome
        /\ journal = "none" => ~ u.context
    BY <1>2, <1>7
  <2>5. \A c \in Client : call'[c] = call[c]
    BY <1>1
  <2>6. call' \in [Client -> Call]
    BY <1>1, <1>6
  <2>7. SessionStep(r, u, f, Stopped)
    BY <1>1, <1>5, <1>7, <2>1, <2>2, <2>3, <2>4, <2>5, <2>6, StoppedFacts DEF SessionStep
  <2> QED BY <1>7, <2>7, StoppedFacts, SessionFrame
<1> QED BY <1>4, <1>5, <1>7

LEMMA EndLemma ==
  ASSUME HInv, NEW r \in Key, RunnerRaised(r) \/ RunnerReturned(r) \/ ReplayOther(r)
  PROVE  HInv' /\ \A q \in Key : RecordStays(q)
<1> DEFINE s == sessions[r]
<1>1. runner[r].pc \in {"raised", "returned"}
  BY DEF RunnerRaised, RunnerReturned, ReplayOther, At
<1>2. /\ s \in Session /\ ~ s.done /\ ~ s.failed /\ s.outcome = None
      /\ journal = "none" => ~ s.context
  BY <1>1, RunnerFacts
<1>3. CASE Conclude(r, Failure(s))
  <2>1. Failure(s) \in Session /\ Failure(s).done /\ Failure(s).outcome = None
        /\ Failure(s).context = s.context
    BY <1>2 DEF Failure, Session
  <2> QED BY <1>1, <1>2, <1>3, <2>1, ConcludeLemma
<1>4. ASSUME NEW o \in Outcome, Conclude(r, DoneWith(s, o))
      PROVE  HInv' /\ \A q \in Key : RecordStays(q)
  <2>1. DoneWith(s, o) \in Session /\ DoneWith(s, o).done /\ ~ DoneWith(s, o).failed
        /\ DoneWith(s, o).context = s.context
    BY <1>2 DEF DoneWith, Session
  <2> QED BY <1>1, <1>2, <1>4, <2>1, ConcludeLemma
<1>5. ASSUME NEW y, NEW o \in Adoptable(y), Conclude(r, [DoneWith(s, o) EXCEPT !.context = TRUE])
      PROVE  HInv' /\ \A q \in Key : RecordStays(q)
  <2> DEFINE t == [DoneWith(s, o) EXCEPT !.context = TRUE]
  <2>1. PICK k \in Key : /\ sessions[k] # None /\ sessions[k].context
                         /\ sessions[k].outcome \in Outcome /\ o = sessions[k].outcome
    BY <1>5 DEF Adoptable, Finished
  <2>2. journal # "none"
    BY <2>1, SessionFacts
  <2>3. t \in Session /\ t.done /\ ~ t.failed
    BY <1>2, <2>1 DEF DoneWith, Session
  <2> HIDE DEF t
  <2> QED BY <1>1, <1>5, <2>2, <2>3, ConcludeLemma DEF t
<1>6. CASE RunnerRaised(r)
  BY <1>3, <1>6 DEF RunnerRaised
<1>7. CASE RunnerReturned(r)
  <2>1. s.proposal # None => DecisionOutcome(s.proposal) \in Outcome
    BY <1>2, OutcomeFacts DEF Session
  <2> QED BY <1>3, <1>4, <1>7, <2>1 DEF RunnerReturned
<1>8. CASE ReplayOther(r)
  BY <1>3, <1>4, <1>5, <1>8, OutcomeFacts DEF ReplayOther
<1> QED BY <1>6, <1>7, <1>8

-----------------------------------------------------------------------------
(* The tools *)

LEMMA CallFacts ==
  ASSUME HInv, NEW c \in Client
  PROVE  /\ call[c] \in Call
         /\ call[c].pc # "idle" => /\ call[c].key \in Key
                                   /\ sessions[call[c].key] \in Session
         /\ call[c].pc = "report" =>
              /\ call[c].outcome \in Outcome
              /\ sessions[call[c].key].done
              /\ sessions[call[c].key].outcome = call[c].outcome
  BY DEF HInv, TypeOK, CallsTellMemory

\* Either answer to a call about the session of key k.
LEMMA AnswerLemma ==
  ASSUME HInv, NEW c \in Client,
         UNCHANGED <<journal, decision, result, lock, runner, ttl, sessions, stored, crashes>>,
         UNCHANGED answers, faults' \in Nat,
         \/ Reply(c)
         \/ \E k \in Key, p \in Proposal \cup {None} :
              Report(c, k, p, sessions[k].outcome)
              /\ sessions[k] # None /\ sessions[k].outcome # None
  PROVE  HInv' /\ \A q \in Key : RecordStays(q)
<1>1. CASE Reply(c)
  BY <1>1, NoCallFacts, CallFrame DEF Reply
<1>2. ASSUME NEW k \in Key, NEW p \in Proposal \cup {None},
             Report(c, k, p, sessions[k].outcome),
             sessions[k] # None, sessions[k].outcome # None
      PROVE  HInv' /\ \A q \in Key : RecordStays(q)
  <2> DEFINE y == [pc |-> "report", key |-> k, proposal |-> p,
                   outcome |-> sessions[k].outcome]
  <2>1. sessions[k].done /\ sessions[k].outcome \in Outcome
    BY <1>2, SessionFacts DEF Session
  <2>2. y \in Call
    BY <2>1 DEF Call
  <2>3. call' = [call EXCEPT ![c] = y]
    BY <1>2 DEF Report
  <2> QED BY <1>2, <2>1, <2>2, <2>3, CallFrame
<1> QED BY <1>1, <1>2

LEMMA GetContextLemma ==
  ASSUME HInv, NEW c \in Client, NEW k \in Key, GetContext(c, k)
  PROVE  HInv' /\ \A q \in Key : RecordStays(q)
<1> DEFINE s == SessionOf(k)
           y == [NoCall EXCEPT !.pc = "context", !.key = k]
<1>1. /\ UNCHANGED <<journal, decision, result, lock, ttl, faults, stored, answers, crashes>>
      /\ ~ s.failed /\ faults' \in Nat
  BY HostTypes DEF GetContext
<1>2. /\ s \in Session
      /\ sessions[k] # None => s = sessions[k]
      /\ s.failed \/ s.outcome # None => s.done
      /\ journal = "none" => ~ s.context
      /\ sessions[k] = None => ~ s.done /\ s.outcome = None /\ ~ s.context
  BY SessionFacts DEF SessionOf, NewSession, Session
<1>3. y \in Call /\ y.pc = "context" /\ y.key = k
  BY DEF NoCall, Call
<1>4. CASE s.outcome = NoAction /\ Report(c, k, None, NoAction) /\ UNCHANGED <<sessions, runner>>
  <2>1. NoAction # None
    BY NoneFacts, OutcomeFacts
  <2>2. sessions[k] # None /\ sessions[k].outcome = NoAction
    BY <1>2, <1>4, <2>1
  <2> QED BY <1>1, <1>4, <2>1, <2>2, AnswerLemma
<1>5. CASE /\ Starts(s) /\ Remember(k, [s EXCEPT !.runner_started = TRUE])
           /\ Goto(k, "pipeline") /\ call' = [call EXCEPT ![c] = y]
  <2> DEFINE t == [s EXCEPT !.runner_started = TRUE]
             x == [runner[k] EXCEPT !.pc = "pipeline"]
  <2>1. ~ s.done
    BY <1>5 DEF Starts
  <2>2. /\ t \in Session /\ ~ t.done /\ ~ t.failed /\ t.outcome = None
        /\ t.context = s.context
    BY <1>2, <2>1 DEF Session
  <2>3. x \in Runner /\ x.pc = "pipeline" /\ runner' = [runner EXCEPT ![k] = x]
    BY <1>5, HostTypes DEF Goto, Runner
  <2>4. sessions' = [sessions EXCEPT ![k] = t]
    BY <1>5 DEF Remember
  <2>5. /\ call' \in [Client -> Call] /\ call'[c] = y
        /\ \A d \in Client \ {c} : call'[d] = call[d]
    BY <1>3, <1>5 DEF HInv, TypeOK
  <2>6. x.pc \notin Inside \cup {"tools", "asking", "proposed"}
    BY <2>3 DEF Inside, AtWork, Undecided
  <2>7. AtWork \subseteq Inside /\ Undecided \subseteq Inside
    BY DEF Inside, AtWork
  <2>8. \A d \in Client :
          \/ call'[d] = call[d]
          \/ call'[d].pc = "context" /\ call'[d].key = k
    BY <1>3, <2>5
  <2>9. sessions[k] # None => ~ sessions[k].done
    BY <1>2, <2>1
  <2>10. journal = "none" => ~ t.context
    BY <1>2, <2>2
  <2>11. stored' = stored /\ UNCHANGED <<journal, decision, result, lock, ttl, answers, crashes>>
    BY <1>1
  <2> HIDE DEF s, t, x, y
  <2>12. SessionStep(k, t, None, x)
    BY <1>1, <2>2, <2>3, <2>4, <2>5, <2>6, <2>7, <2>8, <2>9, <2>10, <2>11 DEF SessionStep
  <2> QED BY <2>2, <2>3, <2>12, SessionFrame
<1>6. CASE /\ ~ Starts(s) /\ ~ s.context /\ ~ s.done /\ call' = [call EXCEPT ![c] = y]
           /\ UNCHANGED <<sessions, runner>>
  <2>1. sessions[k] # None
    BY <1>6 DEF Starts, SessionOf, NewSession
  <2> QED BY <1>1, <1>3, <1>6, <2>1, CallFrame
<1> QED BY <1>4, <1>5, <1>6 DEF GetContext

LEMMA CallLemma ==
  ASSUME HInv, NEW c \in Client,
         \/ GotContext(c) \/ WaitEnds(c) \/ TimesOut(c)
         \/ \E k \in Key, p \in Proposal : Submit(c, k, p)
  PROVE  HInv' /\ \A q \in Key : RecordStays(q)
<1> DEFINE Same == UNCHANGED <<agentVars, sessions, stored, answers, crashes>>
<1>1. Same => /\ UNCHANGED <<journal, decision, result, lock, runner, ttl, sessions,
                             stored, crashes>>
              /\ UNCHANGED answers /\ faults' \in Nat
  BY HostTypes DEF agentVars
<1>2. CASE GotContext(c)
  <2>1. Same /\ call[c].key \in Key /\ sessions[call[c].key] # None
    BY <1>2, CallFacts, NoneFacts DEF GotContext
  <2>2. \/ Reply(c)
        \/ /\ Report(c, call[c].key, None, NoAction)
           /\ sessions[call[c].key].outcome = NoAction
    BY <1>2 DEF GotContext
  <2>3. NoAction # None
    BY NoneFacts, OutcomeFacts
  <2> QED BY <1>1, <2>1, <2>2, <2>3, AnswerLemma
<1>3. CASE WaitEnds(c)
  <2>1. Same /\ call[c].key \in Key /\ sessions[call[c].key] # None
    BY <1>3, CallFacts, NoneFacts DEF WaitEnds
  <2>2. \/ Reply(c)
        \/ /\ Report(c, call[c].key, call[c].proposal, sessions[call[c].key].outcome)
           /\ sessions[call[c].key].outcome # None
    BY <1>3 DEF WaitEnds
  <2>3. call[c].proposal \in Proposal \cup {None}
    BY CallFacts DEF Call
  <2> QED BY <1>1, <2>1, <2>2, <2>3, AnswerLemma
<1>4. CASE TimesOut(c)
  BY <1>1, <1>4, AnswerLemma DEF TimesOut
<1>5. ASSUME NEW k \in Key, NEW p \in Proposal, Submit(c, k, p)
      PROVE  HInv' /\ \A q \in Key : RecordStays(q)
  <2> DEFINE y == [pc |-> "submit", key |-> k, proposal |-> p, outcome |-> None]
  <2>1. y \in Call /\ Same /\ sessions[k] # None /\ call' = [call EXCEPT ![c] = y]
    BY <1>5 DEF Submit, Call
  <2> QED BY <1>1, <2>1, CallFrame
<1> QED BY <1>2, <1>3, <1>4, <1>5

\* A proposal becomes that of its session, in memory, on file or both.
LEMMA ProposedLemma ==
  ASSUME HInv, NEW k \in Key, NEW p \in Proposal \cup {None},
         NEW c \in Client, NEW y \in Call,
         sessions[k] \in Session, ~ sessions[k].failed,
         sessions[k].outcome # None \/ ~ sessions[k].done,
         NEW n, n = [sessions[k] EXCEPT !.proposal = p],
         stored' \in {stored, Written(k, n)}, faults' \in Nat,
         Remember(k, n) \/ UNCHANGED sessions,
         call' = [call EXCEPT ![c] = y], y.pc # "idle" => y.key = k,
         y.pc = "report" => y.outcome \in Outcome /\ y.outcome = sessions[k].outcome,
         UNCHANGED <<journal, decision, result, lock, runner, ttl, answers, crashes>>
  PROVE  HInv' /\ \A q \in Key : RecordStays(q)
<1> DEFINE s == sessions[k]
           f == Stored(n)
<1>1. /\ s # None
      /\ s.failed \/ s.outcome # None => s.done
      /\ stored[k] # None /\ stored[k].lifecycle # "awaiting_proposal" =>
           s.done /\ s.outcome = stored[k].outcome
      /\ journal = "none" => ~ s.context
  BY NoneFacts, SessionFacts
<1>2. /\ n \in Session /\ ~ n.failed /\ n.outcome = s.outcome /\ n.done = s.done
      /\ n.context = s.context
  BY DEF Session
<1>3. /\ f \in StoredSession
      /\ f.lifecycle = "terminal" <=> f.outcome # None
      /\ f.lifecycle # "awaiting_proposal" => n.done
      /\ f.outcome = n.outcome /\ f.context = n.context
      /\ n.outcome # None => f.lifecycle = "terminal"
  BY <1>1, <1>2, StoredFacts
<1>4. stored[k] # None => (stored[k].lifecycle = "terminal" <=> stored[k].outcome # None)
  BY DEF HInv, TypeOK
<1>5. \/ stored' = stored
      \/ /\ stored' = [stored EXCEPT ![k] = f] /\ f \in StoredSession
         /\ f.lifecycle = "terminal" <=> f.outcome # None
         /\ f.lifecycle # "awaiting_proposal" => s.done /\ s.outcome = f.outcome
         /\ journal = "none" => ~ f.context
         /\ stored[k] # None /\ stored[k].lifecycle # "awaiting_proposal" =>
              f.lifecycle = stored[k].lifecycle /\ f.outcome = stored[k].outcome
  BY <1>1, <1>2, <1>3, <1>4 DEF Written
<1>6. /\ call' \in [Client -> Call] /\ call'[c] = y
      /\ \A d \in Client \ {c} : call'[d] = call[d]
  BY DEF HInv, TypeOK
<1>7. \A d \in Client :
        \/ call'[d] = call[d]
        \/ /\ call'[d].pc # "idle" => call'[d].key = k
           /\ call'[d].pc = "report" => /\ call'[d].outcome \in Outcome
                                        /\ s.done /\ s.outcome = call'[d].outcome
  BY <1>1, <1>6, NoneFacts
<1>8. runner[k] \in Runner /\ runner' = [runner EXCEPT ![k] = runner[k]]
  BY HostTypes
<1>9. /\ runner[k].pc # "idle" => ~ s.done
      /\ runner[k].pc = "proposed" => runner[k].proposal \in Proposal
      /\ runner[k].pc \in {"tools", "asking"} => ~ s.context
  BY RunnerFacts, InsideFacts DEF HInv, NoContextYet
<1>10. ASSUME NEW u \in Session, sessions' = [sessions EXCEPT ![k] = u],
              u.failed \/ u.outcome # None => u.done,
              u.done = s.done, u.outcome = s.outcome, u.context = s.context
       PROVE  HInv' /\ \A q \in Key : RecordStays(q)
  <2> HIDE DEF s, f
  <2>1. /\ sessions[k] # None /\ sessions[k].done =>
             u.done /\ u.outcome = sessions[k].outcome
        /\ journal = "none" => ~ u.context
        /\ runner[k].pc # "idle" => ~ u.done
        /\ runner[k].pc \in {"tools", "asking"} => ~ u.context
    BY <1>1, <1>9, <1>10 DEF s
  <2>2. \/ stored' = stored
        \/ /\ stored' = [stored EXCEPT ![k] = f] /\ f \in StoredSession
           /\ f.lifecycle = "terminal" <=> f.outcome # None
           /\ f.lifecycle # "awaiting_proposal" => u.done /\ u.outcome = f.outcome
           /\ journal = "none" => ~ f.context
           /\ stored[k] # None /\ stored[k].lifecycle # "awaiting_proposal" =>
                f.lifecycle = stored[k].lifecycle /\ f.outcome = stored[k].outcome
    BY <1>5, <1>10
  <2>3. \A d \in Client :
          \/ call'[d] = call[d]
          \/ /\ call'[d].pc # "idle" => call'[d].key = k
             /\ call'[d].pc = "report" => /\ call'[d].outcome \in Outcome
                                          /\ u.done /\ u.outcome = call'[d].outcome
    BY <1>7, <1>10
  <2>4. UNCHANGED <<journal, decision, result, lock, ttl, answers, crashes>>
    OBVIOUS
  <2> DEFINE x == runner[k]
  <2>5. /\ x \in Runner /\ runner' = [runner EXCEPT ![k] = x] /\ x.pc = runner[k].pc
        /\ x.pc # "idle" => ~ u.done
        /\ x.pc = "proposed" => x.proposal \in Proposal
        /\ x.pc \in {"tools", "asking"} => ~ u.context
    BY <1>8, <1>9, <2>1
  <2> HIDE DEF x
  <2>6. SessionStep(k, u, f, x)
    BY <1>6, <1>10, <2>1, <2>2, <2>3, <2>4, <2>5 DEF SessionStep
  <2> QED BY <1>10, <2>5, <2>6, SessionFrame
<1>11. CASE Remember(k, n)
  BY <1>1, <1>2, <1>10, <1>11 DEF Remember
<1>12. CASE UNCHANGED sessions
  <2>1. sessions' = [sessions EXCEPT ![k] = s]
    BY <1>12 DEF HInv, TypeOK
  <2> QED BY <1>1, <1>10, <2>1
<1> QED BY <1>11, <1>12

LEMMA ProposeLemma ==
  ASSUME HInv, NEW c \in Client, Propose(c)
  PROVE  HInv' /\ \A q \in Key : RecordStays(q)
<1> DEFINE k == call[c].key
           p == call[c].proposal
           s == sessions[k]
           n == [s EXCEPT !.proposal = p]
           r == [pc |-> "report", key |-> k, proposal |-> p, outcome |-> s.outcome]
           w == [call[c] EXCEPT !.pc = "waiting"]
<1>1. /\ call[c].pc = "submit" /\ faults' \in Nat
      /\ UNCHANGED <<journal, decision, result, lock, runner, ttl, answers, crashes>>
  BY HostTypes, FaultFacts DEF Propose, Saved, SaveFailed
<1>2. /\ k \in Key /\ s \in Session /\ s # None /\ p \in Proposal \cup {None}
      /\ s.failed \/ s.outcome # None => s.done
  BY <1>1, CallFacts, SessionFacts, NoneFacts DEF Call
<1>3. CASE UNCHANGED <<sessions, stored, faults>>
  <2>1. CASE Reply(c)
    BY <1>1, <1>3, <2>1, AnswerLemma
  <2>2. CASE Report(c, k, p, s.outcome) /\ s.outcome # None
    BY <1>1, <1>2, <1>3, <2>2, AnswerLemma
  <2>3. CASE call' = [call EXCEPT ![c].pc = "waiting"]
    <3>1. w \in Call /\ w.pc = "waiting" /\ w.key = k
      BY CallFacts DEF Call
    <3>2. call' = [call EXCEPT ![c] = w]
      BY <2>3 DEF HInv, TypeOK
    <3> QED BY <1>1, <1>2, <1>3, <3>1, <3>2, CallFrame
  <2>4. NoAction # None
    BY NoneFacts, OutcomeFacts
  <2>5. \/ Reply(c)
        \/ Report(c, k, p, s.outcome) /\ s.outcome # None
        \/ call' = [call EXCEPT ![c].pc = "waiting"]
    BY <1>3, <2>4, NoneFacts DEF Propose
  <2> QED BY <2>1, <2>2, <2>3, <2>5
<1>4. CASE /\ s.outcome \in Outcome /\ ~ s.failed
           /\ \/ Remember(k, n) /\ Saved(k, n) /\ Report(c, k, p, s.outcome)
              \/ SaveFailed(k, n) /\ Reply(c) /\ UNCHANGED sessions
  <2>1. r \in Call /\ NoCall \in Call /\ NoCall.pc = "idle"
    BY <1>2, <1>4, NoCallFacts DEF Call
  <2>2. stored' \in {stored, Written(k, n)}
    BY <1>4 DEF Saved, SaveFailed
  <2>3. CASE Remember(k, n) /\ call' = [call EXCEPT ![c] = r]
    BY <1>1, <1>2, <1>4, <2>1, <2>2, <2>3, NoneFacts, ProposedLemma
  <2>4. CASE UNCHANGED sessions /\ call' = [call EXCEPT ![c] = NoCall]
    BY <1>1, <1>2, <1>4, <2>1, <2>2, <2>4, NoneFacts, ProposedLemma
  <2> QED BY <1>4, <2>3, <2>4 DEF Report, Reply
<1>5. CASE /\ s.outcome = None /\ ~ s.done /\ Remember(k, n)
           /\ \/ Saved(k, n) /\ call' = [call EXCEPT ![c].pc = "waiting"]
              \/ SaveFailed(k, n) /\ Reply(c)
  <2>1. w \in Call /\ w.pc = "waiting" /\ w.key = k
    BY CallFacts DEF Call
  <2>2. call' = [call EXCEPT ![c] = w] \/ call' = [call EXCEPT ![c] = NoCall]
    BY <1>5 DEF Reply, HInv, TypeOK
  <2>3. stored' \in {stored, Written(k, n)} /\ ~ s.failed
    BY <1>2, <1>5 DEF Saved, SaveFailed
  <2>4. CASE call' = [call EXCEPT ![c] = w]
    BY <1>1, <1>2, <1>5, <2>1, <2>3, <2>4, ProposedLemma
  <2>5. CASE call' = [call EXCEPT ![c] = NoCall]
    BY <1>1, <1>2, <1>5, <2>3, <2>5, NoCallFacts, ProposedLemma
  <2> QED BY <2>2, <2>4, <2>5
<1> QED BY <1>3, <1>4, <1>5 DEF Propose

\* What the report check passes is on file as it was in memory.
LEMMA TellLemma ==
  ASSUME HInv, NEW c \in Client, Tell(c)
  PROVE  HInv' /\ \A q \in Key : RecordStays(q)
<1> DEFINE k == call[c].key
           a == [key |-> k, outcome |-> call[c].outcome]
<1>1. /\ call[c].pc = "report" /\ Reply(c) /\ faults' \in Nat
      /\ UNCHANGED <<journal, decision, result, lock, runner, ttl, sessions, stored, crashes>>
  BY HostTypes, FaultFacts DEF Tell
<1>2. CASE UNCHANGED answers
  BY <1>1, <1>2, AnswerLemma
<1>3. CASE Reportable(k) /\ answers' = answers \cup {a}
  <2>1. /\ k \in Key /\ call[c].outcome \in Outcome /\ call[c].outcome # None
        /\ sessions[k].done /\ sessions[k].outcome = call[c].outcome
    BY <1>1, CallFacts, NoneFacts
  <2>2. /\ stored[k] # None /\ stored[k].lifecycle # "awaiting_proposal"
        /\ stored[k].outcome = call[c].outcome
    BY <1>3, <2>1 DEF Reportable, HInv, FileTellsMemory
  <2>3. stored[k].lifecycle = "terminal"
    BY <2>1, <2>2 DEF HInv, TypeOK
  <2>4. /\ call' \in [Client -> Call] /\ call'[c] = NoCall
        /\ \A d \in Client \ {c} : call'[d] = call[d]
    BY <1>1, NoCallFacts DEF Reply, HInv, TypeOK
  <2>5. a \in [key : Key, outcome : Outcome]
    BY <2>1
  <2>6. TypeOK'
    BY <1>1, <1>3, <2>4, <2>5 DEF HInv, TypeOK
  <2>7. /\ RunnersLive' /\ LockIsHeld' /\ JournalIsOpen' /\ NoContextYet' /\ FileTellsMemory'
    BY <1>1 DEF HInv, RunnersLive, LockIsHeld, JournalIsOpen, NoContextYet, FileTellsMemory
  <2>8. CallsTellMemory'
    BY <1>1, <2>4, NoCallFacts DEF HInv, CallsTellMemory
  <2>9. DurableAnswers'
    BY <1>1, <1>3, <2>1, <2>2, <2>3 DEF HInv, DurableAnswers
  <2>10. \A q \in Key : RecordStays(q)
    BY <1>1 DEF RecordStays
  <2> QED BY <2>6, <2>7, <2>8, <2>9, <2>10 DEF HInv
<1> QED BY <1>2, <1>3 DEF Tell

\* A restarted process knows of a session what the file says.
LEMMA LoadedFacts ==
  ASSUME NEW f \in StoredSession, f.lifecycle = "terminal" <=> f.outcome # None
  PROVE  /\ Loaded(f) \in Session
         /\ Loaded(f).failed \/ Loaded(f).outcome # None => Loaded(f).done
         /\ f.lifecycle # "awaiting_proposal" => Loaded(f).done
         /\ Loaded(f).outcome = f.outcome /\ Loaded(f).context = f.context
  BY DEF Loaded, StoredSession, Session

LEMMA CrashLemma ==
  ASSUME HInv, Crash
  PROVE  HInv' /\ \A q \in Key : RecordStays(q)
<1>1. /\ UNCHANGED <<journal, decision, result, ttl, faults, stored, answers>>
      /\ sessions' = LoadedSessions /\ runner' = [k \in Key |-> Stopped]
      /\ lock' = None /\ call' = [c \in Client |-> NoCall] /\ crashes' = crashes + 1
  BY DEF Crash
<1>2. \A k \in Key : /\ stored[k] = None => sessions'[k] = None
                     /\ stored[k] # None => sessions'[k] = Loaded(stored[k])
  BY <1>1 DEF LoadedSessions
<1>3. \A k \in Key : stored[k] # None =>
        /\ stored[k] \in StoredSession
        /\ stored[k].lifecycle = "terminal" <=> stored[k].outcome # None
  BY DEF HInv, TypeOK
<1>4. \A k \in Key : stored[k] # None =>
        /\ sessions'[k] \in Session /\ sessions'[k] # None
        /\ sessions'[k].failed \/ sessions'[k].outcome # None => sessions'[k].done
        /\ stored[k].lifecycle # "awaiting_proposal" => sessions'[k].done
        /\ sessions'[k].outcome = stored[k].outcome
        /\ sessions'[k].context = stored[k].context
  BY <1>2, <1>3, LoadedFacts, NoneFacts
<1>5. sessions' \in [Key -> Session \cup {None}]
  <2>1. \A k \in Key : sessions'[k] \in Session \cup {None}
    BY <1>2, <1>4
  <2> QED BY <1>1, <2>1 DEF LoadedSessions
<1>6. TypeOK'
  <2>1. \A k \in Key : sessions'[k] # None =>
          (sessions'[k].failed \/ sessions'[k].outcome # None => sessions'[k].done)
    BY <1>2, <1>4
  <2> QED BY <1>1, <1>5, <2>1, StoppedFacts, NoCallFacts DEF HInv, TypeOK
<1>7. RunnersLive' /\ LockIsHeld' /\ JournalIsOpen'
  BY <1>1, StoppedFacts
  DEF HInv, RunnersLive, LockIsHeld, JournalIsOpen, Inside, AtWork, Undecided
<1>8. NoContextYet'
  <2>1. ASSUME journal' = "none", NEW k \in Key
        PROVE  /\ sessions'[k] # None => ~ sessions'[k].context
               /\ stored'[k] # None => ~ stored'[k].context
    <3>1. stored'[k] # None => ~ stored'[k].context
      BY <1>1, <2>1 DEF HInv, NoContextYet
    <3>2. stored[k] # None => ~ stored[k].context
      BY <1>1, <2>1 DEF HInv, NoContextYet
    <3>3. sessions'[k] # None => ~ sessions'[k].context
      BY <1>2, <1>4, <3>2
    <3> QED BY <3>1, <3>3
  <2>2. ASSUME NEW r \in Key PROVE runner'[r].pc \notin {"tools", "asking"}
    BY <1>1, StoppedFacts
  <2> QED BY <2>1, <2>2 DEF NoContextYet
<1>9. FileTellsMemory'
  BY <1>1, <1>4 DEF FileTellsMemory
<1>10. CallsTellMemory'
  BY <1>1, NoCallFacts DEF CallsTellMemory
<1>11. DurableAnswers'
  BY <1>1 DEF HInv, DurableAnswers
<1>12. \A q \in Key : RecordStays(q)
  BY <1>1 DEF RecordStays
<1> QED BY <1>6, <1>7, <1>8, <1>9, <1>10, <1>11, <1>12 DEF HInv

LEMMA QuietLemma ==
  ASSUME HInv, UNCHANGED hostVars,
         UNCHANGED <<journal, decision, result, lock, runner, faults>>,
         ttl' \in {"unset", "running", "over"}
  PROVE  HInv' /\ \A q \in Key : RecordStays(q)
<1>1. UNCHANGED <<sessions, stored, call, answers, crashes>>
  BY DEF hostVars
<1>2. TypeOK'
  BY <1>1 DEF HInv, TypeOK
<1>3. /\ RunnersLive' /\ LockIsHeld' /\ JournalIsOpen' /\ NoContextYet'
      /\ FileTellsMemory' /\ DurableAnswers' /\ CallsTellMemory'
  BY <1>1 DEF HInv, RunnersLive, LockIsHeld, JournalIsOpen, NoContextYet, FileTellsMemory,
         DurableAnswers, CallsTellMemory
<1>4. \A q \in Key : RecordStays(q)
  BY <1>1 DEF RecordStays
<1> QED BY <1>2, <1>3, <1>4 DEF HInv

-----------------------------------------------------------------------------
LEMMA NextHost ==
  ASSUME HInv, [Next]_vars
  PROVE  HInv' /\ \A q \in Key : RecordStays(q)
<1>1. ASSUME NEW r \in Key, AgentActs(r)
      PROVE  HInv' /\ \A q \in Key : RecordStays(q)
  BY <1>1, AgentKeeps
<1>2. ASSUME NEW r \in Key, HostStep(r)
      PROVE  HInv' /\ \A q \in Key : RecordStays(q)
  BY <1>2, ResolveLemma, AwaitLemma, EndLemma DEF HostStep
<1>3. ASSUME NEW c \in Client, ContextIsAsked(c)
      PROVE  HInv' /\ \A q \in Key : RecordStays(q)
  BY <1>3, GetContextLemma DEF ContextIsAsked
<1>4. ASSUME NEW c \in Client, ProposalIsMade(c)
      PROVE  HInv' /\ \A q \in Key : RecordStays(q)
  BY <1>4, CallLemma DEF ProposalIsMade
<1>5. ASSUME NEW c \in Client, ToolStep(c)
      PROVE  HInv' /\ \A q \in Key : RecordStays(q)
  BY <1>5, CallLemma, ProposeLemma, TellLemma DEF ToolStep
<1>6. CASE Expire /\ UNCHANGED hostVars
  BY <1>6, QuietLemma DEF Expire
<1>7. CASE Crash
  BY <1>7, CrashLemma
<1>8. CASE UNCHANGED vars
  BY <1>8, HostTypes, QuietLemma DEF vars, agentVars
<1> QED BY <1>1, <1>2, <1>3, <1>4, <1>5, <1>6, <1>7, <1>8 DEF Next

\* The inductive invariant.
THEOREM HostInvariance == Spec => []HInv
<1>1. Init => HInv
  BY InitHostInv
<1>2. HInv /\ [Next]_vars => HInv'
  BY NextHost
<1> QED BY <1>1, <1>2, PTL DEF Spec

\* Type correctness, and that no record on file is one its validator refuses.
THEOREM HostTypeCorrect == Spec => []TypeOK
<1>1. HInv => TypeOK
  BY DEF HInv
<1> QED BY <1>1, HostInvariance, PTL

\* An answer the Host has seen is on file, whatever fails or crashes afterwards.
THEOREM AnswersAreDurable == Spec => []DurableAnswers
<1>1. HInv => DurableAnswers
  BY DEF HInv
<1> QED BY <1>1, HostInvariance, PTL

\* A session is asked for a context once, also when its runner was started again.
THEOREM ContextIsAskedOnce == Spec => []OneContext
<1>1. HInv => OneContext
  BY DEF HInv, NoContextYet, OneContext, At
<1> QED BY <1>1, HostInvariance, PTL

\* No step changes a session record that is final: runners, late proposals, adopted
\* outcomes and restarted processes leave it alone.
THEOREM RecordsAreFinal == Spec => FinalRecordsStay
<1>1. HInv /\ [Next]_vars =>
        [\A k \in Key :
           stored[k] # None /\ stored[k].lifecycle # "awaiting_proposal" =>
             /\ stored'[k] # None
             /\ stored'[k].lifecycle = stored[k].lifecycle
             /\ stored'[k].outcome = stored[k].outcome]_vars
  BY NextHost DEF RecordStays
<1> QED BY <1>1, HostInvariance, PTL DEF Spec, FinalRecordsStay

LEMMA DecidedStep ==
  ASSUME HInv, [Next]_vars, decision # None
  PROVE  decision' = decision
<1>1. ASSUME NEW r \in Key, AgentStep(r) PROVE decision' = decision
  <2>1. ASSUME Decide(r) PROVE decision = None
    BY <1>1, <2>1, InsideFacts DEF Decide, At, Undecided
  <2> QED BY <1>1, <2>1
      DEF AgentStep, Pipeline, ReturnPublished, Recover, RefuseUnfinished, FirstRun,
          Tools, Refused, Recommend, Abandon, Publish
<1>2. ASSUME NEW r \in Key, HostStep(r) PROVE decision' = decision
  BY <1>2 DEF HostStep, Resolve, Await, RunnerRaised, RunnerReturned, ReplayOther, Conclude
<1>3. ASSUME NEW c \in Client, ContextIsAsked(c) \/ ProposalIsMade(c) \/ ToolStep(c)
      PROVE  decision' = decision
  BY <1>3 DEF ContextIsAsked, ProposalIsMade, ToolStep, GetContext, Submit, GotContext,
              Propose, WaitEnds, TimesOut, Tell, agentVars
<1>4. Expire \/ Crash \/ UNCHANGED vars => decision' = decision
  BY DEF Expire, Crash, vars, agentVars
<1> QED BY <1>1, <1>2, <1>3, <1>4 DEF Next, AgentActs

\* The one decision of the run is final, too.
THEOREM DecisionIsFinalForGood == Spec => DecidedOnce
<1>1. HInv /\ [Next]_vars => [decision # None => decision' = decision]_vars
  BY DecidedStep
<1> QED BY <1>1, HostInvariance, PTL DEF Spec, DecidedOnce

-----------------------------------------------------------------------------
(* One verdict *)

\* While a runner is at work, no result has been published.
Unpublished == \A r \in Key : runner[r].pc \in Inside => result = None

\* An outcome but no_action is that of the one decision, whoever's session has it.
OutcomesTellDecision ==
  \A k \in Key :
    sessions[k] # None /\ sessions[k].outcome \notin {None, NoAction} =>
      decision # None /\ sessions[k].outcome = DecisionOutcome(decision.proposal)

VerdictInv == Unpublished /\ OutcomesTellDecision

LEMMA OneInside ==
  ASSUME HInv, NEW r \in Key, NEW q \in Key, runner[q].pc \in Inside,
         runner[r].pc \in Inside \/ lock = None
  PROVE  r = q
  BY InsideFacts, NoneFacts

LEMMA AgentUnpublished ==
  ASSUME HInv, Unpublished, NEW r \in Key, AgentActs(r)
  PROVE  /\ Unpublished'
         /\ result' # result => runner[r].pc = "publishing" /\ result = None
<1>1. runner \in [Key -> Runner]
  BY HostTypes
<1>2. AgentStep(r) /\ \A q \in Key \ {r} : runner'[q] = runner[q]
  BY <1>1 DEF AgentActs, AgentStep, Pipeline, ReturnPublished, Recover, RefuseUnfinished,
     FirstRun, Tools, Refused, Decide, Recommend, Abandon, Publish, Review, Goto, End
<1>3. CASE Publish(r)
  <2>1. runner[r].pc = "publishing" /\ runner'[r].pc \in {"returned", "raised"}
    BY <1>1, <1>3 DEF Publish, At, Goto, Runner
  <2>2. \A q \in Key : runner'[q].pc \notin Inside
    BY <1>2, <2>1, OneInside DEF Inside, AtWork, Undecided
  <2> QED BY <2>1, <2>2 DEF Unpublished, Inside
<1>4. CASE Recover(r) \/ FirstRun(r)
  BY <1>4 DEF Recover, FirstRun, Unpublished
<1>5. CASE ReturnPublished(r) \/ RefuseUnfinished(r) \/ Pipeline(r)
  <2>1. runner'[r].pc \in {"returned", "raised", "entering"} /\ result' = result
    BY <1>1, <1>5 DEF ReturnPublished, RefuseUnfinished, Pipeline, Goto, End, Runner
  <2> QED BY <1>2, <2>1 DEF Unpublished, Inside, AtWork, Undecided
<1>6. CASE Tools(r) \/ Refused(r) \/ Decide(r) \/ Recommend(r) \/ Abandon(r)
  <2>1. runner[r].pc \in Inside /\ result' = result
    BY <1>6 DEF Tools, Refused, Decide, Recommend, Abandon, At, Inside, AtWork, Undecided
  <2> QED BY <1>2, <2>1 DEF Unpublished
<1> QED BY <1>2, <1>3, <1>4, <1>5, <1>6 DEF AgentStep

LEMMA HostUnpublished ==
  ASSUME HInv, Unpublished, NEW r \in Key, HostStep(r)
  PROVE  Unpublished' /\ result' = result
<1>1. runner \in [Key -> Runner]
  BY HostTypes
<1>2. result' = result /\ \A q \in Key \ {r} : runner'[q] = runner[q]
  BY <1>1 DEF HostStep, Resolve, Await, RunnerRaised, RunnerReturned, ReplayOther, Conclude, Goto
<1>3. runner'[r].pc \in Inside => runner[r].pc \in Inside
  BY <1>1, StoppedFacts DEF HostStep, Resolve, Await, RunnerRaised, RunnerReturned,
     ReplayOther, Conclude, Goto, At, Inside, AtWork, Undecided
<1> QED BY <1>2, <1>3 DEF Unpublished

LEMMA UnpublishedStep ==
  ASSUME HInv, Unpublished, [Next]_vars
  PROVE  Unpublished'
<1>1. ASSUME NEW c \in Client, ContextIsAsked(c)
      PROVE  Unpublished'
  <2>1. PICK k \in Key :
           result' = result /\ (runner' = runner \/ Goto(k, "pipeline"))
    BY <1>1 DEF ContextIsAsked, GetContext
  <2>2. CASE Goto(k, "pipeline")
    <3>1. runner'[k].pc = "pipeline" /\ \A q \in Key \ {k} : runner'[q] = runner[q]
      BY <2>2, HostTypes DEF Goto, Runner
    <3> QED BY <2>1, <3>1 DEF Unpublished, Inside, AtWork, Undecided
  <2> QED BY <2>1, <2>2 DEF Unpublished
<1>2. ASSUME NEW c \in Client, ProposalIsMade(c) \/ ToolStep(c)
      PROVE  UNCHANGED <<runner, result>>
  BY <1>2 DEF ProposalIsMade, ToolStep, Submit, GotContext, Propose, WaitEnds, TimesOut,
              Tell, agentVars
<1>3. Expire \/ UNCHANGED vars => UNCHANGED <<runner, result>>
  BY DEF Expire, vars, agentVars
<1>4. CASE Crash
  BY <1>4, StoppedFacts DEF Crash, Unpublished, Inside, AtWork, Undecided
<1>5. UNCHANGED <<runner, result>> => Unpublished'
  BY DEF Unpublished
<1> QED BY <1>1, <1>2, <1>3, <1>4, <1>5, AgentUnpublished, HostUnpublished DEF Next

\* Whose outcome a step changes, and to what.
OutcomeIsNew(k) == sessions'[k] # None /\ sessions'[k].outcome \notin {None, NoAction}

LEMMA ConcludeOutcome ==
  ASSUME HInv, NEW r \in Key, NEW s \in Session, Conclude(r, s),
         NEW k \in Key, OutcomeIsNew(k)
  PROVE  IF k = r THEN sessions'[k].outcome = s.outcome ELSE sessions'[k] = sessions[k]
  BY DEF Conclude, Remember, Session, HInv, TypeOK

LEMMA OutcomeStep ==
  ASSUME HInv, OutcomesTellDecision, [Next]_vars, NEW k \in Key, OutcomeIsNew(k)
  PROVE  decision # None /\ sessions'[k].outcome = DecisionOutcome(decision.proposal)
<1> USE DEF OutcomeIsNew
<1>0. sessions \in [Key -> Session \cup {None}] /\ stored \in [Key -> StoredSession \cup {None}]
  BY DEF HInv, TypeOK
<1>1. ASSUME sessions[k] # None, sessions'[k].outcome = sessions[k].outcome
      PROVE  decision # None /\ sessions'[k].outcome = DecisionOutcome(decision.proposal)
  BY <1>1 DEF OutcomesTellDecision
<1>2. ASSUME NEW r \in Key, Resolve(r) \/ Await(r)
      PROVE  sessions[k] # None /\ sessions'[k].outcome = sessions[k].outcome
  <2>1. CASE Await(r)
    BY <2>1 DEF Await, hostVars
  <2>2. CASE Resolve(r)
    <3>1. sessions[r] \in Session
      BY <2>2, RunnerFacts DEF Resolve, At
    <3> QED BY <1>0, <2>2, <3>1, NoneFacts DEF Resolve, Remember, Session
  <2> QED BY <1>2, <2>1, <2>2
<1>3. ASSUME NEW r \in Key, RunnerRaised(r) \/ RunnerReturned(r) \/ ReplayOther(r)
      PROVE  decision # None /\ sessions'[k].outcome = DecisionOutcome(decision.proposal)
  <2> DEFINE s == sessions[r]
             x == runner[r].result
  <2>1. s \in Session /\ s.outcome = None
    BY <1>3, RunnerFacts DEF RunnerRaised, RunnerReturned, ReplayOther, At
  <2>2. ASSUME NEW t \in Session, Conclude(r, t),
               \/ t.outcome \in {None, NoAction}
               \/ decision # None /\ t.outcome = DecisionOutcome(decision.proposal)
        PROVE  decision # None /\ sessions'[k].outcome = DecisionOutcome(decision.proposal)
    BY <1>1, <2>2, ConcludeOutcome
  <2>3. Failure(s) \in Session /\ Failure(s).outcome = None
    BY <2>1 DEF Failure, Session
  <2>4. \A o \in Outcome : DoneWith(s, o) \in Session /\ DoneWith(s, o).outcome = o
    BY <2>1 DEF DoneWith, Session
  <2> HIDE DEF s, x
  <2>5. CASE RunnerRaised(r)
    BY <2>2, <2>3, <2>5 DEF RunnerRaised, s
  <2>6. CASE RunnerReturned(r)
    <3>1. CASE s.proposal # None /\ Replays(s.proposal, x)
      <4>1. decision # None /\ decision.proposal = s.proposal /\ s.proposal \in Proposal
        BY <2>1, <3>1 DEF Replays, Session
      <4>2. Conclude(r, DoneWith(s, DecisionOutcome(s.proposal)))
        BY <2>6, <3>1 DEF RunnerReturned, s, x
      <4> QED BY <2>2, <2>4, <4>1, <4>2, OutcomeFacts
    <3>2. CASE ~(s.proposal # None /\ Replays(s.proposal, x))
      <4>1. Conclude(r, Failure(s))
        BY <2>6, <3>2 DEF RunnerReturned, s, x
      <4> QED BY <2>2, <2>3, <4>1
    <3> QED BY <3>1, <3>2
  <2>7. CASE ReplayOther(r)
    <3>1. ASSUME NEW o \in Adoptable(x), Conclude(r, [DoneWith(s, o) EXCEPT !.context = TRUE])
          PROVE  decision # None /\ sessions'[k].outcome = DecisionOutcome(decision.proposal)
      <4>1. PICK q \in Key : /\ sessions[q] # None /\ o = sessions[q].outcome
                             /\ o \in Outcome
        BY <3>1 DEF Adoptable, Finished
      <4>2. o = NoAction \/ (decision # None /\ o = DecisionOutcome(decision.proposal))
        BY <4>1, NoneFacts DEF OutcomesTellDecision
      <4>3. /\ [DoneWith(s, o) EXCEPT !.context = TRUE] \in Session
            /\ [DoneWith(s, o) EXCEPT !.context = TRUE].outcome = o
        BY <2>1, <4>1 DEF DoneWith, Session
      <4> QED BY <2>2, <3>1, <4>1, <4>2, <4>3
    <3>2. \/ \E o \in Adoptable(x) : Conclude(r, [DoneWith(s, o) EXCEPT !.context = TRUE])
          \/ Conclude(r, DoneWith(s, NoAction))
          \/ Conclude(r, Failure(s))
      BY <2>7 DEF ReplayOther, s, x
    <3> QED BY <2>2, <2>3, <2>4, <3>1, <3>2, OutcomeFacts
  <2> QED BY <1>3, <2>5, <2>6, <2>7
<1>4. ASSUME NEW c \in Client, ContextIsAsked(c)
      PROVE  sessions[k] # None /\ sessions'[k].outcome = sessions[k].outcome
  <2>1. PICK q \in Key : GetContext(c, q)
    BY <1>4 DEF ContextIsAsked
  <2>2. SessionOf(q) \in Session /\ (sessions[q] = None => SessionOf(q).outcome = None)
    BY <1>0 DEF SessionOf, NewSession, Session
  <2> QED BY <1>0, <2>1, <2>2 DEF GetContext, Remember, SessionOf, Session
<1>5. ASSUME NEW c \in Client, ToolStep(c) \/ ProposalIsMade(c)
      PROVE  sessions[k] # None /\ sessions'[k].outcome = sessions[k].outcome
  <2>1. CASE Propose(c)
    <3>1. call[c].key \in Key /\ sessions[call[c].key] \in Session
      BY <2>1, CallFacts DEF Propose
    <3>2. \/ sessions' = sessions
          \/ Remember(call[c].key, [sessions[call[c].key] EXCEPT !.proposal = call[c].proposal])
      BY <2>1 DEF Propose
    <3> QED BY <1>0, <3>1, <3>2, NoneFacts DEF Remember, Session
  <2>2. CASE GotContext(c) \/ WaitEnds(c) \/ TimesOut(c) \/ Tell(c) \/ ProposalIsMade(c)
    BY <2>2 DEF GotContext, WaitEnds, TimesOut, Tell, ProposalIsMade, Submit
  <2> QED BY <1>5, <2>1, <2>2 DEF ToolStep
<1>6. ASSUME Crash
      PROVE  sessions[k] # None /\ sessions'[k].outcome = sessions[k].outcome
  <2>1. stored[k] # None /\ sessions'[k] = Loaded(stored[k])
    BY <1>6 DEF Crash, LoadedSessions
  <2>2. stored[k].outcome # None
    BY <2>1 DEF Loaded
  <2> QED BY <1>0, <2>1, <2>2 DEF HInv, TypeOK, FileTellsMemory, Loaded
<1>7. ASSUME \/ \E r \in Key : AgentActs(r)
             \/ Expire /\ UNCHANGED hostVars
             \/ UNCHANGED vars
      PROVE  sessions' = sessions
  BY <1>7 DEF AgentActs, vars, hostVars
<1> QED BY <1>1, <1>2, <1>3, <1>4, <1>5, <1>6, <1>7 DEF Next, HostStep

LEMMA VerdictStep ==
  ASSUME HInv, VerdictInv, [Next]_vars
  PROVE  VerdictInv'
<1>1. Unpublished'
  BY UnpublishedStep DEF VerdictInv
<1>2. OutcomesTellDecision'
  <2>1. OutcomesTellDecision
    BY DEF VerdictInv
  <2>2. \A k \in Key : OutcomeIsNew(k) =>
          decision # None /\ sessions'[k].outcome = DecisionOutcome(decision.proposal)
    BY <2>1, OutcomeStep
  <2>3. decision # None => decision' = decision
    BY DecidedStep
  <2>4. decision # None =>
          DecisionOutcome(decision.proposal)' = DecisionOutcome(decision.proposal)
    BY DecidedStep DEF DecisionOutcome
  <2> QED BY <2>2, <2>3, <2>4 DEF OutcomesTellDecision, OutcomeIsNew
<1> QED BY <1>1, <1>2 DEF VerdictInv

\* A result is published after its decision was taken, so the verdict is not changed.
LEMMA DecisionUnchanged ==
  ASSUME HInv, VerdictInv, [Next]_vars, result # None
  PROVE  decision' = decision
<1>1. ASSUME NEW r \in Key, AgentStep(r) PROVE decision' = decision
  <2>1. ~ Decide(r)
    BY DEF VerdictInv, Unpublished, Decide, At, Inside, AtWork, Undecided
  <2> QED BY <1>1, <2>1
      DEF AgentStep, Pipeline, ReturnPublished, Recover, RefuseUnfinished, FirstRun,
          Tools, Refused, Recommend, Abandon, Publish
<1>2. ASSUME NEW r \in Key, HostStep(r) PROVE decision' = decision
  BY <1>2 DEF HostStep, Resolve, Await, RunnerRaised, RunnerReturned, ReplayOther, Conclude
<1>3. ASSUME NEW c \in Client, ContextIsAsked(c) \/ ProposalIsMade(c) \/ ToolStep(c)
      PROVE  decision' = decision
  BY <1>3 DEF ContextIsAsked, ProposalIsMade, ToolStep, GetContext, Submit, GotContext,
              Propose, WaitEnds, TimesOut, Tell, agentVars
<1>4. Expire \/ Crash \/ UNCHANGED vars => decision' = decision
  BY DEF Expire, Crash, vars, agentVars
<1> QED BY <1>1, <1>2, <1>3, <1>4 DEF Next, AgentActs

LEMMA VerdictUnchanged ==
  ASSUME HInv, VerdictInv, [Next]_vars, result' = result
  PROVE  Verdict' = Verdict
<1>1. CASE result = None
  BY <1>1 DEF Verdict
<1>2. CASE result # None
  <2>1. decision' = decision
    BY <1>2, DecisionUnchanged
  <2> QED BY <2>1 DEF Verdict, Agrees, DecisionOutcome
<1> QED BY <1>1, <1>2

LEMMA VerdictType ==
  ASSUME HInv, result # None
  PROVE  Verdict \in Host!Outcome \cup {Host!Unavailable}
<1>1. decision # None => DecisionOutcome(decision.proposal) \in Outcome
  BY HostTypes, OutcomeFacts DEF Decision
<1>2. /\ NoAction \in Outcome /\ Host!Outcome = Outcome
      /\ Host!Unavailable = [status |-> "unavailable", proposal |-> None]
  BY OutcomeFacts DEF Outcome, Host!Outcome, NoAction, Host!NoAction, Host!Unavailable
<1> QED BY <1>1, <1>2 DEF Verdict

LEMMA AnswersFrame ==
  ASSUME [Next]_vars
  PROVE  answers' = answers \/ \E c \in Client : Tell(c)
<1>1. ASSUME NEW r \in Key, AgentActs(r) \/ HostStep(r) PROVE answers' = answers
  BY <1>1 DEF AgentActs, hostVars, HostStep, Resolve, Await, RunnerRaised, RunnerReturned,
              ReplayOther, Conclude
<1>2. ASSUME NEW c \in Client, ContextIsAsked(c) \/ ProposalIsMade(c) \/ ToolStep(c)
      PROVE  answers' = answers \/ Tell(c)
  BY <1>2 DEF ContextIsAsked, ProposalIsMade, ToolStep, GetContext, Submit, GotContext,
              Propose, WaitEnds, TimesOut
<1>3. (Expire /\ UNCHANGED hostVars) \/ Crash \/ UNCHANGED vars => answers' = answers
  BY DEF Expire, Crash, vars, hostVars
<1> QED BY <1>1, <1>2, <1>3 DEF Next

LEMMA ResultFrame ==
  ASSUME HInv, VerdictInv, [Next]_vars
  PROVE  result' = result \/ (result = None /\ UNCHANGED answers /\ result' \in AgentResult)
<1>1. ASSUME NEW r \in Key, AgentActs(r), result' # result
      PROVE  result = None /\ UNCHANGED answers /\ result' \in AgentResult
  <2>1. result = None /\ UNCHANGED answers
    BY <1>1, AgentUnpublished DEF VerdictInv, AgentActs, hostVars
  <2>2. HInv'
    BY <1>1, AgentActsLemma
  <2>3. result' \in AgentResult \cup {None}
    BY <2>2 DEF HInv, TypeOK
  <2> QED BY <1>1, <2>1, <2>3
<1>2. ASSUME NEW r \in Key, HostStep(r) PROVE result' = result
  BY <1>2, HostUnpublished DEF VerdictInv
<1>3. ASSUME NEW c \in Client, ContextIsAsked(c) \/ ProposalIsMade(c) \/ ToolStep(c)
      PROVE  result' = result
  BY <1>3 DEF ContextIsAsked, ProposalIsMade, ToolStep, GetContext, Submit, GotContext,
              Propose, WaitEnds, TimesOut, Tell, agentVars
<1>4. Expire \/ Crash \/ UNCHANGED vars => result' = result
  BY DEF Expire, Crash, vars, agentVars
<1> QED BY <1>1, <1>2, <1>3, <1>4 DEF Next

\* What a call tells the Host has passed the report check, and so is the verdict.
LEMMA TellsVerdict ==
  ASSUME HInv, VerdictInv, NEW c \in Client, Tell(c), answers' # answers
  PROVE  \E k \in Key, p \in Proposal \cup {None} : Host!Answer(k, p)
<1> DEFINE k == call[c].key
           o == call[c].outcome
<1>1. /\ call[c].pc = "report" /\ Reportable(k)
      /\ answers' = answers \cup {[key |-> k, outcome |-> o]}
      /\ UNCHANGED <<decision, result>>
  BY DEF Tell
<1>2. /\ k \in Key /\ o \in Outcome /\ sessions[k] # None
      /\ sessions[k].done /\ sessions[k].outcome = o
  BY <1>1, CallFacts, NoneFacts
<1>3. o # None
  BY <1>2, NoneFacts
<1>4. stored[k] # None /\ stored[k].lifecycle = "terminal" /\ stored[k].outcome = o
  BY <1>1, <1>2, <1>3 DEF Reportable, HInv, FileTellsMemory, TypeOK
<1>5. ResultOf(o) = result
  BY <1>1, <1>2, <1>4 DEF Reportable
<1>6. Verdict = o
  <2>1. CASE o = NoAction
    <3>1. result = "no_action"
      BY <1>5, <2>1 DEF ResultOf, NoAction
    <3> QED BY <2>1, <3>1, NoneAssumption DEF Verdict, AgentResult
  <2>2. CASE o # NoAction
    <3>1. decision # None /\ o = DecisionOutcome(decision.proposal)
      BY <1>2, <1>3, <2>2 DEF VerdictInv, OutcomesTellDecision
    <3>2. result = IF decision.accepted THEN "approved" ELSE "rejected"
      BY <1>5, <3>1 DEF ResultOf, DecisionOutcome
    <3> QED BY <3>1, <3>2, NoneAssumption DEF Verdict, AgentResult, Agrees
  <2> QED BY <2>1, <2>2
<1>7. Host!Outcome = Outcome /\ o.proposal \in Proposal \cup {None}
  BY <1>2 DEF Outcome, Host!Outcome, NoAction, Host!NoAction
<1>8. Verdict' = Verdict
  BY <1>1 DEF Verdict, Agrees, DecisionOutcome
<1>9. Host!Answer(k, o.proposal)
  <2> HIDE DEF k, o
  <2> QED BY <1>1, <1>2, <1>6, <1>7, <1>8 DEF Host!Answer, k, o
<1> QED BY <1>2, <1>7, <1>9

LEMMA RefinesAnswers ==
  ASSUME HInv, VerdictInv, [Next]_vars
  PROVE  [Host!AnswersNext]_(Host!answersVars)
<1>1. CASE result' # result
  <2>1. result = None /\ UNCHANGED answers /\ result' # None
    BY <1>1, ResultFrame
  <2>2. HInv'
    BY NextHost
  <2>3. Verdict = None
    BY <2>1 DEF Verdict
  <2>4. (HInv /\ result # None)' => (Verdict \in Host!Outcome \cup {Host!Unavailable})'
    BY VerdictType, PTL
  <2> QED BY <2>1, <2>2, <2>3, <2>4
          DEF Host!AnswersNext, Host!Seal, Host!Outcome, Host!Unavailable, Host!NoAction
<1>2. CASE result' = result /\ answers' # answers
  BY <1>2, AnswersFrame, TellsVerdict DEF Host!AnswersNext
<1>3. CASE result' = result /\ answers' = answers
  BY <1>3, VerdictUnchanged DEF Host!answersVars
<1> QED BY <1>1, <1>2, <1>3

LEMMA InitVerdict == Init => VerdictInv /\ Host!AnswersInit
  BY StoppedFacts DEF Init, AgentInit, VerdictInv, Unpublished, OutcomesTellDecision, Inside,
     AtWork, Undecided, Host!AnswersInit, Verdict

\* HostDecision implements HostAnswers: all keys, calls and restarts give one verdict, that
\* of the published result and its evidence, and a decision only to the proposal decided.
THEOREM AnswersAreTheVerdict == Spec => OneVerdict
<1>1. Init => HInv /\ VerdictInv /\ Host!AnswersInit
  BY InitHostInv, InitVerdict
<1>2. HInv /\ VerdictInv /\ [Next]_vars => HInv' /\ VerdictInv'
  BY NextHost, VerdictStep
<1>3. HInv /\ VerdictInv /\ [Next]_vars => [Host!AnswersNext]_(Host!answersVars)
  BY RefinesAnswers
<1> QED BY <1>1, <1>2, <1>3, PTL DEF Spec, OneVerdict, Host!AnswersSpec

-----------------------------------------------------------------------------
(* A run in which nothing fails *)

\* Nothing has failed so far.
InCalm == faults = 0 /\ crashes = 0

\* Until the runner has asked, no session at all has a context.
NobodyAsked ==
  \A r, k \in Key :
    runner[r].pc \in {"tools", "asking"} /\ sessions[k] # None => ~ sessions[k].context

NothingFails ==
  /\ journal # "failed" /\ result # "failed"
  /\ \A r \in Key : runner[r].pc # "raised" /\ runner[r].result # "failed"

\* An open journal has a runner that will close it.
RunGoesOn == journal = "open" => \E r \in Key : runner[r].pc \in AtWork

\* How far the runner of a session has come with its proposal.
Followed(k) ==
  IF sessions[k].proposal = None
  THEN \/ runner[k].pc = "waiting"
       \/ ttl = "over" /\ runner[k].pc \in {"refused", "publishing", "returned"}
  ELSE \/ runner[k].pc = "waiting"
       \/ runner[k].pc = "proposed" /\ runner[k].proposal = sessions[k].proposal
       \/ /\ runner[k].pc = "decided"
          /\ decision # None /\ decision.proposal = sessions[k].proposal
       \/ /\ runner[k].pc \in {"publishing", "returned"}
          /\ Replays(sessions[k].proposal, runner[k].result)

SessionGoesOn(k) ==
  sessions[k] # None =>
    /\ sessions[k].runner_started
    /\ sessions[k].proposal # None => sessions[k].context /\ ~ sessions[k].failed
    /\ sessions[k].context /\ ~ sessions[k].done => Followed(k)

AllGoesOn == NothingFails /\ RunGoesOn /\ \A k \in Key : SessionGoesOn(k)

CalmInv == NobodyAsked /\ (InCalm => AllGoesOn)

Asking == {"tools", "asking"}
HasContext(k) == sessions[k] # None /\ sessions[k].context

LEMMA AgentLocal ==
  ASSUME HInv, NEW r \in Key, AgentStep(r)
  PROVE  \A q \in Key \ {r} : runner'[q] = runner[q]
<1>1. runner \in [Key -> Runner]
  BY HostTypes
<1> QED BY <1>1 DEF AgentStep, Pipeline, ReturnPublished, Recover, RefuseUnfinished,
     FirstRun, Tools, Refused, Decide, Recommend, Abandon, Publish, Review, Goto, End

\* A runner starts to work before a journal, and so before a context.
LEMMA AskerStep ==
  ASSUME HInv, [Next]_vars, NEW r \in Key, runner'[r].pc \in Asking
  PROVE  \/ runner[r].pc \in Asking
         \/ journal = "none" /\ sessions' = sessions
<1>0. runner \in [Key -> Runner]
  BY HostTypes
<1>1. ASSUME NEW q \in Key, AgentActs(q)
      PROVE  runner[r].pc \in Asking \/ (journal = "none" /\ sessions' = sessions)
  <2>1. sessions' = sessions /\ AgentStep(q)
    BY <1>1 DEF AgentActs, hostVars
  <2>2. CASE q # r
    BY <2>1, <2>2, AgentLocal
  <2>3. CASE q = r
    <3>1. CASE FirstRun(r)
      BY <2>1, <3>1 DEF FirstRun
    <3>2. CASE Tools(r)
      BY <3>2 DEF Tools, At, Asking
    <3>3. CASE Pipeline(r) \/ ReturnPublished(r) \/ RefuseUnfinished(r) \/ Recover(r)
      BY <1>0, <3>3 DEF Pipeline, ReturnPublished, Recover, RefuseUnfinished, Goto, End,
         Asking, Runner
    <3>4. CASE Refused(r) \/ Decide(r) \/ Recommend(r) \/ Abandon(r) \/ Publish(r)
      BY <1>0, <3>4 DEF Refused, Decide, Recommend, Abandon, Publish, Review, Goto, End,
         Asking, Runner
    <3> QED BY <2>1, <2>3, <3>1, <3>2, <3>3, <3>4 DEF AgentStep
  <2> QED BY <2>2, <2>3
<1>2. ASSUME NEW q \in Key, HostStep(q) PROVE runner[r].pc \in Asking
  BY <1>0, <1>2, StoppedFacts, ZenonT(60)
        DEF HostStep, Resolve, Await, RunnerRaised, RunnerReturned,
     ReplayOther, Conclude, Goto, Asking, Runner
<1>3. ASSUME NEW c \in Client, ContextIsAsked(c) PROVE runner[r].pc \in Asking
  BY <1>0, <1>3 DEF ContextIsAsked, GetContext, Goto, Asking, Runner
<1>4. ASSUME NEW c \in Client, ProposalIsMade(c) \/ ToolStep(c) PROVE runner' = runner
  BY <1>4 DEF ProposalIsMade, ToolStep, Submit, GotContext, Propose, WaitEnds, TimesOut,
              Tell, agentVars
<1>5. Expire \/ UNCHANGED vars => runner' = runner
  BY DEF Expire, vars, agentVars
<1>6. ~ Crash
  BY StoppedFacts DEF Crash, Asking
<1> QED BY <1>1, <1>2, <1>3, <1>4, <1>5, <1>6 DEF Next

\* A session gets a context from its runner, or adopts what another's came to.
LEMMA ContextStep ==
  ASSUME HInv, [Next]_vars, ~ Crash, NEW k \in Key, HasContext(k)'
  PROVE  (\E q \in Key : HasContext(q)) \/ Resolve(k)
<1> USE DEF HasContext
<1>0. sessions \in [Key -> Session \cup {None}]
  BY DEF HInv, TypeOK
<1>1. ASSUME NEW r \in Key, HostStep(r)
      PROVE  (\E q \in Key : HasContext(q)) \/ Resolve(k)
  <2>1. CASE Resolve(r)
    BY <1>0, <2>1 DEF Resolve, Remember
  <2>2. CASE Await(r)
    BY <2>2 DEF Await, hostVars
  <2>3. CASE RunnerRaised(r) \/ RunnerReturned(r)
    <3>1. sessions[r] \in Session
      BY <2>3, RunnerFacts DEF RunnerRaised, RunnerReturned, At
    <3>2. k # r => sessions'[k] = sessions[k]
      BY <1>0, <2>3 DEF RunnerRaised, RunnerReturned, Conclude, Remember
    <3>3. sessions'[r].context = sessions[r].context
      BY <1>0, <2>3, <3>1, ZenonT(60) DEF RunnerRaised, RunnerReturned, Conclude, Remember, Failure,
         DoneWith, Session
    <3> QED BY <3>1, <3>2, <3>3, NoneFacts
  <2>4. CASE ReplayOther(r)
    <3>1. sessions[r] \in Session /\ ~ sessions[r].context
      BY <2>4, RunnerFacts DEF ReplayOther, At
    <3>2. k # r => sessions'[k] = sessions[k]
      BY <1>0, <2>4 DEF ReplayOther, Conclude, Remember
    <3>3. \/ \E o \in Adoptable(runner[r].result) : TRUE
          \/ sessions'[r].context = sessions[r].context
      <4>1. ASSUME NEW s \in Session, Conclude(r, s), s.context = sessions[r].context
            PROVE  sessions'[r].context = sessions[r].context
        BY <1>0, <4>1 DEF Conclude, Remember, Session
      <4>2. /\ Failure(sessions[r]) \in Session
            /\ Failure(sessions[r]).context = sessions[r].context
            /\ DoneWith(sessions[r], NoAction) \in Session
            /\ DoneWith(sessions[r], NoAction).context = sessions[r].context
        BY <3>1, OutcomeFacts DEF Failure, DoneWith, Session
      <4>3. \/ \E o \in Adoptable(runner[r].result) : TRUE
            \/ Conclude(r, DoneWith(sessions[r], NoAction))
            \/ Conclude(r, Failure(sessions[r]))
        BY <2>4 DEF ReplayOther
      <4> QED BY <4>1, <4>2, <4>3
    <3>4. (\E o \in Adoptable(runner[r].result) : TRUE) => \E q \in Key : HasContext(q)
      BY DEF Adoptable, Finished
    <3> QED BY <3>1, <3>2, <3>3, <3>4
  <2> QED BY <1>1, <2>1, <2>2, <2>3, <2>4 DEF HostStep
<1>2. ASSUME NEW c \in Client, ContextIsAsked(c) PROVE HasContext(k)
  <2>1. PICK q \in Key : GetContext(c, q)
    BY <1>2 DEF ContextIsAsked
  <2>2. SessionOf(q) \in Session /\ (sessions[q] = None => ~ SessionOf(q).context)
    BY <1>0 DEF SessionOf, NewSession, Session
  <2> QED BY <1>0, <2>1, <2>2 DEF GetContext, Remember, SessionOf, Session
<1>3. ASSUME NEW c \in Client, ToolStep(c) \/ ProposalIsMade(c) PROVE HasContext(k)
  <2>1. CASE Propose(c)
    <3>1. call[c].key \in Key /\ sessions[call[c].key] \in Session
      BY <2>1, CallFacts DEF Propose
    <3>2. \/ sessions' = sessions
          \/ Remember(call[c].key, [sessions[call[c].key] EXCEPT !.proposal = call[c].proposal])
      BY <2>1 DEF Propose
    <3> QED BY <1>0, <3>1, <3>2, NoneFacts DEF Remember, Session
  <2>2. CASE GotContext(c) \/ WaitEnds(c) \/ TimesOut(c) \/ Tell(c) \/ ProposalIsMade(c)
    BY <2>2 DEF GotContext, WaitEnds, TimesOut, Tell, ProposalIsMade, Submit
  <2> QED BY <1>3, <2>1, <2>2 DEF ToolStep
<1>4. ASSUME (\E r \in Key : AgentActs(r)) \/ (Expire /\ UNCHANGED hostVars) \/ UNCHANGED vars
      PROVE  HasContext(k)
  BY <1>4 DEF AgentActs, vars, hostVars
<1> QED BY <1>1, <1>2, <1>3, <1>4 DEF Next

LEMMA NobodyAskedStep ==
  ASSUME HInv, NobodyAsked, [Next]_vars
  PROVE  NobodyAsked'
<1> SUFFICES ASSUME NEW r \in Key, NEW k \in Key, runner'[r].pc \in Asking, HasContext(k)'
             PROVE  FALSE
  BY DEF NobodyAsked, Asking, HasContext
<1>1. ~ Crash
  BY StoppedFacts DEF Crash, Asking
<1>2. CASE \E q \in Key : HasContext(q)
  <2>1. journal # "none"
    BY <1>2 DEF HInv, NoContextYet, HasContext
  <2>2. runner[r].pc \in Asking
    BY <2>1, AskerStep
  <2> QED BY <1>2, <2>2 DEF NobodyAsked, Asking, HasContext
<1>3. CASE Resolve(k)
  <2>1. runner[k].pc = "asking" /\ runner'[k].pc \in {"waiting", "refused"}
    BY <1>3, HostTypes DEF Resolve, At, Goto, Runner
  <2>2. \A q \in Key \ {k} : runner'[q] = runner[q]
    BY <1>3, HostTypes DEF Resolve, Goto
  <2>3. r # k
    BY <2>1 DEF Asking
  <2> QED BY <2>1, <2>2, <2>3, OneInside DEF Inside, AtWork, Undecided, Asking
<1> QED BY <1>1, <1>2, <1>3, ContextStep

\* One key's runner and session change, and nothing fails.
LEMMA CalmFrame ==
  ASSUME HInv, AllGoesOn, NEW r \in Key,
         \A q \in Key \ {r} : runner'[q] = runner[q] /\ sessions'[q] = sessions[q],
         decision # None => decision' = decision,
         \/ ttl = "over" => ttl' = "over"
         \/ \A k \in Key : ~ HasContext(k),
         journal' # "failed", result' # "failed",
         runner'[r].pc # "raised", runner'[r].result # "failed",
         \/ journal' # "open"
         \/ runner'[r].pc \in AtWork
         \/ journal = "open" /\ runner[r].pc \notin AtWork,
         SessionGoesOn(r)'
  PROVE  AllGoesOn'
<1>1. NothingFails'
  BY DEF AllGoesOn, NothingFails
<1>2. RunGoesOn'
  BY DEF AllGoesOn, RunGoesOn
<1>3. ASSUME NEW k \in Key, k # r PROVE SessionGoesOn(k)'
  <2>1. SessionGoesOn(k) /\ runner'[k] = runner[k] /\ sessions'[k] = sessions[k]
    BY <1>3 DEF AllGoesOn
  <2>2. HasContext(k) /\ Followed(k) => Followed(k)'
    BY <2>1 DEF Followed, Replays, Agrees, HasContext
  <2> QED BY <2>1, <2>2 DEF SessionGoesOn, HasContext
<1> QED BY <1>1, <1>2, <1>3 DEF AllGoesOn

\* What is not about runners and sessions.
LEMMA CalmStutter ==
  ASSUME HInv, AllGoesOn, UNCHANGED <<sessions, runner, journal, decision, result>>,
         ttl = "over" => ttl' = "over"
  PROVE  AllGoesOn'
<1>1. NothingFails' /\ RunGoesOn'
  BY DEF AllGoesOn, NothingFails, RunGoesOn
<1>2. ASSUME NEW k \in Key PROVE SessionGoesOn(k)'
  <2>1. SessionGoesOn(k)
    BY DEF AllGoesOn
  <2>2. Followed(k) => Followed(k)'
    BY DEF Followed, Replays, Agrees
  <2> QED BY <2>1, <2>2 DEF SessionGoesOn
<1> QED BY <1>1, <1>2 DEF AllGoesOn

\* A step of the agent: what it has to do for the session it runs for.
LEMMA AgentCalmFrame ==
  ASSUME HInv, AllGoesOn, NEW r \in Key, AgentActs(r),
         decision # None => decision' = decision,
         \/ ttl = "over" => ttl' = "over"
         \/ \A k \in Key : ~ HasContext(k),
         journal' # "failed", result' # "failed",
         runner'[r].pc # "raised", runner'[r].result # "failed",
         \/ journal' # "open"
         \/ runner'[r].pc \in AtWork
         \/ journal = "open" /\ runner[r].pc \notin AtWork,
         HasContext(r) /\ Followed(r) => Followed(r)'
  PROVE  AllGoesOn'
<1>1. sessions' = sessions /\ \A q \in Key \ {r} : runner'[q] = runner[q]
  BY AgentLocal DEF AgentActs, hostVars
<1>2. SessionGoesOn(r)'
  BY <1>1 DEF AllGoesOn, SessionGoesOn, HasContext
<1> QED BY <1>1, <1>2, CalmFrame

LEMMA AgentCalm ==
  ASSUME HInv, NobodyAsked, AllGoesOn, NEW r \in Key, AgentActs(r), [Next]_vars, ~ Fault
  PROVE  AllGoesOn'
<1>1. AgentStep(r) /\ runner \in [Key -> Runner] /\ runner[r] \in Runner /\ sessions' = sessions
  BY HostTypes DEF AgentActs, hostVars
<1>2. /\ journal # "failed" /\ result # "failed"
      /\ runner[r].pc # "raised" /\ runner[r].result # "failed"
  BY DEF AllGoesOn, NothingFails
<1>3. decision # None => decision' = decision
  BY DecidedStep
<1>4. CASE Pipeline(r) \/ ReturnPublished(r) \/ Recover(r)
  <2>1. ~ Followed(r) /\ runner[r].pc \notin AtWork
    BY <1>4 DEF Pipeline, ReturnPublished, Recover, EntersLock, At, Followed, AtWork, Undecided
  <2>2. /\ UNCHANGED <<journal, decision, result, ttl>>
        /\ \/ Goto(r, "entering") /\ runner[r].pc = "pipeline"
           \/ End(r, "returned", result)
           \/ End(r, "publishing", journal)
    BY <1>2, <1>4 DEF Pipeline, ReturnPublished, Recover, At
  <2>3. runner'[r].pc # "raised" /\ runner'[r].result # "failed"
    BY <1>1, <1>2, <2>2 DEF Goto, End, Runner
  <2> QED BY <1>2, <2>1, <2>2, <2>3, AgentCalmFrame
<1>5. CASE RefuseUnfinished(r)
  <2>1. PICK q \in Key : runner[q].pc \in AtWork
    BY <1>5 DEF RefuseUnfinished, AllGoesOn, RunGoesOn
  <2> QED BY <1>5, <2>1, InsideFacts, NoneFacts DEF RefuseUnfinished, EntersLock, Inside
<1>6. CASE FirstRun(r)
  <2>1. /\ runner[r].pc = "entering" /\ journal' = "open" /\ UNCHANGED <<decision, result, ttl>>
        /\ Goto(r, "tools")
    BY <1>6 DEF FirstRun, EntersLock, At
  <2>2. runner'[r].pc = "tools" /\ runner'[r].result # "failed"
    BY <1>1, <1>2, <2>1 DEF Goto, Runner
  <2>3. ~ Followed(r)
    BY <2>1 DEF Followed
  <2> QED BY <1>2, <2>1, <2>2, <2>3, AgentCalmFrame DEF AtWork, Undecided
<1>7. CASE Tools(r)
  <2>1. \A k \in Key : ~ HasContext(k)
    BY <1>7 DEF Tools, At, NobodyAsked, HasContext
  <2>2. /\ UNCHANGED <<decision, result>>
        /\ \/ Goto(r, "asking") /\ UNCHANGED journal
           \/ End(r, "publishing", "no_action") /\ journal' = "no_action"
    BY <1>7 DEF Tools, Review
  <2>3. /\ runner'[r].pc # "raised" /\ runner'[r].result # "failed" /\ journal' # "failed"
        /\ journal' = "open" => runner'[r].pc = "asking"
    BY <1>1, <1>2, <2>2 DEF Goto, End, Runner
  <2> QED BY <1>2, <2>1, <2>2, <2>3, AgentCalmFrame DEF AtWork, Undecided
<1>8. CASE Refused(r)
  <2>1. /\ UNCHANGED <<decision, result, ttl>> /\ journal' = "rejected"
        /\ End(r, "publishing", "rejected") /\ runner[r].pc = "refused"
    BY <1>8 DEF Refused, Review, At
  <2>2. runner'[r].pc = "publishing" /\ runner'[r].result = "rejected"
    BY <1>1, <2>1 DEF End, Runner
  <2>3. Followed(r) => Followed(r)'
    BY <1>1, <2>1, <2>2 DEF Followed
  <2> QED BY <1>2, <2>1, <2>2, <2>3, AgentCalmFrame
<1>9. CASE Decide(r)
  <2> DEFINE made == [proposal |-> runner[r].proposal,
                      accepted |-> Accepts(runner[r].proposal)]
  <2>1. /\ UNCHANGED <<journal, result, ttl>> /\ Goto(r, "decided") /\ runner[r].pc = "proposed"
        /\ decision' = made
    BY <1>9 DEF Decide, At
  <2>2. runner'[r].pc = "decided" /\ runner'[r].result # "failed"
    BY <1>1, <1>2, <2>1 DEF Goto, Runner
  <2>3. decision'.proposal = runner[r].proposal
    BY <2>1
  <2>4. decision' # None
    <3>1. HInv' /\ runner[r].proposal \in Proposal
      BY <2>1, AgentActsLemma, InsideFacts
    <3>2. made \in Decision
      BY <3>1 DEF Decision, Accepts
    <3> QED BY <2>1, <3>2, NoneFacts
  <2>5. Followed(r) => Followed(r)'
    BY <1>1, <2>1, <2>2, <2>3, <2>4 DEF Followed
  <2> QED BY <1>2, <1>3, <2>1, <2>2, <2>5, AgentCalmFrame DEF AtWork
<1>10. CASE Recommend(r)
  <2> DEFINE y == IF decision.accepted THEN "approved" ELSE "rejected"
  <2>1. /\ UNCHANGED <<decision, result, ttl>> /\ journal' = y
        /\ End(r, "publishing", y) /\ runner[r].pc = "decided"
    BY <1>10 DEF Recommend, Review, At
  <2>2. runner'[r].pc = "publishing" /\ runner'[r].result = y
    BY <1>1, <2>1 DEF End, Runner
  <2>3. Followed(r) => Followed(r)'
    BY <1>1, <2>1, <2>2 DEF Followed, Replays, Agrees
  <2>4. journal' # "failed" /\ journal' # "open" /\ runner'[r].result # "failed"
    BY <2>1, <2>2
  <2> QED BY <1>2, <2>1, <2>2, <2>3, <2>4, AgentCalmFrame
<1>11. ~ Abandon(r)
  BY DEF Abandon
<1>12. CASE Publish(r)
  <2>1. /\ UNCHANGED <<journal, decision, ttl>> /\ result' = runner[r].result
        /\ Goto(r, "returned") /\ runner[r].pc = "publishing"
    BY <1>12 DEF Publish, At
  <2>2. runner'[r].pc = "returned" /\ runner'[r].result = runner[r].result
    BY <1>1, <2>1 DEF Goto, Runner
  <2>3. Followed(r) => Followed(r)'
    BY <1>1, <2>1, <2>2 DEF Followed, Replays, Agrees
  <2>4. journal = "open" => runner[r].pc \notin AtWork
    BY <2>1 DEF AtWork, Undecided
  <2> QED BY <1>2, <2>1, <2>2, <2>3, <2>4, AgentCalmFrame
<1> QED BY <1>1, <1>4, <1>5, <1>6, <1>7, <1>8, <1>9, <1>10, <1>11, <1>12 DEF AgentStep

LEMMA HostCalm ==
  ASSUME HInv, AllGoesOn, NEW r \in Key, HostStep(r), ~ Fault
  PROVE  AllGoesOn'
<1>1. /\ runner \in [Key -> Runner] /\ runner[r] \in Runner
      /\ sessions \in [Key -> Session \cup {None}]
  BY HostTypes DEF HInv, TypeOK
<1>2. /\ journal # "failed" /\ result # "failed"
      /\ runner[r].pc # "raised" /\ runner[r].result # "failed"
  BY DEF AllGoesOn, NothingFails
<1>3. SessionGoesOn(r)
  BY DEF AllGoesOn
<1>4. CASE Resolve(r)
  <2> DEFINE s == [sessions[r] EXCEPT !.context = TRUE]
  <2>1. /\ runner[r].pc = "asking" /\ sessions' = [sessions EXCEPT ![r] = s]
        /\ Goto(r, "waiting") /\ UNCHANGED <<journal, decision, result, ttl>>
    BY <1>4 DEF Resolve, At, Remember, SaveFailed
  <2>2. sessions[r] \in Session /\ sessions[r] # None /\ ~ sessions[r].failed
    BY <2>1, RunnerFacts, NoneFacts
  <2>3. /\ s.runner_started = sessions[r].runner_started /\ s.failed = sessions[r].failed
        /\ s.context
    BY <2>2 DEF Session
  <2>4. /\ runner'[r].pc = "waiting" /\ runner'[r].result # "failed"
        /\ sessions'[r] = s
    BY <1>1, <1>2, <2>1 DEF Goto, Runner
  <2>5. SessionGoesOn(r)'
    <3> HIDE DEF s
    <3> QED BY <1>3, <2>2, <2>3, <2>4 DEF SessionGoesOn, Followed
  <2>6. \A q \in Key \ {r} : runner'[q] = runner[q] /\ sessions'[q] = sessions[q]
    BY <1>1, <2>1 DEF Goto
  <2> QED BY <1>2, <2>1, <2>4, <2>5, <2>6, CalmFrame DEF AtWork, Undecided
<1>5. CASE Await(r)
  <2>1. /\ runner[r].pc = "waiting" /\ sessions' = sessions
        /\ UNCHANGED <<journal, decision, result, ttl>>
    BY <1>5 DEF Await, At, hostVars
  <2>2. /\ \A q \in Key \ {r} : runner'[q] = runner[q] /\ sessions'[q] = sessions[q]
        /\ runner'[r].pc \in {"proposed", "refused"} /\ runner'[r].result = runner[r].result
        /\ Followed(r)'
    BY <1>1, <1>5, <2>1 DEF Await, Goto, Runner, Followed
  <2>3. SessionGoesOn(r)'
    BY <1>3, <2>1, <2>2 DEF SessionGoesOn
  <2> QED BY <1>2, <2>1, <2>2, <2>3, CalmFrame DEF AtWork, Undecided
<1>6. ASSUME runner[r].pc = "returned", NEW s \in Session, Conclude(r, s), s.done,
             s.runner_started, s.proposal # None => s.context /\ ~ s.failed
      PROVE  AllGoesOn'
  <2>1. /\ sessions' = [sessions EXCEPT ![r] = s] /\ runner' = [runner EXCEPT ![r] = Stopped]
        /\ UNCHANGED <<journal, decision, result, ttl>>
    BY <1>6 DEF Conclude, Remember, SaveFailed
  <2>2. /\ sessions'[r] = s /\ runner'[r] = Stopped
        /\ \A q \in Key \ {r} : runner'[q] = runner[q] /\ sessions'[q] = sessions[q]
    BY <1>1, <2>1
  <2>3. SessionGoesOn(r)'
    BY <1>6, <2>2 DEF SessionGoesOn
  <2>4. Stopped.pc # "raised" /\ Stopped.result # "failed"
    BY NoneAssumption DEF Stopped, AgentResult
  <2> QED BY <1>2, <1>6, <2>1, <2>2, <2>3, <2>4, CalmFrame DEF AtWork, Undecided
<1>7. ASSUME runner[r].pc = "returned"
      PROVE  /\ sessions[r] \in Session /\ sessions[r] # None /\ ~ sessions[r].done
             /\ ~ sessions[r].failed /\ sessions[r].runner_started
             /\ sessions[r].proposal # None => sessions[r].context
             /\ sessions[r].context => Followed(r)
  BY <1>3, <1>7, RunnerFacts, NoneFacts DEF SessionGoesOn
<1> DEFINE s == sessions[r]
           x == runner[r].result
<1>8. CASE RunnerReturned(r)
  <2>1. runner[r].pc = "returned" /\ s.context
    BY <1>8 DEF RunnerReturned, At
  <2>2. s.proposal # None => Replays(s.proposal, x)
    BY <1>7, <2>1 DEF Followed
  <2>3. CASE s.proposal # None
    <3> DEFINE t == DoneWith(s, DecisionOutcome(s.proposal))
    <3>1. DecisionOutcome(s.proposal) \in Outcome
      BY <1>7, <2>1, <2>3, OutcomeFacts DEF Session
    <3>2. /\ t \in Session /\ t.done /\ t.runner_started /\ t.context /\ ~ t.failed
      BY <1>7, <2>1, <3>1 DEF DoneWith, Session
    <3>3. Conclude(r, t)
      BY <1>8, <2>2, <2>3 DEF RunnerReturned
    <3> HIDE DEF t
    <3> QED BY <1>6, <2>1, <3>2, <3>3
  <2>4. CASE s.proposal = None
    <3> DEFINE t == Failure(s)
    <3>1. /\ t \in Session /\ t.done /\ t.runner_started /\ t.proposal = None
      BY <1>7, <2>1, <2>4 DEF Failure, Session
    <3>2. Conclude(r, t)
      BY <1>8, <2>4 DEF RunnerReturned
    <3> HIDE DEF t
    <3> QED BY <1>6, <2>1, <3>1, <3>2
  <2> QED BY <2>3, <2>4
<1>9. CASE ReplayOther(r)
  <2>1. runner[r].pc = "returned" /\ ~ s.context
    BY <1>9 DEF ReplayOther, At
  <2>2. s.proposal = None
    BY <1>7, <2>1
  <2>3. ASSUME NEW o \in Outcome
        PROVE  LET t == DoneWith(s, o) IN
               /\ t \in Session /\ t.done /\ t.runner_started /\ t.proposal = None
               /\ [t EXCEPT !.context = TRUE] \in Session
               /\ [t EXCEPT !.context = TRUE].done
               /\ [t EXCEPT !.context = TRUE].runner_started
               /\ [t EXCEPT !.context = TRUE].proposal = None
    BY <1>7, <2>1, <2>2 DEF DoneWith, Session
  <2>4. /\ Failure(s) \in Session /\ Failure(s).done /\ Failure(s).runner_started
        /\ Failure(s).proposal = None
    BY <1>7, <2>1, <2>2 DEF Failure, Session
  <2>5. \A o \in Adoptable(x) : o \in Outcome
    BY DEF Adoptable, Finished
  <2>6. \/ \E o \in Adoptable(x) : Conclude(r, [DoneWith(s, o) EXCEPT !.context = TRUE])
        \/ Conclude(r, DoneWith(s, NoAction))
        \/ Conclude(r, Failure(s))
    BY <1>9 DEF ReplayOther
  <2> HIDE DEF s, x
  <2> QED BY <1>6, <2>1, <2>3, <2>4, <2>5, <2>6, OutcomeFacts
<1>10. ~ RunnerRaised(r)
  BY <1>2 DEF RunnerRaised, At
<1> QED BY <1>4, <1>5, <1>8, <1>9, <1>10 DEF HostStep

\* Only a session that is new is given a runner.
LEMMA GetContextCalm ==
  ASSUME HInv, AllGoesOn, NEW c \in Client, NEW k \in Key, GetContext(c, k)
  PROVE  AllGoesOn'
<1> DEFINE s == SessionOf(k)
<1>1. /\ UNCHANGED <<journal, decision, result, ttl>>
      /\ \/ UNCHANGED <<sessions, runner>>
         \/ Starts(s) /\ Remember(k, [s EXCEPT !.runner_started = TRUE]) /\ Goto(k, "pipeline")
  BY DEF GetContext
<1>2. CASE UNCHANGED <<sessions, runner>>
  BY <1>1, <1>2, CalmStutter
<1>3. CASE Starts(s) /\ Remember(k, [s EXCEPT !.runner_started = TRUE]) /\ Goto(k, "pipeline")
  <2>1. sessions[k] = None
    BY <1>3 DEF Starts, SessionOf, AllGoesOn, SessionGoesOn
  <2>2. runner[k].pc = "idle" /\ runner[k] \in Runner
    BY <2>1, HostTypes DEF HInv, RunnersLive
  <2>3. /\ runner'[k].pc = "pipeline" /\ runner'[k].result = runner[k].result
        /\ \A q \in Key \ {k} : runner'[q] = runner[q] /\ sessions'[q] = sessions[q]
        /\ sessions'[k] = [NewSession EXCEPT !.runner_started = TRUE]
    BY <1>3, <2>1, <2>2, HostTypes DEF Goto, Runner, Remember, SessionOf, HInv, TypeOK
  <2>4. SessionGoesOn(k)'
    BY <2>3 DEF SessionGoesOn, NewSession
  <2>5. /\ journal # "failed" /\ result # "failed" /\ runner[k].result # "failed"
        /\ runner[k].pc \notin AtWork
    BY <2>2 DEF AllGoesOn, NothingFails, AtWork, Undecided
  <2> QED BY <1>1, <2>3, <2>4, <2>5, CalmFrame
<1> QED BY <1>1, <1>2, <1>3

\* A proposal is taken while the runner waits for it, or for a session that ended well.
LEMMA TakenCalm ==
  ASSUME HInv, AllGoesOn, NEW k \in Key, NEW p,
         sessions[k] \in Session, sessions[k].context, sessions[k].proposal = None,
         ~ sessions[k].failed, sessions[k].done \/ ttl = "running",
         Remember(k, [sessions[k] EXCEPT !.proposal = p]),
         UNCHANGED <<journal, decision, result, runner, ttl>>
  PROVE  AllGoesOn'
<1> DEFINE s == sessions[k]
           n == [s EXCEPT !.proposal = p]
<1>1. SessionGoesOn(k) /\ s # None
  BY NoneFacts DEF AllGoesOn
<1>2. n.context /\ ~ n.failed /\ n.done = s.done /\ n.runner_started = s.runner_started
  BY DEF Session
<1>3. /\ sessions'[k] = n
      /\ \A q \in Key \ {k} : runner'[q] = runner[q] /\ sessions'[q] = sessions[q]
  BY DEF Remember, HInv, TypeOK
<1>4. ~ s.done => runner[k].pc = "waiting"
  BY <1>1 DEF SessionGoesOn, Followed
<1>5. SessionGoesOn(k)'
  <2> HIDE DEF n
  <2>1. ~ n.done => Followed(k)'
    BY <1>2, <1>4 DEF Followed
  <2> QED BY <1>1, <1>2, <1>3, <2>1 DEF SessionGoesOn
<1>6. /\ journal # "failed" /\ result # "failed"
      /\ runner[k].pc # "raised" /\ runner[k].result # "failed"
  BY DEF AllGoesOn, NothingFails
<1>7. journal = "open" =>
        runner[k].pc \in AtWork \/ (runner[k].pc \notin AtWork /\ journal = "open")
  OBVIOUS
<1> QED BY <1>3, <1>5, <1>6, <1>7, CalmFrame

LEMMA ProposeCalm ==
  ASSUME HInv, AllGoesOn, NEW c \in Client, Propose(c)
  PROVE  AllGoesOn'
<1> DEFINE s == sessions[call[c].key]
<1>1. /\ call[c].key \in Key /\ s \in Session
      /\ s.failed \/ s.outcome # None => s.done
  BY CallFacts, SessionFacts, NoneFacts DEF Propose
<1>2. /\ UNCHANGED <<journal, decision, result, runner, ttl>>
      /\ \/ UNCHANGED sessions
         \/ /\ Remember(call[c].key, [s EXCEPT !.proposal = call[c].proposal])
            /\ s.context /\ s.proposal = None
            /\ \/ s.outcome \in Outcome /\ ~ s.failed
               \/ ttl = "running" /\ ~ s.done
  BY DEF Propose
<1>3. s.outcome \in Outcome => s.done
  BY <1>1, NoneFacts
<1> QED BY <1>1, <1>2, <1>3, CalmStutter, TakenCalm

LEMMA CalmStep ==
  ASSUME HInv, CalmInv, [Next]_vars
  PROVE  CalmInv'
<1>1. NobodyAsked'
  BY NobodyAskedStep DEF CalmInv
<1>2. ASSUME InCalm' PROVE AllGoesOn'
  <2>1. faults \in Nat /\ crashes \in Nat
    BY DEF HInv, TypeOK
  <2>2. ~ Fault /\ ~ Crash
    BY <1>2, <2>1 DEF InCalm, Fault, Crash
  <2>3. InCalm
    <3>1. ASSUME NEW r \in Key, AgentActs(r) PROVE UNCHANGED <<faults, crashes>>
      BY <2>2, <3>1 DEF AgentActs, hostVars, AgentStep, Pipeline, ReturnPublished, Recover,
         RefuseUnfinished, FirstRun, Tools, Refused, Decide, Recommend, Abandon, Publish, NoFault
    <3>2. ASSUME NEW r \in Key, HostStep(r) PROVE UNCHANGED <<faults, crashes>>
      BY <2>2, <3>2 DEF HostStep, Resolve, Await, RunnerRaised, RunnerReturned, ReplayOther,
         Conclude, Saved, SaveFailed, NoFault, hostVars
    <3>3. ASSUME NEW c \in Client, ContextIsAsked(c) \/ ProposalIsMade(c) \/ ToolStep(c)
          PROVE  UNCHANGED <<faults, crashes>>
      BY <2>2, <3>3 DEF ContextIsAsked, ProposalIsMade, ToolStep, GetContext, Submit,
         GotContext, Propose, WaitEnds, TimesOut, Tell, agentVars, Saved, SaveFailed, NoFault
    <3>4. (Expire /\ UNCHANGED hostVars) \/ UNCHANGED vars => UNCHANGED <<faults, crashes>>
      BY DEF Expire, vars, agentVars, hostVars
    <3>5. UNCHANGED <<faults, crashes>>
      BY <2>2, <3>1, <3>2, <3>3, <3>4 DEF Next
    <3> QED BY <1>2, <3>5 DEF InCalm
  <2>4. AllGoesOn /\ NobodyAsked
    BY <2>3 DEF CalmInv
  <2>5. ASSUME NEW c \in Client, ContextIsAsked(c) PROVE AllGoesOn'
    BY <2>4, <2>5, GetContextCalm DEF ContextIsAsked
  <2>6. ASSUME NEW c \in Client, ToolStep(c) \/ ProposalIsMade(c) PROVE AllGoesOn'
    <3>1. CASE Propose(c)
      BY <2>4, <3>1, ProposeCalm
    <3>2. CASE GotContext(c) \/ WaitEnds(c) \/ TimesOut(c) \/ Tell(c) \/ ProposalIsMade(c)
      BY <2>4, <3>2, CalmStutter
      DEF GotContext, WaitEnds, TimesOut, Tell, ProposalIsMade, Submit, agentVars
    <3> QED BY <2>6, <3>1, <3>2 DEF ToolStep
  <2>7. (Expire /\ UNCHANGED hostVars) \/ UNCHANGED vars => AllGoesOn'
    BY <2>4, CalmStutter DEF Expire, vars, agentVars, hostVars
  <2> QED BY <2>2, <2>4, <2>5, <2>6, <2>7, AgentCalm, HostCalm DEF Next
<1> QED BY <1>1, <1>2 DEF CalmInv

LEMMA InitCalm == Init => CalmInv
<1> SUFFICES ASSUME Init PROVE CalmInv
  OBVIOUS
<1>1. /\ journal = "none" /\ result = None /\ runner = [k \in Key |-> Stopped]
      /\ sessions = [k \in Key |-> None]
  BY DEF Init, AgentInit
<1>2. Stopped.pc = "idle" /\ Stopped.result # "failed" /\ None # "failed"
  BY NoneAssumption DEF Stopped, AgentResult
<1> QED BY <1>1, <1>2
        DEF CalmInv, NobodyAsked, AllGoesOn, NothingFails, RunGoesOn, SessionGoesOn

\* Without a failure or a crash, a session whose proposal was taken does not fail, however
\* close to the expiry of the context the proposal came.
THEOREM ProposalsAreNotDropped == Spec => []NoProposalDropped
<1>1. Init => HInv /\ CalmInv
  BY InitHostInv, InitCalm
<1>2. HInv /\ CalmInv /\ [Next]_vars => HInv' /\ CalmInv'
  BY NextHost, CalmStep
<1>3. CalmInv => NoProposalDropped
  BY DEF CalmInv, InCalm, AllGoesOn, SessionGoesOn, NoProposalDropped
<1> QED BY <1>1, <1>2, <1>3, PTL DEF Spec
=============================================================================
