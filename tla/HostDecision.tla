---------------------------- MODULE HostDecision ----------------------------
(***************************************************************************)
(* HostDecisionCoordinator and the two tools of mcp_server that drive it.  *)
(*                                                                         *)
(* A Host asks for the decision context under an idempotency key, submits  *)
(* one proposal for it and waits for the outcome.  Each key has a session  *)
(* in memory, a record of it in the session file, and at most one runner   *)
(* thread, which executes AgentRun and meets the Host in resolve().  Every *)
(* block under the coordinator's condition is one step; threads interleave *)
(* between blocks.  One process serves the state directory; it may crash   *)
(* at any point and is then restarted with what the files hold.            *)
(***************************************************************************)
EXTENDS AgentRun

CONSTANTS
  Client,       \* concurrent tool calls of the Host
  MaxCrashes    \* bound on the crashes of the process

ASSUME HostAssumption == MaxCrashes \in Nat /\ None \notin Client

VARIABLES
  sessions,   \* in memory: None or a Session, by key
  stored,     \* in the session file: None or a StoredSession, by key
  call,       \* what every client is doing
  answers,    \* the terminal answers the tools have returned (history)
  crashes     \* crashes so far

hostVars == <<sessions, stored, call, answers, crashes>>
vars == <<agentVars, hostVars>>

NoAction == [status |-> "no_action", proposal |-> None]
Outcome  == [status : {"accepted", "rejected"}, proposal : Proposal] \cup {NoAction}

Session == [context : BOOLEAN, proposal : Proposal \cup {None},
            outcome : Outcome \cup {None},
            failed : BOOLEAN, done : BOOLEAN, runner_started : BOOLEAN]
StoredSession == [lifecycle : {"awaiting_proposal", "terminal", "failed"},
                  context : BOOLEAN, proposal : Proposal \cup {None},
                  outcome : Outcome \cup {None}]

\* None stands for a value that is not there.
ASSUME NoneAssumption ==
  None \notin Session \cup StoredSession \cup Outcome \cup Decision \cup AgentResult

NewSession == [context |-> FALSE, proposal |-> None, outcome |-> None,
               failed |-> FALSE, done |-> FALSE, runner_started |-> FALSE]

Call == [pc : {"idle", "context", "submit", "waiting", "report"},
         key : Key \cup {None}, proposal : Proposal \cup {None},
         outcome : Outcome \cup {None}]
NoCall == [pc |-> "idle", key |-> None, proposal |-> None, outcome |-> None]

Init ==
  /\ AgentInit
  /\ sessions = [k \in Key |-> None]
  /\ stored = [k \in Key |-> None]
  /\ call = [c \in Client |-> NoCall]
  /\ answers = {}
  /\ crashes = 0

-----------------------------------------------------------------------------
(* The session file *)

\* _persist: what is written for a session.
Stored(s) ==
  [lifecycle |-> IF s.failed THEN "failed"
                 ELSE IF s.outcome # None THEN "terminal" ELSE "awaiting_proposal",
   context |-> s.context, proposal |-> s.proposal, outcome |-> s.outcome]

\* _session_from_stored: what a restarted process makes of a record.
Loaded(f) ==
  [context |-> f.context, proposal |-> f.proposal, outcome |-> f.outcome,
   failed |-> f.lifecycle = "failed", done |-> f.lifecycle # "awaiting_proposal",
   runner_started |-> FALSE]

\* _HostSessionStore.load: the sessions a process starts with.
LoadedSessions == [k \in Key |-> IF stored[k] = None THEN None ELSE Loaded(stored[k])]

Written(k, s) == [stored EXCEPT ![k] = Stored(s)]

\* A save that fails may already have replaced the file.
Saved(k, s)    == stored' = Written(k, s) /\ NoFault
SaveFailed(k, s) == stored' \in {stored, Written(k, s)} /\ Fault

Remember(k, s) == sessions' = [sessions EXCEPT ![k] = s]

(***************************************************************************)
(* The decision evidence.  An outcome is projected from it only if it      *)
(* holds exactly this proposal's result and the agent result agrees.       *)
(***************************************************************************)
Agrees(x) == x = IF decision.accepted THEN "approved" ELSE "rejected"

\* Mutant: the decision is taken to be about whatever proposal is replayed.
ReplaysAny(p, x) == decision # None /\ Agrees(x)
Replays(p, x) == decision # None /\ decision.proposal = p /\ Agrees(x)

DecisionOutcome(p) ==
  [status |-> IF decision.accepted THEN "accepted" ELSE "rejected", proposal |-> p]

ResultOf(o) == CASE o.status = "accepted"  -> "approved"
                 [] o.status = "rejected"  -> "rejected"
                 [] o.status = "no_action" -> "no_action"

\* _validated_terminal_replay: an outcome is that of a proposal if the evidence
\* gives that proposal this very outcome.
Validated(p, o) == Replays(p, ResultOf(o))

-----------------------------------------------------------------------------
(* The runner thread: resolve and _execute *)

\* resolve, first block: the context becomes the session's and is persisted; if
\* that fails, the provider has failed.  OneContext is why no session has another.
Resolve(r) ==
  LET s == [sessions[r] EXCEPT !.context = TRUE]
  IN  /\ At(r, "asking")
      /\ Remember(r, s)
      /\ \/ Saved(r, s) /\ Goto(r, "waiting")
         \/ SaveFailed(r, s) /\ Goto(r, "refused")
      /\ UNCHANGED <<journal, decision, result, lock, ttl, call, answers, crashes>>

\* resolve, the wait: a proposal counts even if the context has expired meanwhile.
\* Mutant: expiry is looked at before the proposal.
AwaitExpiryFirst(r) ==
  /\ At(r, "waiting")
  /\ \/ /\ ttl = "over" /\ Goto(r, "refused")
     \/ /\ ttl = "running" /\ sessions[r].proposal # None
        /\ runner' = [runner EXCEPT ![r].pc = "proposed",
                                    ![r].proposal = sessions[r].proposal]
  /\ UNCHANGED <<journal, decision, result, lock, ttl, faults, hostVars>>
Await(r) ==
  /\ At(r, "waiting")
  /\ \/ /\ sessions[r].proposal # None
        /\ runner' = [runner EXCEPT ![r].pc = "proposed",
                                    ![r].proposal = sessions[r].proposal]
     \/ /\ sessions[r].proposal = None /\ ttl = "over"
        /\ Goto(r, "refused")
  /\ UNCHANGED <<journal, decision, result, lock, ttl, faults, hostVars>>

\* The end of _execute: the session is done, and persisted.  If that fails the
\* session fails, but an outcome it has stays in memory.
Conclude(r, s) ==
  /\ runner' = [runner EXCEPT ![r] = Stopped]
  /\ \/ Saved(r, s) /\ Remember(r, s)
     \/ SaveFailed(r, s) /\ Remember(r, [s EXCEPT !.failed = TRUE])
  /\ UNCHANGED <<journal, decision, result, lock, ttl, call, answers, crashes>>

DoneWith(s, o) == [s EXCEPT !.outcome = o, !.done = TRUE]
Failure(s)     == [s EXCEPT !.failed = TRUE, !.done = TRUE]

\* The runner raised.
RunnerRaised(r) ==
  /\ At(r, "raised")
  /\ Conclude(r, Failure(sessions[r]))

\* The runner returned and the session has the context.
RunnerReturned(r) ==
  LET s == sessions[r]
      x == runner[r].result
  IN  /\ At(r, "returned")
      /\ s.context
      /\ Conclude(r, IF s.proposal # None /\ Replays(s.proposal, x)
                     THEN DoneWith(s, DecisionOutcome(s.proposal))
                     ELSE Failure(s))

(***************************************************************************)
(* The runner returned and the session has no context: another key's       *)
(* session took part in the run, or nobody did.  _terminal_replay_for      *)
(* waits until such a session is done or a timeout has passed - that is,   *)
(* this step may come early or late - and adopts its outcome if there is   *)
(* exactly one and its evidence replays.  Otherwise only a result that     *)
(* needs no action is an outcome.                                          *)
(***************************************************************************)
Finished(x) ==
  {sessions[k].outcome : k \in
     {k \in Key : /\ sessions[k] # None
                  /\ sessions[k].done /\ ~sessions[k].failed
                  /\ sessions[k].context /\ sessions[k].proposal # None
                  /\ sessions[k].outcome \in {o \in Outcome : ResultOf(o) = x}}}

Adoptable(x) ==
  IF \A o \in Finished(x) : Finished(x) = {o} /\ Validated(o.proposal, o)
  THEN Finished(x) ELSE {}

ReplayOther(r) ==
  LET s == sessions[r]
      x == runner[r].result
  IN  /\ At(r, "returned")
      /\ ~s.context
      /\ \/ \E o \in Adoptable(x) :
              Conclude(r, [DoneWith(s, o) EXCEPT !.context = TRUE])
         \/ /\ Adoptable(x) = {}
            /\ Conclude(r, IF x = "no_action" THEN DoneWith(s, NoAction)
                                              ELSE Failure(s))

HostStep(r) ==
  Resolve(r) \/ Await(r) \/ RunnerRaised(r) \/ RunnerReturned(r) \/ ReplayOther(r)

-----------------------------------------------------------------------------
(* Tool riskprobe_get_decision_context *)

Reply(c) == call' = [call EXCEPT ![c] = NoCall]

\* An outcome is returned only after the report check below.
Report(c, k, p, o) ==
  call' = [call EXCEPT ![c] = [pc |-> "report", key |-> k, proposal |-> p,
                               outcome |-> o]]

SessionOf(k) == IF sessions[k] = None THEN NewSession ELSE sessions[k]

\* Mutants: a session that has its context needs no runner; one that has not got a
\* runner since the restart gets one, finished or not.
StartsFinished(s) == ~s.runner_started
StartsUnlessContext(s) == ~s.done /\ ~s.runner_started /\ ~s.context
Starts(s) == ~s.done /\ ~s.runner_started

\* get_context starts the runner of a session that is not done, then waits for
\* the context.  What is not a step here returns at once and changes nothing.
GetContext(c, k) ==
  LET s == SessionOf(k)
  IN  /\ call[c] = NoCall
      /\ ~s.failed
      /\ \/ /\ s.outcome = NoAction
            /\ Report(c, k, None, NoAction)
            /\ UNCHANGED <<sessions, runner>>
         \/ /\ s.outcome # NoAction /\ Starts(s)
            /\ Remember(k, [s EXCEPT !.runner_started = TRUE])
            /\ Goto(k, "pipeline")
            /\ call' = [call EXCEPT ![c] = [NoCall EXCEPT !.pc = "context", !.key = k]]
         \/ /\ ~Starts(s) /\ ~s.context /\ ~s.done
            /\ call' = [call EXCEPT ![c] = [NoCall EXCEPT !.pc = "context", !.key = k]]
            /\ UNCHANGED <<sessions, runner>>
      /\ UNCHANGED <<journal, decision, result, lock, ttl, faults, stored,
                     answers, crashes>>

\* The wait ends with the context, the end of the session or a timeout.
GotContext(c) ==
  LET k == call[c].key
  IN  /\ call[c].pc = "context"
      /\ IF ~sessions[k].failed /\ sessions[k].outcome = NoAction
         THEN Report(c, k, None, NoAction)
         ELSE Reply(c)
      /\ UNCHANGED <<agentVars, sessions, stored, answers, crashes>>

-----------------------------------------------------------------------------
(* Tool riskprobe_submit_decision_proposal *)

\* get_failure, before anything else; without a session the proposal is refused.
Submit(c, k, p) ==
  /\ call[c] = NoCall
  /\ sessions[k] # None
  /\ ~sessions[k].failed
  /\ call' = [call EXCEPT ![c] = [pc |-> "submit", key |-> k, proposal |-> p,
                                  outcome |-> None]]
  /\ UNCHANGED <<agentVars, sessions, stored, answers, crashes>>

\* submit_proposal, first block, branch by branch.
Propose(c) ==
  LET k == call[c].key
      p == call[c].proposal
      s == sessions[k]
      n == [s EXCEPT !.proposal = p]
  IN  /\ call[c].pc = "submit"
      /\ \/ \* a session without action, or one that has this proposal's outcome
            /\ s.outcome = NoAction \/ (s.context /\ s.proposal = p /\ s.outcome # None)
            /\ Report(c, k, p, s.outcome)
            /\ UNCHANGED <<sessions, stored, faults>>
         \/ \* no context, another proposal, or too late
            /\ s.outcome # NoAction
            /\ \/ ~s.context
               \/ s.proposal \notin {p, None}
               \/ s.proposal = None /\ s.outcome = None /\ (ttl = "over" \/ s.done)
            /\ Reply(c)
            /\ UNCHANGED <<sessions, stored, faults>>
         \/ \* an outcome adopted from another key: the proposal must replay it
            /\ s.context /\ s.proposal = None /\ s.outcome \in Outcome \ {NoAction}
            /\ \/ /\ ~s.failed /\ Validated(p, s.outcome)
                  /\ Remember(k, n) /\ Saved(k, n)
                  /\ Report(c, k, p, s.outcome)
               \/ /\ ~s.failed /\ Validated(p, s.outcome)
                  /\ SaveFailed(k, n)
                  /\ Reply(c) /\ UNCHANGED sessions
               \/ /\ s.failed \/ ~Validated(p, s.outcome)
                  /\ Reply(c) /\ UNCHANGED <<sessions, stored, faults>>
         \/ \* the first proposal; if persisting it fails it stays in memory
            /\ s.context /\ s.proposal = None /\ s.outcome = None
            /\ ttl = "running" /\ ~s.done
            /\ Remember(k, n)
            /\ \/ Saved(k, n) /\ call' = [call EXCEPT ![c].pc = "waiting"]
               \/ SaveFailed(k, n) /\ Reply(c)
         \/ \* the same proposal again: wait like the first caller
            /\ s.context /\ s.proposal = p /\ s.outcome = None
            /\ call' = [call EXCEPT ![c].pc = "waiting"]
            /\ UNCHANGED <<sessions, stored, faults>>
      /\ UNCHANGED <<journal, decision, result, lock, runner, ttl, answers, crashes>>

\* submit_proposal, the wait: until the session is done, or the context expires.
WaitEnds(c) ==
  LET k == call[c].key
      s == sessions[k]
  IN  /\ call[c].pc = "waiting"
      /\ s.outcome # None \/ s.done
      /\ IF s.failed \/ s.outcome = None THEN Reply(c)
                                         ELSE Report(c, k, call[c].proposal, s.outcome)
      /\ UNCHANGED <<agentVars, sessions, stored, answers, crashes>>

\* Mutant: the wait has no timeout.
NeverTimesOut(c) == FALSE
TimesOut(c) ==
  /\ call[c].pc = "waiting"
  /\ sessions[call[c].key].outcome = None /\ ~sessions[call[c].key].done
  /\ ttl = "over"
  /\ Reply(c)
  /\ UNCHANGED <<agentVars, sessions, stored, answers, crashes>>

(***************************************************************************)
(* _report_failure, before an outcome is returned: the session record on   *)
(* file must be final, its outcome must be that of the published result    *)
(* and replay from the evidence, and the terminal report must be written.  *)
(***************************************************************************)
\* A decision: it must replay, unless another key's session made the proposal.
DecisionIsFinal(f) ==
  /\ f.context
  /\ f.proposal # None => Validated(f.proposal, f.outcome)

\* No action: nobody was asked.
NoActionIsFinal(f) == ~f.context /\ f.proposal = None

\* Mutant: the outcome in memory is good enough.
ReportableInMemory(k) == TRUE
Reportable(k) ==
  LET f == stored[k] IN
  sessions[k].done =>
    /\ f # None
    /\ f.lifecycle # "awaiting_proposal"
    /\ f.lifecycle = "terminal" =>
         /\ ResultOf(f.outcome) = result
         /\ IF f.outcome = NoAction THEN NoActionIsFinal(f) ELSE DecisionIsFinal(f)

Tell(c) ==
  /\ call[c].pc = "report"
  /\ \/ /\ Reportable(call[c].key)
        /\ answers' = answers \cup {[key |-> call[c].key, outcome |-> call[c].outcome]}
        /\ NoFault
     \/ ~Reportable(call[c].key) /\ UNCHANGED <<answers, faults>>
     \/ UNCHANGED answers /\ Fault
  /\ Reply(c)
  /\ UNCHANGED <<journal, decision, result, lock, runner, ttl, sessions, stored, crashes>>

-----------------------------------------------------------------------------
\* The process dies, and is started again on the same state directory.
Crash ==
  /\ crashes < MaxCrashes
  /\ crashes' = crashes + 1
  /\ sessions' = LoadedSessions
  /\ runner' = [k \in Key |-> Stopped]
  /\ lock' = None
  /\ call' = [c \in Client |-> NoCall]
  /\ UNCHANGED <<journal, decision, result, ttl, faults, stored, answers>>

AgentActs(r) == AgentStep(r) /\ UNCHANGED hostVars
ContextIsAsked(c) == \E k \in Key : GetContext(c, k)
ProposalIsMade(c) == \E k \in Key, p \in Proposal : Submit(c, k, p)
ToolStep(c) == GotContext(c) \/ Propose(c) \/ WaitEnds(c) \/ TimesOut(c) \/ Tell(c)

Next ==
  \/ \E r \in Key : AgentActs(r) \/ HostStep(r)
  \/ \E c \in Client : ContextIsAsked(c) \/ ProposalIsMade(c) \/ ToolStep(c)
  \/ Expire /\ UNCHANGED hostVars
  \/ Crash

Spec == Init /\ [][Next]_vars

\* Threads run, the context expires, tool calls proceed, and the Host asks again
\* for the context of every key - after a restart, too.
Fairness ==
  /\ \A r \in Key : WF_vars(AgentActs(r) \/ HostStep(r))
  /\ \A c \in Client : WF_vars(ToolStep(c))
  /\ WF_vars(Expire /\ UNCHANGED hostVars)
  /\ \A k \in Key : SF_vars(\E c \in Client : GetContext(c, k))

FairSpec == Spec /\ Fairness

-----------------------------------------------------------------------------
(* Properties *)

\* Everything is well typed, a session that has an outcome or failed is done, and
\* the file holds no record its validator would refuse.
TypeOK ==
  /\ journal \in {"none", "open"} \cup AgentResult
  /\ decision \in Decision \cup {None}
  /\ result \in AgentResult \cup {None}
  /\ lock \in Key \cup {None}
  /\ runner \in [Key -> Runner]
  /\ ttl \in {"unset", "running", "over"}
  /\ faults \in Nat /\ crashes \in Nat
  /\ sessions \in [Key -> Session \cup {None}]
  /\ stored \in [Key -> StoredSession \cup {None}]
  /\ call \in [Client -> Call]
  /\ answers \subseteq [key : Key, outcome : Outcome]
  /\ \A k \in Key :
       /\ sessions[k] # None =>
            (sessions[k].failed \/ sessions[k].outcome # None => sessions[k].done)
       /\ stored[k] # None =>
            (stored[k].lifecycle = "terminal" <=> stored[k].outcome # None)

\* All keys, calls and restarts give the Host one and the same verdict, that of
\* the published result and its evidence, and a decision only to the proposal
\* that was decided.
Verdict ==
  IF result = None THEN None
  ELSE IF result = "no_action" THEN NoAction
  ELSE IF decision # None /\ Agrees(result) THEN DecisionOutcome(decision.proposal)
  ELSE [status |-> "unavailable", proposal |-> None]

Host == INSTANCE HostAnswers WITH verdict <- Verdict

OneVerdict == Host!AnswersSpec

\* An answer the Host has seen is final on disk: whatever fails or crashes later,
\* the session file holds that outcome for that key.
DurableAnswers ==
  \A a \in answers :
    /\ stored[a.key] # None
    /\ stored[a.key].lifecycle = "terminal"
    /\ stored[a.key].outcome = a.outcome

\* A session record that is terminal or failed stays so, with its outcome.
FinalRecordsStay ==
  [][\A k \in Key :
       stored[k] # None /\ stored[k].lifecycle # "awaiting_proposal" =>
         /\ stored'[k] # None
         /\ stored'[k].lifecycle = stored[k].lifecycle
         /\ stored'[k].outcome = stored[k].outcome]_vars

\* A proposal is decided at most once, by whichever process, key or recovery.
DecidedOnce == [][decision # None => decision' = decision]_vars

\* No session is ever asked for a second context, also after recovery.
OneContext == \A r \in Key : At(r, "asking") => ~sessions[r].context

\* If nothing fails, a proposal the coordinator took is decided, however close to
\* the expiry of the context it came.
NoProposalDropped ==
  faults = 0 /\ crashes = 0 =>
    \A k \in Key :
      sessions[k] # None /\ sessions[k].proposal # None => ~sessions[k].failed

\* A persisted proposal is not forgotten by a crash: its session ends.
ProposalIsAnswered ==
  \A k \in Key :
    stored[k] # None /\ stored[k].proposal # None
      ~> stored[k] # None /\ stored[k].lifecycle # "awaiting_proposal"

\* Every call that waits for an outcome returns.
WaitsEnd == \A c \in Client : call[c].pc = "waiting" ~> call[c].pc # "waiting"

\* The hardening plan: an unfinished session has a runner once submit waits on it.
SubmitHasRunner ==
  \A c \in Client : call[c].pc = "waiting" =>
    \/ sessions[call[c].key].done
    \/ sessions[call[c].key].runner_started
=============================================================================
