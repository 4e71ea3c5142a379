# RiskProbe in TLA+

A formal model of RiskProbe: the job queue and its telemetry, the node database
and run directory behind every analysis run, the snapshot a run reads, the agent
run with its journal, evidence and decision, the Host decision protocol, the
registry of agent versions, the citation index, the terminal reports, and those
pure algorithms whose edge cases a test hardly reaches. `PROJECT.json` ties
every definition to the lines it models, every property to a run, and every
property to a mutant (a plausible bug of the code, next to the definition it
replaces, marked `Mutant:`) that breaks it.

## The system

RiskProbe analyses one Parquet dataset per run, keeps everything on the local
file system, and lets an external Host (an MCP client) take one bounded
decision about the result.

| Part | State it keeps | Operations | Talks to |
|---|---|---|---|
| `delivery/queue.py` | `jobs` table in SQLite | enqueue, claim, heartbeat, succeed, retry, cancel | submitters and workers in any process, the wall clock |
| `delivery/application.py`, `telemetry.py` | chained event log with a head | submit, status, result, cancel; append, list | the queue, after its commit |
| `execution/store.py`, `runtime.py` | `runs`, `nodes`, `events`, one SQLite file per run | open, start, succeed, fail, invalidate, cancel, reconcile, checkpoint | the pipeline; every status and trace query |
| `artifacts.py` | run directory, `.incomplete`, manifest, integrity anchor, run lock | create, write, finalize, release, open_verified | the pipeline |
| `service.py` (`run`) | private snapshots of datasets, with marker and lock | seven stages in order, resume, publish, repair; recovery of stale snapshots | artifacts and execution store |
| `service.py` (`_partitions`), `rules/` | none: pure functions over frames | division of the rows, binning, selection of rules, scorecard, validation | the pipeline |
| `service.py` (`orchestrate`), `agents/`, `tools/`, `policy/` | session journal, published agent result, lock | plan, tools, review, recover, validate, publish | the pipeline, evidence, decision provider |
| `agents/decision_*.py`, `evidence/store.py` | append-only evidence | prepare, submit, record and replay | the agent run; the command line |
| `host_decision.py`, `mcp_server.py` | sessions in memory and in a JSON file, a condition variable, one runner thread per key | get_context, submit_proposal, resolve | the Host, the agent run |
| `evolution/registry.py` | candidates, approvals, active version, audit chain in SQLite | open (migrate), register, promote, roll back | operators, whose registry objects trust different suites and approvers |
| `rag/local.py` | a sealed index file and its key, under a lock | build, query | |
| `terminal_reports.py` | report directories of two files and a manifest | ensure_published | host_decision |
| `monitoring/` | a remediation record | detect, open, verify, apply | |
| `recommendations/`, `metrics.py`, reporting, `cli.py`, `evals/` | none | | everything above |

What is hard, and what makes each part correct:

* **Queue.** Workers vanish and come back with old leases; the clock may be set
  back; a claim may bury several jobs before it leases one. Correct: a lease is
  fenced by its token, errors are truthful, older jobs first, one outcome per
  key. Its **telemetry** is written after the commit, by each client on its own,
  and may be lost. Correct: it may be silent or late, never false.
* **Node database.** Any process may open it at any time, and each open takes
  running nodes for dead ones. Correct: the trace always tells the row, an
  attempt has one outcome, retries and budgets are finite, a stopped run is
  quiet.
* **Run directory and pipeline.** Two stores, the directory and the database,
  that no transaction spans; crashes between any two steps; artifacts lost
  between two calls; the lock is given away before the last row is written.
  Correct: what is published is of one piece and never touched again; runs
  settle; traces are repaired.
* **Snapshots.** Every run first removes what dead runs left, by listing,
  locking and removing directories whose owners may be making, using or
  removing them right then. Correct: nobody takes a copy from the living.
* **Agent run.** Journal, evidence and result are three files; the decision is
  in two of them; any append may fail, any process die, and another principal
  or command may work on the same run. Correct: a closed journal gives the very
  result that was to be published, a context is decided once, an approval rests
  on the evidence of its own run.
* **Host protocol.** Several keys share one run id; waits with time-outs;
  persistence before notification; restart with an unfinished session. Correct:
  one verdict for all keys, durable before it is given, no proposal dropped or
  decided twice, no wait without end.
* **Evolution registry.** Operators act on what they read earlier; three tables
  tell which version is active; trust differs from caller to caller. Correct:
  one line of descent, records that agree, one suite.
* **Citation index and terminal reports.** Several files, each replaced
  atomically, no two of them together; losses of power undo what was not
  synced. Correct: what a caller was told lasts, and no half of a pair ever
  locks everyone out.
* **Algorithms.** Parallel lists merged in three places, rows given out at the
  limits of groups, choices in two passes, findings that vanish because nothing
  was measured.

The complete list of hazards, each at its line, is in `PROJECT.json`.

## Modules

| Module | Models |
|---|---|
| `JobLedger` | abstract: what the queue promises per key |
| `DeliveryQueue`, `DeliveryQueueProofs` | `SQLiteQueue`; implements `JobLedger` |
| `DeliveryTelemetry` | `DeliveryApplication` over a queue seen from outside, and `LocalTelemetrySink` |
| `ExecutionStore`, `ExecutionStoreProofs` | `ExecutionStore` of a run, as transactions of arbitrary callers |
| `OpenDatabase` | creation of that database, statement by statement |
| `RunPipeline`, `RunPipelineProofs` | extends `ExecutionStore` with `RunStore`, `RunContext` and `RiskProbeService.run` |
| `DatasetSnapshot` | `_stable_dataset_snapshot` and `_recover_stale_dataset_snapshots` |
| `DataSplit` | `_partitions` and `_constrained_composite_split` |
| `RuleBinning`, `RuleSelection` | `fit_woe_binning`; `discover_with_metrics` |
| `EvidenceStore`, `SessionStore`, `ToolGateway` | the evidence log, the journal of a session, authorization and budget of the tools |
| `DecisionController` | prepare, submit, record and replay, validator, provider binding |
| `AgentOrchestrator`, `AgentOrchestratorProofs`, `AgentRecoveryProofs` | composes those four into `orchestrate`: the inside of an agent run |
| `AgentRun` | the same run from outside, as the Host protocol meets it: journal, decision, result file and lock |
| `HostAnswers` | abstract: what a Host may rely on |
| `HostDecision`, `HostDecisionProofs` | extends `AgentRun` with `HostDecisionCoordinator` and the two tools; implements `HostAnswers` |
| `EvolutionRegistry`, `EvolutionRegistryProofs` | `EvolutionRegistry` of `evolution/registry.py` |
| `CitationIndex` | build and query of `LocalCitationIndex` |
| `TerminalReports` | `TerminalReportStore.ensure_published` |
| `StoresProofs` | proofs about `DatasetSnapshot`, `CitationIndex`, `TerminalReports`, `RuleBinning`, `Monitoring`, `DataSplit`, `RuleSelection` and `DeliveryTelemetry` |
| `Monitoring` | `detect_anomalies`, findings, `verify_remediation`, `apply_verification` |
| `MC*` | model values, symmetry and small data for TLC; `MCStores` puts the parts that share nothing into one run |

### How the models correspond to the code

**DeliveryQueue.** `rows` is the table in order of its sequence column (job id =
position), `claims` the leases ever handed out (token = position), which is
what workers know; `now` is `time.time` in seconds. Each public method is one
`BEGIN IMMEDIATE` transaction and so one action: `Enqueue`, `Claim` (leasing,
together with all the dead-lettering on the way), `ClaimNothing` (a claim that
only dead-letters), `Heartbeat`, `Succeed`, `Retry`, `Cancel`, plus `Tick` and
`SetBack`. Refused calls change nothing and are not steps, nor are repeated
ones that only answer: `enqueue` of a bound key, `cancel` of a cancelled job. A
crashed worker is one that never acts on its lease again, or acts too late.

**DeliveryTelemetry.** A client's call commits in the queue first; the event it
must emit waits in `pending` until it is appended to `events`, fails, or is lost
with the client. Opening the sink creates the schema and its head, and an append
checks the head it finds. A repeated `submit` or `cancel` changes no job but is
answered, and so writes another event. The queue changes underneath as workers go
on.

**ExecutionStore.** `nodes` holds a row per node (status `pending` = no row),
`run` the run's status, `trace` the events of each node in order. Run-level
events are left out: nothing compares them. Each method is a transaction:
`Reopen`, `Start`, `Succeed`, `Fail`, `Invalidate`, `CancelRun`, `CancelNode`,
`Reconcile`. `Write` changes rows and appends the events in one commit.
`StoreSpec` lets any process call anything in any order, which is more than the
pipeline does, so its properties hold for all users.

**OpenDatabase.** `_initialize_schema` opens `BEGIN IMMEDIATE`, but
`executescript` of Python's `sqlite3` commits first. From there every statement
is its own transaction: `RunScript`, `ReadVersions`, `InsertVersion`,
`ReadRuns`, `InsertRun`.

**RunPipeline.** `dir`, `files`, `temps`, `manifest`, `anchor`, `lock`, `db` are
the directory, its content, what is beside it, and whether the database exists;
each process has a place `pc`, the position `at` of its node, the attempts `mem`
whose results of each stage it has in memory and the attempt `held` it started.
`Create`, `Recreate`, `Resume`, `Reuse` are the branches of `RunStore.create`;
`Restore`, `Distrust`, `Begin`, `GiveUp`, `WriteFile`, `Finish`,
`FinishRefused` those of a stage; `Seal`, `Anchor`, `Unmark`, `FinalizeRefused`,
`Settle` those of finalize; `ReopenPublished`, `ReconcilePublished` the repair.
An artifact is the attempt that wrote it and, for each stage its own stage takes
something from (`Uses`, read off the arguments `run` passes on), the attempt
whose result that was: this is what coherence depends on. Faults: `Crash`
anywhere, also inside a write; `Error` in a node; `Query` (status and trace);
`Damage` of an unpublished artifact between calls.

**DatasetSnapshot.** A snapshot directory is the set of its parts (`marker`,
`lock`, `file`), and the lock is that of the kernel on the lock file, so it is
gone with its process. Making, using, releasing and removing one's own copy is
one sequence of steps, and recovery another: list, lock, check, remove entry by
entry. Any process dies at any step of either.

**DataSplit, RuleBinning, RuleSelection.** The loops of the code are actions, the
lists it works on are variables, and rows are counted instead of held. A rate is
a fraction and compared as one; where two distances of rates are equal, floats
may prefer either side, and so does the model. What scikit-learn's
`train_test_split` draws from a group is external: its documented apportioning.
The shares 0.6 and 0.8 are taken exactly, which agrees with the floats of the
code for every number of rows up to two million. Where the thresholds of a
feature come from (quantiles, trees, boosting) is left open: any set of cuts.

**EvidenceStore, SessionStore, ToolGateway, DecisionController,
AgentOrchestrator.** The evidence is a sequence of records that name earlier
ones as parents; a record with content that is there already is not appended
again. The journal is a sequence of nodes, each with its parent. The controller
is a set of operators on the evidence, because all it knows it reads from there
before it appends; `AgentOrchestrator` has an action for every append and for
every failure of one, in the order of `AgentOrchestrator.run`: tools in the order
of the plan, decision, recommendation, review, publication. `Recover` is
`recover_terminal_result` with every check it makes. `CliDiagnose` and
`CliRecommend` are commands on the same run, which take no lock. One call at a
time works under the lock; a call that waits for it has done nothing.

**AgentRun and HostDecision.** `journal`, `decision`, `result`, `lock` are the
durable state of the one agent run; `runner[k]` the thread of key `k`, with one
action per append or per block under a lock. `sessions` and `stored` are the
coordinator's memory and its file, `call` the tool calls in progress, `answers`
the answers given so far (history). Each block under the condition variable is
one action; waiting is a place a call stays in until notified or timed out.
`Crash` clears memory, threads and calls and keeps the files.

**EvolutionRegistry.** `candidates`, `active`, `history` and `audit` are the
tables, `schema` the `user_version`. A version id is a hash of contents, gate
and parent, here a position in `candidates`; an audit event is linked to the one
before it by its position. The six metrics are one score: only whether one of
them regressed decides anything. Actions: `Open` (with the migration),
`Register`, `Promote` (bootstrap, challenge and denial), `Rollback`, each one
exclusive transaction, each through a registry object `g` with its own trusted
suites and approvers. Approvals are not used up: the same one may be handed in
again, and the model lets it. A registry of the first schema starts with one
or two promoted versions without reports.

**CitationIndex and TerminalReports.** `directory` (`report`) is what processes
see, `durable` (`onDisk`) what a loss of power may leave instead; a sync makes
the two agree. Metadata is taken to persist in order within one directory, and
key and index to lie in the same one. A process works under the lock of the
store from the first check to the last sync; it fails, dies or loses power at
each step. Documents, encryption and rendering are left out; which version of
the renderer wrote a file is kept, because an upgrade may come in between.

**Monitoring.** A snapshot is its height, targets, segments, columns and rule
lifts; `Detected` gives the alerts of `detect_anomalies`, each with its key,
severity and, where the code computes one, its delta, as an exact fraction. The
stability index of a column is part of the snapshot. A remediation record is
opened for the findings of one kind and retested against any snapshot.

## Runs

| Run | Bounds | Shows |
|---|---|---|
| `queue_safety` | 2 keys, 2 requests, limits 1 and 2, time up to 3, clock may be set back | `LeaseFencing`, `DeadLetterIsTruthful`, `NoOvertaking`, `KeepsLedger` (refinement of `JobLedger`) |
| `queue_fair` | 2 workers, 2 jobs of 2 attempts, monotone clock | `AtMostOneHolder`; `EveryJobEnds` |
| `stores` | see the next table | all properties of the parts that share nothing |
| `run_pipeline` | 2 processes, 3 stages between profile and finalize, 3 attempts (the code's limit), any 2 faults | `PublishedIsCoherent`, `OwnAttempt`, `PublishedStays`, `Settles`, `TraceIsRepaired` |
| `run_query` | one query | violation of `LiveIsNotInterrupted` |
| `run_crash` | one crash | violation of `OneCrashIsSurvived` |
| `open_database` | 2 openers | violation of `OneSchemaVersion` |
| `agent` | 2 findings, 3 actions, 5 proposals, budgets 0 to 4, 2 failures or deaths, 1 command | `JournalRecovers`, `SameAnswer`, `OneDecision`, `ApprovalIsGrounded`, `SingleAttempt` |
| `agent_recover` | no failure, 1 command | violation of `ApprovedStaysRecoverable` |
| `host_safety` | 2 keys, 2 calls, a good and a bad proposal, 2 failures, 1 crash | `OneVerdict` (refinement of `HostAnswers`), `DurableAnswers`, `OneContext`, `NoProposalDropped`, `FinalRecordsStay`, `DecidedOnce` |
| `host_fair` | 2 keys, 1 call, 1 crash | `ProposalIsAnswered`, `WaitsEnd` |
| `host_submit` | 1 key, 1 crash | violation of `SubmitHasRunner` |

In `stores` a behaviour belongs to one part; the others rest in one state.

| Part | Bounds | Shows |
|---|---|---|
| `ExecutionStore` | 2 nodes, 2 inputs, 2 attempts, 1 node and 3 attempts in budget, 4 events per node | `TraceTellsState`, `OneOutcome`, `FreshAttempts` |
| `EvolutionRegistry` | 3 candidates, 4 reports on 2 suites (one fails), 2 registry objects of different trust, 4 rows of history, new and migrated | `RecordsTellActive`, `ForwardOrBack`, `OneSuite` |
| `DatasetSnapshot` | 2 processes, 2 directories | `LiveSnapshotStays` |
| `CitationIndex` | 2 processes, 2 scopes, 2 keys | `BuildsLast`, `IndexOpens` |
| `TerminalReports` | 2 processes, 2 versions of the renderer | `ReportCanBePublished`, `OneReport` |
| `DeliveryTelemetry` | 2 clients, 1 job of 2 attempts, 2 events | `EventsTellHistory` |
| `RuleBinning` | up to 4 bins of up to 2 rows, minimum up to 3, every direction | `BinsAreSound` |
| `DataSplit` | 2 segments, up to 4 dates of up to 4 rows, rows without a date | `SplitsAreSound` |
| `RuleSelection` | 3 features over 5 rows, 3 columns, 2 cuts, beams of 4 and 6, 0 and 2 pairs | `SelectionIsDiverse` |
| `Monitoring` | 26 snapshots of 20 rows that differ from the reference in one respect | `RetestTellsMeasures` |

Why the bounds are enough to be interesting: two jobs with different limits are
what it takes for one claim to bury one and lease the other, and a second
attempt is what makes an old lease old. Two nodes and a node budget of one let
a repair bring in a node the budget would not. Three stages of which the last
takes from both others are the least in which an artifact can be computed from
results of two generations; with three attempts and two faults a run can be
interrupted, damaged and still publish. Two keys share one run and two calls
share one key. Three candidates are a baseline and two challengers of it, and
four rows of history let one be promoted, left, denied and gone back to. Two
processes are an owner and a recovery, a builder and a reader, two publishers;
two scopes are one that is built and one that must be kept; two keys are one
left by a dead process and one made anew. Four bins merge at both ends and in
the middle. Four dates are what the time split needs to have three parts and a
choice. Six is a beam all candidates fit in, four is one that leaves some out.
The proofs below are independent of these bounds.

`CHECK_DEADLOCK FALSE`: the queue stops when every job has ended and the bounded
clock has run out; the node database when `MaxTrace` events are reached, and the
other parts of `stores` when an algorithm has its result or a table is full; the
agent when failures, commands and budgets are used up; the pipeline when the
directory lost its mark and no call accepts it (`Unmarked`, a state of the code
too); the Host when all keys are answered. None of these is a wait of one part
for another; those are covered by the liveness properties.

### Fairness

* `queue_fair`: some worker keeps polling and time passes. Nothing is assumed
  of the worker that holds a lease; heartbeats end at `HeartbeatUntil`.
* `run_pipeline`: a call that has begun takes its next step (it may still die,
  `Crash` is not fair), and somebody asks for the run again. The code starts
  nothing by itself, so without the second nothing can be promised.
* `host_fair`: threads are scheduled, the context's time to live ends, calls
  proceed, and the Host repeats get_context for each key. The last is strong
  fairness: a call may be refused while another one is being served.

### What the properties except, and why

* `JournalRecovers` names two closed journals that give no result: a decision
  that was due but could not be recorded, and an accepted one whose
  recommendations were not completed. The code refuses both
  (`agent_state_incomplete`), although the call that made them got a result.
  Any other caller must use the provider that decided.
* `SameAnswer` leaves open whether the stages of the analysis are named: when
  inspect failed, only a recovered result names them.
* `SingleAttempt`: planner, reviewer and orchestrator have a second attempt,
  which README.md describes, but the fixed plan never asks for it.
* `OneReport` starts over when power is lost: a manifest that is found is
  returned without a sync.
* `EventsTellHistory` does not order the events of different clients.
* `RetestTellsMeasures` says nothing of a measure that no longer exists. The
  retest takes such a finding for mended: its column was dropped or retyped, its
  group became too small, its rule was not evaluated again.

## Proofs

Checked by TLAPS for every value of the constants, from the named `ASSUME`s on
constants only (positive durations and limits, `None` outside the sets, reports
about the known findings, a finite set of actions, as the code's enum is, snapshots
that are counts of rows).

**`DeliveryQueueProofs`.** `Inv` is the type invariant plus: claims of a job are
numbered in the order they were handed out (`ClaimsInv`); a running row holds
its newest, still open claim (`RunningInv`); a job that can run has attempts
left (`AttemptInv`); a success belongs to the last attempt (`SuccessInv`).
`LeaseFencing` alone is not inductive: a reclaim needs to know that an older
claim has a smaller attempt. From `Invariance`: `TypeCorrect`, `Fencing`,
`TruthfulDeadLetters`. `OneHolder` needs in addition that the clock is never set
back and the invariant `HolderInv`. `InOrder` (`NoOvertaking`) follows from `Inv`
action by action. `KeepsItsPromises` is the refinement of `JobLedger`: the initial
states map to initial ones, and every operation of the queue is, for each key,
a step of the ledger or none.

**`ExecutionStoreProofs`.** Every transaction has one shape: each row either
stays, with its trace, or is rewritten with exactly one event that describes it
(`StepShape`); the invariants are then proved against that shape once, not once
per transaction. `StoreInv` adds that starts lie behind their row's attempt
(`StartsBehindRow`) and that a node without a row was never started
(`RowlessIsFresh`): without the first, `FreshAttempts` is not inductive, without
the second, neither is it under `Reconcile`. The step is proved for one
transaction of any caller (`TransactionInv`), so that `RunPipelineProofs` can
cite it. Theorems: `StoreTypeCorrect`, `TraceIsTruthful`, `OutcomeOnce`,
`FiniteRetries`, `StoppedRunsAreQuiet` (a stopped run starts nothing; no run needs
to check it any more).

**`HostDecisionProofs`.** `HInv` has a part for each thing a thread relies on
after it let go of the condition variable. A runner at work has an unfinished
session (`RunnersLive`), so its last write cannot hit a final record; it holds
the lock from the tools to the publication (`LockIsHeld`), so nobody else opens
the journal or decides meanwhile (`JournalIsOpen`); before the journal is open
no session has a context (`NoContextYet`), so the first and only run asks
sessions that have none. A final record on file is that of a finished session
with the same outcome (`FileTellsMemory`), which a restart restores, and a call
about to report carries the outcome of its session (`CallsTellMemory`): what
passes the report check is therefore what is on file. Agent steps leave the
sessions alone (`AgentFrame`), and the steps of coordinator and tools are
instances of one change of one session (`SessionStep`) or of one call
(`CallFrame`). Theorems: `HostTypeCorrect`, `AnswersAreDurable`,
`ContextIsAskedOnce`, `RecordsAreFinal`, `DecisionIsFinalForGood`.

On top of it, `AnswersAreTheVerdict` is the refinement of `HostAnswers`
(`OneVerdict`): `VerdictInv` adds that nothing is published while a runner is at
work and that an outcome other than `no_action` is that of the one decision, so
that every step gives the verdict, repeats it or does not answer.
`ProposalsAreNotDropped` (`NoProposalDropped`) needs an invariant of the states
in which nothing has failed or died (`CalmInv`): every thread that will still look
at the proposal is where it has to be, whichever of expiry and proposal came
first.

**`RunPipelineProofs`.** `PipelineInv` extends `StoreInv` by what ties the calls
of a run to its rows, files and lock. While the run is unpublished at most one
process is at work, the one with the lock (`RunIsLocked`): its directory is
marked (`Marked`), it is at the node whose attempt it started (`AtItsNode`) and
what it remembers of earlier nodes is what their rows say (`Remembers`). Nodes
succeed in order (`InSequence`), and each checkpoint names one artifact, computed
from what succeeded with it (`Vouched`): a resumed run would otherwise put
artifacts of two attempts together. Once it is published nothing moves but the
row of `finalize` (`AllIsPublished`). A step has therefore only its own process to
look after (`OneMoves`). Theorems: `PipelineInvariance`,
`PublishedRunsAreCoherent`, `AttemptsAreOwn`, `PublishedRunsStay`, and
`RunsUseTheStore`: whatever the pipeline does, its database takes steps of
`ExecutionStore`, so what is proved there for arbitrary callers holds of it.

**`AgentOrchestratorProofs`.** `AgentInv` has a part for each thing the recovery
takes from the journal or the evidence without having been there. The evidence
is a chain, its contexts are anchored apart and each is decided at most once
(`EvidenceIsFine`); what a call or a command still has to write rests on it
(`InHand`); at a decision the call has the context and the submission it speaks of
(`AtDecision`). The diagnosis of a call is what the report says
(`DiagnosisIsReport`), its recommendations are accepted by a result about that
diagnosis (`AdviceIsDecided`), and both are also what the journal tells
(`JournalTells`): without the last part a result could not be shown to be what its
closed journal stands for (`ResultIsJournal`). `ApprovedIsGrounded` keeps for the
closed journal what the review checked when the call was still there. A command
beside the run only adds records, and what is read of old records is read again
(`ReadingsStay`). The tools made public are the journal without the decision
(`WithoutDecision`, a recursive function): that an entry at the end changes only
the end of them (`WithoutGrows`) is proved with the least number for which it
fails. Theorems: `AgentInvariance`, `OneAttemptOnly`, `ContextsAreDecidedOnce`,
`SameAnswerAgain`, `ApprovalsAreGrounded`.

**`AgentRecoveryProofs`.** `AgentInv` says what a recovered result is, not that
there is one: for `JournalRecovers` each check of `validate_terminal_result` must
pass on each entry. `TrailInv` is the second inductive invariant, relative to
`AgentInv`, with a part for each thing such a check compares an entry with.
With the entry before it: only the tools that may follow come next, and its
parent is the one before (`Chain`), which fixes the place of every tool
(`FollowsPlan`). With the evidence, as it is when the journal is read and not
when the entry was written: a tool names the findings told, advice is that of
the decision, and a decision replays for its own anchor (`EntriesFit`); an
append must therefore keep every old decision (`Settled`), which holds because
a context that was decided is never decided again. With the run's own input:
records are held once, and the bound findings are the reported ones
(`FindingsAreOurs`). With the call: until the next entry is written the call
has in hand what that entry will be compared with - the context it asked for,
the submission it made, the advice half appended, and what the reviewer is to
hear (`CallIsTold`). And with the review, which is computed from the call but
checked against the entries (`ReviewIsImplied`). Neither part is inductive
without the others. At the end there is one lemma for each check: the branch
(`JournalIsBranch`), the plan (`PlanIsFollowed`, by the shapes a closed journal
can have), the entries of tools (`ToolEntriesPass`), the decision (`AuditsPass`,
which picks the provider), the review (`ExpectedIs`) and the evidence
(`JournalResolves`). The proof needs that a missing result differs from every
result there can be (`NoneAssumption`). Theorems: `TrailInvariance`,
`ClosedJournalsRecover`.

**`StoresProofs`.** *Snapshots:* `SInv` ties what a process is doing to the
parts and the lock of its directory, and what a recovery has locked to what it
saw. `LiveSnapshotStays` alone does not exclude a recovery that has locked the
directory of an owner between its marker and its lock. Theorem:
`SnapshotsOfTheLivingStay`. It also shows that the branch of the code for an
owner whose directory has vanished is never taken.
*Citation index:* `IInv`: one call at work (`OneAtWork`), the key it works with is
the one that lies there (`KeyInHand`), every directory a loss of power may leave
holds what was promised, up to the one scope being committed (`Told`), and a call
has in hand the scopes of the directory, or those with its own replaced
(`ScopesInHand`). Theorems: `IndexCanBeOpened`, `BuildsAreKept`.
*Terminal reports:* `TInv`: one writer (`OneReporting`), a manifest anywhere on
disk lists files that are there for good (`Listed`), and how far the writer is
(`Written`). Theorems: `BegunReportCanBeFinished`, `ReportIsOne`.
*Binning:* `BInv`: between which initial bins each bin lies (`InStep`), that no bin
is too small once the first loop has ended (`LargeEnough`) and no two neighbours
are against the direction once the second has (`InDirection`). With the rows up to
an initial bin as a recursive function, a merge adds two differences
(`InitialSums`); that the order of neighbours is that of all bins is transitivity
of fractions. Theorem: `BinsStaySound`.
*Monitoring:* `RetestInv` says that a verdict on record was found by comparing the
two snapshots the record is about. The rest is about detection: for each kind of
finding the alerts with a delta are exactly those of the measures out of tolerance,
each under a key of its own (`FindingsTell`, `KeysDiffer`), so comparing findings
by key compares measures. Fractions are compared without rounding
(`LessIsTransitive`). Theorem: `RetestsTellMeasures`. It assumes of the snapshots
what their frames are: counts are natural numbers and the reference evaluated
every rule.
*Division of the rows:* `DInv` says that on the way a target has no allocation, or
one with a row of each of its groups on both sides that has not gone over what was
drawn, which the groups have room for (`Allocated`); the target in hand is short of
it as long as a pass goes on (`InPass`). A pass that finds no room would have
allocated all there is room for, and that is enough, so it never gives up
(`StartPassStep`). The bounds of the code are exact: a fair allocation keeps to
them (`BoundsAreFair`), so what is refused has none. A target without allocation
at the end has no rows, because of two rows or more one is drawn (`SevenTenths`).
Theorem: `SplitsStaySound`, for any number of segments, of rows and of dates.
*Selection of rules:* that the rank of the code is a strict total order is itself to
be shown: lifts are compared as fractions, which is transitive only because a
candidate matches rows (`FractionsAreOrdered`, `Supported`), and where lift and
support are equal the texts differ (`ExpressionsAre`). From it, the numbers of
better candidates are all numbers below the size of the set, each once (`RanksAre`),
so `Ranked` lists a set in order (`RankedLists`). `SelInv` says that the beam holds
the first `n[f]` candidates of each feature `f`, with `n` as far as the rounds went,
except for the last round of a full beam (`Drawn`), and that what is selected are the
first pairs of their features, then all those looked at in the second pass
(`PassIsFair`). Theorem: `SelectionStaysDiverse`.
*Telemetry:* `TellInv` says of each client that what it wrote and what it has yet
to write is in the course of the job as the queue has it. Without the pending
event it is not inductive: that becomes history only when it is appended, and by
then the job may be further on. Theorem: `TelemetryIsTrue`.

**`EvolutionRegistryProofs`.** `RInv` is the conjunction of its properties: none
of them is inductive alone, because a step is judged by the active version and
only `RecordsTellActive` says that the active version is the last one of the
audit chain. `BeforeOpening` adds what a database of the first schema looks like
until it is opened. `ActivateStep` is shared by promotion and rollback. Theorems:
`RegistryTypeCorrect`, `RecordsTell`, `OneLine`, `SuiteIsFixed`, `LegacyStays`.
The last two are consequences no check of the code states: a registry is tied
to the suite of its first version, and one migrated with an active version can
only go back and forth between its old versions (`LegacyIsFrozen`, which no run
needs to check any more).

Only model-checked: everything under fairness, as liveness and ENABLED are out of
the prover's reach. Every invariant a run checks is also a theorem. The installed
provers cannot instantiate the library's induction theorems; where a proof here
needs induction on numbers (`WithoutDecision`, the way from an entry up to the
root, `Sums`, `SumTo`, the first pair of its features) it takes the least
counterexample instead (`LeastNumber`).

## Findings

* A status or trace query of a live run interrupts it (`run_query`).
* One killed write makes a run unpublishable (`run_crash`): its temporary file
  is neither cleaned up nor tolerated. A failed write leaves one too.
* Two first openers can leave the node database with two schema versions, after
  which no one can open it (`open_database`).
* After a restart a submit can wait on a session that has no runner
  (`host_submit`).
* One `diagnose --run-id` on a finished run makes its approved, published result
  unverifiable for good (`agent_recover`); during a run it keeps the journal
  from ever being closed.

Seen while modelling, without a statement of the repository to hold it against:
without a metric to compare, a retest takes a finding that got worse from warning
to critical for resolved (`monitoring/remediation.py:361`), and a negative delta
that falls further for a decrease; `_atomic_write` closes its descriptor twice
(`terminal_reports.py:388`); the middle branch of `_population_alerts` and the
last `return None` of the loop in `_constrained_composite_split` are never
reached; recovering a snapshot can raise when its owner removes it at the same
time, and a process that dies before its copy is there leaves a directory nobody
removes.

## Not modelled

* The statistics of monitoring, the validation of rules, the scorecard's
  weights, explanations, metrics and recommendation texts: numerical code over
  data frames without state; their files are artifacts of `RunPipeline`.
* Rendering of reports, the command line apart from the commands above, the
  benchmarks, evaluation and integrations: formatting and thin wrappers.
* Configuration, dataset look-up, profiling, adapters: parsing and validation of
  inputs, sequential, no shared state.
* Ranking of a query of the citation index, its cryptography, and the checks of
  paths, owners and permissions everywhere.
* Tampering with files and the contents of hashes: the models assume files hold
  what the code wrote to them, apart from the faults named above. Separate
  directories for the key and the index are outside the model too.
* The cap on single rules in the selection, which is a plain prefix; metadata
  grade and payload safety in the agent run, which the tools always satisfy; the
  run, status, trace and look-up tools of the gateway, which no agent run calls.

## Plan

1. `AgentOrchestrator` shown to implement `AgentRun`, with the lock and several
   keys.
2. The grades of `rules/validation.py` and the recommendation engine as pure
   decisions.
