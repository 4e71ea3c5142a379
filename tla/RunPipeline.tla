----------------------------- MODULE RunPipeline -----------------------------
(***************************************************************************)
(* One analysis run from its first call to its publication:                *)
(* RiskProbeService.run over the run directory (riskprobe.artifacts,       *)
(* RunStore and RunContext) and the node database (ExecutionStore).        *)
(*                                                                         *)
(* Any number of processes call run for the same run id.  The stages are   *)
(* executed in order; each is a row of the node database and a file in the *)
(* run directory, and no transaction spans both.  A call may die between   *)
(* any two steps; the next call resumes from what it left.                 *)
(*                                                                         *)
(* A file is told apart by the attempt that wrote it and by the attempts   *)
(* of the stages whose results went into it.  The files of one stage are   *)
(* one file here, and the manifest has no checkpoint reference: no call    *)
(* ever verifies it.                                                       *)
(***************************************************************************)
EXTENDS ExecutionStore

CONSTANTS
  Process,    \* processes that call run
  Stages,     \* the nodes with artifacts, in order: partition ... report
  Faults,     \* which of the faults below may happen
  MaxFaults   \* bound on the number of faults

NodeOrder == <<"partition", "discover", "scorecard", "validate", "report">>
StageSet  == {Stages[k] : k \in DOMAIN Stages}

\* A run without a scorecard has no such stage; the others keep their order.
ASSUME PipelineAssumption ==
  /\ Stages \in Seq({NodeOrder[a] : a \in DOMAIN NodeOrder})
  /\ \A j, k \in DOMAIN Stages : j < k =>
       \E a, b \in DOMAIN NodeOrder :
         a < b /\ Stages[j] = NodeOrder[a] /\ Stages[k] = NodeOrder[b]
  /\ Node = {"profile", "finalize"} \cup StageSet
  /\ Artifact = [attempt : 1..MaxAttempts, from : [StageSet -> 0..MaxAttempts]]
  /\ Cardinality(Fingerprint) = 1
  /\ Nothing \notin Process \cup Artifact
  /\ Faults \subseteq {"crash", "query", "damage", "error"}

Order     == <<"profile">> \o Stages \o <<"finalize">>
\* _node_input_fingerprint: a function of run id and node.
Input     == CHOOSE f \in Fingerprint : TRUE

(***************************************************************************)
(* What each stage takes from the stages before it.  The division of the   *)
(* rows is made anew by every call, from the snapshot of the dataset, so   *)
(* data_profile.json is all that partition leaves and nobody reads it.     *)
(***************************************************************************)
PartitionUses == {}
DiscoverUses  == {}
ScorecardUses == {"discover"}
ValidateUses  == {"discover"}
ReportUses    == {"discover", "scorecard", "validate"}

Uses(s) ==
  StageSet \cap CASE s = "partition" -> PartitionUses
                   [] s = "discover"  -> DiscoverUses
                   [] s = "scorecard" -> ScorecardUses
                   [] s = "validate"  -> ValidateUses
                   [] s = "report"    -> ReportUses

VARIABLES
  dir,       \* "absent", "bare" (a directory) or "marked" (.incomplete in it)
  files,     \* the artifact of each stage, Nothing if missing or damaged
  temps,     \* is a dead writer's temporary file left in the directory?
  manifest,  \* what manifest.json records of the files, Nothing without one
  anchor,    \* what the integrity anchor beside the directory records
  lock,      \* the process that holds the run lock
  db,        \* does the runtime database exist?
  pc, at, mem, held,   \* of each process: where it is, the position of its
                       \* node in Order, the attempts whose results of each
                       \* stage it has in memory, the attempt it has started
  faults     \* faults so far

dirVars  == <<dir, files, temps, manifest, anchor>>
procVars == <<pc, at, mem, held>>
vars     == <<nodes, run, trace, dir, files, temps, manifest, anchor, lock, db,
              pc, at, mem, held, faults>>

Place == {"idle", "marking", "open", "look", "work", "wrote", "seal", "anchor",
          "unmark", "settle", "reopen", "reconcile"}

NoResults == [s \in StageSet |-> 0]

Init ==
  /\ StoreInit
  /\ dir = "absent" /\ files = [s \in StageSet |-> Nothing] /\ temps = FALSE
  /\ manifest = Nothing /\ anchor = Nothing
  /\ lock = Nothing /\ db = FALSE
  /\ pc = [p \in Process |-> "idle"]
  /\ at = [p \in Process |-> 1]
  /\ mem = [p \in Process |-> NoResults]
  /\ held = [p \in Process |-> 0]
  /\ faults = 0

\* _is_complete_run, without and with the integrity anchor: the directory holds
\* the files the manifest records and nothing else.
Intact   == manifest # Nothing /\ manifest = files /\ ~ temps
Complete == Intact /\ anchor = manifest

Published == dir = "bare" /\ Complete

Goto(p, place) == pc' = [pc EXCEPT ![p] = place]
Its(p)         == Order[at[p]]

\* Mutant: the lock stays with a call that failed.
ReleaseNothing(p) == UNCHANGED lock /\ Goto(p, "idle")

\* The call ends: RunContext.release.
Release(p) == lock' = Nothing /\ Goto(p, "idle")

-----------------------------------------------------------------------------
(***************************************************************************)
(* RunStore.create.  The lock is taken without waiting: a call that finds  *)
(* it taken fails at once, as does one that finds a directory without      *)
(* .incomplete that is not a complete run.                                 *)
(***************************************************************************)
Create(p) ==
  /\ pc[p] = "idle" /\ lock = Nothing
  /\ dir = "absent"
  /\ dir' = "bare" /\ anchor' = Nothing
  /\ lock' = p /\ Goto(p, "marking")
  /\ UNCHANGED <<storeVars, files, temps, manifest, db, at, mem, held, faults>>

\* A marked directory without a database is removed and made anew.  A crash may
\* leave it without its mark, whether in the removal or before the new mark.
Recreate(p) ==
  /\ pc[p] = "idle" /\ lock = Nothing
  /\ dir = "marked" /\ ~ db
  /\ dir' = "bare" /\ anchor' = Nothing
  /\ files' = [s \in StageSet |-> Nothing] /\ temps' = FALSE /\ manifest' = Nothing
  /\ lock' = p /\ Goto(p, "marking")
  /\ UNCHANGED <<storeVars, db, at, mem, held, faults>>

Mark(p) ==
  /\ pc[p] = "marking"
  /\ dir' = "marked" /\ Goto(p, "open")
  /\ UNCHANGED <<storeVars, files, temps, manifest, anchor, lock, db, at, mem,
                 held, faults>>

\* Mutant: the directory need not be marked incomplete.
ResumeAny(p) ==
  /\ pc[p] = "idle" /\ lock = Nothing
  /\ dir # "absent" /\ db
  /\ lock' = p /\ Goto(p, "open")
  /\ UNCHANGED <<storeVars, dirVars, db, at, mem, held, faults>>

\* Mutant: the lock is not asked for.
ResumeUnlocked(p) ==
  /\ pc[p] = "idle"
  /\ dir = "marked" /\ db
  /\ lock' = p /\ Goto(p, "open")
  /\ UNCHANGED <<storeVars, dirVars, db, at, mem, held, faults>>

Resume(p) ==
  /\ pc[p] = "idle" /\ lock = Nothing
  /\ dir = "marked" /\ db
  /\ lock' = p /\ Goto(p, "open")
  /\ UNCHANGED <<storeVars, dirVars, db, at, mem, held, faults>>

\* A published run: the lock is released at once.
Reuse(p) ==
  /\ pc[p] = "idle" /\ lock = Nothing
  /\ Published
  /\ Goto(p, "reopen")
  /\ UNCHANGED <<storeVars, dirVars, lock, db, at, mem, held, faults>>

-----------------------------------------------------------------------------
\* RunRuntime: the database is created if need be, and running nodes are
\* marked interrupted.
Open(p) ==
  /\ pc[p] = "open"
  /\ db' = TRUE /\ Reopen
  /\ at' = [at EXCEPT ![p] = 1] /\ mem' = [mem EXCEPT ![p] = NoResults]
  /\ Goto(p, "look")
  /\ UNCHANGED <<dirVars, lock, held, faults>>

\* verified_checkpoint: the files still are those the checkpoint refers to.
Verified(s) == nodes[s].artifacts = {files[s]}

\* Mutant: what was computed from the lost artifact is kept.
OnlyIt(p) == {Its(p)}

AndDownstream(p) == {Order[k] : k \in at[p]..Len(Order)}

\* The node at hand has a checkpoint that can be used: it is not run again.
Restore(p) ==
  /\ pc[p] = "look" /\ Its(p) # "finalize"
  /\ HasCheckpoint(Its(p), Input)
  /\ IF Its(p) = "profile" THEN UNCHANGED mem
     ELSE Verified(Its(p)) /\ mem' = [mem EXCEPT ![p][Its(p)] = nodes[Its(p)].attempt]
  /\ at' = [at EXCEPT ![p] = @ + 1]
  /\ UNCHANGED <<storeVars, dirVars, lock, db, pc, held, faults>>

\* Its artifact is not the recorded one, or cannot be restored: the node and all
\* that follow are invalidated.  A checkpoint of finalize is never used.
Distrust(p) ==
  /\ pc[p] = "look" /\ Its(p) # "profile"
  /\ HasCheckpoint(Its(p), Input)
  /\ IF Its(p) = "finalize" \/ ~ Verified(Its(p)) THEN UNCHANGED faults
     ELSE "error" \in Faults /\ faults < MaxFaults /\ faults' = faults + 1
  /\ Invalidate(AndDownstream(p))
  /\ UNCHANGED <<dirVars, lock, db, procVars>>

Begin(p) ==
  /\ pc[p] = "look"
  /\ ~ HasCheckpoint(Its(p), Input)
  /\ Start(Its(p), Input)
  /\ held' = [held EXCEPT ![p] = nodes[Its(p)].attempt + 1]
  /\ Goto(p, CASE Its(p) = "profile"  -> "wrote"
               [] Its(p) = "finalize" -> "seal"
               [] OTHER               -> "work")
  /\ UNCHANGED <<dirVars, lock, db, at, mem, faults>>

\* start_node refuses: the retries of the node are used up.
GiveUp(p) ==
  /\ pc[p] = "look"
  /\ ~ HasCheckpoint(Its(p), Input) /\ ~ CanStart(Its(p))
  /\ Release(p)
  /\ UNCHANGED <<storeVars, dirVars, db, at, mem, held, faults>>

\* The stage's action: RunContext writes through a temporary file.
WriteFile(p) ==
  /\ pc[p] = "work"
  /\ files' = [files EXCEPT ![Its(p)] =
                  [attempt |-> held[p],
                   from |-> [s \in StageSet |->
                              IF s \in Uses(Its(p)) THEN mem[p][s] ELSE 0]]]
  /\ Goto(p, "wrote")
  /\ UNCHANGED <<storeVars, dir, temps, manifest, anchor, lock, db, at, mem,
                 held, faults>>

Finish(p) ==
  /\ pc[p] = "wrote"
  /\ IF Its(p) = "profile" THEN Succeed(Its(p), Input, {}) /\ UNCHANGED mem
     ELSE /\ Succeed(Its(p), Input, {files[Its(p)]})
          /\ mem' = [mem EXCEPT ![p][Its(p)] = held[p]]
  /\ at' = [at EXCEPT ![p] = @ + 1] /\ Goto(p, "look")
  /\ UNCHANGED <<dirVars, lock, db, held, faults>>

\* The node is no longer running: succeed_node is refused, and so is the
\* fail_node of mark_failed, whose error is swallowed.
FinishRefused(p) ==
  /\ pc[p] = "wrote"
  /\ ~ RequireRunning(Its(p), Input)
  /\ Release(p)
  /\ UNCHANGED <<storeVars, dirVars, db, at, mem, held, faults>>

-----------------------------------------------------------------------------
\* Publication: manifest, integrity anchor, removal of the mark and of the lock,
\* and only then the success of the finalize node.
Seal(p) ==
  /\ pc[p] = "seal"
  /\ manifest' = files
  /\ Goto(p, "anchor")
  /\ UNCHANGED <<storeVars, dir, files, temps, anchor, lock, db, at, mem, held,
                 faults>>

Anchor(p) ==
  /\ pc[p] = "anchor" /\ Intact
  /\ anchor' = manifest
  /\ Goto(p, "unmark")
  /\ UNCHANGED <<storeVars, dir, files, temps, manifest, lock, db, at, mem,
                 held, faults>>

Unmark(p) ==
  /\ pc[p] = "unmark" /\ Complete
  /\ dir' = "bare"
  /\ lock' = Nothing /\ Goto(p, "settle")
  /\ UNCHANGED <<storeVars, files, temps, manifest, anchor, db, at, mem, held,
                 faults>>

\* mark_failed: best effort, a refusal is swallowed.
MarkFailed(n) ==
  IF RequireRunning(n, Input) THEN Fail(n, Input) ELSE UNCHANGED storeVars

\* RunContext.finalize finds the directory incomplete.
FinalizeRefused(p) ==
  /\ pc[p] = "anchor" /\ ~ Intact
  /\ MarkFailed("finalize")
  /\ Release(p)
  /\ UNCHANGED <<dirVars, db, at, mem, held, faults>>

\* The outcome of finalize may be refused: the run is public all the same.
Settle(p) ==
  /\ pc[p] = "settle"
  /\ IF RequireRunning("finalize", Input) THEN Succeed("finalize", Input, {})
                                          ELSE UNCHANGED storeVars
  /\ Goto(p, "idle")
  /\ UNCHANGED <<dirVars, lock, db, at, mem, held, faults>>

\* Mutant: the call only opens the database.
ReopenOnly(p) ==
  /\ pc[p] = "reopen"
  /\ Reopen
  /\ Goto(p, "idle")
  /\ UNCHANGED <<dirVars, lock, db, at, mem, held, faults>>

\* A call that found the run published repairs its trace, without the lock.
ReopenPublished(p) ==
  /\ pc[p] = "reopen"
  /\ Reopen
  /\ Goto(p, "reconcile")
  /\ UNCHANGED <<dirVars, lock, db, at, mem, held, faults>>

ReconcilePublished(p) ==
  /\ pc[p] = "reconcile"
  /\ Reconcile("finalize", Input, {})
  /\ Goto(p, "idle")
  /\ UNCHANGED <<dirVars, lock, db, at, mem, held, faults>>

-----------------------------------------------------------------------------
(***************************************************************************)
(* Faults.  Damage strikes while nobody holds the lock and the run is      *)
(* unpublished.                                                            *)
(***************************************************************************)
Fault(kind) == kind \in Faults /\ faults < MaxFaults /\ faults' = faults + 1

\* A writer killed inside a write leaves its temporary file, and so does a write
\* that fails: the path is noted for removal only once the content is flushed.
MayLeaveTemp(p) == IF pc[p] \in {"work", "seal"} THEN temps' \in {temps, TRUE}
                                                 ELSE UNCHANGED temps

\* An exception outside the work of a node ends the call in the same way.

Crash(p) ==
  /\ Fault("crash")
  /\ pc[p] # "idle"
  /\ MayLeaveTemp(p)
  /\ IF lock = p THEN Release(p) ELSE Goto(p, "idle") /\ UNCHANGED lock
  /\ UNCHANGED <<storeVars, dir, files, manifest, anchor, db, at, mem, held>>

\* An exception in the work of a node.
Error(p) ==
  /\ Fault("error")
  /\ pc[p] \in {"work", "wrote", "seal", "anchor", "unmark"}
  /\ MayLeaveTemp(p)
  /\ MarkFailed(Its(p))
  /\ Release(p)
  /\ UNCHANGED <<dir, files, manifest, anchor, db, at, mem, held>>

\* status or trace of the service, the command line and the tools: they open
\* the database like any other user of it.
Query ==
  /\ Fault("query")
  /\ db /\ Running # {} /\ Reopen
  /\ UNCHANGED <<dirVars, lock, db, procVars>>

Damage(s) ==
  /\ Fault("damage")
  /\ lock = Nothing /\ dir = "marked" /\ files[s] # Nothing
  /\ files' = [files EXCEPT ![s] = Nothing]
  /\ UNCHANGED <<storeVars, dir, temps, manifest, anchor, lock, db, procVars>>

-----------------------------------------------------------------------------
Call(p) == Create(p) \/ Recreate(p) \/ Resume(p) \/ Reuse(p)

Step(p) ==
  \/ Mark(p) \/ Open(p) \/ Restore(p) \/ Distrust(p) \/ Begin(p) \/ GiveUp(p)
  \/ WriteFile(p) \/ Finish(p) \/ FinishRefused(p)
  \/ Seal(p) \/ Anchor(p) \/ Unmark(p) \/ FinalizeRefused(p) \/ Settle(p)
  \/ ReopenPublished(p) \/ ReconcilePublished(p)

Next ==
  \/ \E p \in Process : Call(p) \/ Step(p) \/ Crash(p) \/ Error(p)
  \/ Query
  \/ \E s \in StageSet : Damage(s)

Spec == Init /\ [][Next]_vars

\* A call that was begun goes on unless it dies, and somebody asks again.
FairSpec == Spec /\ \A p \in Process : WF_vars(Step(p)) /\ WF_vars(Call(p))

-----------------------------------------------------------------------------
(***************************************************************************)
(* A published run is of one piece: the artifact of every stage was        *)
(* computed from the very results that are published with it, and is the   *)
(* one its checkpoint vouches for, however often the run was interrupted,  *)
(* lost files and resumed.                                                 *)
(***************************************************************************)
PublishedIsCoherent ==
  Published =>
    \A s \in StageSet :
      /\ \A u \in Uses(s) : files[s].from[u] = files[u].attempt
      /\ HasCheckpoint(s, Input) /\ Verified(s)

(***************************************************************************)
(* A published run is immutable: no later call, crash or late step of an   *)
(* earlier call ever touches its directory or its anchor again.            *)
(***************************************************************************)
PublishedStays == [][Published => UNCHANGED dirVars]_vars

(***************************************************************************)
(* The attempt number that finish and fail leave unchecked cannot be       *)
(* wrong: the node a process works on is in the attempt it started, and    *)
(* no two processes work on the same node.  The run lock alone ensures it. *)
(***************************************************************************)
Working == {"work", "wrote", "seal", "anchor", "unmark", "settle"}

OwnAttempt ==
  \A p \in Process : pc[p] \in Working =>
    /\ nodes[Its(p)].attempt = held[p]
    /\ \A q \in Process \ {p} : pc[q] \in Working => Its(q) # Its(p)

\* A node that can be neither used nor started again.
Spent == \E n \in Node : /\ nodes[n].status \notin {"running", "succeeded"}
                         /\ nodes[n].attempt >= MaxAttempts

\* A directory that no call accepts: its creator died before marking it.
Unmarked == dir = "bare" /\ lock = Nothing /\ ~ Complete

(***************************************************************************)
(* If somebody keeps asking and faults end, the run is published unless a  *)
(* node used up its attempts or the directory lost its mark: no lock left  *)
(* behind, stale row or half-done publication can block it for ever.       *)
(***************************************************************************)
Settles == <>(Published \/ Spent \/ Unmarked)

(***************************************************************************)
(* The trace of a published run is repaired: a call that dies or is        *)
(* overtaken between publication and the success of finalize leaves the    *)
(* run running or interrupted only until the next call.                    *)
(***************************************************************************)
TraceIsRepaired == Published ~> run = "succeeded"

(***************************************************************************)
(* status and trace only report: the node of a call that is alive and      *)
(* holds the lock is never taken for the remains of a dead process.        *)
(***************************************************************************)
LiveIsNotInterrupted ==
  \A p \in Process : lock = p /\ pc[p] \in Working =>
    nodes[Its(p)].status # "interrupted"

(***************************************************************************)
(* An interrupted run can be resumed: a single crash never uses up all the *)
(* attempts a node has.                                                    *)
(***************************************************************************)
OneCrashIsSurvived == faults <= 1 => ~ Spent

=============================================================================
