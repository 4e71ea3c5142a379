--------------------------- MODULE DatasetSnapshot ---------------------------
(***************************************************************************)
(* The private copies of a dataset that runs work on: service.py from      *)
(* _snapshot_root to _stable_dataset_snapshot.  A process that enters the  *)
(* context first removes what dead ones left in the common directory, then *)
(* makes its own: marker, lock file, lock, copy; on leaving it unlocks and *)
(* removes it.  Processes run against one another without a common lock,   *)
(* and a process may die anywhere.                                         *)
(*                                                                         *)
(* A directory has a random name and is never made again.  Owner and mode  *)
(* of files are as this code sets them.                                    *)
(***************************************************************************)
EXTENDS Naturals

CONSTANTS
  Copier,     \* processes
  Directory   \* the snapshot directories they may make

VARIABLES
  fresh,   \* names not yet used
  made,    \* directories that exist
  holds,   \* what each directory holds
  locked,  \* the process that has the lock of each directory, or NoCopier
  copier   \* where each process is

snapshotVars == <<fresh, made, holds, locked, copier>>

Part == {"marker", "lock", "file"}

NoCopier == "none"
ASSUME CopierAssumption == NoCopier \notin Copier

\* own: the directory a process has made; found: those it has yet to look at;
\* stale: the one it is about to remove, listed: what is left to remove of it.
Idle == [pc |-> "idle", own |-> {}, found |-> {}, stale |-> {}, listed |-> {}]

SnapshotInit ==
  /\ fresh = Directory /\ made = {}
  /\ holds  = [d \in Directory |-> {}]
  /\ locked = [d \in Directory |-> NoCopier]
  /\ copier = [p \in Copier |-> Idle]

In(p, pc)  == copier[p].pc = pc
Move(p, c) == copier' = [copier EXCEPT ![p] = c]

\* Closing a file or dying releases what p has locked.
Released(p, D) ==
  [d \in Directory |-> IF d \in D /\ locked[d] = p THEN NoCopier ELSE locked[d]]

-----------------------------------------------------------------------------
(***************************************************************************)
(* _recover_stale_dataset_snapshots                                        *)
(***************************************************************************)
List(p) ==
  /\ In(p, "idle")
  /\ Move(p, [Idle EXCEPT !.pc = "recover", !.found = made])
  /\ UNCHANGED <<fresh, made, holds, locked>>

\* Mutant: a lock file that is there is as good as a lock.
LockFileThere(d) == "lock" \in holds[d]

\* _recovery_lock: the lock file is there and nobody has its lock.
Recoverable(d) == "lock" \in holds[d] /\ locked[d] = NoCopier

Skip(p, d) ==
  /\ In(p, "recover") /\ d \in copier[p].found
  /\ ~ Recoverable(d)
  /\ Move(p, [copier[p] EXCEPT !.found = @ \ {d}])
  /\ UNCHANGED <<fresh, made, holds, locked>>

LockStale(p, d) ==
  /\ In(p, "recover") /\ d \in copier[p].found
  /\ Recoverable(d)
  /\ locked' = [locked EXCEPT ![d] = p]
  /\ Move(p, [copier[p] EXCEPT !.pc = "check", !.found = @ \ {d}, !.stale = {d}])
  /\ UNCHANGED <<fresh, made, holds>>

BackToList(p) == [copier[p] EXCEPT !.pc = "recover", !.stale = {}, !.listed = {}]

\* _is_recoverable_snapshot: only a complete directory is removed; one that was
\* left incomplete stays for ever.
IsComplete(d) == holds[d] = Part

CheckStale(p) ==
  /\ In(p, "check")
  /\ \E d \in copier[p].stale :
       IF IsComplete(d)
       THEN /\ Move(p, [copier[p] EXCEPT !.pc = "remove", !.listed = holds[d]])
            /\ UNCHANGED locked
       ELSE /\ Move(p, BackToList(p))
            /\ locked' = Released(p, {d})
  /\ UNCHANGED <<fresh, made, holds>>

\* rmtree, entry by entry.  What somebody else removes meanwhile makes it raise,
\* which ends the run, or is ignored: that depends on the version of Python.
RemoveEntry(p, x) ==
  /\ In(p, "remove") /\ x \in copier[p].listed
  /\ \E d \in copier[p].stale :
       /\ holds' = [holds EXCEPT ![d] = @ \ {x}]
       /\ \/ /\ Move(p, [copier[p] EXCEPT !.listed = @ \ {x}])
             /\ UNCHANGED locked
          \/ /\ x \notin holds[d]
             /\ Move(p, Idle)
             /\ locked' = Released(p, {d})
  /\ UNCHANGED <<fresh, made>>

RemoveStale(p) ==
  /\ In(p, "remove") /\ copier[p].listed = {}
  /\ made' = made \ copier[p].stale
  /\ \/ Move(p, BackToList(p))
     \/ copier[p].stale \cap made = {} /\ Move(p, Idle)
  /\ locked' = Released(p, copier[p].stale)
  /\ UNCHANGED <<fresh, holds>>

-----------------------------------------------------------------------------
(***************************************************************************)
(* _stable_dataset_snapshot                                                *)
(***************************************************************************)
MakeDirectory(p) ==
  /\ In(p, "recover") /\ copier[p].found = {}
  /\ fresh # {}
  /\ LET d == CHOOSE n \in fresh : TRUE
     IN  /\ fresh' = fresh \ {d}
         /\ made' = made \cup {d}
         /\ Move(p, [Idle EXCEPT !.pc = "marker", !.own = {d}])
  /\ UNCHANGED <<holds, locked>>

\* _write_private_marker, then the lock file, then the copy.
AddPart(p, from, x, to) ==
  /\ In(p, from)
  /\ \E d \in copier[p].own :
       \* A directory that is gone: the error ends the run.
       IF d \in made
       THEN /\ holds' = [holds EXCEPT ![d] = @ \cup {x}]
            /\ Move(p, [copier[p] EXCEPT !.pc = to])
       ELSE Move(p, [copier[p] EXCEPT !.pc = "unlock"]) /\ UNCHANGED holds
  /\ UNCHANGED <<fresh, made, locked>>

WriteMarker(p) == AddPart(p, "marker", "marker", "lock")
CreateLock(p)  == AddPart(p, "lock", "lock", "flock")
CopyDataset(p) == AddPart(p, "copy", "file", "using")

\* The lock of one's own directory is waited for.
TakeLock(p) ==
  /\ In(p, "flock")
  /\ \E d \in copier[p].own : locked[d] = NoCopier /\ locked' = [locked EXCEPT ![d] = p]
  /\ Move(p, [copier[p] EXCEPT !.pc = "copy"])
  /\ UNCHANGED <<fresh, made, holds>>

\* The run is done, or a step failed: unlock, and only then remove, ignoring
\* errors.
Release(p) ==
  /\ copier[p].pc \in {"marker", "lock", "flock", "copy", "using", "unlock"}
  /\ locked' = Released(p, copier[p].own)
  /\ Move(p, [copier[p] EXCEPT !.pc = "tidy"])
  /\ UNCHANGED <<fresh, made, holds>>

TidyEntry(p, x) ==
  /\ In(p, "tidy")
  /\ \E d \in copier[p].own : x \in holds[d] /\ holds' = [holds EXCEPT ![d] = @ \ {x}]
  /\ UNCHANGED <<fresh, made, locked, copier>>

Tidy(p) ==
  /\ In(p, "tidy")
  /\ \A d \in copier[p].own : holds[d] = {}
  /\ made' = made \ copier[p].own
  /\ Move(p, Idle)
  /\ UNCHANGED <<fresh, holds, locked>>

Die(p) ==
  /\ ~ In(p, "idle")
  /\ locked' = Released(p, Directory)
  /\ Move(p, Idle)
  /\ UNCHANGED <<fresh, made, holds>>

SnapshotNext ==
  \E p \in Copier :
    \/ List(p) \/ CheckStale(p) \/ RemoveStale(p) \/ MakeDirectory(p)
    \/ WriteMarker(p) \/ CreateLock(p) \/ TakeLock(p) \/ CopyDataset(p)
    \/ Release(p) \/ Tidy(p) \/ Die(p)
    \/ \E d \in Directory : Skip(p, d) \/ LockStale(p, d)
    \/ \E x \in Part : RemoveEntry(p, x) \/ TidyEntry(p, x)

SnapshotSpec == SnapshotInit /\ [][SnapshotNext]_snapshotVars

-----------------------------------------------------------------------------
(***************************************************************************)
(* The copy a run works on stays whole while the run works on it, and so   *)
(* does a directory in the making, whatever the recovery of other          *)
(* processes meets: the two files that say it is alive are not removed.    *)
(***************************************************************************)
LiveSnapshotStays ==
  \A p \in Copier : \A d \in copier[p].own :
    /\ ~ In(p, "tidy") => d \in made
    /\ In(p, "copy")   => {"marker", "lock"} \subseteq holds[d]
    /\ In(p, "using")  => holds[d] = Part
=============================================================================
