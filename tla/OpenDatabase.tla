----------------------------- MODULE OpenDatabase -----------------------------
(***************************************************************************)
(* Creating the runtime database: ExecutionStore.__init__ up to the end of *)
(* _initialize_schema, step by step.                                       *)
(*                                                                         *)
(* The method opens BEGIN IMMEDIATE, but sqlite3's executescript commits a *)
(* pending transaction before it runs its script.  From there on every     *)
(* statement is a transaction of its own, and other openers, the status    *)
(* and trace commands among them, interleave.                              *)
(***************************************************************************)
EXTENDS Naturals

CONSTANT Opener   \* processes that open the database

VARIABLES
  file,       \* does the database file exist?
  versions,   \* how many rows runtime_schema has
  runRow,     \* does runs have its row?
  pc          \* where each opener is

vars == <<file, versions, runRow, pc>>

Goto(o, place) == pc' = [pc EXCEPT ![o] = place]

Init ==
  /\ file = FALSE /\ versions = 0 /\ runRow = FALSE
  /\ pc = [o \in Opener |-> "away"]

\* _prepare_database_file: lstat, then exclusive creation if nothing was found.
Look(o) ==
  /\ pc[o] = "away"
  /\ Goto(o, IF file THEN "script" ELSE "create")
  /\ UNCHANGED <<file, versions, runRow>>

CreateFile(o) ==
  /\ pc[o] = "create"
  /\ file' = TRUE
  /\ Goto(o, IF file THEN "refused" ELSE "script")
  /\ UNCHANGED <<versions, runRow>>

\* The script: CREATE TABLE IF NOT EXISTS, after the implicit commit.
RunScript(o) ==
  /\ pc[o] = "script"
  /\ Goto(o, "readVersions")
  /\ UNCHANGED <<file, versions, runRow>>

ReadVersions(o) ==
  /\ pc[o] = "readVersions"
  /\ Goto(o, CASE versions = 0 -> "insertVersion"
               [] versions = 1 -> "readRuns"
               [] OTHER        -> "refused")
  /\ UNCHANGED <<file, versions, runRow>>

InsertVersion(o) ==
  /\ pc[o] = "insertVersion"
  /\ versions' = versions + 1
  /\ Goto(o, "readRuns")
  /\ UNCHANGED <<file, runRow>>

ReadRuns(o) ==
  /\ pc[o] = "readRuns"
  /\ Goto(o, IF runRow THEN "opened" ELSE "insertRun")
  /\ UNCHANGED <<file, versions, runRow>>

\* A second row for the run breaks the primary key and is refused.
InsertRun(o) ==
  /\ pc[o] = "insertRun"
  /\ runRow' = TRUE
  /\ Goto(o, IF runRow THEN "refused" ELSE "opened")
  /\ UNCHANGED <<file, versions>>

\* The opener dies, is refused or closes; it may come back.
Leave(o) ==
  /\ pc[o] # "away"
  /\ Goto(o, "away")
  /\ UNCHANGED <<file, versions, runRow>>

Next ==
  \E o \in Opener :
    \/ Look(o) \/ CreateFile(o) \/ RunScript(o) \/ ReadVersions(o)
    \/ InsertVersion(o) \/ ReadRuns(o) \/ InsertRun(o) \/ Leave(o)

Spec == Init /\ [][Next]_vars

(***************************************************************************)
(* The check of _initialize_schema that the database holds exactly one     *)
(* schema version, once initialised, never fails: every opener that        *)
(* reaches it later would be refused for ever.                             *)
(***************************************************************************)
OneSchemaVersion == versions <= 1
=============================================================================
