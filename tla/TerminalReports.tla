--------------------------- MODULE TerminalReports ---------------------------
(***************************************************************************)
(* Publishing the terminal report of one subject: terminal_reports.py,     *)
(* TerminalReportStore.ensure_published, called for the same subject by    *)
(* any process of the host as often as it likes.  The directory of the     *)
(* report gets a Markdown file, a Word file and a manifest of the two.     *)
(*                                                                         *)
(* A file is the version of the renderer that made it: processes that run  *)
(* different versions of the program render differently, and a manifest    *)
(* lists the files of the version it bears.  The subject and the model of  *)
(* the report do not change.  Any step may raise, a process may die        *)
(* anywhere, and a loss of power undoes what was not synced, entry by      *)
(* entry and in no particular order.                                       *)
(***************************************************************************)
EXTENDS Naturals

CONSTANTS
  Publisher,   \* processes
  Renderer     \* versions of the program they may run

VARIABLES
  report,    \* what the directory shows under each name: {} or one version
  onDisk,    \* for each name, the states a loss of power may leave
  orphans,   \* names whose temporary file lies in the directory
  publisher, \* where each process is
  reporting, \* the process that has the lock of the report, if any
  answered   \* the manifests returned since power was last lost

reportVars == <<report, onDisk, orphans, publisher, reporting, answered>>

FileName == {"markdown", "docx", "manifest"}

\* Mutant: the manifest comes before the file it lists.
ManifestEarly == [markdown |-> "manifest", manifest |-> "docx", docx |-> "verify"]

\* The files in the order they are written.
AfterFile == [markdown |-> "docx", docx |-> "manifest", manifest |-> "verify"]

Away == [pc |-> "away", file |-> "markdown", version |-> {}]

ReportInit ==
  /\ report = [f \in FileName |-> {}]
  /\ onDisk = [f \in FileName |-> {{}}]
  /\ orphans = {}
  /\ publisher = [p \in Publisher |-> Away]
  /\ reporting = {}
  /\ answered = {}

-----------------------------------------------------------------------------
Stands(p, pc)  == publisher[p].pc = pc
MoveOn(p, pc)  == publisher' = [publisher EXCEPT ![p].pc = pc]
GoAway(p)      == publisher' = [publisher EXCEPT ![p] = Away] /\ reporting' = {}

\* _validate_identity and _verify_bundle: the manifest and exactly its files.
Verified(d) ==
  /\ d["manifest"] # {} /\ orphans = {}
  /\ \A f \in FileName : d[f] = d["manifest"]

\* Mutant: the lock is not waited for.
LockNothing(p) ==
  /\ Stands(p, "away")
  /\ reporting' = {p}
  /\ MoveOn(p, "clean")
  /\ UNCHANGED <<report, onDisk, orphans, answered>>

\* _report_lock
LockReport(p) ==
  /\ Stands(p, "away") /\ reporting = {}
  /\ reporting' = {p}
  /\ MoveOn(p, "clean")
  /\ UNCHANGED <<report, onDisk, orphans, answered>>

RemoveOrphans(p) ==
  /\ Stands(p, "clean")
  /\ orphans' = {}
  /\ MoveOn(p, "load")
  /\ UNCHANGED <<report, onDisk, reporting, answered>>

ReturnExisting(p) ==
  /\ Stands(p, "load")
  /\ Verified(report)
  /\ answered' = answered \cup {report["manifest"]}
  /\ GoAway(p)
  /\ UNCHANGED <<report, onDisk, orphans>>

\* _validate_partial_directory; render_report_markdown, render_report_docx.
Render(p, v) ==
  /\ Stands(p, "load")
  /\ report["manifest"] = {} /\ orphans = {}
  /\ publisher' = [publisher EXCEPT ![p] =
                     [pc |-> "write", file |-> "markdown", version |-> {v}]]
  /\ UNCHANGED <<report, onDisk, orphans, reporting, answered>>

\* _atomic_write: the temporary file, its replacement, the sync.
WriteTemporary(p) ==
  /\ Stands(p, "write")
  /\ orphans' = orphans \cup {publisher[p].file}
  /\ MoveOn(p, "replace")
  /\ UNCHANGED <<report, onDisk, reporting, answered>>

ReplaceFile(p) ==
  /\ Stands(p, "replace")
  /\ LET f == publisher[p].file IN
     /\ report' = [report EXCEPT ![f] = publisher[p].version]
     /\ onDisk' = [onDisk EXCEPT ![f] = @ \cup {publisher[p].version}]
     /\ orphans' = orphans \ {f}
  /\ MoveOn(p, "sync")
  /\ UNCHANGED <<reporting, answered>>

SyncFile(p) ==
  /\ Stands(p, "sync")
  /\ onDisk' = [f \in FileName |-> {report[f]}]
  /\ LET next == AfterFile[publisher[p].file] IN
     publisher' = [publisher EXCEPT ![p] =
       IF next = "verify" THEN [@ EXCEPT !.pc = "verify"]
                          ELSE [@ EXCEPT !.pc = "write", !.file = next]]
  /\ UNCHANGED <<report, orphans, reporting, answered>>

ReturnPublished(p) ==
  /\ Stands(p, "verify")
  /\ Verified(report)
  /\ answered' = answered \cup {publisher[p].version}
  /\ GoAway(p)
  /\ UNCHANGED <<report, onDisk, orphans>>

\* An error of any step; the temporary file of the step is unlinked if it can be.
FailReport(p) ==
  /\ ~ Stands(p, "away")
  /\ orphans' \in {orphans, orphans \ {publisher[p].file}}
  /\ GoAway(p)
  /\ UNCHANGED <<report, onDisk, answered>>

\* A death: the lock goes with the process, and what lies there stays.
DieReporting(p) ==
  /\ ~ Stands(p, "away")
  /\ GoAway(p)
  /\ UNCHANGED <<report, onDisk, orphans, answered>>

LosePower ==
  /\ reporting = {}
  /\ \E d \in [FileName -> UNION {onDisk[f] : f \in FileName}] :
       /\ \A f \in FileName : d[f] \in onDisk[f]
       /\ report' = d
       /\ onDisk' = [f \in FileName |-> {d[f]}]
  /\ orphans' \in SUBSET FileName
  /\ answered' = {}
  /\ UNCHANGED <<publisher, reporting>>

ReportNext ==
  \/ \E p \in Publisher :
       \/ LockReport(p) \/ RemoveOrphans(p) \/ ReturnExisting(p)
       \/ \E v \in Renderer : Render(p, v)
       \/ WriteTemporary(p) \/ ReplaceFile(p) \/ SyncFile(p)
       \/ ReturnPublished(p) \/ FailReport(p) \/ DieReporting(p)
  \/ LosePower

ReportSpec == ReportInit /\ [][ReportNext]_reportVars

-----------------------------------------------------------------------------
(* Properties *)

(***************************************************************************)
(* A report that was begun can be finished: whatever failed, died or was   *)
(* lost, the directory a call finds has either no manifest, and the call   *)
(* writes all three files, or a manifest with both its files.  Otherwise   *)
(* every later call would refuse the directory, and the host could never   *)
(* give its answer.                                                        *)
(***************************************************************************)
ReportCanBePublished ==
  \A d \in [FileName -> {{}} \cup {{v} : v \in Renderer}] :
    (\A f \in FileName : d[f] \in onDisk[f]) =>
      d["manifest"] = {} \/ \A f \in FileName : d[f] = d["manifest"]

(***************************************************************************)
(* A subject has one report: every caller that gets a manifest gets the    *)
(* same, the one in the directory, although processes render differently.  *)
(* Only a loss of power may take it back: a manifest that is found is      *)
(* returned even if the process that wrote it died before syncing it.      *)
(***************************************************************************)
OneReport == answered \subseteq {report["manifest"]}
=============================================================================
