---------------------------- MODULE CitationIndex ----------------------------
(***************************************************************************)
(* The citation index: riskprobe.rag.local, class LocalCitationIndex.      *)
(* One directory holds the index, the key that seals it and a lock file;   *)
(* every call, a build of one scope or a query, holds the lock from its    *)
(* first access to its last.  Any step may raise, a process may die        *)
(* anywhere, and a loss of power takes the directory back to an earlier    *)
(* state, though never before the last fsync and never out of order.       *)
(*                                                                         *)
(* A seal is what it seals: an index carries the number of its key.  Ids,  *)
(* terms and the TF-IDF ranking are left out, as are the checks of names,  *)
(* owners and modes of files: nobody else writes to the directory; and so  *)
(* are temporary files, which nothing reads and the next call removes.  A  *)
(* call that is refused and one that meets an error end alike, in Raise.   *)
(***************************************************************************)
EXTENDS Naturals, FiniteSets

CONSTANTS
  Indexer,     \* processes or threads that use the index
  Scope,
  FilePath,    \* relative paths under the root of documents
  Content,     \* contents of files and of provider summaries
  MaxScopes,   \* _MAX_SCOPES
  MaxSources,  \* _MAX_DOCUMENTS_PER_SCOPE
  MaxDocuments,\* _MAX_TOTAL_DOCUMENTS
  MaxKeys      \* bound on the keys ever made

VARIABLES
  directory,  \* the directory of the index
  durable,    \* the states a loss of power may take it back to
  holder,     \* who has the lock, if anybody
  call,       \* what each indexer is doing
  keys,       \* how many keys were made
  promised    \* what callers have been told each scope holds

indexVars == <<directory, durable, holder, call, keys, promised>>

ASSUME IndexAssumption ==
  {MaxScopes, MaxSources, MaxDocuments, MaxKeys} \subseteq Nat

\* A scope that was never built.
Unbuilt == {"unbuilt"}
Scopes  == [Scope -> (SUBSET Content) \cup {Unbuilt}]

\* Keys are numbered; 0 is no key.  An earlier version wrote the key in place, so
\* a part of one may be found.
NoKey      == 0
PartialKey == MaxKeys + 1

NoIndex     == {}
Index(k, s) == {[key |-> k, scopes |-> s]}
AllUnbuilt  == [s \in Scope |-> Unbuilt]
ScopesOf(d) == IF d.index = NoIndex THEN AllUnbuilt
               ELSE (CHOOSE i \in d.index : TRUE).scopes

Done == [pc |-> "done", scope |-> {}, key |-> NoKey, scopes |-> AllUnbuilt,
         attempted |-> FALSE]

IndexInit ==
  /\ \E k \in {NoKey, PartialKey} :
       directory = [key |-> k, index |-> NoIndex]
  /\ durable = {directory}
  /\ holder = {}
  /\ call = [p \in Indexer |-> Done]
  /\ keys = 0
  /\ promised = [s \in Scope |-> {Unbuilt}]

-----------------------------------------------------------------------------
At(p, pc)     == call[p].pc = pc
Step(p, c)    == call' = [call EXCEPT ![p] = c]
Advance(p, pc) == Step(p, [call[p] EXCEPT !.pc = pc])

\* A change of the directory, and an fsync of it.
Change(d) == directory' = d /\ durable' = durable \cup {d}
SyncDirectory == durable' = {directory} /\ UNCHANGED directory

\* Mutant: only threads of one process exclude one another.
FreeAlways == TRUE
Free == holder = {}

\* _storage_lock.  S is the scope to build, {} in a query.
Enter(p, S) ==
  /\ At(p, "done") /\ Free
  /\ holder' = {p}
  /\ Step(p, [Done EXCEPT !.pc = "key", !.scope = S])
  /\ UNCHANGED <<directory, durable, keys, promised>>

Build(p, s) == Enter(p, {s})
Query(p)    == Enter(p, {})

(***************************************************************************)
(* _load_or_create_key.  A key is linked under its name when it is         *)
(* complete; with an index there, no new key is made.                      *)
(***************************************************************************)
ReadKey(p) ==
  /\ At(p, "key")
  /\ directory.key \in 1..MaxKeys
  /\ Step(p, [call[p] EXCEPT !.pc = "load", !.key = directory.key])
  /\ UNCHANGED <<directory, durable, holder, keys, promised>>

RemovePartialKey(p) ==
  /\ At(p, "key")
  /\ directory.key = PartialKey /\ directory.index = NoIndex
  /\ Change([directory EXCEPT !.key = NoKey])
  /\ UNCHANGED <<holder, call, keys, promised>>

WriteKey(p) ==
  /\ At(p, "key")
  /\ directory.key = NoKey /\ directory.index = NoIndex
  /\ keys < MaxKeys
  /\ keys' = keys + 1
  /\ Step(p, [call[p] EXCEPT !.pc = "link", !.key = keys + 1])
  /\ UNCHANGED <<directory, durable, holder, promised>>

\* Mutant: the key is used although it could not be linked.
LinkKeyOrNot(p) ==
  /\ At(p, "link")
  /\ \E k \in {NoKey, call[p].key} : Change([directory EXCEPT !.key = k])
  /\ Advance(p, "sync key")
  /\ UNCHANGED <<holder, keys, promised>>

LinkKey(p) ==
  /\ At(p, "link")
  /\ Change([directory EXCEPT !.key = call[p].key])
  /\ Advance(p, "sync key")
  /\ UNCHANGED <<holder, keys, promised>>

SyncKey(p) ==
  /\ At(p, "sync key")
  /\ SyncDirectory
  /\ Advance(p, "load")
  /\ UNCHANGED <<holder, keys, promised>>

(***************************************************************************)
(* _load_index: the index must carry the seal of the key.                  *)
(***************************************************************************)
SealedWith(key, index) == \A i \in index : i.key = key

Load(p) ==
  /\ At(p, "load")
  /\ SealedWith(call[p].key, directory.index)
  /\ Step(p, [call[p] EXCEPT !.scopes = ScopesOf(directory),
                !.pc = IF call[p].scope = {} THEN "answer" ELSE "collect"])
  /\ UNCHANGED <<directory, durable, holder, keys, promised>>

(***************************************************************************)
(* _build_locked.  The root is walked against its manifest: all that is    *)
(* approved must be there with the approved content; then come the         *)
(* summaries.  Sources are counted one by one, documents by content.       *)
(***************************************************************************)
Attested(approvals, files) ==
  \A f \in DOMAIN approvals : f \in DOMAIN files /\ files[f] = approvals[f]

Others(p) == {s \in Scope \ call[p].scope : call[p].scopes[s] # Unbuilt}
Existing(p) == UNION {{s} \X call[p].scopes[s] : s \in Others(p)}

WithinLimits(p, sources, documents) ==
  /\ Cardinality(Others(p)) < MaxScopes
  /\ sources <= MaxSources
  /\ Cardinality(Existing(p)) + Cardinality(documents) <= MaxDocuments

Listings == UNION {[F -> Content] : F \in SUBSET FilePath}

Collect(p) ==
  /\ At(p, "collect")
  /\ \E approvals, files \in Listings, summaries \in SUBSET Content :
       LET approved  == {approvals[f] : f \in DOMAIN approvals}
           documents == approved \cup summaries
       IN  /\ Attested(approvals, files)
           /\ WithinLimits(p, Cardinality(DOMAIN approvals) + Cardinality(summaries),
                           documents)
           /\ Step(p, [call[p] EXCEPT !.pc = "write",
                !.scopes = [s \in Scope |-> IF s \in call[p].scope THEN documents
                                                                  ELSE @[s]]])
  /\ UNCHANGED <<directory, durable, holder, keys, promised>>

(***************************************************************************)
(* _write_index: a temporary file, which replaces the index.               *)
(***************************************************************************)
\* index_commit_attempted is set once the temporary file is on disk.
WriteTemp(p) ==
  /\ At(p, "write")
  /\ Step(p, [call[p] EXCEPT !.pc = "replace", !.attempted = TRUE])
  /\ UNCHANGED <<directory, durable, holder, keys, promised>>

Replace(p) ==
  /\ At(p, "replace")
  /\ Change([directory EXCEPT !.index = Index(call[p].key, call[p].scopes)])
  /\ Advance(p, "sync index")
  /\ UNCHANGED <<holder, keys, promised>>

SyncIndex(p) ==
  /\ At(p, "sync index")
  /\ SyncDirectory
  /\ Advance(p, "leave")
  /\ UNCHANGED <<holder, keys, promised>>

(***************************************************************************)
(* The end of a call, and what it tells the caller: a build that returns   *)
(* promises its result; one that raises the error of an uncertain commit,  *)
(* or is never heard of again, leaves both possible; any other error says  *)
(* that nothing has changed.                                               *)
(***************************************************************************)
Returned(p) == [s \in Scope |-> IF s \in call[p].scope THEN {call[p].scopes[s]}
                                                       ELSE promised[s]]
Uncertain(p) == [s \in Scope |-> IF s \in call[p].scope
                                 THEN promised[s] \cup {call[p].scopes[s]}
                                 ELSE promised[s]]

End(p) ==
  /\ holder' = holder \ {p} /\ Step(p, Done)
  /\ UNCHANGED <<directory, durable, keys>>

Leave(p) == At(p, "leave") /\ promised' = Returned(p) /\ End(p)

\* _query_locked: what the query tells is what the index held.
Answer(p) == At(p, "answer") /\ UNCHANGED promised /\ End(p)

Writing == {"write", "replace", "sync index"}

Raise(p) ==
  /\ call[p].pc \notin {"done", "leave"} \cup Writing
  /\ UNCHANGED promised /\ End(p)

\* _write_index fails: once the file may have been replaced, nobody knows.
FailWrite(p) ==
  /\ call[p].pc \in Writing
  /\ promised' = IF call[p].attempted THEN Uncertain(p) ELSE promised
  /\ End(p)

\* The error of a build whose index is committed says that it is uncertain.
FailCommitted(p) == At(p, "leave") /\ promised' = Uncertain(p) /\ End(p)

Vanish(p) ==
  /\ ~ At(p, "done")
  /\ promised' = IF call[p].pc \in {"leave"} \cup Writing THEN Uncertain(p) ELSE promised
  /\ End(p)

PowerLoss ==
  /\ \A p \in Indexer : At(p, "done")
  /\ directory' \in durable /\ durable' = {directory'}
  /\ UNCHANGED <<holder, call, keys, promised>>

IndexNext ==
  \/ \E p \in Indexer :
       \/ Query(p) \/ \E s \in Scope : Build(p, s)
       \/ ReadKey(p) \/ RemovePartialKey(p) \/ WriteKey(p)
       \/ LinkKey(p) \/ SyncKey(p)
       \/ Load(p) \/ Collect(p)
       \/ WriteTemp(p) \/ Replace(p) \/ SyncIndex(p)
       \/ Leave(p) \/ Answer(p)
       \/ Raise(p) \/ FailWrite(p) \/ FailCommitted(p) \/ Vanish(p)
  \/ PowerLoss

IndexSpec == IndexInit /\ [][IndexNext]_indexVars

-----------------------------------------------------------------------------
(* Properties *)

(***************************************************************************)
(* A build lasts.  When nobody is at work, every scope holds what callers  *)
(* were told it holds: the result of the last build that returned, though  *)
(* other scopes were built meanwhile, by other processes, though builds    *)
(* failed or died at any step; and a loss of power does not change that.   *)
(* A query answers from nothing else, whatever goes on beside it.          *)
(***************************************************************************)
BuildsLast ==
  /\ holder = {} =>
       \A d \in durable \cup {directory}, s \in Scope : ScopesOf(d)[s] \in promised[s]
  /\ \A p \in Indexer, s \in Scope :
       At(p, "answer") => call[p].scopes[s] \in promised[s]

(***************************************************************************)
(* An index can be opened: whatever died, failed or was lost while the key *)
(* or the index was written, next to an index lies the complete key it was *)
(* sealed with.  Otherwise every call would refuse it for ever.            *)
(***************************************************************************)
IndexOpens ==
  \A d \in durable \cup {directory} : \A i \in d.index :
    d.key = i.key /\ i.key \in 1..MaxKeys
=============================================================================
