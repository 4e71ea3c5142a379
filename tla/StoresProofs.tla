----------------------------- MODULE StoresProofs -----------------------------
(***************************************************************************)
(* Theorems about parts that share neither state nor calls: the three that *)
(* keep their state in files of a directory, without a database - the      *)
(* snapshots of the dataset, the citation index and the terminal reports - *)
(* the binning of a feature, the retest of a remediation, the division of  *)
(* the rows, the selection of rules and the telemetry of deliveries.  Each *)
(* is proved for every value of its constants, the first three and the     *)
(* last for any number of processes.  What sums are is shown with the      *)
(* binning and used for the division, and that a set of numbers has a      *)
(* least one; else none needs another's lemmas.                            *)
(***************************************************************************)
EXTENDS DatasetSnapshot, CitationIndex, TerminalReports, RuleBinning, RuleSelection,
        Monitoring, DataSplit, DeliveryTelemetry, FiniteSetTheorems, SequenceTheorems, WellFoundedInduction,
        TLAPS

(***************************************************************************)
(* DatasetSnapshot: any number of processes and of directories.            *)
(***************************************************************************)

Recovering == {"recover", "check", "remove"}
Making     == {"marker", "lock", "flock", "copy", "using"}

CopierState == [pc : {"idle", "tidy"} \cup Recovering \cup Making,
                own : SUBSET Directory, found : SUBSET Directory,
                stale : SUBSET Directory, listed : SUBSET Part]

SnapshotWellTyped ==
  /\ fresh \subseteq Directory /\ made \subseteq Directory
  /\ holds \in [Directory -> SUBSET Part]
  /\ locked \in [Directory -> Copier \cup {NoCopier}]
  /\ copier \in [Copier -> CopierState]

\* A name that was not used means nothing to anybody.
FreshIsUnknown ==
  \A d \in fresh :
    /\ d \notin made /\ holds[d] = {}
    /\ \A p \in Copier : d \notin copier[p].own \cup copier[p].found \cup copier[p].stale

\* A process makes one directory, nobody else's, and it grows part by part; it is
\* complete only under the lock of the process.
OwnGrows ==
  \A p \in Copier :
    /\ copier[p].pc \in {"idle"} \cup Recovering => copier[p].own = {}
    /\ \A d \in copier[p].own :
         /\ copier[p].own = {d}
         /\ \A q \in Copier \ {p} : d \notin copier[q].own
         /\ ~ In(p, "tidy") => d \in made
         /\ In(p, "marker") => holds[d] = {}
         /\ In(p, "lock") => holds[d] = {"marker"}
         /\ In(p, "flock") => holds[d] = {"marker", "lock"}
         /\ In(p, "copy") => holds[d] = {"marker", "lock"} /\ locked[d] = p
         /\ In(p, "using") => holds[d] = Part /\ locked[d] = p

\* What is checked or removed is locked by who does it, and what is removed is
\* nobody's who still needs it.
StaleIsLocked ==
  \A p \in Copier :
    /\ copier[p].pc \notin {"check", "remove"} => copier[p].stale = {}
    /\ \A d \in copier[p].stale :
         /\ copier[p].stale = {d} /\ locked[d] = p
         /\ In(p, "remove") =>
              \A q \in Copier : d \in copier[q].own => copier[q].pc = "tidy"

SInv == SnapshotWellTyped /\ FreshIsUnknown /\ OwnGrows /\ StaleIsLocked

-----------------------------------------------------------------------------
LEMMA IdleFacts ==
  /\ Idle \in CopierState /\ Idle.pc = "idle"
  /\ Idle.own = {} /\ Idle.found = {} /\ Idle.stale = {} /\ Idle.listed = {}
  BY DEF Idle, CopierState

LEMMA InitSnapshotInv == SnapshotInit => SInv
<1> SUFFICES ASSUME SnapshotInit PROVE SInv
  OBVIOUS
<1>1. /\ fresh = Directory /\ made = {} /\ holds = [d \in Directory |-> {}]
      /\ locked = [d \in Directory |-> NoCopier]
      /\ copier = [p \in Copier |-> Idle]
  BY DEF SnapshotInit
<1>2. SnapshotWellTyped
  BY <1>1, IdleFacts DEF SnapshotWellTyped
<1>3. FreshIsUnknown /\ OwnGrows /\ StaleIsLocked
  BY <1>1, IdleFacts DEF FreshIsUnknown, OwnGrows, StaleIsLocked
<1> QED BY <1>2, <1>3 DEF SInv

\* A step that gives p the state c.
LEMMA MoveFacts ==
  ASSUME SInv, NEW p \in Copier, NEW c \in CopierState, Move(p, c)
  PROVE  /\ copier' \in [Copier -> CopierState] /\ copier'[p] = c
         /\ \A q \in Copier \ {p} : copier'[q] = copier[q]
  BY DEF SInv, SnapshotWellTyped, Move

LEMMA ListStep == ASSUME SInv, NEW p \in Copier, List(p) PROVE SInv'
<1> DEFINE c == [Idle EXCEPT !.pc = "recover", !.found = made]
<1>1. /\ c \in CopierState /\ c.pc = "recover" /\ c.own = {} /\ c.found = made
      /\ c.stale = {}
  BY IdleFacts DEF SInv, SnapshotWellTyped, CopierState, Recovering
<1>2. Move(p, c) /\ UNCHANGED <<fresh, made, holds, locked>> /\ copier[p].pc = "idle"
  BY DEF List, In
<1> HIDE DEF c
<1>3. /\ copier' \in [Copier -> CopierState] /\ copier'[p] = c
      /\ \A q \in Copier \ {p} : copier'[q] = copier[q]
  BY <1>1, <1>2, MoveFacts
<1>4. SnapshotWellTyped'
  BY <1>2, <1>3 DEF SInv, SnapshotWellTyped
<1>5. FreshIsUnknown'
  BY <1>1, <1>2, <1>3 DEF SInv, FreshIsUnknown
<1>6. OwnGrows'
  BY <1>1, <1>2, <1>3 DEF SInv, OwnGrows, In, Recovering
<1>7. StaleIsLocked'
  BY <1>1, <1>2, <1>3 DEF SInv, StaleIsLocked, In
<1> QED BY <1>4, <1>5, <1>6, <1>7 DEF SInv

LEMMA SkipStep ==
  ASSUME SInv, NEW p \in Copier, NEW d \in Directory, Skip(p, d) PROVE SInv'
<1> DEFINE c == [copier[p] EXCEPT !.found = @ \ {d}]
<1>1. copier[p] \in CopierState
  BY DEF SInv, SnapshotWellTyped
<1>2. /\ c \in CopierState /\ c.pc = copier[p].pc /\ c.own = copier[p].own
      /\ c.found \subseteq copier[p].found /\ c.stale = copier[p].stale
  BY <1>1 DEF CopierState
<1>3. Move(p, c) /\ UNCHANGED <<fresh, made, holds, locked>>
  BY DEF Skip
<1> HIDE DEF c
<1>4. /\ copier' \in [Copier -> CopierState] /\ copier'[p] = c
      /\ \A q \in Copier \ {p} : copier'[q] = copier[q]
  BY <1>2, <1>3, MoveFacts
<1>5. SnapshotWellTyped'
  BY <1>3, <1>4 DEF SInv, SnapshotWellTyped
<1>6. FreshIsUnknown'
  BY <1>2, <1>3, <1>4 DEF SInv, FreshIsUnknown
<1>7. OwnGrows'
  BY <1>2, <1>3, <1>4 DEF SInv, OwnGrows, In, Recovering
<1>8. StaleIsLocked'
  BY <1>2, <1>3, <1>4 DEF SInv, StaleIsLocked, In
<1> QED BY <1>5, <1>6, <1>7, <1>8 DEF SInv

LEMMA LockStaleStep ==
  ASSUME SInv, NEW p \in Copier, NEW d \in Directory, LockStale(p, d) PROVE SInv'
<1> DEFINE c == [copier[p] EXCEPT !.pc = "check", !.found = @ \ {d}, !.stale = {d}]
<1>1. /\ copier[p] \in CopierState /\ copier[p].pc = "recover" /\ d \in copier[p].found
      /\ copier[p].own = {}
  BY DEF LockStale, In, SInv, SnapshotWellTyped, OwnGrows, Recovering
<1>2. /\ c \in CopierState /\ c.pc = "check" /\ c.own = {}
      /\ c.found \subseteq copier[p].found /\ c.stale = {d}
  BY <1>1 DEF CopierState, Recovering
<1>3. /\ Move(p, c) /\ UNCHANGED <<fresh, made, holds>>
      /\ locked' = [locked EXCEPT ![d] = p] /\ locked[d] = NoCopier
  BY DEF LockStale, Recoverable
<1> HIDE DEF c
<1>4. /\ copier' \in [Copier -> CopierState] /\ copier'[p] = c
      /\ \A q \in Copier \ {p} : copier'[q] = copier[q]
  BY <1>2, <1>3, MoveFacts
<1>5. /\ locked' \in [Directory -> Copier \cup {NoCopier}] /\ locked'[d] = p
      /\ \A e \in Directory \ {d} : locked'[e] = locked[e]
  BY <1>3 DEF SInv, SnapshotWellTyped
<1>6. SnapshotWellTyped'
  BY <1>3, <1>4, <1>5 DEF SInv, SnapshotWellTyped
<1>7. FreshIsUnknown'
  BY <1>1, <1>2, <1>3, <1>4 DEF SInv, FreshIsUnknown
<1>8. \A q \in Copier, e \in Directory : locked[e] = q => locked'[e] = q
  BY <1>3, <1>5, CopierAssumption
<1>9. OwnGrows'
  BY <1>1, <1>2, <1>3, <1>4, <1>8
  DEF SInv, SnapshotWellTyped, CopierState, OwnGrows, In, Recovering
<1>10. StaleIsLocked'
  BY <1>2, <1>3, <1>4, <1>5, <1>8
  DEF SInv, SnapshotWellTyped, CopierState, StaleIsLocked, In
<1> QED BY <1>6, <1>7, <1>9, <1>10 DEF SInv

LEMMA ReleasedFacts ==
  ASSUME SInv, NEW p \in Copier, NEW D
  PROVE  /\ Released(p, D) \in [Directory -> Copier \cup {NoCopier}]
         /\ \A d \in Directory, q \in Copier \ {p} :
              locked[d] = q => Released(p, D)[d] = q
         /\ \A d \in Directory \ D : Released(p, D)[d] = locked[d]
  BY DEF Released, SInv, SnapshotWellTyped

\* A process that lets go what it held; what disappears nobody else still needs.
LEMMA LetGo ==
  ASSUME SInv, NEW p \in Copier, NEW c \in CopierState,
         Move(p, c), c.own = {}, c.stale = {}, c.found \subseteq copier[p].found,
         c.pc \in {"idle", "recover"},
         NEW D, locked' = Released(p, D), UNCHANGED <<fresh, holds>>,
         made' \subseteq made,
         \A d \in made \ made', q \in Copier \ {p} :
           d \in copier[q].own => copier[q].pc = "tidy"
  PROVE  SInv'
<1>1. /\ copier' \in [Copier -> CopierState] /\ copier'[p] = c
      /\ \A q \in Copier \ {p} : copier'[q] = copier[q]
  BY MoveFacts
<1>2. /\ locked' \in [Directory -> Copier \cup {NoCopier}]
      /\ \A d \in Directory, q \in Copier \ {p} : locked[d] = q => locked'[d] = q
  BY ReleasedFacts
<1>3. SnapshotWellTyped'
  BY <1>1, <1>2 DEF SInv, SnapshotWellTyped
<1>4. FreshIsUnknown'
  BY <1>1 DEF SInv, FreshIsUnknown
<1>5. \A q \in Copier \ {p} :
        /\ \A d \in copier[q].own : locked[d] = q => locked'[d] = q
        /\ \A d \in copier[q].stale : locked[d] = q => locked'[d] = q
  BY <1>2 DEF SInv, SnapshotWellTyped, CopierState
<1>6. \A q \in Copier \ {p} : \A d \in copier[q].own :
        ~ In(q, "tidy") => d \in made'
  BY DEF SInv, OwnGrows, In
<1>7. OwnGrows'
  BY <1>1, <1>5, <1>6 DEF SInv, OwnGrows, In, Recovering
<1>8. StaleIsLocked'
  BY <1>1, <1>5 DEF SInv, StaleIsLocked, In
<1> QED BY <1>3, <1>4, <1>7, <1>8 DEF SInv

LEMMA BackFacts ==
  ASSUME SInv, NEW p \in Copier
  PROVE  /\ BackToList(p) \in CopierState /\ BackToList(p).pc = "recover"
         /\ BackToList(p).own = copier[p].own /\ BackToList(p).found = copier[p].found
         /\ BackToList(p).stale = {}
<1>1. copier[p] \in CopierState
  BY DEF SInv, SnapshotWellTyped
<1> QED BY <1>1 DEF BackToList, CopierState, Recovering

LEMMA CheckStaleStep == ASSUME SInv, NEW p \in Copier, CheckStale(p) PROVE SInv'
<1>1. PICK d \in copier[p].stale :
        IF IsComplete(d)
        THEN /\ Move(p, [copier[p] EXCEPT !.pc = "remove", !.listed = holds[d]])
             /\ UNCHANGED locked
        ELSE Move(p, BackToList(p)) /\ locked' = Released(p, {d})
  BY DEF CheckStale
<1>2. /\ copier[p] \in CopierState /\ copier[p].pc = "check" /\ copier[p].own = {}
      /\ d \in Directory /\ copier[p].stale = {d} /\ locked[d] = p
      /\ UNCHANGED <<fresh, made, holds>>
  BY <1>1 DEF CheckStale, In, SInv, SnapshotWellTyped, OwnGrows, StaleIsLocked,
     Recovering, CopierState
<1>3. CASE ~ IsComplete(d)
  BY <1>1, <1>2, <1>3, BackFacts, LetGo
<1>4. CASE IsComplete(d)
  <2> DEFINE c == [copier[p] EXCEPT !.pc = "remove", !.listed = holds[d]]
  <2>1. /\ c \in CopierState /\ c.pc = "remove" /\ c.own = {} /\ c.stale = {d}
        /\ c.found = copier[p].found
    BY <1>2 DEF CopierState, Recovering, SInv, SnapshotWellTyped
  <2>2. Move(p, c) /\ UNCHANGED locked /\ holds[d] = Part
    BY <1>1, <1>4 DEF IsComplete
  <2> HIDE DEF c
  <2>3. /\ copier' \in [Copier -> CopierState] /\ copier'[p] = c
        /\ \A q \in Copier \ {p} : copier'[q] = copier[q]
    BY <2>1, <2>2, MoveFacts
  <2>4. SnapshotWellTyped'
    BY <1>2, <2>2, <2>3 DEF SInv, SnapshotWellTyped
  <2>5. FreshIsUnknown'
    BY <1>2, <2>1, <2>3 DEF SInv, FreshIsUnknown
  <2>6. OwnGrows'
    BY <1>2, <2>1, <2>2, <2>3 DEF SInv, OwnGrows, In, Recovering
  <2>7. ASSUME NEW q \in Copier, d \in copier[q].own PROVE copier[q].pc = "tidy"
    <3>1. q # p /\ copier[q] \in CopierState
      BY <1>2, <2>7 DEF SInv, SnapshotWellTyped
    <3>2. ~ (copier[q].pc \in {"idle"} \cup Recovering)
      BY <2>7 DEF SInv, OwnGrows
    <3>3. ~ (copier[q].pc \in {"marker", "lock", "flock", "copy"})
      BY <2>2, <2>7 DEF SInv, OwnGrows, In, Part
    <3>4. copier[q].pc # "using"
      BY <1>2, <2>7, <3>1 DEF SInv, OwnGrows, In
    <3> QED BY <3>1, <3>2, <3>3, <3>4 DEF CopierState, Making
  <2>8. StaleIsLocked'
    BY <1>2, <2>1, <2>2, <2>3, <2>7 DEF SInv, StaleIsLocked, In
  <2> QED BY <2>4, <2>5, <2>6, <2>8 DEF SInv
<1> QED BY <1>3, <1>4

\* What p changes in a directory nobody needs but those who tidy up.
LEMMA NobodysPart ==
  ASSUME SInv, NEW p \in Copier, NEW d \in Directory, d \notin fresh,
         \A q \in Copier : d \in copier[q].own => copier[q].pc = "tidy",
         NEW x, holds' = [holds EXCEPT ![d] = @ \ {x}],
         UNCHANGED <<fresh, made, locked>>,
         copier' \in [Copier -> CopierState],
         \A q \in Copier : /\ copier'[q].pc = copier[q].pc
                           /\ copier'[q].own = copier[q].own
                           /\ copier'[q].found = copier[q].found
                           /\ copier'[q].stale = copier[q].stale
  PROVE  SInv'
<1>1. /\ holds' \in [Directory -> SUBSET Part]
      /\ \A e \in Directory \ {d} : holds'[e] = holds[e]
  BY DEF SInv, SnapshotWellTyped
<1>2. SnapshotWellTyped'
  BY <1>1 DEF SInv, SnapshotWellTyped
<1>3. FreshIsUnknown'
  BY <1>1 DEF SInv, FreshIsUnknown, SnapshotWellTyped
<1>4. OwnGrows'
  BY <1>1 DEF SInv, OwnGrows, In, SnapshotWellTyped, CopierState
<1>5. StaleIsLocked'
  BY <1>1 DEF SInv, StaleIsLocked, In
<1> QED BY <1>2, <1>3, <1>4, <1>5 DEF SInv

LEMMA RemoveEntryStep ==
  ASSUME SInv, NEW p \in Copier, NEW x \in Part, RemoveEntry(p, x) PROVE SInv'
<1>1. PICK d \in copier[p].stale :
        /\ holds' = [holds EXCEPT ![d] = @ \ {x}]
        /\ \/ /\ Move(p, [copier[p] EXCEPT !.listed = @ \ {x}])
              /\ UNCHANGED locked
           \/ /\ x \notin holds[d]
              /\ Move(p, Idle)
              /\ locked' = Released(p, {d})
  BY DEF RemoveEntry
<1>2. /\ copier[p] \in CopierState /\ copier[p].pc = "remove" /\ d \in Directory
      /\ d \notin fresh /\ UNCHANGED <<fresh, made>>
      /\ \A q \in Copier : d \in copier[q].own => copier[q].pc = "tidy"
  BY <1>1 DEF RemoveEntry, In, SInv, SnapshotWellTyped, FreshIsUnknown, StaleIsLocked,
     CopierState
<1>3. CASE Move(p, [copier[p] EXCEPT !.listed = @ \ {x}]) /\ UNCHANGED locked
  <2> DEFINE c == [copier[p] EXCEPT !.listed = @ \ {x}]
  <2>1. /\ c \in CopierState /\ c.pc = copier[p].pc /\ c.own = copier[p].own
        /\ c.found = copier[p].found /\ c.stale = copier[p].stale
    BY <1>2 DEF CopierState
  <2>2. Move(p, c)
    BY <1>3
  <2> HIDE DEF c
  <2>3. /\ copier' \in [Copier -> CopierState] /\ copier'[p] = c
        /\ \A q \in Copier \ {p} : copier'[q] = copier[q]
    BY <2>1, <2>2, MoveFacts
  <2> QED BY <1>1, <1>2, <1>3, <2>1, <2>3, NobodysPart
<1>4. CASE x \notin holds[d] /\ Move(p, Idle) /\ locked' = Released(p, {d})
  <2>1. holds' = holds
    BY <1>1, <1>2, <1>4 DEF SInv, SnapshotWellTyped
  <2> QED BY <1>2, <1>4, <2>1, IdleFacts, LetGo
<1> QED BY <1>1, <1>3, <1>4

LEMMA RemoveStaleStep == ASSUME SInv, NEW p \in Copier, RemoveStale(p) PROVE SInv'
<1>1. /\ copier[p].pc = "remove" /\ made' = made \ copier[p].stale
      /\ copier[p].own = {}
      /\ Move(p, BackToList(p)) \/ Move(p, Idle)
      /\ locked' = Released(p, copier[p].stale) /\ UNCHANGED <<fresh, holds>>
  BY DEF RemoveStale, In, SInv, OwnGrows, Recovering
<1>2. \A d \in made \ made', q \in Copier \ {p} :
        d \in copier[q].own => copier[q].pc = "tidy"
  BY <1>1 DEF SInv, StaleIsLocked, In
<1>3. made' \subseteq made
  BY <1>1
<1>4. CASE Move(p, BackToList(p))
  BY <1>1, <1>2, <1>3, <1>4, BackFacts, LetGo
<1>5. CASE Move(p, Idle)
  BY <1>1, <1>2, <1>3, <1>5, IdleFacts, LetGo
<1> QED BY <1>1, <1>4, <1>5

LEMMA TidyStep == ASSUME SInv, NEW p \in Copier, Tidy(p) PROVE SInv'
<1>1. /\ copier[p].pc = "tidy" /\ made' = made \ copier[p].own /\ Move(p, Idle)
      /\ UNCHANGED <<fresh, holds, locked>> /\ made' \subseteq made
  BY DEF Tidy, In
<1>2. \A d \in made \ made', q \in Copier \ {p} : d \notin copier[q].own
  BY <1>1 DEF SInv, OwnGrows
<1>3. locked' = Released(p, {})
  BY <1>1 DEF Released, SInv, SnapshotWellTyped
<1> QED BY <1>1, <1>2, <1>3, IdleFacts, LetGo

LEMMA DieStep == ASSUME SInv, NEW p \in Copier, Die(p) PROVE SInv'
<1>1. /\ Move(p, Idle) /\ locked' = Released(p, Directory)
      /\ UNCHANGED <<fresh, made, holds>>
  BY DEF Die
<1> QED BY <1>1, IdleFacts, LetGo

LEMMA MakeDirectoryStep == ASSUME SInv, NEW p \in Copier, MakeDirectory(p) PROVE SInv'
<1> DEFINE d == CHOOSE n \in fresh : TRUE
           c == [Idle EXCEPT !.pc = "marker", !.own = {d}]
<1>1. /\ copier[p].pc = "recover" /\ d \in fresh /\ fresh' = fresh \ {d}
      /\ made' = made \cup {d} /\ Move(p, c) /\ UNCHANGED <<holds, locked>>
  BY DEF MakeDirectory, In
<1>2. d \in Directory
  BY <1>1 DEF SInv, SnapshotWellTyped
<1>3. /\ c \in CopierState /\ c.pc = "marker" /\ c.own = {d} /\ c.found = {}
      /\ c.stale = {}
  BY <1>2, IdleFacts DEF CopierState, Making
<1> HIDE DEF c, d
<1>4. /\ copier' \in [Copier -> CopierState] /\ copier'[p] = c
      /\ \A q \in Copier \ {p} : copier'[q] = copier[q]
  BY <1>1, <1>3, MoveFacts
<1>5. /\ holds[d] = {}
      /\ \A q \in Copier : d \notin copier[q].own \cup copier[q].found \cup copier[q].stale
  BY <1>1 DEF SInv, FreshIsUnknown
<1>6. SnapshotWellTyped'
  BY <1>1, <1>2, <1>4 DEF SInv, SnapshotWellTyped
<1>7. FreshIsUnknown'
  BY <1>1, <1>3, <1>4 DEF SInv, FreshIsUnknown
<1>8. OwnGrows'
  BY <1>1, <1>3, <1>4, <1>5 DEF SInv, OwnGrows, In, Recovering
<1>9. StaleIsLocked'
  BY <1>1, <1>3, <1>4, <1>5 DEF SInv, StaleIsLocked, In
<1> QED BY <1>6, <1>7, <1>8, <1>9 DEF SInv

\* What the owner of a directory knows.
LEMMA OwnerFacts ==
  ASSUME SInv, NEW p \in Copier, NEW d \in copier[p].own
  PROVE  /\ copier[p] \in CopierState /\ copier[p].own = {d}
         /\ d \in Directory /\ d \notin fresh /\ copier[p].stale = {}
         /\ \A q \in Copier \ {p} : d \notin copier[q].own
         /\ ~ In(p, "tidy") => d \in made
<1>1. copier[p].pc \notin Recovering
  BY DEF SInv, OwnGrows
<1> QED BY <1>1 DEF SInv, SnapshotWellTyped, CopierState, FreshIsUnknown, OwnGrows,
     StaleIsLocked, Recovering

LEMMA AddPartStep ==
  ASSUME SInv, NEW p \in Copier, WriteMarker(p) \/ CreateLock(p) \/ CopyDataset(p)
  PROVE  SInv'
<1>1. PICK from \in {"marker", "lock", "copy"}, x \in Part, to \in {"lock", "flock", "using"} :
        /\ AddPart(p, from, x, to)
        /\ from = "marker" => x = "marker" /\ to = "lock"
        /\ from = "lock" => x = "lock" /\ to = "flock"
        /\ from = "copy" => x = "file" /\ to = "using"
  BY DEF WriteMarker, CreateLock, CopyDataset, Part
<1>2. PICK d \in copier[p].own :
        IF d \in made
        THEN /\ holds' = [holds EXCEPT ![d] = @ \cup {x}]
             /\ Move(p, [copier[p] EXCEPT !.pc = to])
        ELSE Move(p, [copier[p] EXCEPT !.pc = "unlock"]) /\ UNCHANGED holds
  BY <1>1 DEF AddPart
<1>3. copier[p].pc = from /\ UNCHANGED <<fresh, made, locked>>
  BY <1>1 DEF AddPart, In
<1> DEFINE c == [copier[p] EXCEPT !.pc = to]
<1>4. /\ copier[p] \in CopierState /\ copier[p].own = {d} /\ d \in Directory
      /\ d \notin fresh /\ d \in made /\ copier[p].stale = {}
      /\ \A q \in Copier \ {p} : d \notin copier[q].own
  BY <1>3, OwnerFacts DEF In
<1>5. /\ c \in CopierState /\ c.pc = to /\ c.own = {d} /\ c.stale = {}
      /\ c.found = copier[p].found
  BY <1>4 DEF CopierState, Making
<1>6. Move(p, c) /\ holds' = [holds EXCEPT ![d] = @ \cup {x}]
  BY <1>2, <1>4
<1> HIDE DEF c
<1>7. /\ copier' \in [Copier -> CopierState] /\ copier'[p] = c
      /\ \A q \in Copier \ {p} : copier'[q] = copier[q]
  BY <1>5, <1>6, MoveFacts
<1>8. /\ holds' \in [Directory -> SUBSET Part] /\ holds'[d] = holds[d] \cup {x}
      /\ \A e \in Directory \ {d} : holds'[e] = holds[e]
  BY <1>4, <1>6 DEF SInv, SnapshotWellTyped
<1>9. SnapshotWellTyped'
  BY <1>3, <1>7, <1>8 DEF SInv, SnapshotWellTyped
<1>10. FreshIsUnknown'
  BY <1>3, <1>4, <1>5, <1>7, <1>8 DEF SInv, SnapshotWellTyped, FreshIsUnknown
<1>11. /\ to = "lock" => holds'[d] = {"marker"}
       /\ to = "flock" => holds'[d] = {"marker", "lock"}
       /\ to = "using" => holds'[d] = Part /\ locked'[d] = p
  BY <1>1, <1>3, <1>8 DEF SInv, OwnGrows, In, Part
<1>12. \A q \in Copier \ {p} : \A e \in copier[q].own : holds'[e] = holds[e]
  BY <1>4, <1>8 DEF SInv, SnapshotWellTyped, CopierState
<1>13. OwnGrows'
  BY <1>3, <1>4, <1>5, <1>7, <1>11, <1>12 DEF SInv, OwnGrows, In, Recovering
<1>14. StaleIsLocked'
  BY <1>3, <1>4, <1>5, <1>7 DEF SInv, StaleIsLocked, In
<1> QED BY <1>9, <1>10, <1>13, <1>14 DEF SInv

LEMMA TakeLockStep == ASSUME SInv, NEW p \in Copier, TakeLock(p) PROVE SInv'
<1>1. PICK d \in copier[p].own :
        locked[d] = NoCopier /\ locked' = [locked EXCEPT ![d] = p]
  BY DEF TakeLock
<1> DEFINE c == [copier[p] EXCEPT !.pc = "copy"]
<1>2. /\ copier[p].pc = "flock" /\ Move(p, c) /\ UNCHANGED <<fresh, made, holds>>
  BY DEF TakeLock, In
<1>3. /\ copier[p] \in CopierState /\ copier[p].own = {d} /\ d \in Directory
      /\ d \notin fresh /\ d \in made /\ copier[p].stale = {}
      /\ \A q \in Copier \ {p} : d \notin copier[q].own
  BY <1>2, OwnerFacts DEF In
<1>4. /\ c \in CopierState /\ c.pc = "copy" /\ c.own = {d} /\ c.stale = {}
      /\ c.found = copier[p].found
  BY <1>3 DEF CopierState, Making
<1> HIDE DEF c
<1>5. /\ copier' \in [Copier -> CopierState] /\ copier'[p] = c
      /\ \A q \in Copier \ {p} : copier'[q] = copier[q]
  BY <1>2, <1>4, MoveFacts
<1>6. /\ locked' \in [Directory -> Copier \cup {NoCopier}] /\ locked'[d] = p
      /\ \A e \in Directory \ {d} : locked'[e] = locked[e]
  BY <1>1, <1>3 DEF SInv, SnapshotWellTyped
<1>7. SnapshotWellTyped'
  BY <1>2, <1>5, <1>6 DEF SInv, SnapshotWellTyped
<1>8. FreshIsUnknown'
  BY <1>2, <1>3, <1>4, <1>5 DEF SInv, FreshIsUnknown
<1>9. \A q \in Copier :
        /\ \A e \in copier[q].own : locked[e] = q => locked'[e] = q
        /\ \A e \in copier[q].stale : locked[e] = q => locked'[e] = q
  BY <1>1, <1>6, CopierAssumption DEF SInv, SnapshotWellTyped, CopierState
<1>10. holds'[d] = {"marker", "lock"}
  BY <1>2 DEF SInv, OwnGrows, In
<1>11. OwnGrows'
  BY <1>2, <1>3, <1>4, <1>5, <1>6, <1>9, <1>10 DEF SInv, OwnGrows, In, Recovering
<1>12. StaleIsLocked'
  BY <1>2, <1>3, <1>4, <1>5, <1>9 DEF SInv, StaleIsLocked, In
<1> QED BY <1>7, <1>8, <1>11, <1>12 DEF SInv

LEMMA ReleaseStep == ASSUME SInv, NEW p \in Copier, Release(p) PROVE SInv'
<1> DEFINE c == [copier[p] EXCEPT !.pc = "tidy"]
<1>1. /\ copier[p] \in CopierState /\ copier[p].stale = {}
      /\ Move(p, c) /\ locked' = Released(p, copier[p].own)
      /\ UNCHANGED <<fresh, made, holds>>
  BY DEF Release, SInv, SnapshotWellTyped, StaleIsLocked
<1>2. /\ c \in CopierState /\ c.pc = "tidy" /\ c.own = copier[p].own /\ c.stale = {}
      /\ c.found = copier[p].found
  BY <1>1 DEF CopierState
<1> HIDE DEF c
<1>3. /\ copier' \in [Copier -> CopierState] /\ copier'[p] = c
      /\ \A q \in Copier \ {p} : copier'[q] = copier[q]
  BY <1>1, <1>2, MoveFacts
<1>4. /\ locked' \in [Directory -> Copier \cup {NoCopier}]
      /\ \A d \in Directory, q \in Copier \ {p} : locked[d] = q => locked'[d] = q
  BY <1>1, ReleasedFacts
<1>5. \A q \in Copier \ {p} :
        /\ \A d \in copier[q].own : locked[d] = q => locked'[d] = q
        /\ \A d \in copier[q].stale : locked[d] = q => locked'[d] = q
  BY <1>4 DEF SInv, SnapshotWellTyped, CopierState
<1>6. SnapshotWellTyped'
  BY <1>1, <1>3, <1>4 DEF SInv, SnapshotWellTyped
<1>7. FreshIsUnknown'
  BY <1>1, <1>2, <1>3 DEF SInv, FreshIsUnknown
<1>8. OwnGrows'
  BY <1>1, <1>2, <1>3, <1>5 DEF SInv, OwnGrows, In, Recovering
<1>9. StaleIsLocked'
  BY <1>1, <1>2, <1>3, <1>5 DEF SInv, StaleIsLocked, In
<1> QED BY <1>6, <1>7, <1>8, <1>9 DEF SInv

LEMMA TidyEntryStep ==
  ASSUME SInv, NEW p \in Copier, NEW x \in Part, TidyEntry(p, x) PROVE SInv'
<1>1. PICK d \in copier[p].own : holds' = [holds EXCEPT ![d] = @ \ {x}]
  BY DEF TidyEntry
<1>2. copier[p].pc = "tidy" /\ UNCHANGED <<fresh, made, locked, copier>>
  BY DEF TidyEntry, In
<1>3. /\ d \in Directory /\ d \notin fresh
      /\ \A q \in Copier : d \in copier[q].own => copier[q].pc = "tidy"
  BY <1>2, OwnerFacts
<1> QED BY <1>1, <1>2, <1>3, NobodysPart DEF SInv, SnapshotWellTyped

LEMMA NextSnapshotInv == SInv /\ [SnapshotNext]_snapshotVars => SInv'
<1> SUFFICES ASSUME SInv, [SnapshotNext]_snapshotVars PROVE SInv'
  OBVIOUS
<1>1. ASSUME NEW p \in Copier,
             \/ List(p) \/ CheckStale(p) \/ RemoveStale(p) \/ MakeDirectory(p)
             \/ WriteMarker(p) \/ CreateLock(p) \/ TakeLock(p) \/ CopyDataset(p)
             \/ Release(p) \/ Tidy(p) \/ Die(p)
      PROVE SInv'
  BY <1>1, ListStep, CheckStaleStep, RemoveStaleStep, MakeDirectoryStep, AddPartStep,
     TakeLockStep, ReleaseStep, TidyStep, DieStep
<1>2. ASSUME NEW p \in Copier, NEW d \in Directory, Skip(p, d) \/ LockStale(p, d)
      PROVE SInv'
  BY <1>2, SkipStep, LockStaleStep
<1>3. ASSUME NEW p \in Copier, NEW x \in Part, RemoveEntry(p, x) \/ TidyEntry(p, x)
      PROVE SInv'
  BY <1>3, RemoveEntryStep, TidyEntryStep
<1>4. CASE UNCHANGED snapshotVars
  BY <1>4 DEF snapshotVars, SInv, SnapshotWellTyped, FreshIsUnknown, OwnGrows,
     StaleIsLocked, In
<1> QED BY <1>1, <1>2, <1>3, <1>4 DEF SnapshotNext

(***************************************************************************)
(* The inductive invariant of the snapshots: names, owners, and what is    *)
(* locked by whoever removes it.                                           *)
(***************************************************************************)
THEOREM SnapshotInvariance == SnapshotSpec => []SInv
  BY InitSnapshotInv, NextSnapshotInv, PTL DEF SnapshotSpec

(***************************************************************************)
(* No recovery takes a copy from a run that works on it or is making it.   *)
(***************************************************************************)
THEOREM SnapshotsOfTheLivingStay == SnapshotSpec => []LiveSnapshotStays
<1>1. SInv => LiveSnapshotStays
  BY DEF SInv, OwnGrows, LiveSnapshotStays, In
<1> QED BY <1>1, SnapshotInvariance, PTL

-----------------------------------------------------------------------------
(***************************************************************************)
(* CitationIndex: any number of indexers, scopes and keys.                 *)
(***************************************************************************)

Indexes   == {NoIndex} \cup {Index(k, s) : k \in 1..MaxKeys, s \in Scopes}
DirState  == [key : 0..PartialKey, index : Indexes]
CallState == [pc : {"done", "key", "link", "sync key", "load", "answer", "collect",
                    "write", "replace", "sync index", "leave"},
              scope : SUBSET Scope, key : 0..MaxKeys, scopes : Scopes,
              attempted : BOOLEAN]

IndexWellTyped ==
  /\ directory \in DirState /\ durable \subseteq DirState /\ directory \in durable
  /\ holder \subseteq Indexer /\ keys \in 0..MaxKeys
  /\ call \in [Indexer -> CallState]
  /\ promised \in [Scope -> SUBSET ((SUBSET Content) \cup {Unbuilt})]

OneAtWork == \A i \in Indexer : ~ At(i, "done") => holder = {i}

\* From the sync of a key on, a call works with the key of the directory; until
\* its key is linked there is no index.
KeyInHand ==
  \A i \in Indexer :
    /\ ~ (call[i].pc \in {"done", "key"}) => call[i].key \in 1..MaxKeys
    /\ At(i, "link") => directory.index = NoIndex
    /\ ~ (call[i].pc \in {"done", "key", "link"}) => directory.key = call[i].key

\* What a loss of power may leave holds what was promised, except for the scope
\* of a build whose index was replaced and which has not yet told its caller.
Told ==
  \A d \in durable, s \in Scope :
    \/ ScopesOf(d)[s] \in promised[s]
    \/ \E i \in Indexer : /\ call[i].pc \in {"sync index", "leave"}
                          /\ s \in call[i].scope
                          /\ ScopesOf(d)[s] = call[i].scopes[s]

\* What a call has in hand: the scopes of the directory, or those with its own
\* replaced, and at the end they are what the disk holds.
ScopesInHand ==
  \A i \in Indexer :
    /\ call[i].pc \in {"answer", "collect"} => call[i].scopes = ScopesOf(directory)
    /\ call[i].pc \in {"write", "replace", "sync index", "leave"} =>
         \A s \in Scope \ call[i].scope : call[i].scopes[s] \in promised[s]
    /\ call[i].pc \in {"sync index", "leave"} => ScopesOf(directory) = call[i].scopes
    /\ At(i, "leave") => durable = {directory}
    /\ call[i].pc \in {"replace", "sync index"} => call[i].attempted

IInv == IndexWellTyped /\ OneAtWork /\ KeyInHand /\ IndexOpens /\ Told /\ ScopesInHand

-----------------------------------------------------------------------------
LEMMA IndexFacts ==
  ASSUME NEW k, NEW s
  PROVE  /\ Index(k, s) # NoIndex
         /\ \A i \in Index(k, s) : i.key = k /\ i.scopes = s
         /\ (CHOOSE i \in Index(k, s) : TRUE).scopes = s
<1> DEFINE e == [key |-> k, scopes |-> s]
<1>1. Index(k, s) = {e} /\ e.key = k /\ e.scopes = s
  BY DEF Index
<1> HIDE DEF e
<1>2. (CHOOSE i \in {e} : TRUE) \in {e}
  BY Zenon
<1> QED BY <1>1, <1>2 DEF NoIndex

LEMMA KeyFacts ==
  ASSUME NEW k \in 1..MaxKeys, NEW s \in Scopes
  PROVE  k \in 0..PartialKey /\ k \in 0..MaxKeys /\ Index(k, s) \in Indexes
<1>1. MaxKeys \in Nat
  BY IndexAssumption
<1>2. Index(k, s) \in {Index(j, t) : j \in 1..MaxKeys, t \in Scopes}
  OBVIOUS
<1> QED BY <1>1, <1>2 DEF PartialKey, Indexes

LEMMA ScopesOfFacts ==
  ASSUME NEW d \in DirState
  PROVE  /\ ScopesOf(d) \in Scopes
         /\ d.index = NoIndex => ScopesOf(d) = AllUnbuilt
<1>1. AllUnbuilt \in Scopes
  BY DEF AllUnbuilt, Scopes
<1>2. CASE d.index = NoIndex
  BY <1>1, <1>2 DEF ScopesOf
<1>3. CASE d.index # NoIndex
  <2>1. PICK k \in 1..MaxKeys, s \in Scopes : d.index = Index(k, s)
    BY <1>3 DEF DirState, Indexes
  <2> QED BY <2>1, <1>3, IndexFacts DEF ScopesOf
<1> QED BY <1>2, <1>3

LEMMA ScopesOfIndex ==
  ASSUME NEW d, NEW k, NEW s, d.index = Index(k, s)
  PROVE  ScopesOf(d) = s
  BY IndexFacts DEF ScopesOf

LEMMA DoneFacts == Done \in CallState /\ Done.pc = "done"
<1>1. AllUnbuilt \in Scopes
  BY DEF AllUnbuilt, Scopes
<1> QED BY <1>1, IndexAssumption DEF Done, CallState, NoKey

\* A call that ends hands nothing on.
LEMMA EndStep ==
  ASSUME IInv, NEW p \in Indexer, ~ At(p, "done"), End(p),
         promised' \in [Scope -> SUBSET ((SUBSET Content) \cup {Unbuilt})],
         Told'
  PROVE  IInv'
<1>1. /\ call' \in [Indexer -> CallState] /\ call'[p] = Done
      /\ \A i \in Indexer \ {p} : call'[i] = call[i] /\ call[i].pc = "done"
  BY DoneFacts DEF IInv, IndexWellTyped, OneAtWork, End, Step, At
<1>2. holder' = {}
  BY DEF IInv, OneAtWork, End
<1>3. \A i \in Indexer : call'[i].pc = "done"
  BY <1>1, DoneFacts
<1>4. IndexWellTyped'
  BY <1>1, <1>2 DEF IInv, IndexWellTyped, End
<1>5. OneAtWork' /\ KeyInHand' /\ ScopesInHand'
  BY <1>3 DEF OneAtWork, KeyInHand, ScopesInHand, At
<1>6. IndexOpens'
  BY DEF IInv, IndexOpens, End
<1> QED BY <1>4, <1>5, <1>6 DEF IInv

LEMMA OthersAreDone ==
  ASSUME OneAtWork, NEW p \in Indexer, ~ At(p, "done")
  PROVE  \A i \in Indexer \ {p} : call[i].pc = "done"
  BY DEF OneAtWork, At

\* What the invariant asks of a call c of p, the directory being as it is.
InHand(c) ==
  /\ c.pc \notin {"done", "sync index", "leave"}
  /\ c.pc # "key" => c.key \in 1..MaxKeys
  /\ c.pc = "link" => directory.index = NoIndex
  /\ c.pc \notin {"key", "link"} => directory.key = c.key
  /\ c.pc \in {"answer", "collect"} => c.scopes = ScopesOf(directory)
  /\ c.pc \in {"write", "replace"} =>
       \A s \in Scope \ c.scope : c.scopes[s] \in promised[s]
  /\ c.pc = "replace" => c.attempted

\* A step that changes only what p has in hand, before the index is replaced.
LEMMA CallStep ==
  ASSUME IInv, NEW p \in Indexer, NEW c \in CallState,
         OneAtWork', \A i \in Indexer \ {p} : call[i].pc = "done",
         call[p].pc \notin {"sync index", "leave"},
         Step(p, c), InHand(c), holder' \subseteq Indexer, keys' \in 0..MaxKeys,
         UNCHANGED <<directory, durable, promised>>
  PROVE  IInv'
<1>1. /\ call' \in [Indexer -> CallState] /\ call'[p] = c
      /\ \A i \in Indexer \ {p} : call'[i].pc = "done"
  BY DEF IInv, IndexWellTyped, Step
<1>2. IndexWellTyped' /\ IndexOpens'
  BY <1>1 DEF IInv, IndexWellTyped, IndexOpens
<1>3. KeyInHand'
  BY <1>1 DEF KeyInHand, InHand, At
<1>4. Told'
  BY <1>1 DEF IInv, Told, ScopesOf
<1>5. ScopesInHand'
  BY <1>1 DEF ScopesInHand, InHand, At, ScopesOf
<1> QED BY <1>2, <1>3, <1>4, <1>5 DEF IInv

LEMMA EnterStep ==
  ASSUME IInv, NEW p \in Indexer, NEW S \in SUBSET Scope, Enter(p, S)
  PROVE  IInv'
<1> DEFINE c == [Done EXCEPT !.pc = "key", !.scope = S]
<1>1. c \in CallState /\ c.pc = "key"
  BY DoneFacts DEF CallState
<1>2. At(p, "done") /\ holder = {} /\ holder' = {p} /\ Step(p, c)
  BY DEF Enter, Free
<1> HIDE DEF c
<1>3. \A i \in Indexer : call[i].pc = "done"
  BY <1>2 DEF IInv, OneAtWork, At
<1>4. OneAtWork'
  BY <1>2, <1>3 DEF IInv, IndexWellTyped, OneAtWork, At, Step
<1>5. InHand(c)
  BY <1>1 DEF InHand
<1> QED BY <1>1, <1>2, <1>3, <1>4, <1>5, CallStep DEF Enter, IInv, IndexWellTyped

\* Any other step of p that keeps the lock.
LEMMA KeepsLock ==
  ASSUME IInv, NEW p \in Indexer, ~ At(p, "done"), NEW c, Step(p, c),
         UNCHANGED holder
  PROVE  OneAtWork' /\ holder' \subseteq Indexer
  BY DEF IInv, IndexWellTyped, OneAtWork, At, Step

LEMMA ReadKeyStep == ASSUME IInv, NEW p \in Indexer, ReadKey(p) PROVE IInv'
<1> DEFINE c == [call[p] EXCEPT !.pc = "load", !.key = directory.key]
<1>1. /\ call[p] \in CallState /\ call[p].pc = "key"
      /\ directory.key \in 1..MaxKeys /\ directory.key \in 0..MaxKeys
  BY DEF ReadKey, At, IInv, IndexWellTyped
<1>2. c \in CallState /\ c.pc = "load" /\ c.key = directory.key
  BY <1>1 DEF CallState
<1>3. Step(p, c)
  BY DEF ReadKey
<1> HIDE DEF c
<1>4. InHand(c)
  BY <1>1, <1>2 DEF InHand
<1>5. ~ At(p, "done")
  BY <1>1 DEF At
<1> QED BY <1>1, <1>2, <1>3, <1>4, <1>5, KeepsLock, OthersAreDone, CallStep
        DEF ReadKey, IInv, IndexWellTyped

LEMMA WriteKeyStep == ASSUME IInv, NEW p \in Indexer, WriteKey(p) PROVE IInv'
<1> DEFINE c == [call[p] EXCEPT !.pc = "link", !.key = keys + 1]
<1>1. /\ call[p] \in CallState /\ call[p].pc = "key"
      /\ keys + 1 \in 1..MaxKeys /\ keys + 1 \in 0..MaxKeys /\ keys' = keys + 1
  BY IndexAssumption DEF WriteKey, At, IInv, IndexWellTyped
<1>2. c \in CallState /\ c.pc = "link" /\ c.key = keys + 1
  BY <1>1 DEF CallState
<1>3. Step(p, c)
  BY DEF WriteKey
<1> HIDE DEF c
<1>4. InHand(c)
  BY <1>1, <1>2 DEF InHand, WriteKey
<1>5. ~ At(p, "done") /\ keys' \in 0..MaxKeys
  BY <1>1 DEF At
<1> QED BY <1>1, <1>2, <1>3, <1>4, <1>5, KeepsLock, OthersAreDone, CallStep
        DEF WriteKey, IInv

LEMMA LoadStep == ASSUME IInv, NEW p \in Indexer, Load(p) PROVE IInv'
<1> DEFINE c == [call[p] EXCEPT !.scopes = ScopesOf(directory),
                   !.pc = IF call[p].scope = {} THEN "answer" ELSE "collect"]
<1>1. call[p] \in CallState /\ call[p].pc = "load" /\ ScopesOf(directory) \in Scopes
  BY ScopesOfFacts DEF Load, At, IInv, IndexWellTyped
<1>2. /\ c \in CallState /\ c.pc \in {"answer", "collect"}
      /\ c.key = call[p].key /\ c.scopes = ScopesOf(directory)
  BY <1>1 DEF CallState
<1>3. Step(p, c)
  BY DEF Load
<1> HIDE DEF c
<1>4. InHand(c)
  BY <1>1, <1>2 DEF InHand, IInv, KeyInHand
<1>5. ~ At(p, "done")
  BY <1>1 DEF At
<1> QED BY <1>1, <1>2, <1>3, <1>4, <1>5, KeepsLock, OthersAreDone, CallStep
        DEF Load, IInv, IndexWellTyped

LEMMA CollectStep == ASSUME IInv, NEW p \in Indexer, Collect(p) PROVE IInv'
<1>1. /\ call[p] \in CallState /\ call[p].pc = "collect"
      /\ call[p].scopes = ScopesOf(directory) /\ ~ At(p, "done")
  BY DEF Collect, At, IInv, IndexWellTyped, ScopesInHand
<1>2. PICK approvals \in Listings, summaries \in SUBSET Content :
        Step(p, [call[p] EXCEPT !.pc = "write",
          !.scopes = [s \in Scope |->
             IF s \in call[p].scope
             THEN {approvals[f] : f \in DOMAIN approvals} \cup summaries ELSE @[s]]])
  BY DEF Collect
<1> DEFINE documents == {approvals[f] : f \in DOMAIN approvals} \cup summaries
           scopes == [s \in Scope |-> IF s \in call[p].scope THEN documents
                                                            ELSE call[p].scopes[s]]
           c == [call[p] EXCEPT !.pc = "write", !.scopes = scopes]
<1>3. documents \in SUBSET Content
  BY DEF Listings
<1>4. scopes \in Scopes
  BY <1>1, <1>3 DEF CallState, Scopes
<1>5. /\ c \in CallState /\ c.pc = "write" /\ c.key = call[p].key
      /\ c.scope = call[p].scope /\ c.scopes = scopes
  BY <1>1, <1>4 DEF CallState
<1>6. Step(p, c)
  BY <1>1, <1>2 DEF CallState
<1>7. \A i \in Indexer \ {p} : call[i].pc = "done"
  BY <1>1, OthersAreDone DEF IInv
<1>8. \A s \in Scope \ c.scope : c.scopes[s] \in promised[s]
  BY <1>1, <1>5, <1>7, ZenonT(60) DEF IInv, Told, IndexWellTyped
<1> HIDE DEF c
<1>9. InHand(c)
  BY <1>1, <1>5, <1>8 DEF InHand, IInv, KeyInHand
<1> QED BY <1>1, <1>5, <1>6, <1>7, <1>9, KeepsLock, CallStep
        DEF Collect, IInv, IndexWellTyped

LEMMA WriteTempStep == ASSUME IInv, NEW p \in Indexer, WriteTemp(p) PROVE IInv'
<1> DEFINE c == [call[p] EXCEPT !.pc = "replace", !.attempted = TRUE]
<1>1. call[p] \in CallState /\ call[p].pc = "write" /\ ~ At(p, "done")
  BY DEF WriteTemp, At, IInv, IndexWellTyped
<1>2. /\ c \in CallState /\ c.pc = "replace" /\ c.attempted
      /\ c.key = call[p].key /\ c.scopes = call[p].scopes /\ c.scope = call[p].scope
  BY <1>1 DEF CallState
<1>3. Step(p, c)
  BY DEF WriteTemp
<1> HIDE DEF c
<1>4. InHand(c)
  BY <1>1, <1>2 DEF InHand, IInv, KeyInHand, ScopesInHand
<1> QED BY <1>1, <1>2, <1>3, <1>4, KeepsLock, OthersAreDone, CallStep
        DEF WriteTemp, IInv, IndexWellTyped

-----------------------------------------------------------------------------
\* A directory without an index that gets another key, or none.
LEMMA RemovePartialKeyStep ==
  ASSUME IInv, NEW p \in Indexer, RemovePartialKey(p) PROVE IInv'
<1> DEFINE d == [directory EXCEPT !.key = NoKey]
<1>1. /\ directory \in DirState /\ directory.index = NoIndex
      /\ directory' = d /\ durable' = durable \cup {d}
      /\ UNCHANGED <<holder, call, keys, promised>> /\ call[p].pc = "key"
  BY DEF RemovePartialKey, Change, IInv, IndexWellTyped, At
<1>2. d \in DirState /\ d.index = NoIndex
  BY <1>1, IndexAssumption DEF DirState, Indexes, NoKey, PartialKey
<1>3. ScopesOf(d) = ScopesOf(directory)
  BY <1>1, <1>2 DEF ScopesOf
<1> HIDE DEF d
<1>4. \A i \in Indexer \ {p} : call[i].pc = "done"
  BY <1>1, OthersAreDone DEF IInv, At
<1>5. IndexWellTyped' /\ OneAtWork' /\ KeyInHand'
  BY <1>1, <1>2, <1>4 DEF IInv, IndexWellTyped, OneAtWork, KeyInHand, At
<1>6. IndexOpens'
  BY <1>1, <1>2 DEF IInv, IndexOpens, NoIndex
<1>7. Told' /\ ScopesInHand'
  <2>1. \A e \in durable' : ScopesOf(e) = ScopesOf(directory) \/ e \in durable
    BY <1>1, <1>3
  <2>2. ScopesOf(directory') = ScopesOf(directory)
    BY <1>1, <1>3
  <2>3. Told'
    <3>1. \A i \in Indexer : call[i].pc \notin {"sync index", "leave"}
      BY <1>1, <1>4
    <3> QED BY <1>1, <2>1, <3>1 DEF IInv, Told, IndexWellTyped, ScopesOf
  <2>4. ScopesInHand'
    BY <1>1, <1>4, <2>2 DEF ScopesInHand, At, IInv
  <2> QED BY <2>3, <2>4
<1> QED BY <1>5, <1>6, <1>7 DEF IInv

LEMMA LinkKeyStep == ASSUME IInv, NEW p \in Indexer, LinkKey(p) PROVE IInv'
<1> DEFINE d == [directory EXCEPT !.key = call[p].key]
           c == [call[p] EXCEPT !.pc = "sync key"]
<1>1. /\ directory \in DirState /\ directory.index = NoIndex
      /\ call[p] \in CallState /\ call[p].pc = "link" /\ call[p].key \in 1..MaxKeys
      /\ directory' = d /\ durable' = durable \cup {d}
      /\ Step(p, c) /\ UNCHANGED <<holder, keys, promised>>
  BY DEF LinkKey, Change, Advance, IInv, IndexWellTyped, KeyInHand, At
<1>2. d \in DirState /\ d.index = NoIndex /\ d.key = call[p].key
  <2>1. call[p].key \in 0..PartialKey
    BY <1>1, KeyFacts DEF CallState
  <2> QED BY <1>1, <2>1 DEF DirState
<1>3. c \in CallState /\ c.pc = "sync key" /\ c.key = call[p].key
  BY <1>1 DEF CallState
<1>4. ScopesOf(d) = ScopesOf(directory)
  BY <1>1, <1>2 DEF ScopesOf
<1> HIDE DEF d, c
<1>5. \A i \in Indexer \ {p} : call[i].pc = "done"
  BY <1>1, OthersAreDone DEF IInv, At
<1>6. /\ call' \in [Indexer -> CallState] /\ call'[p] = c
      /\ \A i \in Indexer \ {p} : call'[i].pc = "done"
  BY <1>1, <1>3, <1>5 DEF IInv, IndexWellTyped, Step
<1>7. IndexWellTyped' /\ OneAtWork' /\ KeyInHand'
  BY <1>1, <1>2, <1>3, <1>6 DEF IInv, IndexWellTyped, OneAtWork, KeyInHand, At
<1>8. IndexOpens'
  BY <1>1, <1>2 DEF IInv, IndexOpens, NoIndex
<1>9. Told' /\ ScopesInHand'
  <2>1. \A e \in durable' : ScopesOf(e) = ScopesOf(directory) \/ e \in durable
    BY <1>1, <1>4
  <2>2. \A i \in Indexer : call[i].pc \notin {"sync index", "leave"}
    BY <1>1, <1>5
  <2>3. Told'
    BY <1>1, <2>1, <2>2 DEF IInv, Told, IndexWellTyped, ScopesOf
  <2>4. ScopesInHand'
    BY <1>3, <1>6 DEF ScopesInHand, At
  <2> QED BY <2>3, <2>4
<1> QED BY <1>7, <1>8, <1>9 DEF IInv

\* An fsync only forgets what a loss of power could have taken back.
LEMMA SyncKeyStep == ASSUME IInv, NEW p \in Indexer, SyncKey(p) PROVE IInv'
<1> DEFINE c == [call[p] EXCEPT !.pc = "load"]
<1>1. /\ call[p] \in CallState /\ call[p].pc = "sync key" /\ directory' = directory
      /\ durable' = {directory} /\ directory \in durable
      /\ Step(p, c) /\ UNCHANGED <<holder, keys, promised>>
  BY DEF SyncKey, SyncDirectory, Advance, IInv, IndexWellTyped, At
<1>2. c \in CallState /\ c.pc = "load" /\ c.key = call[p].key
  BY <1>1 DEF CallState
<1> HIDE DEF c
<1>3. \A i \in Indexer \ {p} : call[i].pc = "done"
  BY <1>1, OthersAreDone DEF IInv, At
<1>4. /\ call' \in [Indexer -> CallState] /\ call'[p] = c
      /\ \A i \in Indexer \ {p} : call'[i].pc = "done"
  BY <1>1, <1>2, <1>3 DEF IInv, IndexWellTyped, Step
<1>5. IndexWellTyped' /\ OneAtWork' /\ KeyInHand' /\ IndexOpens'
  BY <1>1, <1>2, <1>4
  DEF IInv, IndexWellTyped, OneAtWork, KeyInHand, IndexOpens, At
<1>6. Told'
  BY <1>1, <1>3 DEF IInv, Told, ScopesOf
<1>7. ScopesInHand'
  BY <1>2, <1>4 DEF ScopesInHand, At
<1> QED BY <1>5, <1>6, <1>7 DEF IInv

LEMMA ReplaceStep == ASSUME IInv, NEW p \in Indexer, Replace(p) PROVE IInv'
<1> DEFINE d == [directory EXCEPT !.index = Index(call[p].key, call[p].scopes)]
           c == [call[p] EXCEPT !.pc = "sync index"]
<1>1. /\ directory \in DirState /\ call[p].key = directory.key
      /\ call[p] \in CallState /\ call[p].pc = "replace" /\ call[p].key \in 1..MaxKeys
      /\ directory' = d /\ durable' = durable \cup {d} /\ call[p].attempted
      /\ Step(p, c) /\ UNCHANGED <<holder, keys, promised>>
  BY DEF Replace, Change, Advance, IInv, IndexWellTyped, KeyInHand, ScopesInHand, At
<1>2. /\ d \in DirState /\ d.index = Index(call[p].key, call[p].scopes)
      /\ d.key = call[p].key
  <2>1. Index(call[p].key, call[p].scopes) \in Indexes
    BY <1>1, KeyFacts DEF CallState
  <2> QED BY <1>1, <2>1 DEF DirState
<1>3. /\ c \in CallState /\ c.pc = "sync index" /\ c.key = call[p].key
      /\ c.scopes = call[p].scopes /\ c.scope = call[p].scope /\ c.attempted
  BY <1>1 DEF CallState
<1>4. ScopesOf(d) = c.scopes
  BY <1>2, <1>3, ScopesOfIndex
<1> HIDE DEF d, c
<1>5. \A i \in Indexer \ {p} : call[i].pc = "done"
  BY <1>1, OthersAreDone DEF IInv, At
<1>6. /\ call' \in [Indexer -> CallState] /\ call'[p] = c
      /\ \A i \in Indexer \ {p} : call'[i].pc = "done"
  BY <1>1, <1>3, <1>5 DEF IInv, IndexWellTyped, Step
<1>7. IndexWellTyped' /\ OneAtWork' /\ KeyInHand'
  BY <1>1, <1>2, <1>3, <1>6 DEF IInv, IndexWellTyped, OneAtWork, KeyInHand, At
<1>8. IndexOpens'
  BY <1>1, <1>2, IndexFacts DEF IInv, IndexOpens
<1>9. \A s \in Scope \ c.scope : c.scopes[s] \in promised[s]
  BY <1>1, <1>3 DEF IInv, ScopesInHand
<1>10. Told'
  <2>1. ASSUME NEW e \in durable', NEW s \in Scope
        PROVE  \/ ScopesOf(e)[s] \in promised'[s]
               \/ s \in c.scope /\ ScopesOf(e)[s] = c.scopes[s]
    <3>1. CASE e = d
      BY <3>1, <1>1, <1>4, <1>9
    <3>2. CASE e \in durable
      BY <3>2, <1>1, <1>5 DEF IInv, Told
    <3> QED BY <3>1, <3>2, <1>1
  <2>2. call'[p].pc = "sync index" /\ call'[p].scope = c.scope
        /\ call'[p].scopes = c.scopes
    BY <1>3, <1>6
  <2>3. ASSUME NEW e \in durable', NEW s \in Scope
        PROVE  \/ ScopesOf(e)[s] \in promised'[s]
               \/ \E i \in Indexer : /\ call'[i].pc \in {"sync index", "leave"}
                                     /\ s \in call'[i].scope
                                     /\ ScopesOf(e)[s] = call'[i].scopes[s]
    BY <2>1, <2>2
  <2> QED BY <2>3 DEF Told
<1>11. ScopesInHand'
  <2>1. ScopesOf(directory') = c.scopes
    BY <1>1, <1>4
  <2>2. c.pc = "sync index" /\ promised' = promised
    BY <1>1, <1>3
  <2> QED BY <1>3, <1>6, <1>9, <2>1, <2>2 DEF ScopesInHand, At
<1> QED BY <1>7, <1>8, <1>10, <1>11 DEF IInv

LEMMA SyncIndexStep == ASSUME IInv, NEW p \in Indexer, SyncIndex(p) PROVE IInv'
<1> DEFINE c == [call[p] EXCEPT !.pc = "leave"]
<1>1. /\ call[p] \in CallState /\ call[p].pc = "sync index" /\ directory' = directory
      /\ durable' = {directory} /\ directory \in durable
      /\ Step(p, c) /\ UNCHANGED <<holder, keys, promised>>
  BY DEF SyncIndex, SyncDirectory, Advance, IInv, IndexWellTyped, At
<1>2. /\ c \in CallState /\ c.pc = "leave" /\ c.key = call[p].key
      /\ c.scopes = call[p].scopes /\ c.scope = call[p].scope
  BY <1>1 DEF CallState
<1> HIDE DEF c
<1>3. \A i \in Indexer \ {p} : call[i].pc = "done"
  BY <1>1, OthersAreDone DEF IInv, At
<1>4. /\ call' \in [Indexer -> CallState] /\ call'[p] = c
      /\ \A i \in Indexer \ {p} : call'[i].pc = "done"
  BY <1>1, <1>2, <1>3 DEF IInv, IndexWellTyped, Step
<1>5. IndexWellTyped' /\ OneAtWork' /\ KeyInHand' /\ IndexOpens'
  BY <1>1, <1>2, <1>4
  DEF IInv, IndexWellTyped, OneAtWork, KeyInHand, IndexOpens, At
<1>6. /\ ScopesOf(directory) = c.scopes
      /\ \A s \in Scope \ c.scope : c.scopes[s] \in promised[s]
  BY <1>1, <1>2 DEF IInv, ScopesInHand
<1>7. Told' /\ ScopesInHand'
  <2>1. ScopesOf(directory') = c.scopes
    BY <1>1, <1>6
  <2>2. Told'
    BY <1>1, <1>2, <1>4, <1>6 DEF Told, ScopesOf
  <2>3. ScopesInHand'
    BY <1>1, <1>2, <1>4, <1>6, <2>1 DEF ScopesInHand, At
  <2> QED BY <2>2, <2>3
<1> QED BY <1>5, <1>7 DEF IInv

-----------------------------------------------------------------------------
\* An end that promises what it may have written keeps what was told true.
LEMMA EndToldMore ==
  ASSUME IInv, NEW p \in Indexer, ~ At(p, "done"), End(p),
         promised' \in {promised, Uncertain(p)},
         call[p].pc \in {"sync index", "leave"} => promised' = Uncertain(p)
  PROVE  IInv'
<1>1. /\ call[p] \in CallState /\ call[p].scopes \in Scopes
      /\ promised \in [Scope -> SUBSET ((SUBSET Content) \cup {Unbuilt})]
  BY DEF IInv, IndexWellTyped, CallState
<1>2. /\ Uncertain(p) \in [Scope -> SUBSET ((SUBSET Content) \cup {Unbuilt})]
      /\ \A s \in Scope : promised[s] \subseteq Uncertain(p)[s]
      /\ \A s \in call[p].scope : s \in Scope => call[p].scopes[s] \in Uncertain(p)[s]
  BY <1>1 DEF Uncertain, Scopes
<1>3. \A i \in Indexer \ {p} : call[i].pc = "done"
  BY OthersAreDone DEF IInv
<1>4. ASSUME NEW d \in durable, NEW s \in Scope
      PROVE  ScopesOf(d)[s] \in promised'[s]
  <2>1. CASE ScopesOf(d)[s] \in promised[s]
    BY <2>1, <1>2
  <2>2. CASE ScopesOf(d)[s] \notin promised[s]
    <3>1. PICK i \in Indexer : /\ call[i].pc \in {"sync index", "leave"}
                               /\ s \in call[i].scope
                               /\ ScopesOf(d)[s] = call[i].scopes[s]
      BY <2>2 DEF IInv, Told
    <3>2. call[i].pc # "done"
      BY <3>1
    <3>3. i = p
      BY <3>2, <1>3
    <3> QED BY <3>1, <3>3, <1>2
  <2> QED BY <2>1, <2>2
<1>5. Told'
  BY <1>4 DEF Told, End, ScopesOf
<1> QED BY <1>1, <1>2, <1>5, EndStep

LEMMA LeaveStep == ASSUME IInv, NEW p \in Indexer, Leave(p) PROVE IInv'
<1>1. /\ call[p] \in CallState /\ call[p].scopes \in Scopes /\ call[p].pc = "leave"
      /\ promised \in [Scope -> SUBSET ((SUBSET Content) \cup {Unbuilt})]
      /\ promised' = Returned(p) /\ ~ At(p, "done") /\ End(p)
  BY DEF Leave, At, IInv, IndexWellTyped, CallState
<1>2. /\ durable = {directory} /\ ScopesOf(directory) = call[p].scopes
      /\ \A s \in Scope \ call[p].scope : call[p].scopes[s] \in promised[s]
  BY <1>1 DEF IInv, ScopesInHand, At
<1>3. /\ promised' \in [Scope -> SUBSET ((SUBSET Content) \cup {Unbuilt})]
      /\ \A s \in Scope : call[p].scopes[s] \in promised'[s]
  BY <1>1, <1>2 DEF Returned, Scopes
<1>4. Told'
  BY <1>1, <1>2, <1>3 DEF Told, End, ScopesOf
<1> QED BY <1>1, <1>3, <1>4, EndStep

LEMMA PowerLossStep == ASSUME IInv, PowerLoss PROVE IInv'
<1>1. /\ \A i \in Indexer : call[i].pc = "done"
      /\ directory' \in durable /\ durable' = {directory'}
      /\ UNCHANGED <<holder, call, keys, promised>>
  BY DEF PowerLoss, At
<1>2. IndexWellTyped' /\ OneAtWork' /\ KeyInHand' /\ ScopesInHand'
  BY <1>1 DEF IInv, IndexWellTyped, OneAtWork, KeyInHand, ScopesInHand, At
<1>3. IndexOpens'
  BY <1>1 DEF IInv, IndexOpens
<1>4. Told'
  BY <1>1 DEF IInv, Told, ScopesOf
<1> QED BY <1>2, <1>3, <1>4 DEF IInv

LEMMA InitIndexInv == IndexInit => IInv
<1> SUFFICES ASSUME IndexInit PROVE IInv
  OBVIOUS
<1>0. MaxKeys \in Nat
  BY IndexAssumption
<1>1. PICK k \in {NoKey, PartialKey} : directory = [key |-> k, index |-> NoIndex]
  BY DEF IndexInit
<1>2. directory \in DirState /\ directory.index = {}
  <2>1. k \in 0..PartialKey
    BY <1>0 DEF NoKey, PartialKey
  <2> QED BY <1>1, <2>1 DEF DirState, Indexes, NoIndex
<1>3. \A i \in Indexer : call[i] = Done /\ call[i].pc = "done"
  BY DoneFacts DEF IndexInit
<1>4. call \in [Indexer -> CallState] /\ durable = {directory} /\ keys = 0 /\ holder = {}
  BY DoneFacts DEF IndexInit
<1>5. promised = [s \in Scope |-> {Unbuilt}]
  BY DEF IndexInit
<1>6. IndexWellTyped
  BY <1>0, <1>2, <1>4, <1>5 DEF IndexWellTyped
<1>7. OneAtWork /\ KeyInHand /\ ScopesInHand
  BY <1>3 DEF OneAtWork, KeyInHand, ScopesInHand, At
<1>8. IndexOpens
  BY <1>2, <1>4 DEF IndexOpens
<1>9. Told
  BY <1>2, <1>4, <1>5, ScopesOfFacts DEF Told, AllUnbuilt, NoIndex
<1> QED BY <1>6, <1>7, <1>8, <1>9 DEF IInv

LEMMA NextIndexInv == IInv /\ [IndexNext]_indexVars => IInv'
<1> SUFFICES ASSUME IInv, [IndexNext]_indexVars PROVE IInv'
  OBVIOUS
<1>1. ASSUME NEW p \in Indexer, Query(p) PROVE IInv'
  BY <1>1, EnterStep DEF Query
<1>2. ASSUME NEW p \in Indexer, NEW s \in Scope, Build(p, s) PROVE IInv'
  <2>1. {s} \in SUBSET Scope
    OBVIOUS
  <2> QED BY <1>2, <2>1, EnterStep DEF Build
<1>3. ASSUME NEW p \in Indexer,
             \/ ReadKey(p) \/ RemovePartialKey(p) \/ WriteKey(p) \/ LinkKey(p)
             \/ SyncKey(p) \/ Load(p) \/ Collect(p) \/ WriteTemp(p) \/ Replace(p)
             \/ SyncIndex(p) \/ Leave(p)
      PROVE IInv'
  BY <1>3, ReadKeyStep, RemovePartialKeyStep, WriteKeyStep, LinkKeyStep, SyncKeyStep,
     LoadStep, CollectStep, WriteTempStep, ReplaceStep, SyncIndexStep, LeaveStep
<1>4. ASSUME NEW p \in Indexer, Answer(p) \/ Raise(p) PROVE IInv'
  <2>1. /\ ~ At(p, "done") /\ End(p) /\ promised' = promised
        /\ call[p].pc \notin {"sync index", "leave"}
    BY <1>4 DEF Answer, Raise, Writing, At
  <2> QED BY <2>1, EndToldMore
<1>5. ASSUME NEW p \in Indexer, FailWrite(p) PROVE IInv'
  <2>1. /\ ~ At(p, "done") /\ End(p)
        /\ promised' = IF call[p].attempted THEN Uncertain(p) ELSE promised
        /\ call[p].pc # "leave"
        /\ call[p].pc = "sync index" => call[p].attempted
    BY <1>5 DEF FailWrite, Writing, At, IInv, ScopesInHand
  <2> QED BY <2>1, EndToldMore
<1>6. ASSUME NEW p \in Indexer, FailCommitted(p) \/ Vanish(p) PROVE IInv'
  <2>1. /\ ~ At(p, "done") /\ End(p) /\ promised' \in {promised, Uncertain(p)}
        /\ call[p].pc \in {"sync index", "leave"} => promised' = Uncertain(p)
    BY <1>6 DEF FailCommitted, Vanish, Writing, At
  <2> QED BY <2>1, EndToldMore
<1>7. CASE PowerLoss
  BY <1>7, PowerLossStep
<1>8. CASE UNCHANGED indexVars
  <2> USE <1>8 DEF indexVars
  <2>1. IndexWellTyped' /\ OneAtWork' /\ KeyInHand' /\ IndexOpens'
    BY DEF IInv, IndexWellTyped, OneAtWork, KeyInHand, IndexOpens, At
  <2>2. Told'
    <3> SUFFICES ASSUME NEW d \in durable', NEW s \in Scope
                 PROVE  \/ ScopesOf(d)[s] \in promised'[s]
                        \/ \E i \in Indexer :
                             /\ call'[i].pc \in {"sync index", "leave"}
                             /\ s \in call'[i].scope
                             /\ ScopesOf(d)[s] = call'[i].scopes[s]
      BY Zenon DEF Told, ScopesOf
    <3> QED BY DEF IInv, Told
  <2>3. ScopesOf(directory') = ScopesOf(directory)
    OBVIOUS
  <2>4. ScopesInHand'
    BY <2>3 DEF IInv, ScopesInHand, At
  <2> QED BY <2>1, <2>2, <2>4 DEF IInv
<1> QED
  BY <1>1, <1>2, <1>3, <1>4, <1>5, <1>6, <1>7, <1>8 DEF IndexNext

(***************************************************************************)
(* The inductive invariant of the index: one call at work, the key it      *)
(* holds, what it has in hand, and what a loss of power may leave.         *)
(***************************************************************************)
THEOREM IndexInvariance == IndexSpec => []IInv
  BY InitIndexInv, NextIndexInv, PTL DEF IndexSpec

(***************************************************************************)
(* Next to an index lies its key, whatever died, failed or was lost.       *)
(***************************************************************************)
THEOREM IndexCanBeOpened == IndexSpec => []IndexOpens
  BY IndexInvariance, PTL DEF IInv

(***************************************************************************)
(* A build that returned lasts, and a query answers from nothing else.     *)
(***************************************************************************)
THEOREM BuildsAreKept == IndexSpec => []BuildsLast
<1>1. IInv => BuildsLast
  <2> SUFFICES ASSUME IInv PROVE BuildsLast
    OBVIOUS
  <2>1. ASSUME holder = {}, NEW d \in durable \cup {directory}, NEW s \in Scope
        PROVE  ScopesOf(d)[s] \in promised[s]
    <3>1. \A i \in Indexer : call[i].pc = "done"
      BY <2>1 DEF IInv, OneAtWork, At
    <3> QED BY <3>1 DEF IInv, Told, IndexWellTyped
  <2>2. ASSUME NEW p \in Indexer, NEW s \in Scope, At(p, "answer")
        PROVE  call[p].scopes[s] \in promised[s]
    <3>1. \A i \in Indexer : call[i].pc \notin {"sync index", "leave"}
      BY <2>2, OthersAreDone DEF IInv, At
    <3>2. call[p].scopes = ScopesOf(directory)
      BY <2>2 DEF IInv, ScopesInHand, At
    <3> QED BY <3>1, <3>2 DEF IInv, Told, IndexWellTyped
  <2> QED BY <2>1, <2>2 DEF BuildsLast
<1> QED BY <1>1, IndexInvariance, PTL

-----------------------------------------------------------------------------
(***************************************************************************)
(* TerminalReports: any number of processes and of versions of the renderer. *)
(***************************************************************************)

Version == {{v} : v \in Renderer}
Place   == [pc : {"away", "clean", "load", "write", "replace", "sync", "verify"},
            file : FileName, version : {{}} \cup Version]

ReportWellTyped ==
  /\ report \in [FileName -> {{}} \cup Version]
  /\ onDisk \in [FileName -> SUBSET ({{}} \cup Version)]
  /\ \A f \in FileName : report[f] \in onDisk[f]
  /\ orphans \subseteq FileName /\ reporting \subseteq Publisher
  /\ publisher \in [Publisher -> Place]

OneReporting == \A p \in Publisher : ~ Stands(p, "away") => reporting = {p}

\* A manifest anywhere on disk lists files that are there for good.
Listed ==
  \A v \in Version : v \in onDisk["manifest"] =>
    onDisk["markdown"] = {v} /\ onDisk["docx"] = {v} /\ report["manifest"] = v

\* How far a process that writes has come: files of its version before its own
\* are there for good, and the manifest is written last.
Under(p) == publisher[p].pc \in {"write", "replace", "sync"}

Written ==
  \A p \in Publisher :
    /\ Under(p) => publisher[p].version \in Version
    /\ Under(p) /\ publisher[p].file # "markdown" =>
         onDisk["markdown"] = {publisher[p].version}
    /\ Under(p) /\ publisher[p].file = "manifest" =>
         onDisk["docx"] = {publisher[p].version}
    /\ Under(p) /\ ~ (publisher[p].file = "manifest" /\ Stands(p, "sync")) =>
         report["manifest"] = {}
    /\ Stands(p, "sync") /\ publisher[p].file = "manifest" =>
         report["manifest"] = publisher[p].version
    /\ Stands(p, "sync") => report[publisher[p].file] = publisher[p].version
    /\ Stands(p, "verify") => report["manifest"] = publisher[p].version

Answered == {} \notin answered /\ OneReport

TInv == /\ ReportWellTyped /\ OneReporting /\ Listed /\ Written /\ Answered

-----------------------------------------------------------------------------
LEMMA VersionFacts == {} \notin Version
  BY DEF Version

LEMMA AwayFacts == Away \in Place /\ Away.pc = "away"
  BY DEF Away, Place, FileName

LEMMA FilesDiffer ==
  /\ FileName = {"markdown", "docx", "manifest"}
  /\ AfterFile["markdown"] = "docx" /\ AfterFile["docx"] = "manifest"
  /\ AfterFile["manifest"] = "verify"
  BY DEF FileName, AfterFile

LEMMA InitReportInv == ReportInit => TInv
<1> SUFFICES ASSUME ReportInit PROVE TInv
  OBVIOUS
<1>1. /\ report = [f \in FileName |-> {}] /\ onDisk = [f \in FileName |-> {{}}]
      /\ orphans = {} /\ reporting = {} /\ answered = {}
      /\ publisher = [p \in Publisher |-> Away]
  BY DEF ReportInit
<1>2. \A p \in Publisher : publisher[p].pc = "away"
  BY <1>1, AwayFacts
<1>3. publisher \in [Publisher -> Place]
  BY <1>1, AwayFacts
<1>4. ReportWellTyped
  BY <1>1, <1>3 DEF ReportWellTyped
<1>5. OneReporting /\ Written
  BY <1>2 DEF OneReporting, Written, Under, Stands
<1>6. Listed /\ Answered
  BY <1>1, VersionFacts, FilesDiffer DEF Listed, Answered, OneReport
<1> QED BY <1>4, <1>5, <1>6 DEF TInv

\* A step of p: the others are away.
LEMMA OthersAway ==
  ASSUME TInv, NEW p \in Publisher, ~ Stands(p, "away")
  PROVE  \A q \in Publisher \ {p} : publisher[q].pc = "away"
  BY DEF TInv, OneReporting, Stands

\* A process that comes or goes, or moves where nothing was written.
LEMMA QuietStep ==
  ASSUME TInv, NEW p \in Publisher, NEW c \in Place,
         c.pc \notin {"write", "replace", "sync", "verify"},
         \A q \in Publisher \ {p} : publisher[q].pc = "away",
         publisher' = [publisher EXCEPT ![p] = c],
         reporting' \subseteq Publisher, c.pc # "away" => reporting' = {p},
         orphans' \subseteq FileName, Answered',
         UNCHANGED <<report, onDisk>>
  PROVE  TInv'
<1>1. /\ publisher' \in [Publisher -> Place] /\ publisher'[p] = c
      /\ \A q \in Publisher \ {p} : publisher'[q].pc = "away"
  BY DEF TInv, ReportWellTyped
<1>2. ReportWellTyped' /\ Listed'
  BY <1>1 DEF TInv, ReportWellTyped, Listed
<1>3. OneReporting' /\ Written'
  BY <1>1 DEF OneReporting, Written, Under, Stands
<1> QED BY <1>2, <1>3 DEF TInv

LEMMA LockStep == ASSUME TInv, NEW p \in Publisher, LockReport(p) PROVE TInv'
<1> DEFINE c == [publisher[p] EXCEPT !.pc = "clean"]
<1>1. publisher[p] \in Place /\ reporting = {} /\ reporting' = {p}
  BY DEF LockReport, TInv, ReportWellTyped
<1>2. c \in Place /\ c.pc = "clean"
  BY <1>1 DEF Place
<1>3. publisher' = [publisher EXCEPT ![p] = c]
  BY DEF LockReport, MoveOn, TInv, ReportWellTyped
<1>4. \A q \in Publisher \ {p} : publisher[q].pc = "away"
  BY <1>1 DEF TInv, OneReporting, Stands
<1>5. Answered'
  BY DEF LockReport, TInv, Answered, OneReport
<1> HIDE DEF c
<1> QED BY <1>1, <1>2, <1>3, <1>4, <1>5, QuietStep DEF LockReport, TInv, ReportWellTyped

LEMMA RemoveOrphansStep ==
  ASSUME TInv, NEW p \in Publisher, RemoveOrphans(p) PROVE TInv'
<1> DEFINE c == [publisher[p] EXCEPT !.pc = "load"]
<1>1. publisher[p] \in Place /\ ~ Stands(p, "away")
  BY DEF RemoveOrphans, Stands, TInv, ReportWellTyped
<1>2. c \in Place /\ c.pc = "load"
  BY <1>1 DEF Place
<1>3. publisher' = [publisher EXCEPT ![p] = c]
  BY DEF RemoveOrphans, MoveOn, TInv, ReportWellTyped
<1>4. Answered' /\ reporting' = {p} /\ orphans' = {}
  BY <1>1 DEF RemoveOrphans, TInv, Answered, OneReport, OneReporting
<1> HIDE DEF c
<1> QED BY <1>1, <1>2, <1>3, <1>4, OthersAway, QuietStep DEF RemoveOrphans

\* A process that leaves.
LEMMA LeavesStep ==
  ASSUME TInv, NEW p \in Publisher, ~ Stands(p, "away"), GoAway(p),
         orphans' \subseteq FileName, Answered', UNCHANGED <<report, onDisk>>
  PROVE  TInv'
  BY AwayFacts, OthersAway, QuietStep DEF GoAway

LEMMA RenderStep ==
  ASSUME TInv, NEW p \in Publisher, NEW v \in Renderer, Render(p, v) PROVE TInv'
<1> DEFINE c == [pc |-> "write", file |-> "markdown", version |-> {v}]
<1>1. c \in Place /\ c.version \in Version
  BY DEF Place, FileName, Version
<1>2. /\ publisher' = [publisher EXCEPT ![p] = c] /\ ~ Stands(p, "away")
      /\ report["manifest"] = {}
  BY DEF Render, Stands
<1>3. c.pc = "write" /\ c.file = "markdown"
  OBVIOUS
<1> HIDE DEF c
<1>4. /\ publisher' \in [Publisher -> Place] /\ publisher'[p] = c
      /\ \A q \in Publisher \ {p} : publisher'[q].pc = "away"
  BY <1>1, <1>2, OthersAway DEF TInv, ReportWellTyped
<1>5. ReportWellTyped' /\ OneReporting' /\ Listed' /\ Answered'
  BY <1>2, <1>4 DEF Render, TInv, ReportWellTyped, OneReporting, Listed, Answered, OneReport,
     Stands
<1>6. Written'
  BY <1>1, <1>2, <1>3, <1>4 DEF Render, Written, Under, Stands
<1> QED BY <1>5, <1>6 DEF TInv

LEMMA WriteTemporaryStep ==
  ASSUME TInv, NEW p \in Publisher, WriteTemporary(p) PROVE TInv'
<1> DEFINE c == [publisher[p] EXCEPT !.pc = "replace"]
<1>1. publisher[p] \in Place /\ publisher[p].pc = "write" /\ ~ Stands(p, "away")
  BY DEF WriteTemporary, Stands, TInv, ReportWellTyped
<1>2. /\ c \in Place /\ c.pc = "replace" /\ c.file = publisher[p].file
      /\ c.version = publisher[p].version
  BY <1>1 DEF Place
<1>3. publisher' = [publisher EXCEPT ![p] = c]
  BY DEF WriteTemporary, MoveOn, TInv, ReportWellTyped
<1> HIDE DEF c
<1>4. /\ publisher' \in [Publisher -> Place] /\ publisher'[p] = c
      /\ \A q \in Publisher \ {p} : publisher'[q].pc = "away"
  BY <1>1, <1>2, <1>3, OthersAway DEF TInv, ReportWellTyped
<1>5. ReportWellTyped' /\ OneReporting' /\ Listed' /\ Answered'
  BY <1>1, <1>4
  DEF WriteTemporary, TInv, ReportWellTyped, OneReporting, Listed, Answered, OneReport,
      Stands, Place
<1>6. Written'
  BY <1>1, <1>2, <1>4 DEF WriteTemporary, TInv, Written, Under, Stands
<1> QED BY <1>5, <1>6 DEF TInv

LEMMA ReplaceFileStep == ASSUME TInv, NEW p \in Publisher, ReplaceFile(p) PROVE TInv'
<1> DEFINE c == [publisher[p] EXCEPT !.pc = "sync"]
           f == publisher[p].file
           v == publisher[p].version
<1>1. /\ publisher[p] \in Place /\ publisher[p].pc = "replace" /\ ~ Stands(p, "away")
      /\ f \in FileName
  BY DEF ReplaceFile, Stands, TInv, ReportWellTyped, Place
<1>2. c \in Place /\ c.pc = "sync" /\ c.file = f /\ c.version = v
  BY <1>1 DEF Place
<1>3. publisher' = [publisher EXCEPT ![p] = c]
  BY DEF ReplaceFile, MoveOn, TInv, ReportWellTyped
<1>4. /\ report' = [report EXCEPT ![f] = v]
      /\ onDisk' = [onDisk EXCEPT ![f] = @ \cup {v}]
      /\ orphans' = orphans \ {f} /\ UNCHANGED <<reporting, answered>>
  BY DEF ReplaceFile
<1> HIDE DEF c, f, v
<1>5. /\ v \in Version /\ report["manifest"] = {}
      /\ f # "markdown" => onDisk["markdown"] = {v}
      /\ f = "manifest" => onDisk["docx"] = {v}
  BY <1>1 DEF TInv, Written, Under, Stands, f, v
<1>6. /\ publisher' \in [Publisher -> Place] /\ publisher'[p] = c
      /\ \A q \in Publisher \ {p} : publisher'[q].pc = "away"
  BY <1>1, <1>2, <1>3, OthersAway DEF TInv, ReportWellTyped
<1>7. /\ report' \in [FileName -> {{}} \cup Version] /\ report'[f] = v
      /\ \A g \in FileName \ {f} : report'[g] = report[g] /\ onDisk'[g] = onDisk[g]
      /\ onDisk' \in [FileName -> SUBSET ({{}} \cup Version)]
      /\ onDisk'[f] = onDisk[f] \cup {v}
  BY <1>1, <1>4, <1>5 DEF TInv, ReportWellTyped
<1>8. ReportWellTyped' /\ OneReporting'
  BY <1>1, <1>4, <1>6, <1>7 DEF TInv, ReportWellTyped, OneReporting, Stands
<1>9. \A w \in Version : w \notin onDisk["manifest"]
  BY <1>5, VersionFacts DEF TInv, Listed
<1>10. Listed'
  BY <1>1, <1>5, <1>7, <1>9, FilesDiffer DEF Listed
<1>11. Written'
  BY <1>1, <1>2, <1>5, <1>6, <1>7, FilesDiffer DEF Written, Under, Stands
<1>12. answered = {}
  BY <1>5 DEF TInv, Answered, OneReport
<1>13. Answered'
  BY <1>4, <1>12 DEF Answered, OneReport
<1> QED BY <1>8, <1>10, <1>11, <1>13 DEF TInv

LEMMA SyncFileStep == ASSUME TInv, NEW p \in Publisher, SyncFile(p) PROVE TInv'
<1> DEFINE f == publisher[p].file
           v == publisher[p].version
           c == IF AfterFile[f] = "verify" THEN [publisher[p] EXCEPT !.pc = "verify"]
                ELSE [publisher[p] EXCEPT !.pc = "write", !.file = AfterFile[f]]
<1>1. /\ publisher[p] \in Place /\ publisher[p].pc = "sync" /\ ~ Stands(p, "away")
      /\ f \in FileName
  BY DEF SyncFile, Stands, TInv, ReportWellTyped, Place
<1>2. /\ c \in Place /\ c.version = v
      /\ f = "markdown" => c.pc = "write" /\ c.file = "docx"
      /\ f = "docx" => c.pc = "write" /\ c.file = "manifest"
      /\ f = "manifest" => c.pc = "verify"
  BY <1>1, FilesDiffer DEF Place
<1>3. publisher' = [publisher EXCEPT ![p] = c]
  BY DEF SyncFile, TInv, ReportWellTyped
<1>4. onDisk' = [g \in FileName |-> {report[g]}]
      /\ UNCHANGED <<report, orphans, reporting, answered>>
  BY DEF SyncFile
<1> HIDE DEF c, f, v
<1>5. /\ v \in Version /\ report[f] = v
      /\ f # "markdown" => onDisk["markdown"] = {v}
      /\ f = "manifest" => onDisk["docx"] = {v}
      /\ f # "manifest" => report["manifest"] = {}
  BY <1>1 DEF TInv, Written, Under, Stands, f, v
<1>6. /\ publisher' \in [Publisher -> Place] /\ publisher'[p] = c
      /\ \A q \in Publisher \ {p} : publisher'[q].pc = "away"
  BY <1>1, <1>2, <1>3, OthersAway DEF TInv, ReportWellTyped
<1>7. /\ onDisk' \in [FileName -> SUBSET ({{}} \cup Version)]
      /\ \A g \in FileName : report[g] \in onDisk[g] /\ onDisk'[g] = {report[g]}
  BY <1>4 DEF TInv, ReportWellTyped
<1>8. ReportWellTyped' /\ OneReporting' /\ Answered'
  BY <1>1, <1>4, <1>6, <1>7
  DEF TInv, ReportWellTyped, OneReporting, Answered, OneReport, Stands
<1>9. Listed'
  BY <1>4, <1>7, FilesDiffer DEF TInv, Listed
<1>10. /\ f = "docx" => report["markdown"] = v
       /\ f = "manifest" => report["markdown"] = v /\ report["docx"] = v
  BY <1>5, <1>7, FilesDiffer
<1>11. Written'
  BY <1>1, <1>2, <1>4, <1>5, <1>6, <1>7, <1>10, FilesDiffer DEF Written, Under, Stands
<1> QED BY <1>8, <1>9, <1>11 DEF TInv

LEMMA ReturnStep ==
  ASSUME TInv, NEW p \in Publisher, ReturnExisting(p) \/ ReturnPublished(p)
  PROVE  TInv'
<1>1. /\ ~ Stands(p, "away") /\ GoAway(p) /\ report["manifest"] # {}
      /\ answered' = answered \cup {report["manifest"]}
      /\ UNCHANGED <<report, onDisk, orphans>>
  BY DEF ReturnExisting, ReturnPublished, Stands, Verified, TInv, Written
<1>2. Answered'
  BY <1>1 DEF TInv, Answered, OneReport
<1> QED BY <1>1, <1>2, LeavesStep DEF TInv, ReportWellTyped

LEMMA EndsStep ==
  ASSUME TInv, NEW p \in Publisher, FailReport(p) \/ DieReporting(p)
  PROVE  TInv'
<1>1. /\ ~ Stands(p, "away") /\ GoAway(p) /\ orphans' \subseteq orphans
      /\ UNCHANGED <<report, onDisk, answered>>
  BY DEF FailReport, DieReporting
<1>2. Answered'
  BY <1>1 DEF TInv, Answered, OneReport
<1> QED BY <1>1, <1>2, LeavesStep DEF TInv, ReportWellTyped

LEMMA LosePowerStep == ASSUME TInv, LosePower PROVE TInv'
<1>1. PICK d \in [FileName -> UNION {onDisk[f] : f \in FileName}] :
        /\ \A f \in FileName : d[f] \in onDisk[f]
        /\ report' = d
        /\ onDisk' = [f \in FileName |-> {d[f]}]
  BY DEF LosePower
<1>2. /\ reporting = {} /\ orphans' \subseteq FileName /\ answered' = {}
      /\ UNCHANGED <<publisher, reporting>>
  BY DEF LosePower
<1>3. \A p \in Publisher : publisher[p].pc = "away"
  BY <1>2 DEF TInv, OneReporting, Stands
<1>4. \A f \in FileName : d[f] \in {{}} \cup Version
  BY <1>1 DEF TInv, ReportWellTyped
<1>5. ReportWellTyped'
  BY <1>1, <1>2, <1>4 DEF TInv, ReportWellTyped
<1>6. OneReporting' /\ Written'
  BY <1>2, <1>3 DEF OneReporting, Written, Under, Stands
<1>7. Answered'
  BY <1>2 DEF Answered, OneReport
<1>8. Listed'
  BY <1>1, FilesDiffer DEF TInv, Listed
<1> QED BY <1>5, <1>6, <1>7, <1>8 DEF TInv

LEMMA NextReportInv == TInv /\ [ReportNext]_reportVars => TInv'
<1> SUFFICES ASSUME TInv, [ReportNext]_reportVars PROVE TInv'
  OBVIOUS
<1>1. ASSUME NEW p \in Publisher,
             \/ LockReport(p) \/ RemoveOrphans(p) \/ WriteTemporary(p)
             \/ ReplaceFile(p) \/ SyncFile(p)
             \/ \E v \in Renderer : Render(p, v)
      PROVE TInv'
  BY <1>1, LockStep, RemoveOrphansStep, WriteTemporaryStep, ReplaceFileStep, SyncFileStep,
     RenderStep
<1>2. ASSUME NEW p \in Publisher,
             ReturnExisting(p) \/ ReturnPublished(p) \/ FailReport(p) \/ DieReporting(p)
      PROVE TInv'
  BY <1>2, ReturnStep, EndsStep
<1>3. CASE LosePower
  BY <1>3, LosePowerStep
<1>4. CASE UNCHANGED reportVars
  <2> USE <1>4 DEF reportVars
  <2>1. ReportWellTyped' /\ OneReporting' /\ Listed' /\ Answered'
    BY DEF TInv, ReportWellTyped, OneReporting, Listed, Answered, OneReport, Stands
  <2>2. Written'
    BY DEF TInv, Written, Under, Stands
  <2> QED BY <2>1, <2>2 DEF TInv
<1> QED BY <1>1, <1>2, <1>3, <1>4 DEF ReportNext

(***************************************************************************)
(* The inductive invariant of a report: who writes, how far, and that a    *)
(* manifest is on disk only after the files it lists.                      *)
(***************************************************************************)
THEOREM ReportInvariance == ReportSpec => []TInv
  BY InitReportInv, NextReportInv, PTL DEF ReportSpec

(***************************************************************************)
(* A report that was begun can be finished, whatever happened to it.       *)
(***************************************************************************)
THEOREM BegunReportCanBeFinished == ReportSpec => []ReportCanBePublished
<1>1. TInv => ReportCanBePublished
  <2> SUFFICES ASSUME TInv,
                      NEW d \in [FileName -> {{}} \cup {{v} : v \in Renderer}],
                      \A f \in FileName : d[f] \in onDisk[f], d["manifest"] # {}
               PROVE  \A f \in FileName : d[f] = d["manifest"]
    BY DEF ReportCanBePublished
  <2>1. d["manifest"] \in Version /\ d["manifest"] \in onDisk["manifest"]
    BY FilesDiffer DEF Version
  <2> QED BY <2>1, FilesDiffer DEF TInv, Listed
<1> QED BY <1>1, ReportInvariance, PTL

(***************************************************************************)
(* All callers get one manifest, that of the directory.                    *)
(***************************************************************************)
THEOREM ReportIsOne == ReportSpec => []OneReport
<1>1. TInv => OneReport
  BY DEF TInv, Answered
<1> QED BY <1>1, ReportInvariance, PTL

(***************************************************************************)
(* Binning: any number of bins and rows.                                   *)
(***************************************************************************)

\* Induction, in the form the provers can use: a set of numbers has a least one.
LEMMA LeastNumber ==
  ASSUME NEW T, T \subseteq Nat, NEW n \in T
  PROVE  \E x \in T : \A y \in T : x <= y
<1>1. PICK R : R = OpToRel(<, Nat)
  OBVIOUS
<1>2. IsWellFoundedOn(R, Nat)
  BY <1>1, NatLessThanWellFounded
<1>3. \E x \in T : \A y \in T : ~ (<<y, x>> \in R)
  BY <1>2, WFMin
<1>4. \A x, y \in Nat : y < x => <<y, x>> \in R
  BY <1>1 DEF OpToRel
<1>5. \E x \in T : \A y \in T : ~ (y < x)
  BY <1>3, <1>4
<1> QED BY <1>5

\* f sums up the first n numbers.
SumsUp(f, numbers, n) ==
  f = [k \in 0..n |-> IF k = 0 THEN 0 ELSE f[k - 1] + numbers[k]]

LEMMA SumsUpStep ==
  ASSUME NEW numbers, NEW n \in Nat, NEW f, SumsUp(f, numbers, n)
  PROVE  f[0] = 0 /\ \A k \in 1..n : f[k] = f[k - 1] + numbers[k]
<1>1. \A k \in 0..n : f[k] = IF k = 0 THEN 0 ELSE f[k - 1] + numbers[k]
  BY DEF SumsUp
<1>2. 0 \in 0..n /\ \A k \in 1..n : k \in 0..n /\ k # 0
  OBVIOUS
<1> QED BY <1>1, <1>2

LEMMA SumsExist ==
  ASSUME NEW numbers, NEW n \in Nat
  PROVE  \E f : SumsUp(f, numbers, n)
<1> DEFINE T == {m \in Nat : ~ \E f : SumsUp(f, numbers, m)}
<1>1. SUFFICES ASSUME n \in T
               PROVE  FALSE
  OBVIOUS
<1>2. PICK m \in T : \A y \in T : m <= y
  BY <1>1, LeastNumber
<1>3. CASE m = 0
  <2>1. SumsUp([k \in 0..0 |-> 0], numbers, 0)
    BY DEF SumsUp
  <2> QED BY <1>3, <2>1
<1>4. CASE m > 0
  <2>1. m \in Nat /\ m - 1 \in Nat /\ m - 1 \notin T
    BY <1>2, <1>4
  <2>2. PICK f : SumsUp(f, numbers, m - 1)
    BY <2>1
  <2>3. PICK last : last = f[m - 1] + numbers[m]
    OBVIOUS
  <2>4. PICK g : g = [k \in 0..m |-> IF k = m THEN last ELSE f[k]]
    OBVIOUS
  <2>5. f[0] = 0 /\ \A k \in 1..(m - 1) : f[k] = f[k - 1] + numbers[k]
    BY <2>1, <2>2, SumsUpStep
  <2>6. \A k \in 0..m : g[k] = IF k = 0 THEN 0 ELSE g[k - 1] + numbers[k]
    <3> TAKE k \in 0..m
    <3>1. CASE k = m
      <4>1. g[k] = last /\ g[k - 1] = f[k - 1]
        BY <2>1, <2>4, <3>1
      <4> QED BY <1>4, <2>3, <3>1, <4>1
    <3>2. CASE k = 0
      BY <1>4, <2>1, <2>4, <2>5, <3>2
    <3>3. CASE k \in 1..(m - 1)
      <4>1. g[k] = f[k] /\ g[k - 1] = f[k - 1]
        BY <2>1, <2>4, <3>3
      <4> QED BY <2>1, <2>5, <3>3, <4>1
    <3> QED BY <2>1, <3>1, <3>2, <3>3
  <2>7. g = [k \in 0..m |-> IF k = 0 THEN 0 ELSE g[k - 1] + numbers[k]]
    BY <2>4, <2>6
  <2> QED BY <1>2, <2>7 DEF SumsUp
<1> QED BY <1>2, <1>3, <1>4

\* Sums of natural numbers grow by the next one.
LEMMA SumsAre ==
  ASSUME NEW numbers \in Seq(Nat)
  PROVE  /\ Sums(numbers)[0] = 0
         /\ \A k \in 1..Len(numbers) :
              Sums(numbers)[k] = Sums(numbers)[k - 1] + numbers[k]
         /\ \A k \in 0..Len(numbers) : Sums(numbers)[k] \in Nat
<1>1. PICK f : f = CHOOSE g : SumsUp(g, numbers, Len(numbers))
  OBVIOUS
<1>2. PICK n \in Nat : n = Len(numbers)
  OBVIOUS
<1>3. SumsUp(f, numbers, n)
  BY <1>1, <1>2, SumsExist
<1>4. Sums(numbers) = f
  BY <1>1 DEF Sums, SumsUp
<1>5. f[0] = 0 /\ \A k \in 1..n : f[k] = f[k - 1] + numbers[k]
  BY <1>3, SumsUpStep
<1>6. \A k \in 0..n : f[k] \in Nat
  <2> DEFINE T == {k \in 0..n : f[k] \notin Nat}
  <2>1. SUFFICES ASSUME NEW l \in T
                 PROVE  FALSE
    OBVIOUS
  <2>2. PICK k \in T : \A y \in T : k <= y
    <3>1. T \subseteq Nat
      OBVIOUS
    <3> QED BY <2>1, <3>1, LeastNumber
  <2>3. CASE k = 0
    BY <1>5, <2>2, <2>3
  <2>4. CASE k \in 1..n
    <3>1. f[k - 1] \in Nat
      BY <2>2, <2>4
    <3>2. numbers[k] \in Nat
      BY <1>2, <2>4
    <3> QED BY <1>5, <2>2, <2>4, <3>1, <3>2
  <2> QED BY <2>2, <2>3, <2>4
<1> QED BY <1>2, <1>4, <1>5, <1>6


AnyBin == [count : Nat, bad : Nat]

BinningWellTyped ==
  /\ origin \in Seq(Bin) /\ Len(origin) > 0
  /\ bins \in Seq(AnyBin) /\ Len(bins) > 0
  /\ edges \in Seq(Nat) /\ Len(edges) = Len(bins) - 1
  /\ minimum \in Nat /\ minimum <= RowsTo[Len(origin)]
  /\ monotonic \in Direction \cup {"auto"}
  /\ binning \in {"small", "monotonic", "fitted"}

InStep ==
  /\ \A i \in DOMAIN edges : edges[i] \in 1..Len(origin)
  /\ \A i \in 2..Len(edges) : edges[i - 1] < edges[i]
  /\ \A i \in DOMAIN bins : bins[i] = Between(i)

LargeEnough == binning # "small" => \A i \in DOMAIN bins : bins[i].count >= minimum

InDirection ==
  binning = "fitted" =>
    /\ monotonic = "increasing" =>
         \A i \in 1..(Len(bins) - 1) : ~ Higher(bins[i], bins[i + 1])
    /\ monotonic = "decreasing" =>
         \A i \in 1..(Len(bins) - 1) : ~ Higher(bins[i + 1], bins[i])

BInv == BinningWellTyped /\ InStep /\ LargeEnough /\ InDirection

\* The sums over the initial bins.
LEMMA InitialSums ==
  ASSUME origin \in Seq(Bin)
  PROVE  /\ RowsTo[0] = 0 /\ BadTo[0] = 0
         /\ \A k \in 1..Len(origin) : /\ RowsTo[k] = RowsTo[k - 1] + origin[k].count
                                      /\ BadTo[k] = BadTo[k - 1] + origin[k].bad
         /\ \A k \in 0..Len(origin) : RowsTo[k] \in Nat /\ BadTo[k] \in Nat
<1>1. PICK counts, bads : /\ counts = [i \in DOMAIN origin |-> origin[i].count]
                          /\ bads = [i \in DOMAIN origin |-> origin[i].bad]
  OBVIOUS
<1>2. \A i \in DOMAIN origin : origin[i].count \in Nat /\ origin[i].bad \in Nat
  BY BinningAssumption DEF Bin
<1>3. /\ counts \in Seq(Nat) /\ Len(counts) = Len(origin)
      /\ bads \in Seq(Nat) /\ Len(bads) = Len(origin)
  <2>1. PICK n \in Nat : n = Len(origin) /\ DOMAIN origin = 1..n
    OBVIOUS
  <2>2. counts \in [1..n -> Nat] /\ bads \in [1..n -> Nat]
    BY <1>1, <1>2, <2>1
  <2>3. /\ counts \in Seq(Nat) /\ bads \in Seq(Nat)
        /\ DOMAIN counts = 1..n /\ DOMAIN bads = 1..n
    BY <2>2, SeqDef
  <2>4. Len(counts) = n /\ Len(bads) = n
    BY <2>1, <2>3, LenProperties
  <2> QED BY <2>1, <2>3, <2>4
<1>4. RowsTo = Sums(counts) /\ BadTo = Sums(bads)
  BY <1>1 DEF RowsTo, BadTo
<1>5. \A k \in 1..Len(origin) : counts[k] = origin[k].count /\ bads[k] = origin[k].bad
  BY <1>1
<1>6. /\ Sums(counts)[0] = 0
      /\ \A k \in 1..Len(origin) : Sums(counts)[k] = Sums(counts)[k - 1] + counts[k]
      /\ \A k \in 0..Len(origin) : Sums(counts)[k] \in Nat
  BY <1>3, SumsAre
<1>7. /\ Sums(bads)[0] = 0
      /\ \A k \in 1..Len(origin) : Sums(bads)[k] = Sums(bads)[k - 1] + bads[k]
      /\ \A k \in 0..Len(origin) : Sums(bads)[k] \in Nat
  BY <1>3, SumsAre
<1> QED BY <1>4, <1>5, <1>6, <1>7

LEMMA BinningInitially ==
  ASSUME BinningInit
  PROVE  BInv
<1>1. PICK k \in 1..MaxBins : origin \in [1..k -> Bin]
  BY DEF BinningInit, InitialBins
<1>2. k \in Nat /\ k > 0 /\ origin \in Seq(Bin) /\ Len(origin) = k
  BY <1>1, BinningAssumption
<1>3. /\ bins = origin /\ edges = [i \in 1..(k - 1) |-> i] /\ binning = "small"
      /\ minimum \in Nat /\ minimum <= RowsTo[Len(origin)]
      /\ monotonic \in Direction \cup {"auto"}
  BY <1>2, BinningAssumption DEF BinningInit
<1>4. \A i \in 1..k : origin[i] \in AnyBin
  BY <1>1, BinningAssumption DEF Bin, AnyBin
<1>5. bins \in Seq(AnyBin) /\ Len(bins) = k /\ DOMAIN bins = 1..k
  BY <1>2, <1>3, <1>4
<1>6. edges \in Seq(Nat) /\ Len(edges) = k - 1 /\ \A i \in 1..(k - 1) : edges[i] = i
  BY <1>2, <1>3
<1>7. BinningWellTyped
  BY <1>2, <1>3, <1>5, <1>6 DEF BinningWellTyped
<1>8. ASSUME NEW i \in 1..k
      PROVE  bins[i] = Between(i)
  <2>1. LeftOf(i) = i - 1 /\ RightOf(i) = i
    BY <1>2, <1>5, <1>6 DEF LeftOf, RightOf
  <2>2. /\ RowsTo[i] = RowsTo[i - 1] + origin[i].count /\ RowsTo[i - 1] \in Nat
        /\ BadTo[i] = BadTo[i - 1] + origin[i].bad /\ BadTo[i - 1] \in Nat
    BY <1>2, InitialSums
  <2>3. origin[i] \in AnyBin
    BY <1>4
  <2>4. RowsTo[i] - RowsTo[i - 1] = origin[i].count /\ BadTo[i] - BadTo[i - 1] = origin[i].bad
    BY <2>2, <2>3 DEF AnyBin
  <2> QED BY <1>3, <2>1, <2>3, <2>4 DEF Between, AnyBin
<1>9. InStep
  <2>1. /\ \A i \in DOMAIN edges : edges[i] \in 1..Len(origin)
        /\ \A i \in 2..Len(edges) : edges[i - 1] < edges[i]
    BY <1>2, <1>6
  <2> QED BY <1>5, <1>8, <2>1 DEF InStep
<1> QED BY <1>3, <1>7, <1>9 DEF BInv, LargeEnough, InDirection

-----------------------------------------------------------------------------
(* A merge *)

LEMMA RemoveIs ==
  ASSUME NEW S, NEW s \in Seq(S), NEW i \in 1..Len(s)
  PROVE  /\ RemoveAt(s, i) \in Seq(S) /\ Len(RemoveAt(s, i)) = Len(s) - 1
         /\ \A j \in 1..(Len(s) - 1) :
              RemoveAt(s, i)[j] = IF j < i THEN s[j] ELSE s[j + 1]
<1>1. PICK l, t : l = SubSeq(s, 1, i - 1) /\ t = SubSeq(s, i + 1, Len(s))
  OBVIOUS
<1>2. l \in Seq(S) /\ Len(l) = i - 1 /\ \A j \in 1..(i - 1) : l[j] = s[j]
  BY <1>1
<1>3. t \in Seq(S) /\ Len(t) = Len(s) - i /\ \A j \in 1..(Len(s) - i) : t[j] = s[j + i]
  BY <1>1
<1>4. PICK m : m = RemoveAt(s, i) /\ m = l \o t
  BY <1>1 DEF RemoveAt
<1>5. m \in Seq(S) /\ Len(m) = Len(s) - 1
  <2>1. l \o t \in Seq(S) /\ Len(l \o t) = Len(l) + Len(t)
    BY <1>2, <1>3, ConcatProperties
  <2>2. (i - 1) + (Len(s) - i) = Len(s) - 1
    OBVIOUS
  <2> QED BY <1>2, <1>3, <1>4, <2>1, <2>2
<1>6. ASSUME NEW j \in 1..(Len(s) - 1)
      PROVE  m[j] = IF j < i THEN s[j] ELSE s[j + 1]
  <2>0. Len(s) \in Nat /\ j \in Int /\ i \in Int
    OBVIOUS
  <2>1. CASE j < i
    BY <1>2, <1>3, <1>4, <2>1
  <2>2. CASE j >= i
    <3>1. j - (i - 1) \in 1..(Len(s) - i) /\ (j - (i - 1)) + i = j + 1
      BY <2>2
    <3>2. t[j - (i - 1)] = s[j + 1]
      BY <1>3, <3>1
    <3>3. m[j] = t[j - (i - 1)]
      BY <1>2, <1>3, <1>4, <2>2
    <3> QED BY <2>0, <2>2, <3>2, <3>3
  <2> QED BY <2>0, <2>1, <2>2
<1> QED BY <1>4, <1>5, <1>6

LEMMA MergeIs ==
  ASSUME BinningWellTyped, NEW i \in 1..(Len(bins) - 1), Merge(i)
  PROVE  /\ bins' \in Seq(AnyBin) /\ Len(bins') = Len(bins) - 1
         /\ edges' \in Seq(Nat) /\ Len(edges') = Len(edges) - 1
         /\ \A j \in 1..(Len(bins) - 1) :
              bins'[j] = IF j < i THEN bins[j] ELSE IF j = i THEN Joined(i) ELSE bins[j + 1]
         /\ \A j \in 1..(Len(edges) - 1) :
              edges'[j] = IF j < i THEN edges[j] ELSE edges[j + 1]
         /\ Joined(i) = [count |-> bins[i].count + bins[i + 1].count,
                         bad |-> bins[i].bad + bins[i + 1].bad]
         /\ UNCHANGED <<origin, minimum>>
<1>1. bins[i] \in AnyBin /\ bins[i + 1] \in AnyBin
  BY DEF BinningWellTyped
<1>2. Joined(i) = [count |-> bins[i].count + bins[i + 1].count,
                   bad |-> bins[i].bad + bins[i + 1].bad]
  <2>1. PICK a \in Nat, b \in Nat, c \in Nat, d \in Nat :
          bins[i] = [count |-> a, bad |-> b] /\ bins[i + 1] = [count |-> c, bad |-> d]
    BY <1>1 DEF AnyBin
  <2>2. PICK one : one = [count |-> a, bad |-> b]
    OBVIOUS
  <2>3. Joined(i) = [one EXCEPT !.count = @ + c, !.bad = @ + d]
    BY <2>1, <2>2 DEF Joined
  <2>4. PICK two : two = [one EXCEPT !.count = a + c]
    OBVIOUS
  <2>5. two \in AnyBin /\ two.count = a + c /\ two.bad = b
    BY <2>2, <2>4 DEF AnyBin
  <2>6. Joined(i) = [two EXCEPT !.bad = b + d]
    BY <2>2, <2>3, <2>4, <2>5
  <2>7. Joined(i) \in AnyBin /\ Joined(i).count = a + c /\ Joined(i).bad = b + d
    BY <2>5, <2>6 DEF AnyBin
  <2>8. Joined(i) = [count |-> a + c, bad |-> b + d]
    BY <2>7 DEF AnyBin
  <2> QED BY <2>1, <2>8
<1>3. PICK joined : joined = Joined(i)
  OBVIOUS
<1>4. joined \in AnyBin
  BY <1>1, <1>2, <1>3 DEF AnyBin
<1>5. PICK more : more = [bins EXCEPT ![i] = joined]
  OBVIOUS
<1>6. /\ more \in Seq(AnyBin) /\ Len(more) = Len(bins)
      /\ \A j \in 1..Len(bins) : more[j] = IF j = i THEN joined ELSE bins[j]
  BY <1>4, <1>5 DEF BinningWellTyped
<1>7. bins' = RemoveAt(more, i + 1)
  BY <1>3, <1>5 DEF Merge, ReplaceAt
<1>8. i + 1 \in 1..Len(more) /\ i \in 1..Len(edges)
  BY <1>6 DEF BinningWellTyped
<1>9. /\ bins' \in Seq(AnyBin) /\ Len(bins') = Len(bins) - 1
      /\ \A j \in 1..(Len(bins) - 1) : bins'[j] = IF j < i + 1 THEN more[j] ELSE more[j + 1]
  BY <1>6, <1>7, <1>8, RemoveIs
<1>10. edges' = RemoveAt(edges, i) /\ edges \in Seq(Nat)
  BY DEF Merge, BinningWellTyped
<1>11. /\ edges' \in Seq(Nat) /\ Len(edges') = Len(edges) - 1
       /\ \A j \in 1..(Len(edges) - 1) :
            edges'[j] = IF j < i THEN edges[j] ELSE edges[j + 1]
  BY <1>8, <1>10, RemoveIs
<1>12. ASSUME NEW j \in 1..(Len(bins) - 1)
       PROVE  bins'[j] = IF j < i THEN bins[j] ELSE IF j = i THEN joined ELSE bins[j + 1]
  <2>1. j \in 1..Len(bins) /\ j + 1 \in 1..Len(bins)
    BY DEF BinningWellTyped
  <2> QED BY <1>6, <1>9, <2>1
<1> QED BY <1>2, <1>3, <1>9, <1>11, <1>12 DEF Merge

LEMMA BinIs ==
  ASSUME NEW bs \in Seq(AnyBin), NEW j \in 1..Len(bs)
  PROVE  bs[j] \in AnyBin /\ bs[j].count \in Nat /\ bs[j].bad \in Nat
<1>1. bs[j] \in AnyBin
  OBVIOUS
<1> QED BY <1>1 DEF AnyBin

LEMMA MergeKeepsStep ==
  ASSUME BinningWellTyped, InStep, NEW i \in 1..(Len(bins) - 1), Merge(i)
  PROVE  /\ InStep'
         /\ \A m \in Nat : (\A j \in DOMAIN bins : bins[j].count >= m)
                             => \A j \in DOMAIN bins' : bins'[j].count >= m
         /\ Len(bins') > 0 /\ bins' \in Seq(AnyBin) /\ edges' \in Seq(Nat)
         /\ Len(edges') = Len(bins') - 1
<1>0. PICK K \in Nat, N \in Nat : K = Len(bins) /\ N = Len(origin)
  BY DEF BinningWellTyped
<1>1. /\ bins \in Seq(AnyBin) /\ Len(bins) = K /\ K > 1 /\ i \in 1..(K - 1)
      /\ edges \in Seq(Nat) /\ Len(edges) = K - 1
      /\ DOMAIN bins = 1..K /\ DOMAIN edges = 1..(K - 1)
      /\ origin \in Seq(Bin) /\ Len(origin) = N /\ N > 0
  BY <1>0 DEF BinningWellTyped
<1>2. /\ bins' \in Seq(AnyBin) /\ Len(bins') = K - 1
      /\ edges' \in Seq(Nat) /\ Len(edges') = K - 2
      /\ \A j \in 1..(K - 1) :
           bins'[j] = IF j < i THEN bins[j] ELSE IF j = i THEN Joined(i) ELSE bins[j + 1]
      /\ \A j \in 1..(K - 2) : edges'[j] = IF j < i THEN edges[j] ELSE edges[j + 1]
      /\ Joined(i) = [count |-> bins[i].count + bins[i + 1].count,
                      bad |-> bins[i].bad + bins[i + 1].bad]
      /\ origin' = origin
  BY <1>0, <1>1, MergeIs
<1>3. /\ \A j \in 1..(K - 1) : edges[j] \in 1..N
      /\ \A j \in 2..(K - 1) : edges[j - 1] < edges[j]
      /\ \A j \in 1..K : bins[j] = Between(j)
  BY <1>1 DEF InStep
<1>12. \A j \in 1..K : bins[j] \in AnyBin /\ bins[j].count \in Nat /\ bins[j].bad \in Nat
  BY <1>1, BinIs
<1>4. RowsTo' = RowsTo /\ BadTo' = BadTo /\ Len(origin') = N
  BY <1>1, <1>2 DEF RowsTo, BadTo
<1>5. \A k \in 0..N : RowsTo[k] \in Nat /\ BadTo[k] \in Nat
  BY <1>1, InitialSums
<1>6. ASSUME NEW j \in 1..(K - 1)
      PROVE  LeftOf(j)' = IF j <= i THEN LeftOf(j) ELSE LeftOf(j + 1)
  <2>1. CASE j = 1
    BY <2>1 DEF LeftOf
  <2>2. CASE j > 1
    <3>1. j - 1 \in 1..(K - 2)
      BY <1>1, <2>2
    <3>2. edges'[j - 1] = IF j - 1 < i THEN edges[j - 1] ELSE edges[(j - 1) + 1]
      BY <1>2, <3>1
    <3>3. LeftOf(j)' = edges'[j - 1]
      BY <2>2 DEF LeftOf
    <3> QED BY <1>1, <2>2, <3>2, <3>3 DEF LeftOf
  <2> QED BY <2>1, <2>2
<1>7. ASSUME NEW j \in 1..(K - 1)
      PROVE  RightOf(j)' = IF j < i THEN RightOf(j) ELSE RightOf(j + 1)
  <2>1. CASE j = K - 1
    BY <1>1, <1>2, <2>1 DEF RightOf
  <2>2. CASE j < K - 1
    <3>1. j \in 1..(K - 2) /\ RightOf(j)' = edges'[j]
      <4>1. Len(bins') = K - 1
        BY <1>2
      <4>2. j \in 1..(K - 2)
        BY <1>0, <2>2
      <4>3. j # Len(bins')
        BY <1>0, <2>2, <4>1
      <4> QED BY <4>2, <4>3 DEF RightOf
    <3>2. edges'[j] = IF j < i THEN edges[j] ELSE edges[j + 1]
      BY <1>2, <3>1
    <3> QED BY <1>1, <2>2, <3>1, <3>2 DEF RightOf
  <2> QED BY <1>1, <2>1, <2>2
<1>8. Joined(i) = [count |-> RowsTo[RightOf(i + 1)] - RowsTo[LeftOf(i)],
                   bad |-> BadTo[RightOf(i + 1)] - BadTo[LeftOf(i)]]
  <2>1. RightOf(i) = edges[i] /\ LeftOf(i + 1) = edges[i]
    BY <1>1 DEF RightOf, LeftOf
  <2>2. PICK a, b, c : a = LeftOf(i) /\ b = edges[i] /\ c = RightOf(i + 1)
    OBVIOUS
  <2>3. a \in 0..N /\ b \in 0..N /\ c \in 0..N
    <3>1. b \in 1..N
      BY <1>1, <1>3, <2>2
    <3>2. a = 0 \/ (i - 1 \in 1..(K - 1) /\ a = edges[i - 1])
      BY <1>1, <2>2 DEF LeftOf
    <3>3. c = N \/ (i + 1 \in 1..(K - 1) /\ c = edges[i + 1])
      BY <1>1, <2>2 DEF RightOf
    <3>4. a \in 0..N
      BY <1>3, <3>2
    <3>5. c \in 0..N
      BY <1>3, <3>3
    <3> QED BY <3>1, <3>4, <3>5
  <2>4. /\ bins[i].count = RowsTo[b] - RowsTo[a] /\ bins[i].bad = BadTo[b] - BadTo[a]
        /\ bins[i + 1].count = RowsTo[c] - RowsTo[b] /\ bins[i + 1].bad = BadTo[c] - BadTo[b]
    <3>1. i \in 1..K /\ i + 1 \in 1..K
      BY <1>1
    <3>2. bins[i] = Between(i) /\ bins[i + 1] = Between(i + 1)
      BY <1>3, <3>1
    <3> QED BY <2>1, <2>2, <3>2 DEF Between
  <2>5. /\ (RowsTo[b] - RowsTo[a]) + (RowsTo[c] - RowsTo[b]) = RowsTo[c] - RowsTo[a]
        /\ (BadTo[b] - BadTo[a]) + (BadTo[c] - BadTo[b]) = BadTo[c] - BadTo[a]
    <3>1. /\ RowsTo[a] \in Nat /\ RowsTo[b] \in Nat /\ RowsTo[c] \in Nat
          /\ BadTo[a] \in Nat /\ BadTo[b] \in Nat /\ BadTo[c] \in Nat
      BY <1>5, <2>3
    <3>2. ASSUME NEW x \in Nat, NEW y \in Nat, NEW z \in Nat
          PROVE  (y - x) + (z - y) = z - x
      OBVIOUS
    <3>3. (RowsTo[b] - RowsTo[a]) + (RowsTo[c] - RowsTo[b]) = RowsTo[c] - RowsTo[a]
      BY <3>1, <3>2
    <3>4. (BadTo[b] - BadTo[a]) + (BadTo[c] - BadTo[b]) = BadTo[c] - BadTo[a]
      BY <3>1, <3>2
    <3> QED BY <3>3, <3>4
  <2> QED BY <1>2, <2>2, <2>4, <2>5
<1>9. ASSUME NEW j \in 1..(K - 1)
      PROVE  bins'[j] = Between(j)'
  <2>1. Between(j)' = [count |-> RowsTo[RightOf(j)'] - RowsTo[LeftOf(j)'],
                       bad |-> BadTo[RightOf(j)'] - BadTo[LeftOf(j)']]
    BY <1>4 DEF Between
  <2>2. CASE j < i
    <3>1. LeftOf(j)' = LeftOf(j) /\ RightOf(j)' = RightOf(j)
      BY <1>6, <1>7, <2>2
    <3>2. bins'[j] = bins[j] /\ j \in 1..K
      BY <1>1, <1>2, <2>2
    <3>3. bins[j] = Between(j)
      BY <1>3, <3>2
    <3> QED BY <2>1, <3>1, <3>2, <3>3 DEF Between
  <2>3. CASE j = i
    <3>1. LeftOf(j)' = LeftOf(i) /\ RightOf(j)' = RightOf(i + 1)
      BY <1>6, <1>7, <2>3
    <3>2. bins'[j] = Joined(i)
      BY <1>2, <2>3
    <3> QED BY <1>8, <2>1, <3>1, <3>2
  <2>4. CASE j > i
    <3>1. LeftOf(j)' = LeftOf(j + 1) /\ RightOf(j)' = RightOf(j + 1)
      BY <1>6, <1>7, <2>4
    <3>2. bins'[j] = bins[j + 1] /\ j + 1 \in 1..K
      <4>1. j + 1 \in 1..K
        BY <1>0
      <4>2. i \in 1..(K - 1)
        BY <1>1
      <4>3. ~(j < i) /\ j # i
        BY <1>0, <2>4, <4>2
      <4>4. bins'[j] = IF j < i THEN bins[j] ELSE IF j = i THEN Joined(i) ELSE bins[j + 1]
        BY <1>2
      <4> QED BY <4>1, <4>3, <4>4
    <3>3. bins[j + 1] = Between(j + 1)
      BY <1>3, <3>2
    <3> QED BY <2>1, <3>1, <3>2, <3>3 DEF Between
  <2> QED BY <2>2, <2>3, <2>4
<1>10. /\ \A j \in 1..(K - 2) : edges'[j] \in 1..N
       /\ \A j \in 2..(K - 2) : edges'[j - 1] < edges'[j]
  <2>1. ASSUME NEW j \in 1..(K - 2)
        PROVE  edges'[j] \in 1..N
    <3>1. j \in 1..(K - 1) /\ j + 1 \in 1..(K - 1)
      BY <1>1
    <3> QED BY <1>2, <1>3, <3>1
  <2>2. ASSUME NEW j \in 2..(K - 2)
        PROVE  edges'[j - 1] < edges'[j]
    <3>1. /\ j \in 2..(K - 1) /\ j + 1 \in 2..(K - 1) /\ j - 1 \in 1..(K - 2) /\ j \in 1..(K - 2)
      BY <1>1
    <3>2. /\ edges[j - 1] < edges[j] /\ edges[(j + 1) - 1] < edges[j + 1] /\ (j + 1) - 1 = j
          /\ edges[j - 1] \in Nat /\ edges[j] \in Nat /\ edges[j + 1] \in Nat
      <4>1. j - 1 \in 1..(K - 1) /\ j \in 1..(K - 1) /\ j + 1 \in 1..(K - 1) /\ (j + 1) - 1 = j
        BY <1>1
      <4>2. edges[j - 1] \in 1..N /\ edges[j] \in 1..N /\ edges[j + 1] \in 1..N
        BY <1>3, <4>1
      <4>3. edges[j - 1] < edges[j] /\ edges[(j + 1) - 1] < edges[j + 1]
        BY <1>3, <3>1
      <4> QED BY <4>1, <4>2, <4>3
    <3>3. /\ edges'[j - 1] = IF j - 1 < i THEN edges[j - 1] ELSE edges[j]
          /\ edges'[j] = IF j < i THEN edges[j] ELSE edges[j + 1]
      <4>1. (j - 1) + 1 = j
        BY <1>1
      <4>2. edges'[j - 1] = IF j - 1 < i THEN edges[j - 1] ELSE edges[(j - 1) + 1]
        BY <1>2, <3>1
      <4>3. edges'[j] = IF j < i THEN edges[j] ELSE edges[j + 1]
        BY <1>2, <3>1
      <4> QED BY <4>1, <4>2, <4>3
    <3> QED BY <3>2, <3>3
  <2> QED BY <2>1, <2>2
<1>11. InStep'
  <2>1. DOMAIN edges' = 1..(K - 2) /\ DOMAIN bins' = 1..(K - 1) /\ Len(edges') = K - 2
    BY <1>1, <1>2
  <2>2. /\ \A j \in DOMAIN edges' : edges'[j] \in 1..Len(origin')
        /\ \A j \in 2..Len(edges') : edges'[j - 1] < edges'[j]
    BY <1>4, <1>10, <2>1
  <2>3. \A j \in DOMAIN bins' : bins'[j] = Between(j)'
    BY <1>9, <2>1
  <2> QED BY <2>2, <2>3 DEF InStep
<1>13. ASSUME NEW m \in Nat, \A j \in DOMAIN bins : bins[j].count >= m, NEW j \in DOMAIN bins'
       PROVE  bins'[j].count >= m
  <2>1. j \in 1..(K - 1)
    BY <1>1, <1>2
  <2>2. \A l \in 1..K : bins[l].count >= m /\ bins[l].count \in Nat
    BY <1>1, <1>12, <1>13
  <2>3. j \in 1..K /\ j + 1 \in 1..K /\ i \in 1..K /\ i + 1 \in 1..K
    BY <1>1, <2>1
  <2>4. CASE j < i
    <3>1. bins'[j] = bins[j]
      BY <1>2, <2>1, <2>4
    <3> QED BY <2>2, <2>3, <3>1
  <2>5. CASE j = i
    <3>1. bins'[j].count = bins[i].count + bins[i + 1].count
      BY <1>2, <2>1, <2>5
    <3>2. /\ bins[i].count >= m /\ bins[i].count \in Nat
          /\ bins[i + 1].count \in Nat
      BY <2>2, <2>3
    <3> QED BY <3>1, <3>2
  <2>6. CASE j > i
    <3>1. bins'[j] = bins[j + 1]
      <4>1. ~ (j < i) /\ j # i
        BY <2>1, <2>6
      <4> QED BY <1>2, <2>1, <4>1
    <3> QED BY <2>2, <2>3, <3>1
  <2> QED BY <2>1, <2>4, <2>5, <2>6
<1> QED BY <1>1, <1>2, <1>11, <1>13

-----------------------------------------------------------------------------
(* The steps *)

LEMMA MergeSmallKeeps ==
  ASSUME BInv, MergeSmall
  PROVE  BInv'
<1>1. PICK i \in 1..(Len(bins) - 1) : Merge(i)
  <2>1. Len(bins) \in Nat /\ DOMAIN bins = 1..Len(bins)
    BY DEF BInv, BinningWellTyped
  <2>2. PICK i \in DOMAIN bins : (i > 1 /\ Merge(i - 1)) \/ (i < Len(bins) /\ Merge(i))
    BY DEF MergeSmall
  <2>3. CASE i > 1 /\ Merge(i - 1)
    <3>1. i - 1 \in 1..(Len(bins) - 1)
      BY <2>1, <2>3
    <3> QED BY <2>3, <3>1
  <2>4. CASE i < Len(bins) /\ Merge(i)
    <3>1. i \in 1..(Len(bins) - 1)
      BY <2>1, <2>4
    <3> QED BY <2>4, <3>1
  <2> QED BY <2>2, <2>3, <2>4
<1>2. /\ InStep' /\ Len(bins') > 0 /\ bins' \in Seq(AnyBin) /\ edges' \in Seq(Nat)
      /\ Len(edges') = Len(bins') - 1
  BY <1>1, MergeKeepsStep DEF BInv
<1>3. origin' = origin /\ minimum' = minimum /\ RowsTo' = RowsTo
  BY <1>1 DEF Merge, RowsTo
<1>4. monotonic' = monotonic /\ binning' = "small"
  BY DEF MergeSmall
<1> QED BY <1>2, <1>3, <1>4 DEF BInv, BinningWellTyped, LargeEnough, InDirection

LEMMA ResolveKeeps ==
  ASSUME BInv, ResolveDirection
  PROVE  BInv'
<1>1. UNCHANGED <<origin, bins, edges, minimum>> /\ RowsTo' = RowsTo /\ BadTo' = BadTo
  BY DEF ResolveDirection, RowsTo, BadTo
<1>2. /\ monotonic' \in Direction \cup {"auto"} /\ binning' \in {"fitted", "monotonic"}
      /\ binning' = "fitted" => monotonic' = "none"
  BY DEF ResolveDirection, Inferred, BInv, BinningWellTyped, Direction
<1>3. InStep'
  BY <1>1 DEF BInv, InStep, Between, LeftOf, RightOf
<1>4. \A i \in DOMAIN bins : bins[i].count >= minimum
  <2>1. /\ Len(bins) \in Nat /\ DOMAIN bins = 1..Len(bins) /\ minimum \in Nat
        /\ \A i \in DOMAIN bins : bins[i].count \in Nat
    BY BinIs DEF BInv, BinningWellTyped
  <2>2. CASE Small = {}
    BY <2>1, <2>2 DEF Small
  <2>3. CASE Len(bins) = 1
    <3>1. bins[1] = Between(1) /\ LeftOf(1) = 0 /\ RightOf(1) = Len(origin)
      BY <2>1, <2>3 DEF BInv, InStep, LeftOf, RightOf
    <3>2. RowsTo[0] = 0 /\ RowsTo[Len(origin)] \in Nat /\ minimum <= RowsTo[Len(origin)]
      BY InitialSums DEF BInv, BinningWellTyped
    <3>3. bins[1].count = RowsTo[Len(origin)]
      BY <3>1, <3>2 DEF Between
    <3> QED BY <2>1, <2>3, <3>2, <3>3
  <2> QED BY <2>2, <2>3 DEF ResolveDirection
<1>5. LargeEnough'
  BY <1>1, <1>4 DEF LargeEnough
<1>6. InDirection'
  BY <1>2 DEF InDirection
<1> QED BY <1>1, <1>2, <1>3, <1>5, <1>6 DEF BInv, BinningWellTyped

LEMMA MergeViolationKeeps ==
  ASSUME BInv, MergeViolation
  PROVE  BInv'
<1>1. PICK i \in 1..(Len(bins) - 1) : Merge(i)
  BY DEF MergeViolation
<1>2. /\ InStep' /\ Len(bins') > 0 /\ bins' \in Seq(AnyBin) /\ edges' \in Seq(Nat)
      /\ Len(edges') = Len(bins') - 1
      /\ \A m \in Nat : (\A j \in DOMAIN bins : bins[j].count >= m)
                          => \A j \in DOMAIN bins' : bins'[j].count >= m
  BY <1>1, MergeKeepsStep DEF BInv
<1>3. origin' = origin /\ minimum' = minimum /\ RowsTo' = RowsTo
  BY <1>1 DEF Merge, RowsTo
<1>4. monotonic' = monotonic /\ binning = "monotonic" /\ binning' = "monotonic"
  BY DEF MergeViolation
<1>5. \A j \in DOMAIN bins' : bins'[j].count >= minimum
  BY <1>2, <1>4 DEF BInv, BinningWellTyped, LargeEnough
<1> QED BY <1>2, <1>3, <1>4, <1>5 DEF BInv, BinningWellTyped, LargeEnough, InDirection

LEMMA FitKeeps ==
  ASSUME BInv, Fit
  PROVE  BInv'
<1>1. UNCHANGED <<origin, bins, edges, minimum, monotonic>> /\ RowsTo' = RowsTo /\ BadTo' = BadTo
  BY DEF Fit, RowsTo, BadTo
<1>2. binning = "monotonic" /\ binning' = "fitted"
      /\ \A i \in 1..(Len(bins) - 1) : ~ Violation(i)
  BY DEF Fit
<1>3. InStep'
  BY <1>1 DEF BInv, InStep, Between, LeftOf, RightOf
<1>4. LargeEnough'
  BY <1>1, <1>2 DEF BInv, LargeEnough
<1>5. InDirection'
  BY <1>1, <1>2 DEF InDirection, Violation
<1> QED BY <1>1, <1>2, <1>3, <1>4, <1>5 DEF BInv, BinningWellTyped

(***************************************************************************)
(* The inductive invariant of the binning: the three lists in step, no bin *)
(* too small after the first loop, no neighbours against the direction     *)
(* after the second.                                                       *)
(***************************************************************************)
THEOREM BinningInvariance == BinningSpec => []BInv
<1>1. BInv /\ [BinningNext]_binningVars => BInv'
  <2> SUFFICES ASSUME BInv, [BinningNext]_binningVars
               PROVE  BInv'
    OBVIOUS
  <2>1. CASE UNCHANGED binningVars
    <3>1. UNCHANGED <<origin, bins, edges, minimum, monotonic, binning>>
          /\ RowsTo' = RowsTo /\ BadTo' = BadTo
      BY <2>1 DEF binningVars, RowsTo, BadTo
    <3>2. InStep'
      BY <3>1 DEF BInv, InStep, Between, LeftOf, RightOf
    <3> QED BY <3>1, <3>2 DEF BInv, BinningWellTyped, LargeEnough, InDirection
  <2> QED BY <2>1, MergeSmallKeeps, ResolveKeeps, MergeViolationKeeps, FitKeeps DEF BinningNext
<1> QED BY <1>1, BinningInitially, PTL DEF BinningSpec

-----------------------------------------------------------------------------
(* Neighbours in order are all in order *)

LEMMA NotHigherIsTransitive ==
  ASSUME NEW b \in AnyBin, NEW c \in AnyBin, NEW d \in AnyBin,
         ~ Higher(b, c), ~ Higher(c, d)
  PROVE  ~ Higher(b, d)
<1>1. PICK x \in Nat, y \in Nat, z \in Nat, p \in Nat, q \in Nat, r \in Nat :
        /\ x = b.bad /\ y = c.bad /\ z = d.bad
        /\ p = Rows(b) /\ q = Rows(c) /\ r = Rows(d) /\ p > 0 /\ q > 0 /\ r > 0
  <2>1. ASSUME NEW e \in AnyBin
        PROVE  e.bad \in Nat /\ Rows(e) \in Nat /\ Rows(e) > 0
    BY DEF AnyBin, Rows
  <2> QED BY <2>1
<1>2. x * q <= y * p /\ y * r <= z * q
  BY <1>1 DEF Higher
<1>3. SUFFICES ASSUME x * r > z * p
               PROVE  FALSE
  BY <1>1 DEF Higher
<1>4. (x * r) * q > (z * p) * q
  BY <1>1, <1>3
<1>5. (x * q) * r <= (y * p) * r
  BY <1>1, <1>2
<1>6. (y * r) * p <= (z * q) * p
  BY <1>1, <1>2
<1>7. (x * q) * r = (x * r) * q /\ (y * p) * r = (y * r) * p /\ (z * q) * p = (z * p) * q
  OBVIOUS
<1> QED BY <1>4, <1>5, <1>6, <1>7

LEMMA NoneHigherBefore ==
  ASSUME NEW bs \in Seq(AnyBin), \A i \in 1..(Len(bs) - 1) : ~ Higher(bs[i], bs[i + 1]),
         NEW i \in DOMAIN bs, NEW j \in DOMAIN bs, i < j
  PROVE  ~ Higher(bs[i], bs[j])
<1> DEFINE T == {k \in (i + 1)..Len(bs) : Higher(bs[i], bs[k])}
<1>1. SUFFICES ASSUME NEW n \in T
               PROVE  FALSE
  OBVIOUS
<1>2. PICK k \in T : \A y \in T : k <= y
  <2>1. T \subseteq Nat
    OBVIOUS
  <2> QED BY <1>1, <2>1, LeastNumber
<1>3. k - 1 \in 1..(Len(bs) - 1) /\ (k - 1) + 1 = k /\ ~ Higher(bs[k - 1], bs[k])
  <2>1. k - 1 \in 1..(Len(bs) - 1) /\ (k - 1) + 1 = k
    BY <1>2
  <2> QED BY <2>1
<1>4. CASE k = i + 1
  BY <1>2, <1>3, <1>4
<1>5. CASE k > i + 1
  <2>1. ~ Higher(bs[i], bs[k - 1])
    <3>1. k - 1 \in (i + 1)..Len(bs) /\ k - 1 < k
      BY <1>3, <1>5
    <3> QED BY <1>2, <3>1
  <2>2. bs[i] \in AnyBin /\ bs[k - 1] \in AnyBin /\ bs[k] \in AnyBin
    BY <1>2, <1>3
  <2> QED BY <1>2, <1>3, <2>1, <2>2, NotHigherIsTransitive
<1> QED BY <1>2, <1>4, <1>5

LEMMA NoneHigherAfter ==
  ASSUME NEW bs \in Seq(AnyBin), \A i \in 1..(Len(bs) - 1) : ~ Higher(bs[i + 1], bs[i]),
         NEW i \in DOMAIN bs, NEW j \in DOMAIN bs, i < j
  PROVE  ~ Higher(bs[j], bs[i])
<1> DEFINE T == {k \in (i + 1)..Len(bs) : Higher(bs[k], bs[i])}
<1>1. SUFFICES ASSUME NEW n \in T
               PROVE  FALSE
  OBVIOUS
<1>2. PICK k \in T : \A y \in T : k <= y
  <2>1. T \subseteq Nat
    OBVIOUS
  <2> QED BY <1>1, <2>1, LeastNumber
<1>3. k - 1 \in 1..(Len(bs) - 1) /\ (k - 1) + 1 = k /\ ~ Higher(bs[k], bs[k - 1])
  <2>1. k - 1 \in 1..(Len(bs) - 1) /\ (k - 1) + 1 = k
    BY <1>2
  <2> QED BY <2>1
<1>4. CASE k = i + 1
  BY <1>2, <1>3, <1>4
<1>5. CASE k > i + 1
  <2>1. ~ Higher(bs[k - 1], bs[i])
    <3>1. k - 1 \in (i + 1)..Len(bs) /\ k - 1 < k
      BY <1>3, <1>5
    <3> QED BY <1>2, <3>1
  <2>2. bs[i] \in AnyBin /\ bs[k - 1] \in AnyBin /\ bs[k] \in AnyBin
    BY <1>2, <1>3
  <2> QED BY <1>2, <1>3, <2>1, <2>2, NotHigherIsTransitive
<1> QED BY <1>2, <1>4, <1>5

(***************************************************************************)
(* A fitted feature has no bin below the minimum, its rates have the       *)
(* direction over all bins, and what its bins report is what lies between  *)
(* its edges: fit_woe_binning, for any number of bins and rows.            *)
(***************************************************************************)
THEOREM BinsStaySound == BinningSpec => []BinsAreSound
<1>1. BInv => BinsAreSound
  <2> SUFFICES ASSUME BInv
               PROVE  BinsAreSound
    OBVIOUS
  <2>1. /\ Len(edges) = Len(bins) - 1
        /\ \A i \in 2..Len(edges) : edges[i - 1] < edges[i]
        /\ \A i \in DOMAIN bins : bins[i] = Between(i)
    BY DEF BInv, BinningWellTyped, InStep
  <2>2. binning = "fitted" => \A b \in ToSet(bins) : b.count >= minimum
    BY DEF BInv, LargeEnough, ToSet
  <2>3. bins \in Seq(AnyBin)
    BY DEF BInv, BinningWellTyped
  <2>4. ASSUME binning = "fitted", monotonic = "increasing",
               NEW i \in DOMAIN bins, NEW j \in DOMAIN bins, i < j
        PROVE  ~ Higher(bins[i], bins[j])
    <3>1. \A k \in 1..(Len(bins) - 1) : ~ Higher(bins[k], bins[k + 1])
      BY <2>4 DEF BInv, InDirection
    <3> QED BY <2>3, <2>4, <3>1, NoneHigherBefore
  <2>5. ASSUME binning = "fitted", monotonic = "decreasing",
               NEW i \in DOMAIN bins, NEW j \in DOMAIN bins, i < j
        PROVE  ~ Higher(bins[j], bins[i])
    <3>1. \A k \in 1..(Len(bins) - 1) : ~ Higher(bins[k + 1], bins[k])
      BY <2>5 DEF BInv, InDirection
    <3> QED BY <2>3, <2>5, <3>1, NoneHigherAfter
  <2> QED BY <2>1, <2>2, <2>4, <2>5 DEF BinsAreSound
<1> QED BY <1>1, BinningInvariance, PTL

(***************************************************************************)
(* Monitoring: any snapshots, columns, groups and rules.                   *)
(***************************************************************************)

Delta == [over : Int, under : Nat \ {0}]

\* Where a measure gives an alert: growth only, or a change in either direction.
TwoSided == {"population_shift", "target_shift"}
Alarms(kind, d) ==
  IF kind \in TwoSided THEN ~ Less(Magnitude(d), Tolerated(kind))
                       ELSE ~ Less(d, Tolerated(kind))

\* The key of the alert a measure gives.
KeyOf(kind, x) ==
  CASE kind = "data_quality"     -> <<"missingness", "feature", x, "missing_rate">>
    [] kind = "feature_drift"    -> <<"distribution", "feature", x, "psi">>
    [] kind = "target_shift"     -> <<"label", "dataset", "dataset", "positive_rate">>
    [] kind = "population_shift" -> <<"population", "institution", x, "share">>
    [] kind = "rule_evidence"    -> <<"rule_decay", "rule", x, "lift_decay">>

\* The alerts with a delta are those of the measures out of tolerance.
Tells(s, kind) ==
  LET m == Measured(s, kind) IN
  /\ \A x \in DOMAIN m : m[x] \in Delta
  /\ \A x \in DOMAIN m : Alarms(kind, m[x]) =>
       \E a \in Findings(s, kind) : a.key = KeyOf(kind, x) /\ a.delta = {m[x]}
  /\ \A a \in Findings(s, kind) :
       \/ a.delta = {}
       \/ \E x \in DOMAIN m :
            a.key = KeyOf(kind, x) /\ a.delta = {m[x]} /\ Alarms(kind, m[x])

\* Fractions are compared as numbers are.
LEMMA LessIsTransitive ==
  ASSUME NEW d \in Delta, NEW e \in Delta, NEW n \in Nat,
         Less(d, Percent(n)), ~ Less(e, Percent(n))
  PROVE  Less(d, e)
<1>1. PICK a \in Int, b \in Nat \ {0}, p \in Int, q \in Nat \ {0} :
        a = d.over /\ b = d.under /\ p = e.over /\ q = e.under
  BY DEF Delta
<1>2. a * 100 < n * b /\ ~ (p * 100 < n * q)
  BY <1>1 DEF Less, Percent
<1>3. (a * 100) * q < (n * b) * q
  BY <1>2
<1>4. (n * q) * b <= (p * 100) * b
  BY <1>2
<1>5. (n * b) * q = (n * q) * b
  OBVIOUS
<1>6. (a * 100) * q < (p * 100) * b
  BY <1>3, <1>4, <1>5
<1>7. (a * 100) * q = 100 * (a * q) /\ (p * 100) * b = 100 * (p * b)
  OBVIOUS
<1>8. a * q < p * b
  BY <1>6, <1>7
<1> QED BY <1>1, <1>8 DEF Less

\* A measure in tolerance in both directions is below the upper bound.
LEMMA LessThanMagnitude ==
  ASSUME NEW d \in Delta, NEW n \in Nat
  PROVE  Less(Magnitude(d), Percent(n)) => Less(d, Percent(n))
<1>1. PICK a \in Int, b \in Nat \ {0} : d = [over |-> a, under |-> b]
  BY DEF Delta
<1>2. PICK m : m = Magnitude(d)
  OBVIOUS
<1>3. m.under = b /\ m.over \in Int /\ a <= m.over
  BY <1>1, <1>2 DEF Magnitude
<1>4. m.over * 100 < n * b => a * 100 < n * b
  BY <1>3
<1> QED BY <1>1, <1>2, <1>3, <1>4 DEF Less, Percent

\* A measure is graded if it is not below the lower threshold.
LEMMA SeverityIs ==
  ASSUME NEW d, d.over \in Int, d.under \in Nat \ {0}, NEW w \in Nat, NEW c \in Nat, w <= c
  PROVE  Severity(d, w, c) # {} <=> ~ Less(d, Percent(w))
<1>1. PICK a \in Int, b \in Nat \ {0} : a = d.over /\ b = d.under
  OBVIOUS
<1>2. w * b <= c * b
  BY <1>1
<1>3. a * 100 < w * b => a * 100 < c * b
  BY <1>1, <1>2
<1>4. Less(d, Percent(w)) => Less(d, Percent(c))
  BY <1>1, <1>3 DEF Less, Percent
<1>5. CASE ~ Less(d, Percent(c))
  BY <1>4, <1>5 DEF Severity
<1>6. CASE Less(d, Percent(c)) /\ ~ Less(d, Percent(w))
  BY <1>6 DEF Severity
<1>7. CASE Less(d, Percent(c)) /\ Less(d, Percent(w))
  BY <1>7 DEF Severity
<1> QED BY <1>5, <1>6, <1>7

\* The alerts of one key.
LEMMA AlertsAre ==
  ASSUME NEW key, NEW severities, NEW delta
  PROVE  /\ \A a \in Alert(key, severities, delta) : a.key = key /\ a.delta = delta
         /\ severities # {} <=> Alert(key, severities, delta) # {}
<1>1. \A a \in Alert(key, severities, delta) : a.key = key /\ a.delta = delta
  BY DEF Alert
<1>2. ASSUME NEW x \in severities
      PROVE  Alert(key, severities, delta) # {}
  <2>1. [key |-> key, severity |-> x, delta |-> delta] \in Alert(key, severities, delta)
    BY DEF Alert
  <2> QED BY <2>1
<1>3. ASSUME NEW a \in Alert(key, severities, delta)
      PROVE  severities # {}
  BY <1>3 DEF Alert
<1> QED BY <1>1, <1>2, <1>3

\* A product of positive numbers is positive.
LEMMA Positive ==
  ASSUME NEW m \in Nat \ {0}, NEW n \in Nat \ {0}
  PROVE  m * n \in Nat \ {0}
OBVIOUS

\* Differences of shares are fractions.
LEMMA MinusIs ==
  ASSUME NEW a \in Nat, NEW b \in Nat, NEW m \in Nat \ {0}, NEW n \in Nat \ {0}
  PROVE  Minus(a, m, b, n) \in Delta
<1>1. m * n \in Nat \ {0}
  BY Positive
<1>2. a * n - b * m \in Int
  OBVIOUS
<1> QED BY <1>1, <1>2 DEF Minus, Delta

LEMMA MagnitudeIs ==
  ASSUME NEW d \in Delta
  PROVE  Magnitude(d) \in Delta
BY DEF Magnitude, Delta

\* The measures are fractions.
LEMMA MeasuresAre ==
  ASSUME NEW s \in Snapshot
  PROVE  /\ \A f \in Monitored : MissingDelta(s, f) \in Delta
         /\ \A f \in Monitored : Percent(s.column[f].psi) \in Delta
         /\ HasLabel(s) => LabelDelta(s) \in Delta
         /\ \A g \in DOMAIN Reference.segments : ShareCompared(s, g) => ShareDelta(s, g) \in Delta
         /\ \A r \in Rule : Evaluated(s, r) => Decay(s, r) \in Delta
<1>0. Reference \in Snapshot /\ Reference.height \in Nat \ {0} /\ Reference.lift \in [Rule -> Nat]
  BY MonitoringAssumption
<1>1. ASSUME NEW f \in Monitored
      PROVE  MissingDelta(s, f) \in Delta
  <2>1. s.column[f].missing \in Nat /\ Reference.column[f].missing \in Nat /\ s.height \in Nat
    BY <1>0, MonitoringAssumption
  <2>2. CASE s.height = 0
    BY <2>1, <2>2, <1>0, MinusIs DEF MissingDelta
  <2>3. CASE s.height # 0
    BY <2>1, <2>3, <1>0, MinusIs DEF MissingDelta
  <2> QED BY <2>2, <2>3
<1>2. ASSUME NEW f \in Monitored
      PROVE  Percent(s.column[f].psi) \in Delta
  <2>1. s.column[f].psi \in Nat
    BY MonitoringAssumption
  <2> QED BY <2>1 DEF Percent, Delta
<1>3. ASSUME HasLabel(s)
      PROVE  LabelDelta(s) \in Delta
  <2>1. s.height \in Nat \ {0} /\ s.bad \in Nat /\ Reference.bad \in Nat
    BY <1>0, <1>3, MonitoringAssumption DEF HasLabel
  <2> QED BY <2>1, <1>0, MinusIs DEF LabelDelta
<1>4. ASSUME NEW g \in DOMAIN Reference.segments, ShareCompared(s, g)
      PROVE  ShareDelta(s, g) \in Delta
  <2>1. s.height \in Nat \ {0}
    BY <1>4, MonitoringAssumption DEF ShareCompared, HasSegments
  <2>2. s.segments[g] \in Nat /\ Reference.segments[g] \in Nat
    BY <1>0, MonitoringAssumption
  <2>3. InReference(g) \in Nat
    BY <2>2 DEF InReference
  <2> QED BY <2>1, <2>2, <2>3, <1>0, MinusIs DEF ShareDelta
<1>5. ASSUME NEW r \in Rule, Evaluated(s, r)
      PROVE  Decay(s, r) \in Delta
  <2>1. s.lift[r] \in Nat /\ Reference.lift[r] \in Nat \ {0}
    BY <1>0, <1>5, MonitoringAssumption DEF Evaluated
  <2> QED BY <2>1 DEF Decay, Delta
<1> QED BY <1>1, <1>2, <1>3, <1>4, <1>5

\* Alerts graded by a measure are there if it is not below the warning.
GradedRight(key, d, w, c) ==
  /\ \A a \in Graded(key, d, w, c) : a.key = key /\ a.delta = {d}
  /\ Graded(key, d, w, c) # {} <=> ~ Less(d, Percent(w))

LEMMA GradedAre ==
  ASSUME NEW key, NEW d \in Delta, NEW w \in Nat, NEW c \in Nat, w <= c
  PROVE  GradedRight(key, d, w, c)
<1>1. d.over \in Int /\ d.under \in Nat \ {0}
  BY DEF Delta
<1>2. Severity(d, w, c) # {} <=> ~ Less(d, Percent(w))
  BY <1>1, SeverityIs
<1> QED BY <1>2, AlertsAre DEF Graded, GradedRight

-----------------------------------------------------------------------------
(* The alerts of each measure *)

\* A measure x of one kind, where it exists, and the alerts it gives.
Shows(alerts, kind, x, exists, d) ==
  /\ \A a \in alerts : a.key = KeyOf(kind, x) /\ a.delta = {d}
  /\ alerts # {} <=> exists /\ Alarms(kind, d)

LEMMA MissingShows ==
  ASSUME NEW s \in Snapshot, NEW f \in Monitored
  PROVE  Shows(MissingAlerts(s, f), "data_quality", f, HasColumn(s, f), MissingDelta(s, f))
<1>1. MissingDelta(s, f) \in Delta
  BY MeasuresAre
<1>2. Tolerated("data_quality") = Percent(10)
  BY DEF Tolerated
<1>3. KeyOf("data_quality", f) = <<"missingness", "feature", f, "missing_rate">>
  BY DEF KeyOf
<1>4. Alarms("data_quality", MissingDelta(s, f)) <=> ~ Less(MissingDelta(s, f), Percent(10))
  BY <1>2 DEF Alarms, TwoSided
<1>5. CASE HasColumn(s, f)
  <2> DEFINE key == <<"missingness", "feature", f, "missing_rate">>
  <2>1. MissingAlerts(s, f) = Graded(key, MissingDelta(s, f), 10, 25)
    BY <1>5 DEF MissingAlerts
  <2>2. /\ \A a \in Graded(key, MissingDelta(s, f), 10, 25) :
               a.key = key /\ a.delta = {MissingDelta(s, f)}
        /\ Graded(key, MissingDelta(s, f), 10, 25) # {} <=> ~ Less(MissingDelta(s, f), Percent(10))
    <3>1. 10 \in Nat /\ 25 \in Nat /\ 10 <= 25
      OBVIOUS
    <3>2. GradedRight(key, MissingDelta(s, f), 10, 25)
      <4> HIDE DEF key
      <4> QED BY <1>1, <3>1, GradedAre
    <3> QED BY <3>2 DEF GradedRight
  <2>3. key = KeyOf("data_quality", f)
    BY <1>3
  <2> HIDE DEF key
  <2> QED BY <1>4, <1>5, <2>1, <2>2, <2>3, Zenon DEF Shows
<1>6. CASE ~ HasColumn(s, f)
  BY <1>6 DEF Shows, MissingAlerts
<1> QED BY <1>5, <1>6

LEMMA DriftShows ==
  ASSUME NEW s \in Snapshot, NEW f \in Monitored
  PROVE  Shows(DriftAlerts(s, f), "feature_drift", f, HasColumn(s, f), Percent(s.column[f].psi))
<1>0. PICK d : d = Percent(s.column[f].psi)
  OBVIOUS
<1>1. d \in Delta
  BY <1>0, MeasuresAre
<1>2. Tolerated("feature_drift") = Percent(20)
  BY DEF Tolerated
<1>3. KeyOf("feature_drift", f) = <<"distribution", "feature", f, "psi">>
  BY DEF KeyOf
<1>4. Alarms("feature_drift", d) <=> ~ Less(d, Percent(20))
  BY <1>2 DEF Alarms, TwoSided
<1>5. CASE HasColumn(s, f)
  <2> DEFINE key == <<"distribution", "feature", f, "psi">>
  <2>1. DriftAlerts(s, f) = Graded(key, d, 20, 30)
    BY <1>0, <1>5 DEF DriftAlerts
  <2>2. /\ \A a \in Graded(key, d, 20, 30) : a.key = key /\ a.delta = {d}
        /\ Graded(key, d, 20, 30) # {} <=> ~ Less(d, Percent(20))
    <3>1. 20 \in Nat /\ 30 \in Nat /\ 20 <= 30
      OBVIOUS
    <3>2. GradedRight(key, d, 20, 30)
      <4> HIDE DEF key
      <4> QED BY <1>1, <3>1, GradedAre
    <3> QED BY <3>2 DEF GradedRight
  <2>3. key = KeyOf("feature_drift", f)
    BY <1>3
  <2> HIDE DEF key
  <2> QED BY <1>0, <1>4, <1>5, <2>1, <2>2, <2>3, Zenon DEF Shows
<1>6. CASE ~ HasColumn(s, f)
  BY <1>6 DEF Shows, DriftAlerts
<1> QED BY <1>5, <1>6

LEMMA LabelShows ==
  ASSUME NEW s \in Snapshot
  PROVE  Shows(LabelAlerts(s), "target_shift", "rate", HasLabel(s), LabelDelta(s))
<1>2. Tolerated("target_shift") = Percent(3)
  BY DEF Tolerated
<1>3. KeyOf("target_shift", "rate") = <<"label", "dataset", "dataset", "positive_rate">>
  BY DEF KeyOf
<1>4. Alarms("target_shift", LabelDelta(s)) <=> ~ Less(Magnitude(LabelDelta(s)), Percent(3))
  BY <1>2 DEF Alarms, TwoSided
<1>5. CASE HasLabel(s)
  <2>1. Magnitude(LabelDelta(s)) \in Delta
    BY <1>5, MeasuresAre, MagnitudeIs
  <2>2. Magnitude(LabelDelta(s)).over \in Int /\ Magnitude(LabelDelta(s)).under \in Nat \ {0}
    BY <2>1 DEF Delta
  <2>3. Severity(Magnitude(LabelDelta(s)), 3, 8) # {}
          <=> ~ Less(Magnitude(LabelDelta(s)), Percent(3))
    BY <2>2, SeverityIs
  <2> QED BY <2>3, <1>3, <1>4, <1>5, AlertsAre DEF Shows, LabelAlerts
<1>6. CASE ~ HasLabel(s)
  BY <1>6 DEF Shows, LabelAlerts
<1> QED BY <1>5, <1>6

\* The alerts of one group, and those of one rule.
ShareAlerts(s, g) ==
  Alert(<<"population", "institution", g, "share">>,
        IF ShareCompared(s, g) /\ ~ Less(Magnitude(ShareDelta(s, g)), Percent(10))
        THEN {"warning"} ELSE {},
        {ShareDelta(s, g)})
RuleAlerts(s, r) ==
  IF Evaluated(s, r)
  THEN Graded(<<"rule_decay", "rule", r, "lift_decay">>, Decay(s, r), 20, 40)
  ELSE {}

LEMMA ShareShows ==
  ASSUME NEW s \in Snapshot, NEW g \in DOMAIN Reference.segments
  PROVE  Shows(ShareAlerts(s, g), "population_shift", g, ShareCompared(s, g), ShareDelta(s, g))
<1>2. Tolerated("population_shift") = Percent(10)
  BY DEF Tolerated
<1>3. KeyOf("population_shift", g) = <<"population", "institution", g, "share">>
  BY DEF KeyOf
<1>4. Alarms("population_shift", ShareDelta(s, g))
        <=> ~ Less(Magnitude(ShareDelta(s, g)), Percent(10))
  BY <1>2 DEF Alarms, TwoSided
<1>5. CASE ShareCompared(s, g) /\ ~ Less(Magnitude(ShareDelta(s, g)), Percent(10))
  BY <1>3, <1>4, <1>5, AlertsAre DEF Shows, ShareAlerts
<1>6. CASE ~ (ShareCompared(s, g) /\ ~ Less(Magnitude(ShareDelta(s, g)), Percent(10)))
  BY <1>3, <1>4, <1>6, AlertsAre DEF Shows, ShareAlerts
<1> QED BY <1>5, <1>6

LEMMA RuleShows ==
  ASSUME NEW s \in Snapshot, NEW r \in Rule
  PROVE  Shows(RuleAlerts(s, r), "rule_evidence", r, Evaluated(s, r), Decay(s, r))
<1>2. Tolerated("rule_evidence") = Percent(20)
  BY DEF Tolerated
<1>3. KeyOf("rule_evidence", r) = <<"rule_decay", "rule", r, "lift_decay">>
  BY DEF KeyOf
<1>4. Alarms("rule_evidence", Decay(s, r)) <=> ~ Less(Decay(s, r), Percent(20))
  BY <1>2 DEF Alarms, TwoSided
<1>5. CASE Evaluated(s, r)
  <2>1. Decay(s, r) \in Delta
    BY <1>5, MeasuresAre
  <2> DEFINE key == <<"rule_decay", "rule", r, "lift_decay">>
  <2>2. RuleAlerts(s, r) = Graded(key, Decay(s, r), 20, 40)
    BY <1>5 DEF RuleAlerts
  <2>3. /\ \A a \in Graded(key, Decay(s, r), 20, 40) : a.key = key /\ a.delta = {Decay(s, r)}
        /\ Graded(key, Decay(s, r), 20, 40) # {} <=> ~ Less(Decay(s, r), Percent(20))
    <3>1. 20 \in Nat /\ 40 \in Nat /\ 20 <= 40
      OBVIOUS
    <3>2. GradedRight(key, Decay(s, r), 20, 40)
      <4> HIDE DEF key
      <4> QED BY <2>1, <3>1, GradedAre
    <3> QED BY <3>2 DEF GradedRight
  <2>4. key = KeyOf("rule_evidence", r)
    BY <1>3
  <2> HIDE DEF key
  <2> QED BY <1>4, <1>5, <2>2, <2>3, <2>4, Zenon DEF Shows
<1>6. CASE ~ Evaluated(s, r)
  BY <1>6 DEF Shows, RuleAlerts
<1> QED BY <1>5, <1>6

\* The alerts without a measure of their own.
Unmeasured(s) ==
  RoleAlerts(s) \cup (UNION {SchemaAlerts(s, f) : f \in Monitored})
  \cup (UNION {FamilyAlerts(s, Family[f]) : f \in Monitored})

LEMMA UnmeasuredHasNoDelta ==
  ASSUME NEW s, NEW a \in Unmeasured(s)
  PROVE  a.delta = {} /\ a.key[1] \in {"schema", "missingness"}
<1>1. CASE a \in RoleAlerts(s)
  BY <1>1, AlertsAre DEF RoleAlerts
<1>2. CASE \E f \in Monitored : a \in SchemaAlerts(s, f)
  <2>1. PICK f \in Monitored : a \in SchemaAlerts(s, f)
    BY <1>2
  <2>2. CASE s.column[f].is = "gone"
    BY <2>1, <2>2, AlertsAre DEF SchemaAlerts
  <2>3. CASE s.column[f].is = "retyped"
    BY <2>1, <2>3, AlertsAre DEF SchemaAlerts
  <2>4. CASE s.column[f].is \notin {"gone", "retyped"}
    BY <2>1, <2>4 DEF SchemaAlerts
  <2> QED BY <2>2, <2>3, <2>4
<1>3. CASE \E f \in Monitored : a \in FamilyAlerts(s, Family[f])
  BY <1>3, AlertsAre DEF FamilyAlerts
<1> QED BY <1>1, <1>2, <1>3 DEF Unmeasured

LEMMA DetectedAre ==
  ASSUME NEW s
  PROVE  Detected(s) =
           Unmeasured(s) \cup LabelAlerts(s)
           \cup (UNION {ShareAlerts(s, g) : g \in DOMAIN Reference.segments})
           \cup (UNION {RuleAlerts(s, r) : r \in Rule})
           \cup (UNION {MissingAlerts(s, f) : f \in Monitored})
           \cup (UNION {DriftAlerts(s, f) : f \in Monitored})
<1>1. PopulationAlerts(s) = UNION {ShareAlerts(s, g) : g \in DOMAIN Reference.segments}
  BY Zenon DEF PopulationAlerts, ShareAlerts
<1>2. DecayAlerts(s) = UNION {RuleAlerts(s, r) : r \in Rule}
  BY Zenon DEF DecayAlerts, RuleAlerts
<1>3. (UNION {SchemaAlerts(s, f) \cup MissingAlerts(s, f) \cup DriftAlerts(s, f) : f \in Monitored})
        = (UNION {SchemaAlerts(s, f) : f \in Monitored})
          \cup (UNION {MissingAlerts(s, f) : f \in Monitored})
          \cup (UNION {DriftAlerts(s, f) : f \in Monitored})
  OBVIOUS
<1> QED BY <1>1, <1>2, <1>3 DEF Detected, Unmeasured

(* The findings of each kind *)

LEMMA KeyTellsKind ==
  ASSUME NEW kind \in Kind, NEW x, NEW a, a.key = KeyOf(kind, x)
  PROVE  KindOf(a) = kind
<1>1. CASE kind = "data_quality"
  BY <1>1 DEF KeyOf, KindOf
<1>2. CASE kind = "feature_drift"
  BY <1>2 DEF KeyOf, KindOf
<1>3. CASE kind = "target_shift"
  BY <1>3 DEF KeyOf, KindOf
<1>4. CASE kind = "population_shift"
  BY <1>4 DEF KeyOf, KindOf
<1>5. CASE kind = "rule_evidence"
  BY <1>5 DEF KeyOf, KindOf
<1> QED BY <1>1, <1>2, <1>3, <1>4, <1>5 DEF Kind

\* Two measures of one kind have two keys.
LEMMA KeysDiffer ==
  ASSUME NEW kind \in Kind, NEW x, NEW y, KeyOf(kind, x) = KeyOf(kind, y),
         kind = "target_shift" => x = y
  PROVE  x = y
<1>1. CASE kind = "data_quality"
  BY <1>1 DEF KeyOf
<1>2. CASE kind = "feature_drift"
  BY <1>2 DEF KeyOf
<1>4. CASE kind = "population_shift"
  BY <1>4 DEF KeyOf
<1>5. CASE kind = "rule_evidence"
  BY <1>5 DEF KeyOf
<1> QED BY <1>1, <1>2, <1>4, <1>5 DEF Kind

LEMMA AlertsHaveKinds ==
  ASSUME NEW s \in Snapshot
  PROVE  /\ \A a \in Unmeasured(s) : KindOf(a) = "data_quality"
         /\ \A f \in Monitored : \A a \in MissingAlerts(s, f) : KindOf(a) = "data_quality"
         /\ \A f \in Monitored : \A a \in DriftAlerts(s, f) : KindOf(a) = "feature_drift"
         /\ \A a \in LabelAlerts(s) : KindOf(a) = "target_shift"
         /\ \A g \in DOMAIN Reference.segments :
              \A a \in ShareAlerts(s, g) : KindOf(a) = "population_shift"
         /\ \A r \in Rule : \A a \in RuleAlerts(s, r) : KindOf(a) = "rule_evidence"
<1>1. \A a \in Unmeasured(s) : KindOf(a) = "data_quality"
  BY UnmeasuredHasNoDelta DEF KindOf
<1>2. ASSUME NEW f \in Monitored, NEW a \in MissingAlerts(s, f)
      PROVE  KindOf(a) = "data_quality"
  BY MissingShows, KeyTellsKind DEF Shows, Kind
<1>3. ASSUME NEW f \in Monitored, NEW a \in DriftAlerts(s, f)
      PROVE  KindOf(a) = "feature_drift"
  BY DriftShows, KeyTellsKind DEF Shows, Kind
<1>4. ASSUME NEW a \in LabelAlerts(s)
      PROVE  KindOf(a) = "target_shift"
  BY LabelShows, KeyTellsKind DEF Shows, Kind
<1>5. ASSUME NEW g \in DOMAIN Reference.segments, NEW a \in ShareAlerts(s, g)
      PROVE  KindOf(a) = "population_shift"
  BY ShareShows, KeyTellsKind DEF Shows, Kind
<1>6. ASSUME NEW r \in Rule, NEW a \in RuleAlerts(s, r)
      PROVE  KindOf(a) = "rule_evidence"
  BY RuleShows, KeyTellsKind DEF Shows, Kind
<1> QED BY <1>1, <1>2, <1>3, <1>4, <1>5, <1>6

LEMMA FindingsAre ==
  ASSUME NEW s \in Snapshot
  PROVE  /\ Findings(s, "data_quality") =
              Unmeasured(s) \cup (UNION {MissingAlerts(s, f) : f \in Monitored})
         /\ Findings(s, "feature_drift") = UNION {DriftAlerts(s, f) : f \in Monitored}
         /\ Findings(s, "target_shift") = LabelAlerts(s)
         /\ Findings(s, "population_shift") =
              UNION {ShareAlerts(s, g) : g \in DOMAIN Reference.segments}
         /\ Findings(s, "rule_evidence") = UNION {RuleAlerts(s, r) : r \in Rule}
<1> DEFINE U == Unmeasured(s)
           M == UNION {MissingAlerts(s, f) : f \in Monitored}
           D == UNION {DriftAlerts(s, f) : f \in Monitored}
           L == LabelAlerts(s)
           P == UNION {ShareAlerts(s, g) : g \in DOMAIN Reference.segments}
           R == UNION {RuleAlerts(s, r) : r \in Rule}
<1>1. Detected(s) = U \cup L \cup P \cup R \cup M \cup D
  BY DetectedAre
<1>2. \A a \in U : KindOf(a) = "data_quality"
  BY AlertsHaveKinds
<1>3. \A a \in M : KindOf(a) = "data_quality"
  BY AlertsHaveKinds
<1>4. \A a \in D : KindOf(a) = "feature_drift"
  BY AlertsHaveKinds
<1>5. \A a \in L : KindOf(a) = "target_shift"
  BY AlertsHaveKinds
<1>6. \A a \in P : KindOf(a) = "population_shift"
  BY AlertsHaveKinds
<1>7. \A a \in R : KindOf(a) = "rule_evidence"
  BY AlertsHaveKinds
<1> HIDE DEF U, M, D, L, P, R
<1>8. /\ Findings(s, "data_quality") = U \cup M
      /\ Findings(s, "feature_drift") = D
      /\ Findings(s, "target_shift") = L
      /\ Findings(s, "population_shift") = P
      /\ Findings(s, "rule_evidence") = R
  BY <1>1, <1>2, <1>3, <1>4, <1>5, <1>6, <1>7 DEF Findings
<1> QED BY <1>8 DEF U, M, D, L, P, R

\* The measures of a kind tell its findings if each shows in its alerts.
Sources(s, kind, X, alerts, exists, measure, others) ==
  /\ Measured(s, kind) = [x \in {x \in X : exists[x]} |-> measure[x]]
  /\ \A x \in X : exists[x] => measure[x] \in Delta
  /\ \A x \in X : Shows(alerts[x], kind, x, exists[x], measure[x])
  /\ Findings(s, kind) = others \cup (UNION {alerts[x] : x \in X})
  /\ \A a \in others : a.delta = {}

LEMMA ShowsTells ==
  ASSUME NEW s, NEW kind, NEW X, NEW alerts, NEW exists, NEW measure, NEW others,
         Sources(s, kind, X, alerts, exists, measure, others)
  PROVE  Tells(s, kind)
<1>0. /\ Measured(s, kind) = [x \in {x \in X : exists[x]} |-> measure[x]]
      /\ \A x \in X : exists[x] => measure[x] \in Delta
      /\ \A x \in X : Shows(alerts[x], kind, x, exists[x], measure[x])
      /\ Findings(s, kind) = others \cup (UNION {alerts[x] : x \in X})
      /\ \A a \in others : a.delta = {}
  BY DEF Sources
<1> DEFINE m == Measured(s, kind)
<1>1. /\ DOMAIN m = {x \in X : exists[x]}
      /\ \A x \in DOMAIN m : m[x] = measure[x]
  BY <1>0
<1> HIDE DEF m
<1>2. \A x \in DOMAIN m : m[x] \in Delta
  BY <1>0, <1>1
<1>3. ASSUME NEW x \in DOMAIN m, Alarms(kind, m[x])
      PROVE  \E a \in Findings(s, kind) : a.key = KeyOf(kind, x) /\ a.delta = {m[x]}
  <2>1. x \in X /\ exists[x] /\ m[x] = measure[x]
    BY <1>1
  <2>2. PICK a \in alerts[x] : TRUE
    BY <1>0, <1>3, <2>1 DEF Shows
  <2>3. a.key = KeyOf(kind, x) /\ a.delta = {m[x]}
    BY <1>0, <2>1, <2>2 DEF Shows
  <2>4. a \in Findings(s, kind)
    BY <1>0, <2>1, <2>2
  <2> QED BY <2>3, <2>4
<1>4. ASSUME NEW a \in Findings(s, kind), a.delta # {}
      PROVE  \E x \in DOMAIN m : a.key = KeyOf(kind, x) /\ a.delta = {m[x]} /\ Alarms(kind, m[x])
  <2>1. PICK x \in X : a \in alerts[x]
    BY <1>0, <1>4
  <2>2. exists[x] /\ Alarms(kind, measure[x])
    BY <1>0, <2>1 DEF Shows
  <2>3. a.key = KeyOf(kind, x) /\ a.delta = {measure[x]}
    BY <1>0, <2>1 DEF Shows
  <2>4. x \in DOMAIN m /\ m[x] = measure[x]
    BY <1>1, <2>1, <2>2
  <2> QED BY <2>2, <2>3, <2>4
<1> QED BY <1>2, <1>3, <1>4 DEF Tells, m

LEMMA FindingsTell ==
  ASSUME NEW s \in Snapshot, NEW kind \in Kind
  PROVE  Tells(s, kind)
<1>1. CASE kind = "data_quality"
  <2> DEFINE alerts == [f \in Monitored |-> MissingAlerts(s, f)]
             exists == [f \in Monitored |-> HasColumn(s, f)]
             measure == [f \in Monitored |-> MissingDelta(s, f)]
  <2>1. Measured(s, kind) = [f \in {f \in Monitored : exists[f]} |-> measure[f]]
    BY <1>1 DEF Measured
  <2>2. \A f \in Monitored : Shows(alerts[f], kind, f, exists[f], measure[f])
    BY <1>1, MissingShows
  <2>3. Findings(s, kind) = Unmeasured(s) \cup (UNION {alerts[f] : f \in Monitored})
    BY <1>1, FindingsAre
  <2>4. \A f \in Monitored : exists[f] => measure[f] \in Delta
    BY MeasuresAre
  <2>5. \A a \in Unmeasured(s) : a.delta = {}
    BY UnmeasuredHasNoDelta
  <2>6. Sources(s, kind, Monitored, alerts, exists, measure, Unmeasured(s))
    <3> HIDE DEF alerts, exists, measure
    <3> QED BY <2>1, <2>2, <2>3, <2>4, <2>5 DEF Sources
  <2> QED BY <2>6, ShowsTells
<1>2. CASE kind = "feature_drift"
  <2> DEFINE alerts == [f \in Monitored |-> DriftAlerts(s, f)]
             exists == [f \in Monitored |-> HasColumn(s, f)]
             measure == [f \in Monitored |-> Percent(s.column[f].psi)]
  <2>1. Measured(s, kind) = [f \in {f \in Monitored : exists[f]} |-> measure[f]]
    BY <1>2 DEF Measured
  <2>2. \A f \in Monitored : Shows(alerts[f], kind, f, exists[f], measure[f])
    BY <1>2, DriftShows
  <2>3. Findings(s, kind) = {} \cup (UNION {alerts[f] : f \in Monitored})
    BY <1>2, FindingsAre
  <2>4. \A f \in Monitored : exists[f] => measure[f] \in Delta
    BY MeasuresAre
  <2>6. Sources(s, kind, Monitored, alerts, exists, measure, {})
    <3> HIDE DEF alerts, exists, measure
    <3> QED BY <2>1, <2>2, <2>3, <2>4 DEF Sources
  <2> QED BY <2>6, ShowsTells
<1>3. CASE kind = "target_shift"
  <2> DEFINE alerts == [x \in {"rate"} |-> LabelAlerts(s)]
             exists == [x \in {"rate"} |-> HasLabel(s)]
             measure == [x \in {"rate"} |-> LabelDelta(s)]
  <2>1. Measured(s, kind) = [x \in {x \in {"rate"} : exists[x]} |-> measure[x]]
    BY <1>3 DEF Measured
  <2>2. \A x \in {"rate"} : Shows(alerts[x], kind, x, exists[x], measure[x])
    BY <1>3, LabelShows
  <2>3. Findings(s, kind) = {} \cup (UNION {alerts[x] : x \in {"rate"}})
    BY <1>3, FindingsAre
  <2>4. \A x \in {"rate"} : exists[x] => measure[x] \in Delta
    BY MeasuresAre
  <2>6. Sources(s, kind, {"rate"}, alerts, exists, measure, {})
    <3> HIDE DEF alerts, exists, measure
    <3> QED BY <2>1, <2>2, <2>3, <2>4 DEF Sources
  <2> QED BY <2>6, ShowsTells
<1>4. CASE kind = "population_shift"
  <2> DEFINE X == DOMAIN Reference.segments
             alerts == [g \in X |-> ShareAlerts(s, g)]
             exists == [g \in X |-> ShareCompared(s, g)]
             measure == [g \in X |-> ShareDelta(s, g)]
  <2>1. Measured(s, kind) = [g \in {g \in X : exists[g]} |-> measure[g]]
    <3>1. Measured(s, kind) = [g \in {g \in X : ShareCompared(s, g)} |-> ShareDelta(s, g)]
      BY <1>4 DEF Measured
    <3>2. {g \in X : exists[g]} = {g \in X : ShareCompared(s, g)}
      OBVIOUS
    <3> QED BY <3>1, <3>2
  <2>2. \A g \in X : Shows(alerts[g], kind, g, exists[g], measure[g])
    BY <1>4, ShareShows
  <2>3. Findings(s, kind) = {} \cup (UNION {alerts[g] : g \in X})
    <3>1. Findings(s, kind) = UNION {ShareAlerts(s, g) : g \in X}
      BY <1>4, FindingsAre
    <3>2. {alerts[g] : g \in X} = {ShareAlerts(s, g) : g \in X}
      OBVIOUS
    <3> QED BY <3>1, <3>2
  <2>4. \A g \in X : exists[g] => measure[g] \in Delta
    BY MeasuresAre
  <2>6. Sources(s, kind, X, alerts, exists, measure, {})
    <3> HIDE DEF X, alerts, exists, measure
    <3> QED BY <2>1, <2>2, <2>3, <2>4 DEF Sources
  <2> QED BY <2>6, ShowsTells
<1>5. CASE kind = "rule_evidence"
  <2> DEFINE alerts == [r \in Rule |-> RuleAlerts(s, r)]
             exists == [r \in Rule |-> Evaluated(s, r)]
             measure == [r \in Rule |-> Decay(s, r)]
  <2>1. Measured(s, kind) = [r \in {r \in Rule : exists[r]} |-> measure[r]]
    BY <1>5 DEF Measured
  <2>2. \A r \in Rule : Shows(alerts[r], kind, r, exists[r], measure[r])
    BY <1>5, RuleShows
  <2>3. Findings(s, kind) = {} \cup (UNION {alerts[r] : r \in Rule})
    BY <1>5, FindingsAre
  <2>4. \A r \in Rule : exists[r] => measure[r] \in Delta
    BY MeasuresAre
  <2>6. Sources(s, kind, Rule, alerts, exists, measure, {})
    <3> HIDE DEF alerts, exists, measure
    <3> QED BY <2>1, <2>2, <2>3, <2>4 DEF Sources
  <2> QED BY <2>6, ShowsTells
<1> QED BY <1>1, <1>2, <1>3, <1>4, <1>5 DEF Kind

(* The retest *)

\* What the record says was found by comparing the two snapshots it is about.
RetestInv ==
  /\ before \in Snapshot
  /\ record \in [kind : Kind \cup {"none"}, after : Snapshot,
                 status : {"none", "open", "verified", "failed", "awaiting_verification"}]
  /\ record = NoRecord \/ record.kind \in Kind
  /\ record.status = "verified" =>
       Verdict(Findings(before, record.kind), record.after) = "verified"
  /\ record.status = "failed" =>
       Verdict(Findings(before, record.kind), record.after) = "remaining"

LEMMA RetestInitially ==
  ASSUME MonitoringInit
  PROVE  RetestInv
<1>1. Reference \in Snapshot
  BY MonitoringAssumption
<1> QED BY <1>1 DEF MonitoringInit, RetestInv, NoRecord

LEMMA OpenKeepsRetest ==
  ASSUME RetestInv, NEW s \in Snapshot, NEW kind \in Kind, OpenRemediation(s, kind)
  PROVE  RetestInv'
<1>1. before' = s /\ record' = [kind |-> kind, status |-> "open", after |-> s]
  BY DEF OpenRemediation
<1> QED BY <1>1 DEF RetestInv

LEMMA RetestKeepsRetest ==
  ASSUME RetestInv, NEW s \in Snapshot, Retest(s)
  PROVE  RetestInv'
<1>1. PICK kind, verdict, status :
        /\ kind = record.kind /\ verdict = Verdict(Findings(before, kind), s)
        /\ status = CASE verdict = "verified"     -> "verified"
                      [] verdict = "remaining"    -> "failed"
                      [] verdict = "inconclusive" -> "awaiting_verification"
  OBVIOUS
<1>2. /\ before' = before /\ kind \in Kind
      /\ record' = [record EXCEPT !.after = s, !.status = status]
  BY <1>1 DEF Retest, RetestInv
<1>3. verdict \in {"verified", "remaining", "inconclusive"}
  BY <1>1 DEF Verdict
<1>4. /\ status \in {"verified", "failed", "awaiting_verification"}
      /\ status = "verified" => verdict = "verified"
      /\ status = "failed" => verdict = "remaining"
  BY <1>1, <1>3
<1>5. /\ record'.kind = kind /\ record'.after = s /\ record'.status = status
      /\ record' \in [kind : Kind \cup {"none"}, after : Snapshot,
                      status : {"none", "open", "verified", "failed", "awaiting_verification"}]
  BY <1>1, <1>2, <1>4 DEF RetestInv
<1>6. verdict = Verdict(Findings(before', record'.kind), record'.after)
  BY <1>1, <1>2, <1>5
<1> QED BY <1>2, <1>4, <1>5, <1>6 DEF RetestInv

LEMMA RetestIsInductive == MonitoringSpec => []RetestInv
<1>1. MonitoringInit => RetestInv
  BY RetestInitially
<1>2. RetestInv /\ [MonitoringNext]_monitoringVars => RetestInv'
  <2> SUFFICES ASSUME RetestInv, [MonitoringNext]_monitoringVars
               PROVE  RetestInv'
    OBVIOUS
  <2>1. ASSUME NEW s \in Snapshot, Retest(s)
        PROVE  RetestInv'
    BY <2>1, RetestKeepsRetest
  <2>2. ASSUME NEW s \in Snapshot, NEW kind \in Kind, OpenRemediation(s, kind)
        PROVE  RetestInv'
    BY <2>2, OpenKeepsRetest
  <2>3. CASE UNCHANGED monitoringVars
    BY <2>3 DEF RetestInv, monitoringVars
  <2> QED BY <2>1, <2>2, <2>3 DEF MonitoringNext
<1> QED BY <1>1, <1>2, PTL DEF MonitoringSpec

\* What is out of tolerance in the later snapshot, and still out, must be lower.
LEMMA VerifiedIsLower ==
  ASSUME NEW s \in Snapshot, NEW t \in Snapshot, NEW kind \in Kind,
         Verdict(Findings(s, kind), t) = "verified",
         NEW x \in DOMAIN Measured(s, kind) \cap DOMAIN Measured(t, kind),
         Alarms(kind, Measured(s, kind)[x]), Alarms(kind, Measured(t, kind)[x])
  PROVE  Less(Measured(t, kind)[x], Measured(s, kind)[x])
<1>1. PICK d, e : d = Measured(s, kind)[x] /\ e = Measured(t, kind)[x]
  OBVIOUS
<1>2. PICK a \in Findings(s, kind) : a.key = KeyOf(kind, x) /\ a.delta = {d}
  BY <1>1, FindingsTell DEF Tells
<1>3. PICK b \in Findings(t, kind) : b.key = KeyOf(kind, x) /\ b.delta = {e}
  BY <1>1, FindingsTell DEF Tells
<1>4. b \in Again(a, t)
  BY <1>2, <1>3 DEF Again, Findings
<1>5. ~ Remains(a, t)
  BY <1>2 DEF Verdict
<1>6. Lower(a, b)
  BY <1>2, <1>4, <1>5 DEF Remains
<1> QED BY <1>1, <1>2, <1>3, <1>6 DEF Lower

LEMMA RemainingIsOut ==
  ASSUME NEW s \in Snapshot, NEW t \in Snapshot, NEW kind \in Kind,
         Verdict(Findings(s, kind), t) = "remaining"
  PROVE  \E x \in DOMAIN Measured(s, kind) \cap DOMAIN Measured(t, kind) :
           /\ Alarms(kind, Measured(s, kind)[x]) /\ Alarms(kind, Measured(t, kind)[x])
           /\ ~ Less(Measured(t, kind)[x], Measured(s, kind)[x])
<1>1. PICK a \in Findings(s, kind) : Remains(a, t)
  BY DEF Verdict
<1>2. PICK b \in Again(a, t) : a.delta # {} /\ ~ Lower(a, b)
  BY <1>1 DEF Remains
<1>3. PICK d \in a.delta, e \in b.delta : ~ Less(e, d)
  BY <1>2 DEF Lower
<1>4. PICK x \in DOMAIN Measured(s, kind) :
        /\ a.key = KeyOf(kind, x) /\ a.delta = {Measured(s, kind)[x]}
        /\ Alarms(kind, Measured(s, kind)[x])
  BY <1>2, FindingsTell DEF Tells
<1>5. b \in Detected(t) /\ b.key = KeyOf(kind, x)
  BY <1>2, <1>4 DEF Again
<1>6. KindOf(b) = kind
  BY <1>5, KeyTellsKind
<1>7. b \in Findings(t, kind) /\ b.delta # {}
  BY <1>3, <1>5, <1>6 DEF Findings
<1>8. PICK y \in DOMAIN Measured(t, kind) :
        /\ b.key = KeyOf(kind, y) /\ b.delta = {Measured(t, kind)[y]}
        /\ Alarms(kind, Measured(t, kind)[y])
  BY <1>7, FindingsTell DEF Tells
<1>9. kind = "target_shift" => x = y
  <2> SUFFICES ASSUME kind = "target_shift"
               PROVE  x = y
    OBVIOUS
  <2>1. /\ DOMAIN Measured(s, kind) = {z \in {"rate"} : HasLabel(s)}
        /\ DOMAIN Measured(t, kind) = {z \in {"rate"} : HasLabel(t)}
    BY DEF Measured
  <2> QED BY <2>1, <1>4, <1>8
<1>10. x = y
  BY <1>5, <1>8, <1>9, KeysDiffer
<1>11. d = Measured(s, kind)[x] /\ e = Measured(t, kind)[x]
  BY <1>3, <1>4, <1>8, <1>10
<1> QED BY <1>3, <1>4, <1>8, <1>10, <1>11

\* What gives an alert is too high, or too low and of a kind where that counts.
LEMMA AlarmsAre ==
  ASSUME NEW kind \in Kind, NEW d \in Delta
  PROVE  LET Outside == ~ Less(Magnitude(d), Tolerated(kind))
             High    == ~ Less(d, Tolerated(kind))
             Low     == kind \in {"population_shift", "target_shift"} /\ Outside /\ ~ High
         IN /\ Alarms(kind, d) <=> High \/ Low
            /\ Alarms(kind, d) => Outside
            /\ kind \in TwoSided => (Alarms(kind, d) <=> Outside)
<1>1. PICK n \in Nat : Tolerated(kind) = Percent(n)
  BY DEF Tolerated, Kind
<1>2. Less(Magnitude(d), Tolerated(kind)) => Less(d, Tolerated(kind))
  BY <1>1, LessThanMagnitude
<1> QED BY <1>2 DEF Alarms, TwoSided

\* A measure back in tolerance is lower than one above it.
LEMMA BackIsLower ==
  ASSUME NEW kind \in Kind, NEW d \in Delta, NEW e \in Delta,
         ~ Less(d, Tolerated(kind)), ~ Alarms(kind, e)
  PROVE  Less(e, d)
<1>1. PICK n \in Nat : Tolerated(kind) = Percent(n)
  BY DEF Tolerated, Kind
<1>2. Less(e, Percent(n))
  BY <1>1, LessThanMagnitude DEF Alarms
<1> QED BY <1>1, <1>2, LessIsTransitive

LEMMA RetestTells ==
  ASSUME RetestInv
  PROVE  RetestTellsMeasures
<1>1. PICK s, t, kind : s = before /\ t = record.after /\ kind = record.kind
  OBVIOUS
<1>2. s \in Snapshot /\ t \in Snapshot
  BY <1>1 DEF RetestInv
<1> DEFINE then == Measured(s, kind)
           now  == Measured(t, kind)
           Outside(d) == ~ Less(Magnitude(d), Tolerated(kind))
           High(x) == ~ Less(then[x], Tolerated(kind))
           Low(x)  == /\ kind \in {"population_shift", "target_shift"}
                      /\ Outside(then[x]) /\ ~ High(x)
<1>3. ASSUME kind \in Kind
      PROVE  /\ \A x \in DOMAIN then : then[x] \in Delta
             /\ \A x \in DOMAIN now : now[x] \in Delta
  BY <1>2, <1>3, FindingsTell DEF Tells
<1>4. ASSUME record.status = "verified", NEW x \in DOMAIN then \cap DOMAIN now
      PROVE  /\ High(x) => Less(now[x], then[x])
             /\ Low(x) => ~ Outside(now[x]) \/ Less(now[x], then[x])
  <2>1. kind \in Kind /\ Verdict(Findings(s, kind), t) = "verified"
    BY <1>1, <1>4 DEF RetestInv, NoRecord
  <2>2. PICK d, e : d = then[x] /\ e = now[x]
    OBVIOUS
  <2>3. d \in Delta /\ e \in Delta
    BY <1>3, <1>4, <2>1, <2>2
  <2>4. Alarms(kind, d) /\ Alarms(kind, e) => Less(e, d)
    BY <1>2, <1>4, <2>1, <2>2, VerifiedIsLower
  <2>5. ASSUME High(x)
        PROVE  Less(e, d)
    <3>1. Alarms(kind, d)
      BY <2>1, <2>2, <2>3, <2>5, AlarmsAre
    <3>2. ~ Alarms(kind, e) => Less(e, d)
      BY <2>1, <2>2, <2>3, <2>5, BackIsLower
    <3> QED BY <2>4, <3>1, <3>2
  <2>6. ASSUME Low(x)
        PROVE  ~ Outside(e) \/ Less(e, d)
    <3>1. Alarms(kind, d)
      BY <2>1, <2>2, <2>3, <2>6, AlarmsAre
    <3>2. kind \in TwoSided
      BY <2>6 DEF TwoSided
    <3>3. Alarms(kind, e) <=> Outside(e)
      BY <2>1, <2>3, <3>2, AlarmsAre
    <3> QED BY <2>4, <3>1, <3>3
  <2> QED BY <2>2, <2>5, <2>6
<1>5. ASSUME record.status = "failed"
      PROVE  \E x \in DOMAIN then \cap DOMAIN now :
               (High(x) \/ Low(x)) /\ Outside(now[x]) /\ ~ Less(now[x], then[x])
  <2>1. kind \in Kind /\ Verdict(Findings(s, kind), t) = "remaining"
    BY <1>1, <1>5 DEF RetestInv, NoRecord
  <2>2. PICK x \in DOMAIN then \cap DOMAIN now :
          /\ Alarms(kind, then[x]) /\ Alarms(kind, now[x]) /\ ~ Less(now[x], then[x])
    BY <1>2, <2>1, RemainingIsOut
  <2>3. PICK d, e : d = then[x] /\ e = now[x]
    OBVIOUS
  <2>4. d \in Delta /\ e \in Delta
    BY <1>3, <2>1, <2>2, <2>3
  <2>5. (High(x) \/ Low(x)) /\ Outside(e)
    BY <2>1, <2>2, <2>3, <2>4, AlarmsAre
  <2> QED BY <2>2, <2>3, <2>5
<1> QED BY <1>1, <1>4, <1>5 DEF RetestTellsMeasures

(***************************************************************************)
(* A remediation counts as verified, or as failed, by what its measures    *)
(* did: verify_remediation and apply_verification, for all snapshots and   *)
(* any columns, groups and rules.                                          *)
(***************************************************************************)
THEOREM RetestsTellMeasures == MonitoringSpec => []RetestTellsMeasures
<1>1. RetestInv => RetestTellsMeasures
  BY RetestTells
<1> QED BY <1>1, RetestIsInductive, PTL

(***************************************************************************)
(* Division of the rows: any number of segments, of rows and of dates.     *)
(***************************************************************************)

\* What the sums are, for numbers that are natural.
Numbers(a, n) == \A k \in 1..n : a[k] \in Nat

LEMMA SumIs ==
  ASSUME NEW n \in Nat, NEW a, Numbers(a, n)
  PROVE  \E f : /\ SumTo(a, n) = f[n] /\ f[0] = 0
                /\ \A k \in 1..n : f[k] = f[k - 1] + a[k]
                /\ \A k \in 0..n : f[k] \in Nat
<1>1. PICK f : f = CHOOSE g : SumsUp(g, a, n)
  OBVIOUS
<1>2. SumsUp(f, a, n)
  BY <1>1, SumsExist
<1>3. SumTo(a, n) = f[n]
  BY <1>1 DEF SumTo, SumsUp
<1>4. f[0] = 0 /\ \A k \in 1..n : f[k] = f[k - 1] + a[k]
  BY <1>2, SumsUpStep
<1>5. \A k \in 0..n : f[k] \in Nat
  <2> DEFINE T == {k \in Nat : k <= n /\ f[k] \notin Nat}
  <2>1. SUFFICES ASSUME NEW l \in T
                 PROVE  FALSE
    OBVIOUS
  <2>2. PICK m \in T : \A y \in T : m <= y
    BY <2>1, LeastNumber
  <2>3. m \in 1..n /\ m - 1 \in 0..n /\ m - 1 \notin T
    BY <1>4, <2>2
  <2>4. f[m] = f[m - 1] + a[m] /\ f[m - 1] \in Nat /\ a[m] \in Nat
    BY <1>4, <2>3 DEF Numbers
  <2>5. f[m] \in Nat
    BY <2>4
  <2> QED BY <2>2, <2>5
<1> QED BY <1>3, <1>4, <1>5

LEMMA SumOfLess ==
  ASSUME NEW n \in Nat, NEW a, NEW b, Numbers(a, n), Numbers(b, n),
         \A k \in 1..n : a[k] <= b[k]
  PROVE  SumTo(a, n) <= SumTo(b, n)
<1>1. PICK f : /\ SumTo(a, n) = f[n] /\ f[0] = 0
               /\ \A k \in 1..n : f[k] = f[k - 1] + a[k]
               /\ \A k \in 0..n : f[k] \in Nat
  BY SumIs
<1>2. PICK g : /\ SumTo(b, n) = g[n] /\ g[0] = 0
               /\ \A k \in 1..n : g[k] = g[k - 1] + b[k]
               /\ \A k \in 0..n : g[k] \in Nat
  BY SumIs
<1> DEFINE T == {k \in Nat : k <= n /\ ~ f[k] <= g[k]}
<1>3. SUFFICES ASSUME n \in T
               PROVE  FALSE
  BY <1>1, <1>2
<1>4. PICK m \in T : \A y \in T : m <= y
  BY <1>3, LeastNumber
<1>5. m \in 1..n /\ m - 1 \in 0..n /\ m - 1 \notin T
  BY <1>1, <1>2, <1>4
<1>6. /\ f[m] = f[m - 1] + a[m] /\ f[m - 1] \in Nat /\ a[m] \in Nat
      /\ g[m] = g[m - 1] + b[m] /\ g[m - 1] \in Nat /\ b[m] \in Nat
      /\ a[m] <= b[m] /\ f[m - 1] <= g[m - 1]
  BY <1>1, <1>2, <1>5 DEF Numbers
<1>7. f[m] <= g[m]
  BY <1>6
<1> QED BY <1>4, <1>7

LEMMA SumOfOneMore ==
  ASSUME NEW n \in Nat, NEW a, NEW b, Numbers(a, n), Numbers(b, n), NEW i \in 1..n,
         \A k \in 1..n : b[k] = IF k = i THEN a[k] + 1 ELSE a[k]
  PROVE  SumTo(b, n) = SumTo(a, n) + 1
<1>1. PICK f : /\ SumTo(a, n) = f[n] /\ f[0] = 0
               /\ \A k \in 1..n : f[k] = f[k - 1] + a[k]
               /\ \A k \in 0..n : f[k] \in Nat
  BY SumIs
<1>2. PICK g : /\ SumTo(b, n) = g[n] /\ g[0] = 0
               /\ \A k \in 1..n : g[k] = g[k - 1] + b[k]
               /\ \A k \in 0..n : g[k] \in Nat
  BY SumIs
<1> DEFINE T == {k \in Nat : k <= n /\ g[k] # IF k < i THEN f[k] ELSE f[k] + 1}
<1>3. SUFFICES ASSUME n \in T
               PROVE  FALSE
  BY <1>1, <1>2
<1>4. PICK m \in T : \A y \in T : m <= y
  BY <1>3, LeastNumber
<1>5. m \in 1..n /\ m - 1 \in 0..n /\ m - 1 \notin T
  BY <1>1, <1>2, <1>4
<1>6. /\ f[m] = f[m - 1] + a[m] /\ f[m - 1] \in Nat /\ a[m] \in Nat
      /\ g[m] = g[m - 1] + b[m] /\ b[m] = IF m = i THEN a[m] + 1 ELSE a[m]
      /\ g[m - 1] = IF m - 1 < i THEN f[m - 1] ELSE f[m - 1] + 1
  BY <1>1, <1>2, <1>5 DEF Numbers
<1>7. g[m] = IF m < i THEN f[m] ELSE f[m] + 1
  BY <1>5, <1>6
<1> QED BY <1>4, <1>7

LEMMA SumIsNoLess ==
  ASSUME NEW n \in Nat, NEW a, Numbers(a, n), NEW i \in 1..n
  PROVE  SumTo(a, n) \in Nat /\ a[i] <= SumTo(a, n)
<1>1. PICK f : /\ SumTo(a, n) = f[n] /\ f[0] = 0
               /\ \A k \in 1..n : f[k] = f[k - 1] + a[k]
               /\ \A k \in 0..n : f[k] \in Nat
  BY SumIs
<1> DEFINE T == {k \in Nat : i <= k /\ k <= n /\ ~ a[i] <= f[k]}
<1>2. SUFFICES ASSUME n \in T
               PROVE  FALSE
  BY <1>1
<1>3. PICK m \in T : \A y \in T : m <= y
  BY <1>2, LeastNumber
<1>4. /\ m \in 1..n /\ f[m] = f[m - 1] + a[m] /\ f[m - 1] \in Nat
      /\ a[m] \in Nat /\ a[i] \in Nat
  BY <1>1, <1>3 DEF Numbers
<1>5. CASE m = i
  BY <1>3, <1>4, <1>5
<1>6. CASE m > i
  <2>1. m - 1 \in i..n /\ m - 1 \notin T
    BY <1>3, <1>6
  <2>2. a[i] <= f[m - 1]
    BY <2>1
  <2> QED BY <1>3, <1>4, <2>2
<1> QED BY <1>3, <1>5, <1>6

LEMMA SumOfOnes ==
  ASSUME NEW n \in Nat, NEW a, NEW P, P \subseteq 1..n,
         \A k \in 1..n : a[k] = IF k \in P THEN 1 ELSE 0
  PROVE  SumTo(a, n) = Cardinality(P) /\ Cardinality(P) \in Nat
<1>1. Numbers(a, n)
  BY DEF Numbers
<1>2. PICK f : /\ SumTo(a, n) = f[n] /\ f[0] = 0
               /\ \A k \in 1..n : f[k] = f[k - 1] + a[k]
               /\ \A k \in 0..n : f[k] \in Nat
  BY <1>1, SumIs
<1>3. \A S : S \subseteq 1..n => IsFiniteSet(S) /\ Cardinality(S) \in Nat
  <2>1. IsFiniteSet(1..n)
    BY FS_Interval
  <2> QED BY <2>1, FS_Subset, FS_CardinalityType
<1>4. PICK First : First = [k \in 0..n |-> {j \in P : j <= k}]
  OBVIOUS
<1>5. \A k \in 0..n : First[k] \subseteq 1..n /\ \A j : j \in First[k] <=> j \in P /\ j <= k
  BY <1>4
<1>6. First[n] = P
  <2>1. n \in 0..n /\ \A j \in P : j <= n
    OBVIOUS
  <2> QED BY <1>5, <2>1
<1>7. First[0] = {}
  <2>1. 0 \in 0..n /\ \A j \in P : ~ j <= 0
    OBVIOUS
  <2> QED BY <1>5, <2>1
<1> DEFINE T == {k \in Nat : k <= n /\ f[k] # Cardinality(First[k])}
<1>8. SUFFICES ASSUME n \in T
               PROVE  FALSE
  <2>1. n \notin T
    OBVIOUS
  <2>2. f[n] = Cardinality(P)
    BY <2>1, <1>6
  <2> QED BY <1>2, <1>3, <2>2
<1>9. PICK m \in T : \A y \in T : m <= y
  BY <1>8, LeastNumber
<1>10. m # 0
  BY <1>2, <1>7, <1>9, FS_EmptySet
<1>11. m \in 1..n /\ m \in 0..n /\ m - 1 \in 0..n /\ m - 1 \notin T
  BY <1>9, <1>10
<1>12. /\ f[m] = f[m - 1] + a[m] /\ f[m - 1] = Cardinality(First[m - 1])
       /\ a[m] = IF m \in P THEN 1 ELSE 0
  BY <1>2, <1>11
<1>13. First[m - 1] \subseteq 1..n /\ m \notin First[m - 1]
  BY <1>5, <1>11
<1>14. IsFiniteSet(First[m - 1]) /\ Cardinality(First[m - 1]) \in Nat
  BY <1>3, <1>13
<1>15. Cardinality(First[m - 1] \cup {m}) = Cardinality(First[m - 1]) + 1
  BY <1>13, <1>14, FS_AddElement
<1>16. First[m] = IF m \in P THEN First[m - 1] \cup {m} ELSE First[m - 1]
  <2>1. \A j \in P : j <= m <=> j <= m - 1 \/ j = m
    BY <1>11
  <2>2. \A j : j \in First[m] <=> j \in P /\ j <= m
    BY <1>5, <1>11
  <2>3. \A j : j \in First[m - 1] <=> j \in P /\ j <= m - 1
    BY <1>5, <1>11
  <2>4. ASSUME NEW j
        PROVE  j \in First[m] <=> j \in First[m - 1] \/ (j = m /\ m \in P)
    <3>1. CASE j \in P
      BY <2>1, <2>2, <2>3, <3>1
    <3>2. CASE j \notin P
      BY <2>2, <2>3, <3>2
    <3> QED BY <3>1, <3>2
  <2>5. CASE m \in P
    BY <2>4, <2>5
  <2>6. CASE m \notin P
    <3>1. \A j : j \in First[m] <=> j \in First[m - 1]
      BY <2>4, <2>6
    <3>2. First[m] = First[m - 1]
      BY <3>1
    <3> QED BY <2>6, <3>2
  <2> QED BY <2>5, <2>6
<1>17. f[m] = Cardinality(First[m])
  <2>1. CASE m \in P
    BY <1>12, <1>15, <1>16, <2>1
  <2>2. CASE m \notin P
    BY <1>12, <1>14, <1>16, <2>2
  <2> QED BY <2>1, <2>2
<1> QED BY <1>9, <1>17

LEMMA SumAlike ==
  ASSUME NEW n \in Nat, NEW a, NEW b, Numbers(a, n), Numbers(b, n),
         \A k \in 1..n : a[k] = b[k]
  PROVE  SumTo(a, n) = SumTo(b, n)
<1>1. SumTo(a, n) \in Nat /\ SumTo(b, n) \in Nat
  <2>1. n \in 0..n
    OBVIOUS
  <2> QED BY <2>1, SumIs
<1>2. \A k \in 1..n : a[k] \in Nat /\ b[k] \in Nat /\ a[k] <= b[k] /\ b[k] <= a[k]
  BY DEF Numbers
<1>3. SumTo(a, n) <= SumTo(b, n) /\ SumTo(b, n) <= SumTo(a, n)
  BY <1>2, SumOfLess
<1> QED BY <1>1, <1>3

\* The same of the rows of a target in all segments.
Table == [Segment -> [Target -> Nat]]

LEMMA InAllIs ==
  ASSUME NEW rows \in Table, NEW t \in Target
  PROVE  InAll(rows, t) \in Nat /\ \A s \in Segment : rows[s][t] <= InAll(rows, t)
<1>1. PICK a : a = [s \in Segment |-> rows[s][t]]
  OBVIOUS
<1>2. Segments \in Nat /\ Segment = 1..Segments /\ InAll(rows, t) = SumTo(a, Segments)
  BY <1>1, SplitAssumption DEF InAll, Segment
<1>3. Numbers(a, Segments) /\ \A s \in Segment : a[s] = rows[s][t]
  BY <1>1, <1>2 DEF Numbers, Table
<1>4. SumTo(a, Segments) \in Nat
  <2>1. Segments \in 0..Segments
    BY <1>2
  <2> QED BY <1>2, <1>3, <2>1, SumIs
<1>5. \A s \in 1..Segments : a[s] <= SumTo(a, Segments)
  BY <1>2, <1>3, SumIsNoLess
<1> QED BY <1>2, <1>3, <1>4, <1>5

LEMMA InAllAlike ==
  ASSUME NEW rows \in Table, NEW more \in Table, NEW t \in Target,
         \A s \in Segment : more[s][t] = rows[s][t]
  PROVE  InAll(more, t) = InAll(rows, t)
<1>1. [s \in Segment |-> more[s][t]] = [s \in Segment |-> rows[s][t]]
  OBVIOUS
<1> QED BY <1>1 DEF InAll

LEMMA InAllOneMore ==
  ASSUME NEW rows \in Table, NEW more \in Table, NEW t \in Target, NEW s \in Segment,
         more[s][t] = rows[s][t] + 1,
         \A r \in Segment \ {s} : more[r][t] = rows[r][t]
  PROVE  InAll(more, t) = InAll(rows, t) + 1
<1>1. PICK a : a = [r \in Segment |-> rows[r][t]]
  OBVIOUS
<1>2. PICK b : b = [r \in Segment |-> more[r][t]]
  OBVIOUS
<1>3. Segments \in Nat /\ Segment = 1..Segments
  BY SplitAssumption DEF Segment
<1>4. InAll(rows, t) = SumTo(a, Segments) /\ InAll(more, t) = SumTo(b, Segments)
  BY <1>1, <1>2 DEF InAll
<1>5. Numbers(a, Segments) /\ Numbers(b, Segments)
  BY <1>1, <1>2, <1>3 DEF Numbers, Table
<1>6. \A r \in 1..Segments : b[r] = IF r = s THEN a[r] + 1 ELSE a[r]
  BY <1>1, <1>2, <1>3
<1> QED BY <1>3, <1>4, <1>5, <1>6, SumOfOneMore

\* The bounds on a target are those of any fair allocation.
FairFor(a, t) ==
  \A s \in Segment : IF groups[s][t] > 0 THEN a[s] >= 1 /\ a[s] < groups[s][t]
                     ELSE a[s] = 0

LEMMA GroupsHaveRows ==
  ASSUME groups \in Table, NEW t \in Target
  PROVE  /\ GroupsOf(t) \subseteq 1..Segments /\ Segment = 1..Segments /\ Segments \in Nat
         /\ \A s \in Segment : s \in GroupsOf(t) <=> groups[s][t] > 0
         /\ \A s \in Segment : groups[s][t] \in Nat
  BY SplitAssumption DEF GroupsOf, Segment, Table

LEMMA LeastIs ==
  ASSUME groups \in Table, NEW t \in Target, NEW rows \in Table,
         \A s \in Segment : rows[s][t] = IF s \in GroupsOf(t) THEN 1 ELSE 0
  PROVE  InAll(rows, t) = Least(t) /\ Least(t) \in Nat
<1>1. PICK a : a = [s \in Segment |-> rows[s][t]]
  OBVIOUS
<1>2. \A s \in 1..Segments : a[s] = IF s \in GroupsOf(t) THEN 1 ELSE 0
  BY <1>1, GroupsHaveRows
<1>3. SumTo(a, Segments) = Cardinality(GroupsOf(t)) /\ Cardinality(GroupsOf(t)) \in Nat
  BY <1>2, GroupsHaveRows, SumOfOnes
<1> QED BY <1>1, <1>3 DEF InAll, Least

LEMMA BoundsAreFair ==
  ASSUME groups \in Table, NEW t \in Target, NEW a \in [Segment -> Nat], FairFor(a, t)
  PROVE  /\ Least(t) \in Nat /\ Most(t) \in Nat /\ SumTo(a, Segments) \in Nat
         /\ Least(t) <= SumTo(a, Segments) /\ SumTo(a, Segments) <= Most(t)
<1>1. PICK low : low = [s \in Segment |-> IF s \in GroupsOf(t) THEN 1 ELSE 0]
  OBVIOUS
<1>2. PICK high : high = [s \in Segment |-> IF s \in GroupsOf(t) THEN Capacity(s, t) ELSE 0]
  OBVIOUS
<1>3. Most(t) = SumTo(high, Segments)
  BY <1>2 DEF Most
<1>4. Least(t) = SumTo(low, Segments)
  <2>1. \A s \in 1..Segments : low[s] = IF s \in GroupsOf(t) THEN 1 ELSE 0
    BY <1>1, GroupsHaveRows
  <2> QED BY <2>1, GroupsHaveRows, SumOfOnes DEF Least
<1>5. \A s \in 1..Segments :
        /\ low[s] \in Nat /\ a[s] \in Nat /\ high[s] \in Nat
        /\ low[s] <= a[s] /\ a[s] <= high[s]
  <2> TAKE s \in 1..Segments
  <2>1. s \in Segment /\ groups[s][t] \in Nat /\ a[s] \in Nat
    BY GroupsHaveRows
  <2>2. CASE s \in GroupsOf(t)
    <3>1. groups[s][t] > 0 /\ a[s] >= 1 /\ a[s] < groups[s][t]
      BY <2>1, <2>2, GroupsHaveRows DEF FairFor
    <3>2. low[s] = 1 /\ high[s] = groups[s][t] - 1
      BY <1>1, <1>2, <2>1, <2>2 DEF Capacity
    <3> QED BY <2>1, <3>1, <3>2
  <2>3. CASE s \notin GroupsOf(t)
    <3>1. a[s] = 0
      BY <2>1, <2>3, GroupsHaveRows DEF FairFor
    <3>2. low[s] = 0 /\ high[s] = 0
      BY <1>1, <1>2, <2>1, <2>3
    <3> QED BY <3>1, <3>2
  <2> QED BY <2>2, <2>3
<1>6. Numbers(low, Segments) /\ Numbers(a, Segments) /\ Numbers(high, Segments)
  BY <1>5 DEF Numbers
<1>7. /\ SumTo(low, Segments) <= SumTo(a, Segments)
      /\ SumTo(a, Segments) <= SumTo(high, Segments)
  BY <1>5, <1>6, GroupsHaveRows, SumOfLess
<1>8. /\ SumTo(low, Segments) \in Nat /\ SumTo(a, Segments) \in Nat
      /\ SumTo(high, Segments) \in Nat
  <2>1. Segments \in Nat /\ Segments \in 0..Segments
    BY GroupsHaveRows
  <2> QED BY <1>6, <2>1, SumIs
<1> QED BY <1>3, <1>4, <1>7, <1>8

LEMMA FullIsMost ==
  ASSUME groups \in Table, NEW t \in Target, NEW rows \in Table,
         \A s \in Segment : groups[s][t] # 1,
         \A s \in GroupsOf(t) : rows[s][t] >= Capacity(s, t)
  PROVE  Most(t) \in Nat /\ Most(t) <= InAll(rows, t)
<1>1. PICK a : a = [s \in Segment |-> rows[s][t]]
  OBVIOUS
<1>2. PICK high : high = [s \in Segment |-> IF s \in GroupsOf(t) THEN Capacity(s, t) ELSE 0]
  OBVIOUS
<1>3. Most(t) = SumTo(high, Segments) /\ InAll(rows, t) = SumTo(a, Segments)
  BY <1>1, <1>2 DEF Most, InAll
<1>4. \A s \in 1..Segments : high[s] \in Nat /\ a[s] \in Nat /\ high[s] <= a[s]
  <2> TAKE s \in 1..Segments
  <2>1. s \in Segment /\ groups[s][t] \in Nat
    BY GroupsHaveRows
  <2>2. a[s] = rows[s][t] /\ a[s] \in Nat
    BY <1>1, <2>1 DEF Table
  <2>3. CASE s \in GroupsOf(t)
    <3>1. high[s] = groups[s][t] - 1 /\ groups[s][t] > 0 /\ a[s] >= groups[s][t] - 1
      BY <1>2, <2>1, <2>2, <2>3, GroupsHaveRows DEF Capacity
    <3> QED BY <2>1, <2>2, <3>1
  <2>4. CASE s \notin GroupsOf(t)
    BY <1>2, <2>1, <2>2, <2>4
  <2> QED BY <2>3, <2>4
<1>5. Numbers(high, Segments) /\ Numbers(a, Segments)
  BY <1>4 DEF Numbers
<1>6. SumTo(high, Segments) <= SumTo(a, Segments)
  BY <1>4, <1>5, GroupsHaveRows, SumOfLess
<1>7. SumTo(high, Segments) \in Nat
  <2>1. Segments \in Nat /\ Segments \in 0..Segments
    BY GroupsHaveRows
  <2> QED BY <1>5, <2>1, SumIs
<1> QED BY <1>3, <1>6, <1>7

\* Of a target with two rows or more one is drawn.
LEMMA SevenTenths ==
  ASSUME NEW x \in Nat, NEW y \in Nat, x >= 2
  PROVE  (x * ((7 * (x + y)) \div 10)) \div (x + y) >= 1
<1>1. PICK n \in Nat : n = x + y /\ n >= 2
  OBVIOUS
<1>2. PICK z \in Nat : z = (7 * n) \div 10
  OBVIOUS
<1>3. 10 * z <= 7 * n /\ 7 * n <= 10 * z + 9
  BY <1>2
<1>4. n <= 2 * z
  BY <1>1, <1>3
<1>5. 2 * z <= x * z
  <2>1. PICK d \in Nat : x = d + 2
    <3>1. x - 2 \in Nat /\ x = (x - 2) + 2
      OBVIOUS
    <3> QED BY <3>1
  <2>2. x * z = d * z + 2 * z /\ d * z >= 0
    BY <2>1
  <2> QED BY <2>2
<1>6. PICK p \in Nat : p = x * z /\ p >= n
  BY <1>4, <1>5
<1>7. p \div n >= 1
  BY <1>1, <1>6
<1> QED BY <1>1, <1>2, <1>6, <1>7

LEMMA DrawnOfEach ==
  ASSUME groups \in Table, NEW d \in Draw, ~ DrawRaises, NEW t \in Target, Total(t) > 0
  PROVE  d[t] >= 1
<1>1. Total(0) \in Nat /\ Total(1) \in Nat /\ t \in {0, 1}
  BY InAllIs DEF Total, Target
<1>2. Total(t) >= 2
  BY <1>1 DEF DrawRaises
<1>3. PICK x \in Nat, y \in Nat : x = Total(t) /\ x + y = Total(0) + Total(1)
  BY <1>1
<1>4. Share(t) = (x * ((7 * (x + y)) \div 10)) \div (x + y)
  BY <1>3 DEF Share, TrainSize
<1>5. Share(t) >= 1
  BY <1>2, <1>3, <1>4, SevenTenths
<1>6. d[t] \in Rounded(t)
  BY DEF Draw
<1>7. Share(t) \in Int
  BY <1>3, <1>4, <1>2
<1> QED BY <1>5, <1>6, <1>7 DEF Rounded

\* A nearest boundary exists, and the first of these is in the range asked for.
LEMMA BoundaryIsWithin ==
  ASSUME NEW n \in Nat, dates \in [1..n -> DateRows],
         NEW fifths \in Nat, NEW low \in Nat, NEW high \in Nat, low <= high, high <= n
  PROVE  ClosestBoundary(fifths, low, high) \in low..high
<1>1. \A i \in 0..n : Upto(i) \in Nat
  <2>1. PICK h : h = [j \in DOMAIN dates |-> Height(j)]
    OBVIOUS
  <2>2. \A j \in 1..n : h[j] \in Nat
    <3> TAKE j \in 1..n
    <3>1. dates[j] \in [Target -> Nat]
      BY SplitAssumption
    <3>2. dates[j][0] \in Nat /\ dates[j][1] \in Nat
      BY <3>1 DEF Target
    <3> QED BY <2>1, <3>2 DEF Height
  <2> TAKE i \in 0..n
  <2>3. i \in Nat /\ i \in 0..i /\ Numbers(h, i)
    BY <2>2 DEF Numbers
  <2>4. SumTo(h, i) \in Nat
    BY <2>3, SumIs
  <2> QED BY <2>1, <2>4 DEF Upto
<1>2. Len(dates) = n
  BY LenProperties
<1>3. \A i \in low..high : Off(i, fifths) \in Nat
  <2> TAKE i \in low..high
  <2>1. Upto(i) \in Nat /\ Upto(n) \in Nat
    BY <1>1
  <2>2. 5 * Upto(i) - fifths * Upto(n) \in Int
    BY <2>1
  <2> QED BY <1>2, <2>2 DEF Off
<1> DEFINE D == {v \in Nat : \E i \in low..high : Off(i, fifths) = v}
<1>4. Off(low, fifths) \in D
  BY <1>3
<1>5. PICK v \in D : \A w \in D : v <= w
  BY <1>4, LeastNumber
<1> DEFINE I == {i \in Nat : i \in low..high /\ Off(i, fifths) = v}
<1>6. PICK j : j \in I
  BY <1>5
<1>7. PICK i \in I : \A k \in I : i <= k
  BY <1>6, LeastNumber
<1>8. /\ i \in low..high
      /\ \A k \in low..high :
           Off(i, fifths) <= Off(k, fifths) /\ (Off(i, fifths) = Off(k, fifths) => i <= k)
  <2> SUFFICES ASSUME NEW k \in low..high
               PROVE  Off(i, fifths) <= Off(k, fifths)
                      /\ (Off(i, fifths) = Off(k, fifths) => i <= k)
    BY <1>7
  <2>1. Off(k, fifths) \in D /\ Off(i, fifths) = v
    BY <1>3, <1>7
  <2>2. v <= Off(k, fifths)
    BY <1>5, <2>1
  <2>3. Off(k, fifths) = v => i <= k
    BY <1>7
  <2> QED BY <2>1, <2>2, <2>3
<1> QED BY <1>8 DEF ClosestBoundary

LEMMA TimeSplitIsIn ==
  ASSUME NEW n \in Nat, dates \in [1..n -> DateRows], n >= 3
  PROVE  /\ Len(dates) = n
         /\ 1 <= TimeSplit[1] /\ TimeSplit[1] < TimeSplit[2] /\ TimeSplit[2] < n
<1>1. Len(dates) = n
  BY LenProperties
<1>2. PICK a : a = ClosestBoundary(3, 1, n - 2)
  OBVIOUS
<1>3. a \in 1..(n - 2)
  BY <1>2, BoundaryIsWithin
<1>4. PICK b : b = ClosestBoundary(4, a + 1, n - 1)
  OBVIOUS
<1>5. b \in (a + 1)..(n - 1)
  <2>1. a + 1 \in Nat /\ n - 1 \in Nat /\ a + 1 <= n - 1 /\ n - 1 <= n
    BY <1>3
  <2> QED BY <1>4, <2>1, BoundaryIsWithin
<1>6. TimeSplit = <<a, b>>
  BY <1>1, <1>2, <1>4 DEF TimeSplit
<1> QED BY <1>1, <1>3, <1>5, <1>6

(***************************************************************************)
(* What holds on the way: a target has no allocation, or one that is fair  *)
(* so far and can still reach what was drawn.                              *)
(***************************************************************************)
SplitWellTyped ==
  /\ \E n \in Nat : dates \in [1..n -> DateRows]
  /\ groups \in Table
  /\ desired \in [Target -> Nat]
  /\ allocations \in Table
  /\ turn \in [target : Target, left : SUBSET Segment]

Untouched(t) == \A s \in Segment : allocations[s][t] = 0

Allocated(t) ==
  /\ \A s \in Segment :
       IF groups[s][t] > 0 THEN allocations[s][t] >= 1 /\ allocations[s][t] < groups[s][t]
       ELSE allocations[s][t] = 0
  /\ InAll(allocations, t) <= desired[t] /\ desired[t] <= Most(t)

Fulfilled(t) == Allocated(t) /\ InAll(allocations, t) = desired[t]

UntilHere ==
  /\ splitting = "begun" => \A t \in Target : Untouched(t)
  /\ splitting \in {"target", "pass"} =>
       /\ \A s \in Segment, t \in Target : groups[s][t] # 1
       /\ desired \in Draw /\ ~ DrawRaises
       /\ \A t \in Target : \/ Untouched(t) \/ Fulfilled(t)
                            \/ splitting = "pass" /\ t = turn.target

InPass ==
  splitting = "pass" =>
    /\ Allocated(turn.target)
    /\ turn.left \subseteq GroupsOf(turn.target)
    /\ turn.left # {} => Remaining(turn.target) > 0

DInv == SplitWellTyped /\ UntilHere /\ InPass /\ SplitsAreSound

LEMMA SplitInitially == SplitInit => DInv
<1> SUFFICES ASSUME SplitInit
             PROVE  DInv
  OBVIOUS
<1>1. PICK k \in 0..MaxDates : dates \in [1..k -> DateRows]
  BY DEF SplitInit
<1>2. groups \in Table
  <2>1. PICK m0, m1 : \E d0 \in Division(m0), d1 \in Division(m1) :
            groups = [s \in Segment |-> [t \in Target |-> IF t = 0 THEN d0[s] ELSE d1[s]]]
    BY DEF SplitInit
  <2>2. PICK d0 \in Division(m0), d1 \in Division(m1) :
            groups = [s \in Segment |-> [t \in Target |-> IF t = 0 THEN d0[s] ELSE d1[s]]]
    BY <2>1
  <2>3. \A s \in Segment : d0[s] \in Nat /\ d1[s] \in Nat
    BY <2>2 DEF Division
  <2> QED BY <2>2, <2>3 DEF Table
<1>3. desired \in [Target -> Nat] /\ allocations \in Table
  BY DEF SplitInit, NoRows, Table
<1>4. turn \in [target : Target, left : SUBSET Segment]
  BY DEF SplitInit, Target
<1>5. \A t \in Target : Untouched(t)
  BY DEF SplitInit, NoRows, Untouched
<1>6. splitting = "begun"
  BY DEF SplitInit
<1>7. k \in Nat
  BY <1>1, SplitAssumption
<1> QED BY <1>1, <1>2, <1>3, <1>4, <1>5, <1>6, <1>7
        DEF DInv, SplitWellTyped, UntilHere, InPass, SplitsAreSound

LEMMA ByTimeStep == ASSUME DInv, SplitByTime PROVE DInv'
<1>1. PICK n \in Nat : dates \in [1..n -> DateRows]
  BY DEF DInv, SplitWellTyped
<1>2. SplitWellTyped' /\ UntilHere' /\ InPass'
  BY DEF DInv, SplitByTime, SplitWellTyped, UntilHere, InPass
<1>3. Len(dates) >= 3 => 1 <= cut'[1] /\ cut'[1] < cut'[2] /\ cut'[2] < Len(dates)
  <2>1. Len(dates) = n
    BY <1>1, LenProperties
  <2> QED BY <1>1, <2>1, TimeSplitIsIn DEF SplitByTime
<1>4. mode = "auto" => Usable(cut')
  BY DEF SplitByTime
<1>5. Usable(cut)' <=> Usable(cut')
  BY DEF SplitByTime, Usable, Slice
<1> QED BY <1>2, <1>3, <1>4, <1>5 DEF DInv, SplitByTime, SplitsAreSound

\* Nothing that is not changed tells of the targets.
LEMMA SameTarget ==
  ASSUME UNCHANGED <<groups, desired>>, NEW t \in Target,
         \A s \in Segment : allocations'[s][t] = allocations[s][t]
  PROVE  /\ Untouched(t)' <=> Untouched(t)
         /\ GroupsOf(t)' = GroupsOf(t) /\ Most(t)' = Most(t)
         /\ InAll(allocations', t) = InAll(allocations, t)
         /\ Allocated(t)' <=> Allocated(t)
         /\ Fulfilled(t)' <=> Fulfilled(t)
<1>1. Untouched(t)' <=> Untouched(t)
  BY DEF Untouched
<1>2. GroupsOf(t)' = GroupsOf(t) /\ Most(t)' = Most(t)
  BY DEF GroupsOf, Most, Capacity
<1>3. [s \in Segment |-> allocations'[s][t]] = [s \in Segment |-> allocations[s][t]]
  OBVIOUS
<1>4. InAll(allocations', t) = InAll(allocations, t)
  BY <1>3 DEF InAll
<1>5. Allocated(t)' <=> Allocated(t)
  BY <1>2, <1>4 DEF Allocated
<1>6. Fulfilled(t)' <=> Fulfilled(t)
  BY <1>4, <1>5 DEF Fulfilled
<1> QED BY <1>1, <1>2, <1>4, <1>5, <1>6

LEMMA SameRows ==
  ASSUME UNCHANGED groups
  PROVE  /\ Draw' = Draw /\ (DrawRaises' <=> DrawRaises)
         /\ \A t \in Target : GroupsOf(t)' = GroupsOf(t) /\ Most(t)' = Most(t)
  BY DEF Draw, DrawRaises, Rounded, Share, Excess, TrainSize, Total, GroupsOf, Most, Capacity

\* A fair allocation keeps to the bounds.
LEMMA FairNeeds ==
  ASSUME groups \in Table, desired \in [Target -> Nat], FairExists, NEW t \in Target
  PROVE  Least(t) <= desired[t] /\ desired[t] <= Most(t)
<1>1. PICK a \in Division(desired[t]) : FairFor(a, t)
  BY DEF FairExists, FairFor
<1>2. a \in [Segment -> Nat] /\ SumTo(a, Segments) = desired[t]
  BY DEF Division
<1> QED BY <1>1, <1>2, BoundsAreFair

LEMMA StartStratifiedStep == ASSUME DInv, StartStratified PROVE DInv'
<1>1. /\ splitting = "begun" /\ \A t \in Target : Untouched(t)
      /\ groups \in Table /\ desired \in [Target -> Nat]
  BY DEF DInv, StartStratified, UntilHere, SplitWellTyped
<1>2. UNCHANGED <<dates, groups, mode, cut, allocations, turn>>
  BY DEF StartStratified
<1>3. desired' \in [Target -> Nat]
  BY <1>1 DEF StartStratified, Draw
<1>4. SplitWellTyped'
  BY <1>2, <1>3 DEF DInv, SplitWellTyped
<1>5. \/ splitting' = "raised"
      \/ /\ ~ DrawRaises /\ desired' \in Draw
         /\ splitting' = IF \A s \in Segment, t \in Target : groups[s][t] # 1
                         THEN "target" ELSE "fallback"
  BY DEF StartStratified
<1>6. \A t \in Target : Untouched(t)'
  BY <1>1, <1>2 DEF Untouched
<1>7. CASE splitting' = "target"
  <2>1. /\ \A s \in Segment, t \in Target : groups[s][t] # 1
        /\ desired' \in Draw /\ ~ DrawRaises
    BY <1>5, <1>7
  <2>2. UntilHere'
    BY <1>2, <1>6, <1>7, <2>1, SameRows DEF UntilHere
  <2> QED BY <1>4, <1>7, <2>2 DEF DInv, InPass, SplitsAreSound
<1>8. CASE splitting' = "fallback"
  <2>1. PICK s \in Segment, t \in Target : groups[s][t] = 1
    BY <1>5, <1>8
  <2>2. \A a \in Division(desired'[t]) : a[s] \in Nat /\ ~ (a[s] >= 1 /\ a[s] < 1)
    BY DEF Division
  <2>3. ~ FairExists'
    BY <1>2, <2>1, <2>2 DEF FairExists
  <2> QED BY <1>4, <1>8, <2>3 DEF DInv, UntilHere, InPass, SplitsAreSound
<1>9. CASE splitting' = "raised"
  BY <1>4, <1>9 DEF DInv, UntilHere, InPass, SplitsAreSound
<1> QED BY <1>5, <1>7, <1>8, <1>9

LEMMA StartTargetStep == ASSUME DInv, StartTarget PROVE DInv'
<1>1. /\ splitting = "target" /\ groups \in Table /\ allocations \in Table
      /\ desired \in [Target -> Nat]
      /\ \A s \in Segment, t \in Target : groups[s][t] # 1
      /\ desired \in Draw /\ ~ DrawRaises
      /\ \A t \in Target : Untouched(t) \/ Fulfilled(t)
  BY DEF DInv, StartTarget, UntilHere, SplitWellTyped
<1>2. UNCHANGED <<dates, groups, mode, cut, desired>>
  BY DEF StartTarget
<1>3. PICK t \in Unallocated :
        \/ /\ desired[t] < Least(t) \/ desired[t] > Most(t)
           /\ splitting' = "fallback"
           /\ UNCHANGED <<allocations, turn>>
        \/ /\ desired[t] >= Least(t) /\ desired[t] <= Most(t)
           /\ allocations' = [s \in Segment |->
                [allocations[s] EXCEPT ![t] = IF s \in GroupsOf(t) THEN 1 ELSE 0]]
           /\ turn' = [target |-> t, left |-> {}]
           /\ splitting' = "pass"
  BY DEF StartTarget
<1>4. t \in Target
  BY DEF Unallocated
<1>5. CASE splitting' = "fallback"
  <2>1. UNCHANGED <<allocations, turn>> /\ (desired[t] < Least(t) \/ desired[t] > Most(t))
    BY <1>3, <1>5
  <2>2. ~ FairExists
    <3> SUFFICES ASSUME FairExists
                 PROVE  FALSE
      OBVIOUS
    <3>1. PICK a \in Division(desired[t]) : FairFor(a, t)
      BY <1>4 DEF FairExists, FairFor
    <3>2. a \in [Segment -> Nat] /\ SumTo(a, Segments) = desired[t]
      BY DEF Division
    <3>3. /\ Least(t) \in Nat /\ Most(t) \in Nat /\ desired[t] \in Nat
          /\ Least(t) <= desired[t] /\ desired[t] <= Most(t)
      BY <1>1, <1>4, <3>1, <3>2, BoundsAreFair
    <3> QED BY <2>1, <3>3
  <2>3. ~ FairExists'
    BY <1>2, <2>2 DEF FairExists
  <2>4. SplitWellTyped'
    BY <1>2, <2>1 DEF DInv, SplitWellTyped
  <2> QED BY <1>5, <2>3, <2>4 DEF DInv, UntilHere, InPass, SplitsAreSound
<1>6. CASE splitting' = "pass"
  <2>1. /\ desired[t] >= Least(t) /\ desired[t] <= Most(t)
        /\ allocations' = [s \in Segment |->
             [allocations[s] EXCEPT ![t] = IF s \in GroupsOf(t) THEN 1 ELSE 0]]
        /\ turn' = [target |-> t, left |-> {}]
    BY <1>3, <1>6
  <2>2. /\ allocations' \in Table
        /\ \A s \in Segment : allocations'[s][t] = IF s \in GroupsOf(t) THEN 1 ELSE 0
        /\ \A s \in Segment : \A u \in Target \ {t} :
             allocations'[s][u] = allocations[s][u]
    BY <1>1, <1>4, <2>1 DEF Table
  <2>3. turn'.target = t /\ turn'.left = {} /\ turn' \in [target : Target, left : SUBSET Segment]
    BY <1>4, <2>1
  <2>4. SplitWellTyped'
    BY <1>2, <2>2, <2>3 DEF DInv, SplitWellTyped
  <2>5. InAll(allocations', t) <= desired[t]
    <3>1. InAll(allocations', t) = Least(t) /\ Least(t) \in Nat
      BY <1>1, <1>4, <2>2, LeastIs
    <3> QED BY <1>1, <1>4, <2>1, <3>1
  <2>6. \A s \in Segment :
          IF groups[s][t] > 0 THEN allocations'[s][t] >= 1 /\ allocations'[s][t] < groups[s][t]
          ELSE allocations'[s][t] = 0
    <3> TAKE s \in Segment
    <3>1. groups[s][t] \in Nat /\ groups[s][t] # 1
          /\ allocations'[s][t] = (IF groups[s][t] > 0 THEN 1 ELSE 0)
      BY <1>1, <1>4, <2>2, GroupsHaveRows
    <3> QED BY <3>1
  <2>7. Allocated(t)'
    BY <1>2, <1>4, <2>1, <2>5, <2>6, SameRows DEF Allocated
  <2>8. \A u \in Target : \/ Untouched(u)' \/ Fulfilled(u)'
                          \/ u = turn'.target
    <3> SUFFICES ASSUME NEW u \in Target, u # t
                 PROVE  Untouched(u)' \/ Fulfilled(u)'
      BY <2>3
    <3>1. \A s \in Segment : allocations'[s][u] = allocations[s][u]
      BY <2>2
    <3> QED BY <1>1, <1>2, <3>1, SameTarget
  <2>9. UntilHere'
    BY <1>1, <1>2, <1>6, <2>8, SameRows DEF UntilHere
  <2>10. InPass'
    BY <2>3, <2>7 DEF InPass
  <2> QED BY <1>6, <2>4, <2>9, <2>10 DEF DInv, SplitsAreSound
<1> QED BY <1>3, <1>5, <1>6

LEMMA StartPassStep == ASSUME DInv, StartPass PROVE DInv'
<1>1. PICK t : t = turn.target
  OBVIOUS
<1>2. /\ splitting = "pass" /\ groups \in Table /\ allocations \in Table
      /\ desired \in [Target -> Nat] /\ turn \in [target : Target, left : SUBSET Segment]
      /\ \A s \in Segment, u \in Target : groups[s][u] # 1
      /\ desired \in Draw /\ ~ DrawRaises /\ Allocated(t) /\ t \in Target
      /\ \A u \in Target : Untouched(u) \/ Fulfilled(u) \/ u = t
  BY <1>1 DEF DInv, StartPass, UntilHere, InPass, SplitWellTyped
<1>3. UNCHANGED <<dates, groups, mode, cut, desired, allocations>>
  BY DEF StartPass
<1>4. \A u \in Target : /\ Untouched(u)' <=> Untouched(u)
                        /\ Allocated(u)' <=> Allocated(u)
                        /\ Fulfilled(u)' <=> Fulfilled(u)
                        /\ GroupsOf(u)' = GroupsOf(u)
  BY <1>3, SameTarget
<1>5. InAll(allocations, t) \in Nat /\ desired[t] \in Nat
  BY <1>2, InAllIs
<1>6. CASE Remaining(t) = 0 /\ splitting' = "target" /\ UNCHANGED turn
  <2>1. Fulfilled(t)
    BY <1>2, <1>5, <1>6 DEF Remaining, Fulfilled
  <2>2. UntilHere'
    BY <1>2, <1>3, <1>4, <1>6, <2>1, SameRows DEF UntilHere
  <2>3. SplitWellTyped'
    BY <1>3, <1>6 DEF DInv, SplitWellTyped
  <2> QED BY <1>6, <2>2, <2>3 DEF DInv, InPass, SplitsAreSound
<1>7. CASE Remaining(t) > 0 /\ turn' = [turn EXCEPT !.left = GroupsOf(t)] /\ UNCHANGED splitting
  <2>1. turn'.target = t /\ turn'.left = GroupsOf(t)
        /\ turn' \in [target : Target, left : SUBSET Segment]
    BY <1>1, <1>2, <1>7 DEF GroupsOf
  <2>2. UntilHere'
    BY <1>2, <1>3, <1>4, <1>7, <2>1, SameRows DEF UntilHere
  <2>3. SplitWellTyped'
    BY <1>3, <2>1 DEF DInv, SplitWellTyped
  <2>4. InPass'
    BY <1>2, <1>3, <1>4, <1>7, <2>1 DEF InPass, Remaining
  <2> QED BY <1>2, <1>7, <2>2, <2>3, <2>4 DEF DInv, SplitsAreSound
<1>8. ASSUME Remaining(t) > 0, \A s \in GroupsOf(t) : allocations[s][t] >= Capacity(s, t)
      PROVE  FALSE
  <2>1. Most(t) \in Nat /\ Most(t) <= InAll(allocations, t)
    BY <1>2, <1>8, FullIsMost
  <2>2. desired[t] <= Most(t) /\ desired[t] - InAll(allocations, t) > 0
    BY <1>2, <1>8 DEF Allocated, Remaining
  <2> QED BY <1>5, <2>1, <2>2
<1> QED BY <1>1, <1>6, <1>7, <1>8 DEF StartPass

LEMMA FinishCompositeStep == ASSUME DInv, FinishComposite PROVE DInv'
<1>1. /\ splitting = "target" /\ groups \in Table /\ allocations \in Table
      /\ desired \in [Target -> Nat] /\ desired \in Draw /\ ~ DrawRaises
      /\ \A t \in Target : Untouched(t) \/ Fulfilled(t)
  BY DEF DInv, FinishComposite, UntilHere, SplitWellTyped
<1>2. /\ Unallocated = {} /\ splitting' = "composite"
      /\ UNCHANGED <<dates, groups, mode, cut, desired, allocations, turn>>
  BY DEF FinishComposite
<1>3. ASSUME NEW t \in Target
      PROVE  /\ \A s \in Segment : groups[s][t] > 0 =>
                  allocations[s][t] >= 1 /\ allocations[s][t] < groups[s][t]
             /\ InAll(allocations, t) = desired[t]
  <2>1. CASE Fulfilled(t)
    BY <2>1 DEF Fulfilled, Allocated
  <2>2. CASE Untouched(t)
    <3>1. desired[t] = 0
      <4>1. \A s \in GroupsOf(t) : allocations[s][t] = 0
        BY <2>2 DEF Untouched, GroupsOf
      <4>2. ~ desired[t] > 0
        BY <1>2, <4>1 DEF Unallocated
      <4> QED BY <1>1, <4>2
    <3>2. \A s \in Segment : ~ groups[s][t] > 0
      <4>1. ~ Total(t) > 0
        BY <1>1, <3>1, DrawnOfEach
      <4>2. Total(t) \in Nat /\ \A s \in Segment : groups[s][t] <= Total(t)
        BY <1>1, InAllIs DEF Total
      <4>3. \A s \in Segment : groups[s][t] \in Nat
        BY <1>1, GroupsHaveRows
      <4> QED BY <4>1, <4>2, <4>3
    <3>3. InAll(allocations, t) = InAll(groups, t)
      <4>1. \A s \in Segment : allocations[s][t] = groups[s][t]
        <5>1. \A s \in Segment : groups[s][t] \in Nat /\ allocations[s][t] = 0
          BY <1>1, <2>2, GroupsHaveRows DEF Untouched
        <5> QED BY <3>2, <5>1
      <4> QED BY <1>1, <4>1, InAllAlike
    <3>4. InAll(groups, t) = 0
      <4>1. Total(t) \in Nat /\ ~ Total(t) > 0
        BY <1>1, <3>1, DrawnOfEach, InAllIs DEF Total
      <4> QED BY <4>1 DEF Total
    <3> QED BY <3>1, <3>2, <3>3, <3>4
  <2> QED BY <1>1, <2>1, <2>2
<1>4. Fair(allocations)
  BY <1>3 DEF Fair
<1>5. Fair(allocations)'
  BY <1>2, <1>4 DEF Fair
<1>6. SplitWellTyped'
  BY <1>2 DEF DInv, SplitWellTyped
<1> QED BY <1>2, <1>5, <1>6 DEF DInv, UntilHere, InPass, SplitsAreSound

LEMMA VisitGroupStep == ASSUME DInv, VisitGroup PROVE DInv'
<1>1. PICK t : t = turn.target
  OBVIOUS
<1>2. /\ splitting = "pass" /\ groups \in Table /\ allocations \in Table
      /\ desired \in [Target -> Nat] /\ turn \in [target : Target, left : SUBSET Segment]
      /\ \A s \in Segment, u \in Target : groups[s][u] # 1
      /\ desired \in Draw /\ ~ DrawRaises /\ Allocated(t) /\ t \in Target
      /\ \A u \in Target : Untouched(u) \/ Fulfilled(u) \/ u = t
      /\ turn.left \subseteq GroupsOf(t) /\ (turn.left # {} => Remaining(t) > 0)
  BY <1>1 DEF DInv, VisitGroup, UntilHere, InPass, SplitWellTyped
<1>3. UNCHANGED <<dates, groups, mode, cut, desired, splitting>>
  BY DEF VisitGroup
<1>4. PICK s \in turn.left :
        /\ allocations' = IF allocations[s][t] < Capacity(s, t)
                          THEN [allocations EXCEPT ![s][t] = @ + 1] ELSE allocations
        /\ turn' = [turn EXCEPT !.left =
             IF InAll(allocations', t) = desired[t] THEN {} ELSE @ \ {s}]
  BY <1>1 DEF VisitGroup
<1>5. /\ s \in Segment /\ groups[s][t] > 0 /\ groups[s][t] \in Nat /\ Remaining(t) > 0
      /\ allocations[s][t] \in Nat
  BY <1>2, GroupsHaveRows DEF Table, GroupsOf
<1>6. InAll(allocations, t) \in Nat /\ desired[t] \in Nat
      /\ desired[t] - InAll(allocations, t) > 0
  BY <1>2, <1>5, InAllIs DEF Remaining
<1>7. /\ allocations' \in Table
      /\ \A r \in Segment : \A u \in Target : r # s \/ u # t =>
           allocations'[r][u] = allocations[r][u]
      /\ allocations'[s][t] = IF allocations[s][t] < Capacity(s, t)
                              THEN allocations[s][t] + 1 ELSE allocations[s][t]
  <2>1. CASE allocations[s][t] < Capacity(s, t)
    <3>1. allocations' = [allocations EXCEPT ![s][t] = allocations[s][t] + 1]
      BY <1>4, <2>1
    <3> QED BY <1>2, <1>5, <2>1, <3>1 DEF Table
  <2>2. CASE ~ allocations[s][t] < Capacity(s, t)
    BY <1>2, <1>4, <2>2
  <2> QED BY <2>1, <2>2
<1>8. /\ InAll(allocations', t) \in Nat
      /\ InAll(allocations', t) <= desired[t]
  <2>1. CASE allocations[s][t] < Capacity(s, t)
    <3>1. allocations'[s][t] = allocations[s][t] + 1
          /\ \A r \in Segment \ {s} : allocations'[r][t] = allocations[r][t]
      BY <1>2, <1>7, <2>1
    <3>2. InAll(allocations', t) = InAll(allocations, t) + 1
      BY <1>2, <1>5, <1>7, <3>1, InAllOneMore
    <3> QED BY <1>6, <3>2
  <2>2. CASE ~ allocations[s][t] < Capacity(s, t)
    <3>1. allocations' = allocations
      BY <1>4, <2>2
    <3> QED BY <1>6, <3>1
  <2> QED BY <2>1, <2>2
<1>9. \A r \in Segment :
        IF groups[r][t] > 0 THEN allocations'[r][t] >= 1 /\ allocations'[r][t] < groups[r][t]
        ELSE allocations'[r][t] = 0
  <2> TAKE r \in Segment
  <2>1. IF groups[r][t] > 0 THEN allocations[r][t] >= 1 /\ allocations[r][t] < groups[r][t]
        ELSE allocations[r][t] = 0
    BY <1>2 DEF Allocated
  <2>2. CASE r = s
    BY <1>5, <1>7, <2>1, <2>2 DEF Capacity
  <2>3. CASE r # s
    BY <1>2, <1>7, <2>1, <2>3
  <2> QED BY <2>2, <2>3
<1>10. Allocated(t)'
  <2>1. desired[t] <= Most(t)
    BY <1>2 DEF Allocated
  <2> QED BY <1>2, <1>3, <1>8, <1>9, <2>1, SameRows DEF Allocated
<1>11. /\ turn'.target = t /\ turn' \in [target : Target, left : SUBSET Segment]
       /\ turn'.left = IF InAll(allocations', t) = desired[t] THEN {} ELSE turn.left \ {s}
  BY <1>1, <1>2, <1>4
<1>12. \A u \in Target : Untouched(u)' \/ Fulfilled(u)' \/ u = t
  <2> SUFFICES ASSUME NEW u \in Target, u # t
               PROVE  Untouched(u)' \/ Fulfilled(u)'
    OBVIOUS
  <2>1. \A r \in Segment : allocations'[r][u] = allocations[r][u]
    BY <1>7
  <2> QED BY <1>2, <1>3, <2>1, SameTarget
<1>13. SplitWellTyped'
  BY <1>3, <1>7, <1>11 DEF DInv, SplitWellTyped
<1>14. UntilHere'
  BY <1>2, <1>3, <1>11, <1>12, SameRows DEF UntilHere
<1>15. InPass'
  <2>1. turn'.left \subseteq GroupsOf(t)'
    BY <1>2, <1>3, <1>11, SameRows
  <2>2. turn'.left # {} => desired[t] - InAll(allocations', t) > 0
    BY <1>6, <1>8, <1>11
  <2> QED BY <1>3, <1>10, <1>11, <2>1, <2>2 DEF InPass, Remaining
<1> QED BY <1>2, <1>3, <1>13, <1>14, <1>15 DEF DInv, SplitsAreSound

LEMMA NextSplitInv == DInv /\ [SplitNext]_splitVars => DInv'
<1> SUFFICES ASSUME DInv, [SplitNext]_splitVars
             PROVE  DInv'
  OBVIOUS
<1>1. CASE SplitNext
  BY <1>1, ByTimeStep, StartStratifiedStep, StartTargetStep, StartPassStep, VisitGroupStep,
     FinishCompositeStep DEF SplitNext
<1>2. CASE UNCHANGED splitVars
  <2>1. UNCHANGED <<dates, groups, mode, cut, desired, allocations, turn, splitting>>
    BY <1>2 DEF splitVars
  <2>2. SplitWellTyped'
    BY <2>1 DEF DInv, SplitWellTyped
  <2>3. UntilHere' /\ InPass'
    <3>1. \A t \in Target : /\ Untouched(t)' <=> Untouched(t)
                            /\ Fulfilled(t)' <=> Fulfilled(t)
                            /\ Allocated(t)' <=> Allocated(t)
                            /\ GroupsOf(t)' = GroupsOf(t)
      BY <2>1, SameTarget
    <3>2. turn.target \in Target
      BY DEF DInv, SplitWellTyped
    <3>3. Remaining(turn.target)' = Remaining(turn.target)
      BY <2>1 DEF Remaining
    <3> QED BY <2>1, <3>1, <3>2, <3>3, SameRows DEF DInv, UntilHere, InPass
  <2>4. SplitsAreSound'
    BY <2>1 DEF DInv, SplitsAreSound, Fair, FairExists, Usable, Slice
  <2> QED BY <2>2, <2>3, <2>4 DEF DInv
<1> QED BY <1>1, <1>2

\* Every state of a division, of any number of rows among any number of segments: an
\* allocation is fair so far and can reach what was drawn.
THEOREM SplitInvariance == SplitSpec => []DInv
<1> QED BY SplitInitially, NextSplitInv, PTL DEF SplitSpec

\* The split by segment and target leaves rows of each group on both sides and keeps the
\* share of each target, and the run settles for less only where no split does; a split
\* by time has rows in its three parts.
THEOREM SplitsStaySound == SplitSpec => []SplitsAreSound
<1>1. DInv => SplitsAreSound
  BY DEF DInv
<1> QED BY <1>1, SplitInvariance, PTL

(***************************************************************************)
(* RuleSelection: any number of features, conditions and rows.  Ranked is  *)
(* an order because the fractions and, between equals, the texts compared  *)
(* are; the beam and the passes are right for any lists of candidates.     *)
(***************************************************************************)

\* A strict total order on a set, as a set of pairs.
Orders(R, S) ==
  /\ \A x \in S : <<x, x>> \notin R
  /\ \A x, y, z \in S : <<x, y>> \in R /\ <<y, z>> \in R => <<x, z>> \in R
  /\ \A x, y \in S : x # y => <<x, y>> \in R \/ <<y, x>> \in R

Above(R, S, x) == {y \in S : <<y, x>> \in R}

\* The elements of a set one after the other, each once.
Lists(R, S, q) ==
  /\ q \in Seq(S) /\ Len(q) = Cardinality(S) /\ Len(q) \in Nat
  /\ \A x \in S : \E i \in 1..Len(q) : q[i] = x
  /\ \A i, j \in 1..Len(q) : i < j <=> <<q[i], q[j]>> \in R
  /\ \A i, j \in 1..Len(q) : q[i] = q[j] => i = j

\* Of two elements the later has more above it.
LEMMA AboveGrows ==
  ASSUME NEW R, NEW S, IsFiniteSet(S), Orders(R, S), NEW x \in S, NEW y \in S,
         <<x, y>> \in R
  PROVE  Cardinality(Above(R, S, x)) < Cardinality(Above(R, S, y))
<1>1. /\ Above(R, S, x) \subseteq S /\ Above(R, S, y) \subseteq S
      /\ x \in Above(R, S, y) /\ x \notin Above(R, S, x)
      /\ Above(R, S, x) \subseteq Above(R, S, y)
  BY DEF Above, Orders
<1>2. IsFiniteSet(Above(R, S, x)) /\ IsFiniteSet(Above(R, S, y))
  BY <1>1, FS_Subset
<1>3. Cardinality(Above(R, S, x) \cup {x}) = Cardinality(Above(R, S, x)) + 1
  BY <1>1, <1>2, FS_AddElement
<1>4. Above(R, S, x) \cup {x} \in SUBSET Above(R, S, y)
  BY <1>1
<1>5. Cardinality(Above(R, S, x) \cup {x}) <= Cardinality(Above(R, S, y))
  BY <1>2, <1>4, FS_Subset
<1> QED
  BY <1>2, <1>3, <1>5, FS_CardinalityType

\* So every rank from none to all but one is that of one element.
LEMMA RanksAre ==
  ASSUME NEW R, NEW S, IsFiniteSet(S), Orders(R, S)
  PROVE  /\ Cardinality(S) \in Nat
         /\ \A x \in S : Cardinality(Above(R, S, x)) \in 0..(Cardinality(S) - 1)
         /\ \A x, y \in S :
              <<x, y>> \in R <=> Cardinality(Above(R, S, x)) < Cardinality(Above(R, S, y))
         /\ \A i \in 1..Cardinality(S) : \E x \in S : Cardinality(Above(R, S, x)) = i - 1
<1> DEFINE n == Cardinality(S)
           rank == [x \in S |-> Cardinality(Above(R, S, x))]
<1>1. n \in Nat
  BY FS_CardinalityType
<1>2. \A x \in S : rank[x] \in 0..(n - 1)
  <2> TAKE x \in S
  <2>1. Above(R, S, x) \in SUBSET (S \ {x})
    BY DEF Above, Orders
  <2>2. IsFiniteSet(S \ {x}) /\ Cardinality(S \ {x}) = n - 1
    BY FS_RemoveElement
  <2>3. IsFiniteSet(Above(R, S, x)) /\ Cardinality(Above(R, S, x)) <= n - 1
    BY <2>1, <2>2, FS_Subset
  <2> QED BY <1>1, <2>3, FS_CardinalityType
<1>3. \A x, y \in S : <<x, y>> \in R => rank[x] < rank[y]
  BY AboveGrows
<1>4. \A x, y \in S : <<x, y>> \in R <=> rank[x] < rank[y]
  <2> TAKE x, y \in S
  <2>1. x = y \/ <<x, y>> \in R \/ <<y, x>> \in R
    BY DEF Orders
  <2>2. rank[x] \in Int /\ rank[y] \in Int
    BY <1>1, <1>2
  <2> HIDE DEF rank
  <2> QED BY <1>3, <2>1, <2>2
<1>5. \A x, y \in S : rank[x] = rank[y] => x = y
  <2> TAKE x, y \in S
  <2>1. x = y \/ <<x, y>> \in R \/ <<y, x>> \in R
    BY DEF Orders
  <2>2. rank[x] \in Int /\ rank[y] \in Int
    BY <1>1, <1>2
  <2> HIDE DEF rank
  <2> QED BY <1>3, <2>1, <2>2
<1>6. rank \in Injection(S, 0..(n - 1))
  <2>1. rank \in [S -> 0..(n - 1)]
    BY <1>2
  <2> HIDE DEF rank
  <2> QED BY <1>5, <2>1 DEF Injection, IsInjective
<1>7. IsFiniteSet(0..(n - 1)) /\ Cardinality(0..(n - 1)) = n
  <2>1. n - 1 \in Int /\ (0 > n - 1 <=> n = 0)
    BY <1>1
  <2> HIDE DEF n
  <2> QED BY <1>1, <2>1, FS_Interval
<1>8. rank \in Surjection(S, 0..(n - 1))
  <2> HIDE DEF rank
  <2> QED BY <1>6, <1>7, FS_Injection
<1>9. \A i \in 1..n : \E x \in S : rank[x] = i - 1
  <2> TAKE i \in 1..n
  <2>1. i - 1 \in 0..(n - 1)
    BY <1>1
  <2> HIDE DEF rank
  <2> QED BY <1>8, <2>1 DEF Surjection
<1> QED
  BY <1>1, <1>2, <1>4, <1>9

\* A sequence of the elements by their ranks lists them.
LEMMA ByRankLists ==
  ASSUME NEW R, NEW S, IsFiniteSet(S), Orders(R, S), NEW q,
         q = [i \in 1..Cardinality(S) |-> q[i]],
         \A i \in 1..Cardinality(S) :
           q[i] \in S /\ Cardinality(Above(R, S, q[i])) = i - 1
  PROVE  Lists(R, S, q)
<1>1. Cardinality(S) \in Nat
  BY RanksAre
<1>2. q \in Seq(S) /\ Len(q) = Cardinality(S)
  <2>1. q \in [1..Cardinality(S) -> S]
    OBVIOUS
  <2> QED BY <1>1, <2>1
<1>3. \A x \in S : \E i \in 1..Len(q) : q[i] = x
  <2> TAKE x \in S
  <2> DEFINE i == Cardinality(Above(R, S, x)) + 1
  <2>1. i \in 1..Cardinality(S) /\ i - 1 = Cardinality(Above(R, S, x))
    BY <1>1, RanksAre
  <2>2. q[i] \in S /\ Cardinality(Above(R, S, q[i])) = Cardinality(Above(R, S, x))
    BY <2>1
  <2>3. Cardinality(Above(R, S, x)) \in 0..(Cardinality(S) - 1)
    BY RanksAre
  <2>4. /\ <<q[i], x>> \notin R /\ <<x, q[i]>> \notin R
    BY <1>1, <2>2, <2>3, RanksAre
  <2>5. q[i] = x
    BY <2>2, <2>4 DEF Orders
  <2> QED BY <1>2, <2>1, <2>5
<1>4. \A i, j \in 1..Len(q) : i < j <=> <<q[i], q[j]>> \in R
  <2> TAKE i, j \in 1..Len(q)
  <2>1. /\ q[i] \in S /\ Cardinality(Above(R, S, q[i])) = i - 1
        /\ q[j] \in S /\ Cardinality(Above(R, S, q[j])) = j - 1
    BY <1>2
  <2>2. <<q[i], q[j]>> \in R <=> i - 1 < j - 1
    BY <2>1, RanksAre
  <2> QED BY <1>1, <1>2, <2>2
<1>5. \A i, j \in 1..Len(q) : q[i] = q[j] => i = j
  <2> TAKE i, j \in 1..Len(q)
  <2>1. /\ Cardinality(Above(R, S, q[i])) = i - 1
        /\ Cardinality(Above(R, S, q[j])) = j - 1
    BY <1>2
  <2> QED BY <1>1, <1>2, <2>1
<1> QED
  BY <1>1, <1>2, <1>3, <1>4, <1>5 DEF Lists

LEMMA LessByAPart ==
  ASSUME NEW a \in Int, NEW b \in Int, NEW n \in Nat, NEW i \in 0..(n - 1),
         NEW j \in 0..(n - 1), a < b
  PROVE  a * n + i < b * n + j
<1>1. PICK k \in Nat : b = a + 1 + k
  <2>1. b - a - 1 \in Nat /\ b = a + 1 + (b - a - 1)
    OBVIOUS
  <2> QED BY <2>1
<1>2. b * n = a * n + n + k * n
  BY <1>1
<1>3. k * n >= 0 /\ k * n \in Int /\ a * n \in Int
  BY <1>1
<1> QED BY <1>2, <1>3

LEMMA PartsAreTold ==
  ASSUME NEW a \in Int, NEW b \in Int, NEW n \in Nat, NEW i \in 0..(n - 1),
         NEW j \in 0..(n - 1), a * n + i = b * n + j
  PROVE  a = b /\ i = j
<1>1. a * n + i \in Int /\ b * n + j \in Int /\ a * n \in Int
  OBVIOUS
<1>2. ~ a < b
  BY <1>1, LessByAPart
<1>3. ~ b < a
  BY <1>1, LessByAPart
<1>4. a = b
  BY <1>2, <1>3
<1> QED BY <1>1, <1>4

LEMMA ConditionHas ==
  ASSUME NEW c \in Condition
  PROVE  /\ c.feature \in 1..(Base - 1) /\ c.operator \in {0, 1}
         /\ c.value \in 0..(Base - 1)
         /\ c = [feature |-> c.feature, operator |-> c.operator, value |-> c.value]
BY SelectionAssumption DEF Condition

\* The text of a condition tells it.
LEMMA OrdinalsAre ==
  /\ \A c \in Condition : Ordinal(c) \in 0..(2 * Base * Base - 1)
  /\ \A c, d \in Condition : Ordinal(c) = Ordinal(d) => c = d
<1>1. Base \in Nat
  BY SelectionAssumption
<1>2. ASSUME NEW c \in Condition
      PROVE  /\ 2 * c.feature + c.operator \in 0..(2 * Base - 1)
             /\ 2 * c.feature + c.operator \in Int
  BY <1>1, ConditionHas
<1>3. ASSUME NEW c \in Condition
      PROVE  Ordinal(c) \in 0..(2 * Base * Base - 1)
  <2>1. PICK m \in 0..(2 * Base - 1) : m = 2 * c.feature + c.operator
    BY <1>2
  <2>2. PICK v \in 0..(Base - 1) : v = c.value
    BY ConditionHas
  <2>3. Ordinal(c) = m * Base + v
    BY <2>1, <2>2 DEF Ordinal
  <2>4. m < 2 * Base /\ m \in Int /\ 2 * Base \in Int /\ 0 \in 0..(Base - 1)
    BY <1>1, <2>2
  <2>5. m * Base + v < (2 * Base) * Base + 0
    BY <1>1, <2>4, LessByAPart
  <2>6. m * Base \in Int /\ m * Base >= 0
    BY <1>1
  <2>7. (2 * Base) * Base = 2 * Base * Base /\ (2 * Base) * Base \in Int
    BY <1>1
  <2> QED BY <1>1, <2>3, <2>5, <2>6, <2>7
<1>4. ASSUME NEW c \in Condition, NEW d \in Condition, Ordinal(c) = Ordinal(d)
      PROVE  c = d
  <2>1. PICK f \in Int, o \in {0, 1}, v \in 0..(Base - 1) :
          f = c.feature /\ o = c.operator /\ v = c.value
    BY <1>1, ConditionHas
  <2>2. PICK g \in Int, p \in {0, 1}, w \in 0..(Base - 1) :
          g = d.feature /\ p = d.operator /\ w = d.value
    BY <1>1, ConditionHas
  <2>3. (2 * f + o) * Base + v = (2 * g + p) * Base + w
    BY <1>4, <2>1, <2>2 DEF Ordinal
  <2>4. 2 * f + o \in Int /\ 2 * g + p \in Int
    OBVIOUS
  <2>5. 2 * f + o = 2 * g + p /\ v = w
    BY <1>1, <2>3, <2>4, PartsAreTold
  <2>6. f = g /\ o = p
    BY <2>5
  <2> QED BY <2>1, <2>2, <2>5, <2>6, ConditionHas
<1> QED BY <1>3, <1>4

\* Rules of one condition or of two.
Brief == {rule \in SUBSET Condition : \E c, d \in Condition : rule = {c, d}}

\* The text of a rule tells it.
LEMMA ExpressionsAre ==
  ASSUME NEW a \in Brief, NEW b \in Brief, Expression(a) = Expression(b)
  PROVE  a = b
<1> DEFINE n == 2 * Base * Base
           Lowest(texts) == CHOOSE k \in texts : \A l \in texts : k <= l
           Highest(texts)  == CHOOSE k \in texts : \A l \in texts : l <= k
<1>1. n \in Nat /\ Base \in Nat
  BY SelectionAssumption
<1>2. ASSUME NEW r \in Brief
      PROVE  \E i, j \in 0..(n - 1) :
               /\ Expression(r) = i * n + j
               /\ \A c \in Condition : c \in r <=> Ordinal(c) \in {i, j}
  <2>1. PICK c, d \in Condition : r = {c, d}
    BY DEF Brief
  <2> DEFINE texts == {Ordinal(e) : e \in r}
  <2>2. texts = {Ordinal(c), Ordinal(d)}
    BY <2>1
  <2>3. Ordinal(c) \in 0..(n - 1) /\ Ordinal(d) \in 0..(n - 1)
    BY OrdinalsAre
  <2>4. PICK i \in texts : i = Lowest(texts) /\ \A l \in texts : i <= l
    <3>1. \E k \in {Ordinal(c), Ordinal(d)} : \A l \in {Ordinal(c), Ordinal(d)} : k <= l
      BY <1>1, <2>3
    <3>2. \E k \in texts : \A l \in texts : k <= l
      BY <2>2, <3>1
    <3> HIDE DEF texts
    <3> QED BY <3>2
  <2>5. PICK j \in texts : j = Highest(texts) /\ \A l \in texts : l <= j
    <3>1. \E k \in {Ordinal(c), Ordinal(d)} : \A l \in {Ordinal(c), Ordinal(d)} : l <= k
      BY <1>1, <2>3
    <3>2. \E k \in texts : \A l \in texts : l <= k
      BY <2>2, <3>1
    <3> HIDE DEF texts
    <3> QED BY <3>2
  <2>6. i \in 0..(n - 1) /\ j \in 0..(n - 1)
    BY <2>2, <2>3, <2>4, <2>5
  <2>7. {i, j} = {Ordinal(c), Ordinal(d)}
    <3>1. \A l \in {Ordinal(c), Ordinal(d)} : l \in Int /\ i <= l /\ l <= j
      <4> HIDE DEF texts, n
      <4> QED BY <1>1, <2>2, <2>3, <2>4, <2>5
    <3>2. i \in {Ordinal(c), Ordinal(d)} /\ j \in {Ordinal(c), Ordinal(d)}
      BY <2>2
    <3> HIDE DEF texts
    <3> QED BY <3>1, <3>2
  <2>8. Expression(r) = i * n + j
    <3>1. Expression(r) = Lowest(texts) * 2 * Base * Base + Highest(texts)
      BY DEF Expression
    <3>2. i * 2 * Base * Base = i * n
      BY <1>1, <2>6
    <3> HIDE DEF texts, Lowest, Highest, n
    <3> QED BY <2>4, <2>5, <3>1, <3>2
  <2>9. \A e \in Condition : e \in r <=> Ordinal(e) \in {i, j}
    BY <2>1, <2>7, OrdinalsAre
  <2> QED BY <2>6, <2>8, <2>9
<1>3. PICK i, j \in 0..(n - 1) :
        /\ Expression(a) = i * n + j
        /\ \A c \in Condition : c \in a <=> Ordinal(c) \in {i, j}
  BY <1>2
<1>4. PICK k, l \in 0..(n - 1) :
        /\ Expression(b) = k * n + l
        /\ \A c \in Condition : c \in b <=> Ordinal(c) \in {k, l}
  BY <1>2
<1>5. i = k /\ j = l
  <2>1. i \in Int /\ k \in Int
    BY <1>1
  <2>2. i * n + j = k * n + l
    BY <1>3, <1>4
  <2> HIDE DEF n
  <2> QED BY <1>1, <2>1, <2>2, PartsAreTold
<1>6. a \subseteq Condition /\ b \subseteq Condition
  BY DEF Brief
<1> QED BY <1>3, <1>4, <1>5, <1>6

LEMMA ExpressionIsInt ==
  ASSUME NEW a \in Brief
  PROVE  Expression(a) \in Int
<1> DEFINE Lowest(texts) == CHOOSE k \in texts : \A l \in texts : k <= l
           Highest(texts)  == CHOOSE k \in texts : \A l \in texts : l <= k
           texts == {Ordinal(e) : e \in a}
<1>1. PICK c, d \in Condition : a = {c, d}
  BY DEF Brief
<1>2. texts = {Ordinal(c), Ordinal(d)} /\ Base \in Int
  BY <1>1, SelectionAssumption
<1>3. Ordinal(c) \in Int /\ Ordinal(d) \in Int
  <2>1. 2 * Base * Base \in Int
    BY <1>2
  <2> QED BY <2>1, OrdinalsAre
<1>4. Lowest(texts) \in Int /\ Highest(texts) \in Int
  <2>1. \E k \in {Ordinal(c), Ordinal(d)} : \A l \in {Ordinal(c), Ordinal(d)} : k <= l
    BY <1>3
  <2>2. \E k \in {Ordinal(c), Ordinal(d)} : \A l \in {Ordinal(c), Ordinal(d)} : l <= k
    BY <1>3
  <2>3. /\ \E k \in texts : \A l \in texts : k <= l
        /\ \E k \in texts : \A l \in texts : l <= k
    BY <1>2, <2>1, <2>2
  <2>4. \A k \in texts : k \in Int
    BY <1>2, <1>3
  <2> HIDE DEF texts
  <2> QED BY <2>3, <2>4
<1>5. Expression(a) = Lowest(texts) * 2 * Base * Base + Highest(texts)
  BY DEF Expression
<1> HIDE DEF Lowest, Highest, texts
<1> QED BY <1>2, <1>4, <1>5

LEMMA TimesKeepsLess ==
  ASSUME NEW i \in Int, NEW j \in Int, NEW k \in Nat \ {0}
  PROVE  /\ i < j => i * k < j * k
         /\ i <= j => i * k <= j * k
         /\ i * k \in Int
<1>1. i * k \in Int /\ j * k \in Int
  OBVIOUS
<1>2. ASSUME i < j
      PROVE  i * k < j * k
  <2>1. PICK m \in Nat \ {0} : j = i + m
    <3>1. j - i \in Nat \ {0} /\ j = i + (j - i)
      BY <1>2
    <3> QED BY <3>1
  <2>2. j * k = i * k + m * k /\ m * k > 0 /\ m * k \in Int
    BY <2>1
  <2> QED BY <1>1, <2>2
<1>3. ASSUME i <= j
      PROVE  i * k <= j * k
  <2>1. CASE i = j
    BY <1>1, <2>1
  <2>2. CASE i < j
    BY <1>1, <1>2, <2>2
  <2> QED BY <1>3, <2>1, <2>2
<1> QED BY <1>1, <1>2, <1>3

\* Fractions, as the rank compares them.
LEMMA FractionsAreOrdered ==
  ASSUME NEW ha \in Nat, NEW hb \in Nat, NEW hc \in Nat,
         NEW na \in Nat \ {0}, NEW nb \in Nat \ {0}, NEW nc \in Nat \ {0},
         ha * nb >= hb * na, hb * nc >= hc * nb
  PROVE  /\ ha * nc >= hc * na
         /\ ha * nc = hc * na => ha * nb = hb * na /\ hb * nc = hc * nb
<1> DEFINE ab == ha * nb  ba == hb * na  bc == hb * nc  cb == hc * nb
           ac == ha * nc  ca == hc * na
<1>1. ab \in Int /\ ba \in Int /\ bc \in Int /\ cb \in Int /\ ac \in Int /\ ca \in Int
  OBVIOUS
<1>2. ab * nc = ac * nb /\ ba * nc = bc * na /\ cb * na = ca * nb
  OBVIOUS
<1>3. ba <= ab /\ cb <= bc
  OBVIOUS
<1> HIDE DEF ab, ba, bc, cb, ac, ca
<1>4. ba * nc <= ab * nc /\ cb * na <= bc * na
  BY <1>1, <1>3, TimesKeepsLess
<1>5. ca * nb <= ac * nb
  <2>1. \A i, j \in Int, k \in Nat \ {0} : i * k \in Int
    BY TimesKeepsLess
  <2>2. /\ ba * nc \in Int /\ ab * nc \in Int /\ cb * na \in Int /\ bc * na \in Int
    BY <1>1, <2>1
  <2> QED BY <1>2, <1>4, <2>2
<1>6. ~ ac < ca
  <2>1. ac < ca => ac * nb < ca * nb
    BY <1>1, TimesKeepsLess
  <2>2. ac * nb \in Int /\ ca * nb \in Int
    BY <1>1, TimesKeepsLess
  <2> QED BY <1>5, <2>1, <2>2
<1>7. ASSUME ac = ca
      PROVE  ab = ba /\ bc = cb
  <2>1. /\ ba * nc \in Int /\ ab * nc \in Int /\ cb * na \in Int /\ bc * na \in Int
    BY <1>1, TimesKeepsLess
  <2>2. ab * nc = cb * na
    BY <1>2, <1>7
  <2>3. ba * nc = ab * nc /\ cb * na = bc * na
    BY <1>2, <1>4, <2>1, <2>2
  <2>4. ~ ba < ab /\ ~ cb < bc
    <3>1. /\ ba < ab => ba * nc < ab * nc
          /\ cb < bc => cb * na < bc * na
      BY <1>1, TimesKeepsLess
    <3> QED BY <2>1, <2>3, <3>1
  <2> QED BY <1>1, <1>3, <2>4
<1> QED BY <1>1, <1>6, <1>7 DEF ab, ba, bc, cb, ac, ca

\* What the rank of a rule is compared by.
Before(h, n, e, i, m, f) ==
  \/ h * m > i * n
  \/ h * m = i * n /\ n > m
  \/ h * m = i * n /\ n = m /\ e > f

LEMMA BeforeIsTransitive ==
  ASSUME NEW ha \in Nat, NEW hb \in Nat, NEW hc \in Nat,
         NEW na \in Nat \ {0}, NEW nb \in Nat \ {0}, NEW nc \in Nat \ {0},
         NEW ea \in Int, NEW eb \in Int, NEW ec \in Int,
         Before(ha, na, ea, hb, nb, eb), Before(hb, nb, eb, hc, nc, ec)
  PROVE  Before(ha, na, ea, hc, nc, ec)
<1>1. /\ ha * nb \in Int /\ hb * na \in Int /\ hb * nc \in Int /\ hc * nb \in Int
      /\ ha * nc \in Int /\ hc * na \in Int
  OBVIOUS
<1>2. ha * nb >= hb * na /\ hb * nc >= hc * nb
  BY <1>1 DEF Before
<1>3. /\ ha * nc >= hc * na
      /\ ha * nc = hc * na => ha * nb = hb * na /\ hb * nc = hc * nb
  BY <1>2, FractionsAreOrdered
<1>4. CASE ha * nc > hc * na
  BY <1>4 DEF Before
<1>5. CASE ha * nc = hc * na
  <2>1. ha * nb = hb * na /\ hb * nc = hc * nb
    BY <1>3, <1>5
  <2>2. na > nb \/ (na = nb /\ ea > eb)
    BY <1>1, <2>1 DEF Before
  <2>3. nb > nc \/ (nb = nc /\ eb > ec)
    BY <1>1, <2>1 DEF Before
  <2>4. na > nc \/ (na = nc /\ ea > ec)
    BY <2>2, <2>3
  <2> QED BY <1>5, <2>4 DEF Before
<1> QED BY <1>1, <1>3, <1>4, <1>5

LEMMA BeforeIsTotal ==
  ASSUME NEW ha \in Nat, NEW hb \in Nat, NEW na \in Nat \ {0}, NEW nb \in Nat \ {0},
         NEW ea \in Int, NEW eb \in Int
  PROVE  /\ ~ Before(ha, na, ea, ha, na, ea)
         /\ Before(ha, na, ea, hb, nb, eb) \/ Before(hb, nb, eb, ha, na, ea) \/ ea = eb
<1>1. ha * nb \in Int /\ hb * na \in Int /\ ha * na \in Int
  OBVIOUS
<1> QED BY <1>1 DEF Before

\* The order of rules that are few enough and match enough, as the state has it.
Order == {t \in Brief \X Brief : RanksAbove(t[1], t[2])}

LEMMA MasksAreFinite ==
  ASSUME NEW r
  PROVE  /\ IsFiniteSet(Mask(r)) /\ Cardinality(Mask(r)) \in Nat
         /\ Cardinality(Mask(r) \cap bad) \in Nat
<1>1. Mask(r) \in SUBSET Row /\ (Mask(r) \cap bad) \in SUBSET Row
  BY DEF Mask
<1>2. IsFiniteSet(Row)
  BY SelectionAssumption
<1> QED BY <1>1, <1>2, FS_Subset, FS_CardinalityType

LEMMA OrderIsBefore ==
  ASSUME NEW a \in Brief, NEW b \in Brief
  PROVE  <<a, b>> \in Order <=>
           Before(Cardinality(Mask(a) \cap bad), Cardinality(Mask(a)), Expression(a),
                  Cardinality(Mask(b) \cap bad), Cardinality(Mask(b)), Expression(b))
BY DEF Order, Before, RanksAbove

\* The rank is a strict total order of rules that match rows.
LEMMA RulesAreOrdered ==
  ASSUME NEW S \in SUBSET Brief, \A r \in S : Cardinality(Mask(r)) # 0
  PROVE  Orders(Order, S)
<1>1. \A r \in S : r \in Brief /\ Expression(r) \in Int
  BY ExpressionIsInt
<1>2. \A r \in S : /\ Cardinality(Mask(r)) \in Nat \ {0}
                   /\ Cardinality(Mask(r) \cap bad) \in Nat
  BY MasksAreFinite
<1>3. ASSUME NEW x \in S
      PROVE  <<x, x>> \notin Order
  <2> DEFINE h == Cardinality(Mask(x) \cap bad)  n == Cardinality(Mask(x))  e == Expression(x)
  <2>1. h \in Nat /\ n \in Nat \ {0} /\ e \in Int
    BY <1>1, <1>2
  <2>2. <<x, x>> \in Order <=> Before(h, n, e, h, n, e)
    BY <1>1, OrderIsBefore
  <2> HIDE DEF h, n, e
  <2> QED BY <2>1, <2>2, BeforeIsTotal
<1>4. ASSUME NEW x \in S, NEW y \in S, NEW z \in S, <<x, y>> \in Order, <<y, z>> \in Order
      PROVE  <<x, z>> \in Order
  <2> DEFINE h(r) == Cardinality(Mask(r) \cap bad)  n(r) == Cardinality(Mask(r))
             e(r) == Expression(r)
  <2>1. \A r \in S : h(r) \in Nat /\ n(r) \in Nat \ {0} /\ e(r) \in Int
    BY <1>1, <1>2
  <2>2. /\ Before(h(x), n(x), e(x), h(y), n(y), e(y))
        /\ Before(h(y), n(y), e(y), h(z), n(z), e(z))
    BY <1>1, <1>4, OrderIsBefore
  <2>3. Before(h(x), n(x), e(x), h(z), n(z), e(z)) => <<x, z>> \in Order
    BY <1>1, OrderIsBefore
  <2> HIDE DEF h, n, e
  <2> QED BY <2>1, <2>2, <2>3, BeforeIsTransitive
<1>5. ASSUME NEW x \in S, NEW y \in S, x # y
      PROVE  <<x, y>> \in Order \/ <<y, x>> \in Order
  <2>1. Expression(x) # Expression(y)
    BY <1>1, <1>5, ExpressionsAre
  <2> QED BY <1>1, <1>2, <2>1, BeforeIsTotal, OrderIsBefore
<1> QED BY <1>3, <1>4, <1>5 DEF Orders

\* So Ranked lists them.
LEMMA RankedLists ==
  ASSUME NEW S \in SUBSET Brief, IsFiniteSet(S), \A r \in S : Cardinality(Mask(r)) # 0
  PROVE  Lists(Order, S, Ranked(S))
<1>1. Orders(Order, S)
  BY RulesAreOrdered
<1>2. ASSUME NEW r \in S
      PROVE  {s \in S : RanksAbove(s, r)} = Above(Order, S, r)
  BY DEF Above, Order
<1>3. ASSUME NEW i \in 1..Cardinality(S)
      PROVE  /\ Ranked(S)[i] \in S
             /\ Cardinality(Above(Order, S, Ranked(S)[i])) = i - 1
  <2>1. \E r \in S : Cardinality({s \in S : RanksAbove(s, r)}) = i - 1
    <3>1. PICK r \in S : Cardinality(Above(Order, S, r)) = i - 1
      BY <1>1, RanksAre
    <3> QED BY <1>2, <3>1
  <2>2. Ranked(S)[i] = CHOOSE r \in S : Cardinality({s \in S : RanksAbove(s, r)}) = i - 1
    BY DEF Ranked
  <2>3. /\ Ranked(S)[i] \in S
        /\ Cardinality({s \in S : RanksAbove(s, Ranked(S)[i])}) = i - 1
    BY <2>1, <2>2
  <2> QED BY <1>2, <2>3
<1>4. Ranked(S) = [i \in 1..Cardinality(S) |-> Ranked(S)[i]]
  <2> DEFINE Nth(i) == CHOOSE r \in S : Cardinality({s \in S : RanksAbove(s, r)}) = i - 1
             f == [i \in 1..Cardinality(S) |-> Nth(i)]
  <2>1. Ranked(S) = f
    BY DEF Ranked
  <2> HIDE DEF Nth
  <2>2. f = [i \in 1..Cardinality(S) |-> f[i]]
    OBVIOUS
  <2> HIDE DEF f
  <2> QED BY <2>1, <2>2
<1> HIDE DEF Order
<1> QED BY <1>1, <1>3, <1>4, ByRankLists

\* There are finitely many conditions and so finitely many rules.
LEMMA SmallIsFinite == IsFiniteSet(Brief)
<1>1. 2 * Base * Base - 1 \in Int
  BY SelectionAssumption
<1>2. IsFiniteSet(0..(2 * Base * Base - 1))
  BY <1>1, FS_Interval
<1>3. IsFiniteSet(Condition)
  <2> DEFINE f == [c \in Condition |-> Ordinal(c)]
  <2>1. f \in [Condition -> 0..(2 * Base * Base - 1)]
    BY OrdinalsAre
  <2>2. \A c, d \in Condition : f[c] = f[d] => c = d
    BY OrdinalsAre
  <2> HIDE DEF f
  <2>3. f \in Injection(Condition, 0..(2 * Base * Base - 1))
    BY <2>1, <2>2 DEF Injection, IsInjective
  <2> QED BY <1>2, <2>3, FS_Injection
<1>4. IsFiniteSet(SUBSET Condition)
  BY <1>3, FS_SUBSET
<1>5. Brief \in SUBSET (SUBSET Condition)
  BY DEF Brief
<1> QED BY <1>4, <1>5, FS_Subset

\* Candidates are few enough, and match rows.
LEMMA SinglesAre ==
  ASSUME least \in Nat \ {0}
  PROVE  /\ Singles \subseteq Brief
         /\ \A r \in Singles : Cardinality(Mask(r)) # 0
         /\ \A f \in Feature : \A r \in SinglesOf(f) : r \in Singles /\ Features(r) = {f}
<1>1. ASSUME NEW r \in Singles
      PROVE  r \in Brief /\ Cardinality(Mask(r)) # 0
  <2>1. PICK c \in Condition : r = {c}
    BY DEF Singles
  <2>2. r \in Brief
    BY <2>1 DEF Brief
  <2>3. Supported(r)
    BY DEF Singles
  <2> QED BY <2>2, <2>3 DEF Supported
<1> QED BY <1>1 DEF SinglesOf

LEMMA PairsAre ==
  ASSUME least \in Nat \ {0}, NEW rules, rules \subseteq Singles
  PROVE  /\ PairsOf(rules) \subseteq Brief
         /\ \A r \in PairsOf(rules) : Cardinality(Mask(r)) # 0
<1>1. ASSUME NEW r \in PairsOf(rules)
      PROVE  r \in Brief /\ Cardinality(Mask(r)) # 0
  <2>1. PICK t \in rules \X rules : r = t[1] \cup t[2] /\ Supported(t[1] \cup t[2])
    BY DEF PairsOf
  <2>2. t[1] \in Singles /\ t[2] \in Singles
    OBVIOUS
  <2>3. PICK c \in Condition : t[1] = {c}
    BY <2>2 DEF Singles
  <2>4. PICK d \in Condition : t[2] = {d}
    BY <2>2 DEF Singles
  <2>5. r = {c, d}
    BY <2>1, <2>3, <2>4
  <2>6. r \in Brief
    BY <2>5 DEF Brief
  <2> QED BY <2>1, <2>6 DEF Supported
<1> QED BY <1>1

\* What a candidate is does not change while they are selected.
LEMMA MasksStay ==
  ASSUME UNCHANGED columns, NEW r
  PROVE  Mask(r)' = Mask(r)
<1>1. ASSUME NEW c
      PROVE  Matches(c)' = Matches(c)
  BY DEF Matches
<1>2. Mask(r)' = {x \in Row : \A c \in r : x \in Matches(c)'}
  BY DEF Mask
<1>3. Mask(r) = {x \in Row : \A c \in r : x \in Matches(c)}
  BY DEF Mask
<1> QED BY <1>1, <1>2, <1>3

LEMMA CandidatesStay ==
  ASSUME UNCHANGED <<bad, columns, thresholds, least>>
  PROVE  /\ Order' = Order /\ Singles' = Singles
         /\ \A f \in Feature : SinglesOf(f)' = SinglesOf(f)
         /\ \A rules : PairsOf(rules)' = PairsOf(rules)
<1>1. \A r : Mask(r)' = Mask(r)
  BY MasksStay
<1>2. Order' = Order
  <2>1. ASSUME NEW a, NEW b
        PROVE  RanksAbove(a, b)' <=> RanksAbove(a, b)
    BY <1>1 DEF RanksAbove
  <2>2. Order' = {t \in Brief \X Brief : RanksAbove(t[1], t[2])'}
    BY DEF Order
  <2> QED BY <2>1, <2>2 DEF Order
<1>3. Singles' = Singles
  <2>1. ASSUME NEW r
        PROVE  /\ Supported(r)' <=> Supported(r)
               /\ NotTooWide(r)' <=> NotTooWide(r)
    BY <1>1 DEF Supported, NotTooWide
  <2>2. {c \in Condition : c.value \in thresholds[c.feature]}'
          = {c \in Condition : c.value \in thresholds[c.feature]}
    OBVIOUS
  <2> QED BY <2>1, <2>2 DEF Singles
<1>4. \A f \in Feature : SinglesOf(f)' = SinglesOf(f)
  BY <1>3 DEF SinglesOf
<1>5. ASSUME NEW rules
      PROVE  PairsOf(rules)' = PairsOf(rules)
  <2>1. ASSUME NEW t
        PROVE  /\ Supported(t[1] \cup t[2])' <=> Supported(t[1] \cup t[2])
               /\ Narrows(t[1], t[2])' <=> Narrows(t[1], t[2])
    BY <1>1 DEF Supported, Narrows
  <2> QED BY <2>1 DEF PairsOf
<1> QED BY <1>2, <1>3, <1>4, <1>5

\* The candidates of each feature, none twice.
Groups(g) ==
  \A f \in Feature :
    /\ g[f] \in Seq(Brief) /\ Len(g[f]) \in Nat
    /\ \A i \in 1..Len(g[f]) : g[f][i] \in Brief /\ Features(g[f][i]) = {f}
    /\ \A i, j \in 1..Len(g[f]) : g[f][i] = g[f][j] => i = j

(***************************************************************************)
(* A beam holds the first n[f] candidates of each feature f: of those it   *)
(* has gone through all, but for the last round once it is full.           *)
(***************************************************************************)
Draws(g, b, n) ==
  \A f \in Feature, r \in Brief :
    (\E i \in 1..Len(b) : b[i] = r) /\ Features(r) = {f}
      <=> \E i \in 1..n[f] : r = g[f][i]
Even(g, b, n, at, wide) ==
  /\ n \in [Feature -> Nat]
  /\ \A f \in Feature : /\ n[f] <= Len(g[f]) /\ n[f] <= at
                        /\ n[f] = Len(g[f]) \/ n[f] >= at - 1
                        /\ Len(b) < wide => n[f] = Len(g[f]) \/ n[f] = at
Drawn(g, b, at, wide) ==
  /\ b \in Seq(Brief) /\ Len(b) \in Nat /\ Len(b) <= wide
  /\ \E n : Even(g, b, n, at, wide) /\ Draws(g, b, n)

\* The features that have another candidate, each once, and a beam with those of
\* the first m of them.
HaveNext(fs, g, at) ==
  /\ fs \in Seq(Feature) /\ Len(fs) \in Nat
  /\ \A f \in Feature : at < Len(g[f]) <=> \E i \in 1..Len(fs) : fs[i] = f
  /\ \A i, j \in 1..Len(fs) : fs[i] = fs[j] => i = j
Extended(c, b, m, fs, g, at) ==
  /\ c \in Seq(Brief) /\ Len(c) = Len(b) + m
  /\ \A i \in 1..Len(b) : c[i] = b[i]
  /\ \A i \in 1..m : c[Len(b) + i] = g[fs[i]][at + 1]

\* The next candidate of every feature that has one, for as long as there is room.
LEMMA RoundDraws ==
  ASSUME NEW g, Groups(g), NEW b, NEW at \in Nat, NEW wide \in Nat,
         Drawn(g, b, at, wide), Len(b) < wide, NEW fs, HaveNext(fs, g, at),
         NEW m \in Nat, m <= Len(fs), Len(b) + m <= wide,
         m = Len(fs) \/ Len(b) + m = wide,
         NEW c, Extended(c, b, m, fs, g, at)
  PROVE  Drawn(g, c, at + 1, wide)
<1> USE DEF HaveNext, Extended
<1>1. PICK n : Even(g, b, n, at, wide) /\ Draws(g, b, n)
  BY DEF Drawn
<1>2. Len(b) \in Nat /\ b \in Seq(Brief)
  BY DEF Drawn
<1> DEFINE k == [f \in Feature |-> IF \E i \in 1..m : fs[i] = f THEN at + 1 ELSE n[f]]
<1>3. ASSUME NEW i \in 1..Len(fs)
      PROVE  fs[i] \in Feature
  BY <1>3
<1>4. ASSUME NEW f \in Feature
      PROVE  /\ n[f] \in Nat /\ Len(g[f]) \in Nat /\ n[f] <= Len(g[f]) /\ n[f] <= at
             /\ n[f] = Len(g[f]) \/ n[f] = at
  BY <1>1 DEF Even, Groups
<1>5. ASSUME NEW i \in 1..m
      PROVE  /\ fs[i] \in Feature /\ at < Len(g[fs[i]]) /\ n[fs[i]] = at
             /\ at + 1 \in 1..Len(g[fs[i]])
             /\ g[fs[i]][at + 1] \in Brief
             /\ Features(g[fs[i]][at + 1]) = {fs[i]}
  <2>1. i \in 1..Len(fs) /\ fs[i] \in Feature
    BY <1>3
  <2>2. at < Len(g[fs[i]])
    BY <2>1
  <2>3. n[fs[i]] = at /\ at + 1 \in 1..Len(g[fs[i]])
    <3>1. PICK f \in Feature : f = fs[i]
      BY <2>1
    <3> QED BY <1>4, <2>2, <3>1, SMTT(30)
  <2> QED BY <2>1, <2>2, <2>3 DEF Groups
<1>6. Even(g, c, k, at + 1, wide)
  <2>1. ASSUME NEW f \in Feature
        PROVE  /\ k[f] \in Nat
               /\ k[f] <= Len(g[f]) /\ k[f] <= at + 1
               /\ k[f] = Len(g[f]) \/ k[f] >= at + 1 - 1
               /\ Len(c) < wide => k[f] = Len(g[f]) \/ k[f] = at + 1
    <3>1. CASE \E i \in 1..m : fs[i] = f
      <4>1. k[f] = at + 1 /\ at < Len(g[f])
        BY <1>5, <3>1
      <4> QED BY <1>4, <4>1, SMTT(30)
    <3>2. CASE ~ \E i \in 1..m : fs[i] = f
      <4>1. k[f] = n[f]
        BY <3>2
      <4>2. Len(c) < wide => m = Len(fs)
        BY <1>2
      <4>3. Len(c) < wide => n[f] = Len(g[f])
        <5>1. SUFFICES ASSUME Len(c) < wide
                       PROVE  n[f] = Len(g[f])
          OBVIOUS
        <5>2. ~ at < Len(g[f])
          BY <3>2, <4>2, <5>1
        <5> QED BY <1>4, <5>2
      <4> QED BY <1>4, <4>1, <4>3
    <3> QED BY <3>1, <3>2
  <2>2. k \in [Feature -> Nat]
    BY <2>1
  <2> HIDE DEF k
  <2> QED BY <2>1, <2>2 DEF Even
<1>7. ASSUME NEW r
      PROVE  (\E i \in 1..Len(c) : c[i] = r) <=>
               \/ \E i \in 1..Len(b) : b[i] = r
               \/ \E i \in 1..m : r = g[fs[i]][at + 1]
  <2>1. ASSUME NEW i \in 1..Len(c)
        PROVE  i \in 1..Len(b) \/ (i - Len(b) \in 1..m /\ i = Len(b) + (i - Len(b)))
    BY <1>2
  <2>2. /\ \A i \in 1..Len(b) : i \in 1..Len(c)
        /\ \A i \in 1..m : Len(b) + i \in 1..Len(c)
    BY <1>2
  <2>3. ASSUME NEW i \in 1..Len(c), c[i] = r
        PROVE  \/ \E j \in 1..Len(b) : b[j] = r
               \/ \E j \in 1..m : r = g[fs[j]][at + 1]
    <3>1. CASE i \in 1..Len(b)
      BY <2>3, <3>1
    <3>2. CASE i - Len(b) \in 1..m /\ i = Len(b) + (i - Len(b))
      BY <2>3, <3>2
    <3> QED BY <2>1, <3>1, <3>2
  <2>4. ASSUME NEW i \in 1..Len(b), b[i] = r
        PROVE  \E j \in 1..Len(c) : c[j] = r
    BY <2>2, <2>4
  <2>5. ASSUME NEW i \in 1..m, r = g[fs[i]][at + 1]
        PROVE  \E j \in 1..Len(c) : c[j] = r
    BY <2>2, <2>5
  <2> QED BY <2>3, <2>4, <2>5
<1>8. Draws(g, c, k)
  <2> SUFFICES ASSUME NEW f \in Feature, NEW r \in Brief
               PROVE  (\E i \in 1..Len(c) : c[i] = r) /\ Features(r) = {f}
                        <=> \E i \in 1..k[f] : r = g[f][i]
    BY DEF Draws
  <2>1. (\E i \in 1..Len(b) : b[i] = r) /\ Features(r) = {f} <=> \E i \in 1..n[f] : r = g[f][i]
    BY <1>1 DEF Draws
  <2>2. CASE \E i \in 1..m : fs[i] = f
    <3>1. PICK j \in 1..m : fs[j] = f
      BY <2>2
    <3>2. k[f] = at + 1 /\ n[f] = at
      BY <1>5, <3>1
    <3>3. (\E i \in 1..k[f] : r = g[f][i]) <=> (\E i \in 1..n[f] : r = g[f][i]) \/ r = g[f][at + 1]
      <4>1. \A i : i \in 1..(at + 1) <=> i \in 1..at \/ i = at + 1
        OBVIOUS
      <4> HIDE DEF k
      <4> QED BY <3>2, <4>1
    <3>4. ASSUME NEW i \in 1..m, r = g[fs[i]][at + 1], Features(r) = {f}
          PROVE  r = g[f][at + 1]
      BY <1>5, <3>4
    <3>5. ASSUME r = g[f][at + 1]
          PROVE  (\E i \in 1..m : r = g[fs[i]][at + 1]) /\ Features(r) = {f}
      BY <1>5, <3>1, <3>5
    <3> HIDE DEF k
    <3> QED BY <1>7, <2>1, <3>3, <3>4, <3>5
  <2>3. CASE ~ \E i \in 1..m : fs[i] = f
    <3>1. k[f] = n[f]
      BY <2>3
    <3>2. ASSUME NEW i \in 1..m, r = g[fs[i]][at + 1], Features(r) = {f}
          PROVE  FALSE
      <4>1. {fs[i]} = {f}
        BY <1>5, <3>2
      <4> QED BY <2>3, <4>1
    <3> HIDE DEF k
    <3> QED BY <1>7, <2>1, <3>1, <3>2
  <2> QED BY <2>2, <2>3
<1>9. Len(c) \in Nat /\ Len(c) <= wide
  BY <1>2
<1> HIDE DEF k
<1> QED BY <1>6, <1>8, <1>9 DEF Drawn

\* How many a beam holds of each feature.
HeldIn(held, b) == \A f \in Feature : held[f] = {r \in ToSet(b) : Features(r) = {f}}
HoldsBest(held, g) ==
  \A f \in Feature :
    /\ Cardinality(held[f]) \in Nat
    /\ held[f] = {g[f][i] : i \in 1..Cardinality(held[f])}
    /\ \A h \in Feature : \/ Cardinality(held[h]) <= Cardinality(held[f]) + 1
                          \/ Cardinality(held[f]) = Len(g[f])

LEMMA DrawnTells ==
  ASSUME NEW g, Groups(g), NEW b, NEW at \in Nat, NEW wide, Drawn(g, b, at, wide),
         NEW held, HeldIn(held, b)
  PROVE  HoldsBest(held, g)
<1> USE DEF HeldIn, HoldsBest
<1>1. PICK n : Even(g, b, n, at, wide) /\ Draws(g, b, n)
  BY DEF Drawn
<1>2. \A r : r \in ToSet(b) <=> \E i \in 1..Len(b) : b[i] = r
  BY DEF Drawn, ToSet
<1>3. ASSUME NEW f \in Feature
      PROVE  /\ n[f] \in Nat /\ n[f] <= Len(g[f]) /\ n[f] <= at
             /\ n[f] = Len(g[f]) \/ n[f] >= at - 1
             /\ Len(g[f]) \in Nat
  BY <1>1 DEF Even, Groups
<1>4. ASSUME NEW f \in Feature
      PROVE  Cardinality(held[f]) = n[f] /\ held[f] = {g[f][i] : i \in 1..n[f]}
  <2> DEFINE H == {g[f][i] : i \in 1..n[f]}
             e == [i \in 1..n[f] |-> g[f][i]]
  <2>1. \A r \in held[f] : r \in Brief
    BY <1>2 DEF Drawn
  <2>2. \A r \in H : r \in Brief
    BY <1>3 DEF Groups
  <2>3. \A r : r \in held[f] <=> r \in H
    <3>1. \A r \in Brief : r \in held[f] <=> \E i \in 1..n[f] : r = g[f][i]
      BY <1>1, <1>2 DEF Draws
    <3> QED BY <2>1, <2>2, <3>1
  <2>4. held[f] = H
    BY <2>3
  <2>5. \A i, j \in 1..n[f] : e[i] = e[j] => i = j
    <3>1. \A i \in 1..n[f] : i \in 1..Len(g[f])
      BY <1>3
    <3> QED BY <3>1 DEF Groups
  <2>6. e \in Bijection(1..n[f], H)
    <3>1. e \in [1..n[f] -> H] /\ \A r \in H : \E i \in 1..n[f] : e[i] = r
      OBVIOUS
    <3> HIDE DEF e, H
    <3> QED BY <2>5, <3>1 DEF Bijection, Injection, Surjection, IsInjective
  <2>7. ExistsBijection(1..n[f], H)
    BY <2>6 DEF ExistsBijection
  <2>8. IsFiniteSet(1..n[f]) /\ Cardinality(1..n[f]) = n[f]
    <3>1. n[f] \in Int /\ (1 > n[f] <=> n[f] = 0)
      BY <1>3
    <3> QED BY <1>3, <3>1, FS_Interval
  <2>9. Cardinality(H) = n[f]
    <3> HIDE DEF H
    <3> QED BY <2>7, <2>8, FS_Bijection
  <2> QED BY <2>4, <2>9
<1>5. ASSUME NEW f \in Feature, NEW h \in Feature
      PROVE  n[h] <= n[f] + 1 \/ n[f] = Len(g[f])
  BY <1>3
<1> QED BY <1>3, <1>4, <1>5

\* Pairs none of which comes twice.
Apart(p) == /\ Len(p) \in Nat /\ DOMAIN p = 1..Len(p)
            /\ \A i, j \in 1..Len(p) : p[i] = p[j] => i = j

\* Those of the first k, and of them those that are the first of their features.
UpTo(p, k)   == {p[i] : i \in 1..k}
Leads(p, i)  == \A j \in 1..(i - 1) : Features(p[j]) # Features(p[i])
Firsts(p, k) == {p[i] : i \in {i \in 1..k : Leads(p, i)}}

(***************************************************************************)
(* What the passes leave chosen: the firsts of those looked at when the    *)
(* bound was reached, or all firsts and those looked at since, or all.     *)
(***************************************************************************)
Chosen(C, p, m) ==
  \/ \E k \in 0..Len(p) : C = Firsts(p, k) /\ Cardinality(C) = m
  \/ \E k \in 0..Len(p) : C = Firsts(p, Len(p)) \cup UpTo(p, k) /\ Cardinality(C) = m
  \/ C = UpTo(p, Len(p)) /\ Cardinality(C) <= m

KindsOf(rules) == {Features(rule) : rule \in rules}

LEMMA FirstsAre ==
  ASSUME NEW p, Apart(p)
  PROVE  /\ \A k \in 0..Len(p) : Firsts(p, k) \subseteq UpTo(p, k)
         /\ \A k \in 0..Len(p) : UpTo(p, k) \subseteq UpTo(p, Len(p))
         /\ \A k \in 0..Len(p) : \A i \in 1..k :
              \E j \in 1..i : /\ p[j] \in Firsts(p, k) /\ Features(p[j]) = Features(p[i])
                              /\ Leads(p, j)
         /\ \A k \in 0..Len(p), i \in 1..Len(p) : p[i] \in Firsts(p, k) <=> i <= k /\ Leads(p, i)
         /\ \A k \in 0..Len(p), i \in 1..Len(p) : p[i] \in UpTo(p, k) <=> i <= k
<1>1. ASSUME NEW k \in 0..Len(p)
      PROVE  UpTo(p, k) \subseteq UpTo(p, Len(p)) /\ k \in Int /\ Len(p) \in Int
  BY DEF UpTo, Apart
<1>2. ASSUME NEW k \in 0..Len(p), NEW i \in 1..Len(p)
      PROVE  /\ p[i] \in Firsts(p, k) <=> i <= k /\ Leads(p, i)
             /\ p[i] \in UpTo(p, k) <=> i <= k
  <2>1. \A j \in 1..k : j \in 1..Len(p) /\ j <= k
    BY <1>1
  <2>2. \A j \in 1..Len(p) : p[i] = p[j] => i = j
    BY DEF Apart
  <2>3. i <= k <=> i \in 1..k
    BY <1>1
  <2> QED BY <2>1, <2>2, <2>3 DEF Firsts, UpTo
<1>3. ASSUME NEW k \in 0..Len(p), NEW i \in 1..k
      PROVE  \E j \in 1..i : /\ p[j] \in Firsts(p, k) /\ Features(p[j]) = Features(p[i])
                             /\ Leads(p, j)
  <2> DEFINE T == {j \in Nat : j \in 1..i /\ Features(p[j]) = Features(p[i])}
  <2>1. i \in T
    BY <1>1
  <2>2. PICK j \in T : \A l \in T : j <= l
    BY <2>1, LeastNumber
  <2>3. ASSUME NEW l \in 1..(j - 1), Features(p[l]) = Features(p[j])
        PROVE  FALSE
    <3>1. l \in T /\ ~ j <= l
      BY <2>2, <2>3
    <3> QED BY <2>2, <3>1
  <2>4. Leads(p, j)
    BY <2>3 DEF Leads
  <2>5. j \in 1..Len(p) /\ j <= k
    BY <1>1, <2>2
  <2>6. p[j] \in Firsts(p, k)
    BY <1>2, <2>4, <2>5
  <2> QED BY <2>2, <2>4, <2>6
<1>4. \A k \in 0..Len(p) : Firsts(p, k) \subseteq UpTo(p, k)
  BY DEF Firsts, UpTo
<1> QED BY <1>1, <1>2, <1>3, <1>4

LEMMA FirstsGrow ==
  ASSUME NEW p, Apart(p), NEW k \in 0..(Len(p) - 1)
  PROVE  /\ UpTo(p, k + 1) = UpTo(p, k) \cup {p[k + 1]}
         /\ (\E s \in Firsts(p, k) : Features(s) = Features(p[k + 1]))
              => Firsts(p, k + 1) = Firsts(p, k)
         /\ ~ (\E s \in Firsts(p, k) : Features(s) = Features(p[k + 1]))
              => Firsts(p, k + 1) = Firsts(p, k) \cup {p[k + 1]}
<1>1. /\ k \in 0..Len(p) /\ k + 1 \in 0..Len(p) /\ k \in Nat /\ k + 1 \in 1..Len(p)
      /\ k + 1 - 1 = k
      /\ \A i : i \in 1..(k + 1) <=> i \in 1..k \/ i = k + 1
  BY DEF Apart
<1>2. UpTo(p, k + 1) = UpTo(p, k) \cup {p[k + 1]}
  BY <1>1 DEF UpTo
<1>3. (\E s \in Firsts(p, k) : Features(s) = Features(p[k + 1])) <=> ~ Leads(p, k + 1)
  <2>1. ASSUME NEW s \in Firsts(p, k), Features(s) = Features(p[k + 1])
        PROVE  ~ Leads(p, k + 1)
    <3>1. PICK i \in 1..k : s = p[i]
      BY DEF Firsts
    <3> QED BY <1>1, <2>1, <3>1 DEF Leads
  <2>2. ASSUME ~ Leads(p, k + 1)
        PROVE  \E s \in Firsts(p, k) : Features(s) = Features(p[k + 1])
    <3>1. PICK i \in 1..k : Features(p[i]) = Features(p[k + 1])
      BY <1>1, <2>2 DEF Leads
    <3>2. PICK j \in 1..i : p[j] \in Firsts(p, k) /\ Features(p[j]) = Features(p[i])
      BY <1>1, FirstsAre
    <3> QED BY <3>1, <3>2
  <2> QED BY <2>1, <2>2
<1>4. ASSUME Leads(p, k + 1)
      PROVE  Firsts(p, k + 1) = Firsts(p, k) \cup {p[k + 1]}
  BY <1>1, <1>4 DEF Firsts
<1>5. ASSUME ~ Leads(p, k + 1)
      PROVE  Firsts(p, k + 1) = Firsts(p, k)
  BY <1>1, <1>5 DEF Firsts
<1> QED BY <1>2, <1>3, <1>4, <1>5

LEMMA UptoCounts ==
  ASSUME NEW p, Apart(p)
  PROVE  IsFiniteSet(UpTo(p, Len(p))) /\ Cardinality(UpTo(p, Len(p))) = Len(p)
<1> DEFINE n == Len(p)
           U == UpTo(p, n)
           e == [i \in 1..n |-> p[i]]
<1>1. n \in Nat
  BY DEF Apart
<1>2. e \in [1..n -> U] /\ \A r \in U : \E i \in 1..n : e[i] = r
  BY DEF UpTo
<1>3. \A i, j \in 1..n : e[i] = e[j] => i = j
  BY DEF Apart
<1>4. ExistsBijection(1..n, U)
  <2> HIDE DEF e, U, n
  <2>1. e \in Bijection(1..n, U)
    BY <1>2, <1>3 DEF Bijection, Injection, Surjection, IsInjective
  <2> QED BY <2>1 DEF ExistsBijection
<1>5. IsFiniteSet(1..n) /\ Cardinality(1..n) = n
  <2>1. n \in Int /\ (1 > n <=> n = 0)
    BY <1>1
  <2> HIDE DEF n
  <2> QED BY <1>1, <2>1, FS_Interval
<1> HIDE DEF U, n
<1>6. IsFiniteSet(U) /\ Cardinality(U) = n
  BY <1>4, <1>5, FS_Bijection
<1> QED BY <1>6 DEF U, n

\* Each first has features of its own.
LEMMA KindsOfFirsts ==
  ASSUME NEW p, Apart(p), NEW k \in 0..Len(p)
  PROVE  Cardinality(KindsOf(Firsts(p, k))) = Cardinality(Firsts(p, k))
<1> DEFINE C == Firsts(p, k)
           e == [r \in C |-> Features(r)]
           K == KindsOf(C)
<1>1. e \in [C -> K] /\ \A x \in K : \E r \in C : e[r] = x
  BY DEF KindsOf
<1>2. \A r, s \in C : e[r] = e[s] => r = s
  <2> TAKE r, s \in C
  <2>1. PICK i \in 1..k : r = p[i] /\ Leads(p, i)
    BY DEF Firsts
  <2>2. PICK j \in 1..k : s = p[j] /\ Leads(p, j)
    BY DEF Firsts
  <2>3. Features(r) = Features(s) => ~ i < j /\ ~ j < i
    BY <2>1, <2>2 DEF Leads
  <2>4. Features(r) = Features(s) => i = j
    BY <2>3
  <2> QED BY <2>1, <2>2, <2>4
<1>3. IsFiniteSet(C)
  <2>1. C \in SUBSET UpTo(p, Len(p))
    BY FirstsAre
  <2> QED BY <2>1, UptoCounts, FS_Subset
<1> HIDE DEF C, e, K
<1>4. ExistsBijection(C, K)
  <2>1. e \in Bijection(C, K)
    BY <1>1, <1>2 DEF Bijection, Injection, Surjection, IsInjective
  <2> QED BY <2>1 DEF ExistsBijection
<1>5. Cardinality(K) = Cardinality(C)
  BY <1>3, <1>4, FS_Bijection
<1> QED BY <1>5 DEF C, K

LEMMA ChosenTells ==
  ASSUME NEW p, Apart(p), NEW m \in Nat, NEW C, Chosen(C, p, m)
  PROVE  /\ C \subseteq UpTo(p, Len(p))
         /\ Cardinality(C) = IF Len(p) < m THEN Len(p) ELSE m
         /\ KindsOf(C) # KindsOf(UpTo(p, Len(p))) => Cardinality(KindsOf(C)) = m
         /\ \A i \in 1..Len(p) : p[i] \notin C =>
              /\ Features(p[i]) \in KindsOf(C) =>
                   \E s \in C \cap UpTo(p, i - 1) : Features(s) = Features(p[i])
              /\ Features(p[i]) \notin KindsOf(C) =>
                   KindsOf(C) \subseteq KindsOf(UpTo(p, i - 1))
<1> DEFINE n == Len(p)
<1>1. n \in Nat /\ 0 \in 0..n /\ n \in 0..n
  BY DEF Apart
<1>2. C \subseteq UpTo(p, n)
  BY <1>1, FirstsAre DEF Chosen
<1>3. Cardinality(C) <= n /\ Cardinality(C) \in Nat
  BY <1>2, UptoCounts, FS_Subset, FS_CardinalityType
<1>4. Cardinality(C) = IF n < m THEN n ELSE m
  <2>1. CASE Cardinality(C) = m
    BY <1>1, <1>3, <2>1
  <2>2. CASE C = UpTo(p, n) /\ Cardinality(C) <= m
    BY <1>1, <2>2, UptoCounts
  <2> QED BY <2>1, <2>2 DEF Chosen
<1>5. ASSUME NEW k \in 0..n, Firsts(p, k) \subseteq C, NEW i \in 1..k, p[i] \notin C
      PROVE  \E s \in C \cap UpTo(p, i - 1) : Features(s) = Features(p[i])
  <2>1. PICK j \in 1..i : p[j] \in Firsts(p, k) /\ Features(p[j]) = Features(p[i])
    BY FirstsAre
  <2>2. j # i
    BY <1>5, <2>1
  <2>3. j \in 1..(i - 1)
    BY <2>2
  <2>4. p[j] \in UpTo(p, i - 1)
    BY <2>3 DEF UpTo
  <2> QED BY <1>5, <2>1, <2>4
<1>6. CASE \E k \in 0..n : C = Firsts(p, k) /\ Cardinality(C) = m
  <2>1. PICK k \in 0..n : C = Firsts(p, k) /\ Cardinality(C) = m
    BY <1>6
  <2>2. Cardinality(KindsOf(C)) = m
    BY <2>1, KindsOfFirsts
  <2>3. ASSUME NEW i \in 1..n, p[i] \notin C
        PROVE  /\ Features(p[i]) \in KindsOf(C) =>
                    \E s \in C \cap UpTo(p, i - 1) : Features(s) = Features(p[i])
               /\ Features(p[i]) \notin KindsOf(C) =>
                    KindsOf(C) \subseteq KindsOf(UpTo(p, i - 1))
    <3>1. CASE i <= k
      <4>1. i \in 1..k
        BY <1>1, <3>1
      <4>2. \E s \in C \cap UpTo(p, i - 1) : Features(s) = Features(p[i])
        BY <1>5, <2>1, <2>3, <4>1
      <4>3. Features(p[i]) \in KindsOf(C)
        BY <4>2 DEF KindsOf
      <4> QED BY <4>2, <4>3
    <3>2. CASE ~ i <= k
      <4>1. C \subseteq UpTo(p, i - 1)
        <5>1. \A j \in 1..k : j \in 1..(i - 1)
          BY <1>1, <3>2
        <5> QED BY <2>1, <5>1 DEF Firsts, UpTo
      <4>2. KindsOf(C) \subseteq KindsOf(UpTo(p, i - 1))
        BY <4>1 DEF KindsOf
      <4>3. Features(p[i]) \in KindsOf(C) =>
              \E s \in C \cap UpTo(p, i - 1) : Features(s) = Features(p[i])
        BY <4>1 DEF KindsOf
      <4> QED BY <4>2, <4>3
    <3> QED BY <3>1, <3>2
  <2> QED BY <1>2, <1>4, <2>2, <2>3
<1>7. CASE \/ \E k \in 0..n : C = Firsts(p, n) \cup UpTo(p, k)
           \/ C = UpTo(p, n)
  <2>1. Firsts(p, n) \subseteq C
    BY <1>1, <1>7, FirstsAre
  <2>2. KindsOf(C) = KindsOf(UpTo(p, n))
    <3>1. ASSUME NEW i \in 1..n
          PROVE  Features(p[i]) \in KindsOf(C)
      <4>1. PICK j \in 1..i : p[j] \in Firsts(p, n) /\ Features(p[j]) = Features(p[i])
        BY <1>1, FirstsAre
      <4> QED BY <2>1, <4>1 DEF KindsOf
    <3>2. KindsOf(UpTo(p, n)) \subseteq KindsOf(C)
      BY <3>1 DEF KindsOf, UpTo
    <3>3. KindsOf(C) \subseteq KindsOf(UpTo(p, n))
      BY <1>2 DEF KindsOf
    <3> QED BY <3>2, <3>3
  <2>3. ASSUME NEW i \in 1..n, p[i] \notin C
        PROVE  /\ \E s \in C \cap UpTo(p, i - 1) : Features(s) = Features(p[i])
               /\ Features(p[i]) \in KindsOf(C)
    <3>1. \E s \in C \cap UpTo(p, i - 1) : Features(s) = Features(p[i])
      BY <1>1, <1>5, <2>1, <2>3
    <3> QED BY <3>1 DEF KindsOf
  <2> QED BY <1>2, <1>4, <2>2, <2>3
<1> QED BY <1>6, <1>7 DEF Chosen

\* Those of l are the ones of p after the first k.
Rest(l, p, k) == /\ l \in Seq(Brief) /\ Len(l) \in Nat /\ Len(l) = Len(p) - k
                 /\ \A i \in 1..Len(l) : l[i] = p[k + i]

SelectionTyped ==
  /\ least \in Nat \ {0} /\ width \in Nat \ {0} /\ maximum \in Nat /\ position \in Nat
  /\ selecting \in {"begun", "beam", "first pass", "second pass", "selected"}

BeamIsFair ==
  /\ selecting = "begun" => position = 0 /\ beam = <<>>
  /\ Groups(grouped) /\ Drawn(grouped, beam, position, width)
  /\ \A f \in Feature : \A i \in 1..Len(grouped[f]) : grouped[f][i] \in Singles
  /\ \A i \in 1..Len(beam) : beam[i] \in Singles

PairsAreRanked ==
  IF selecting \in {"begun", "beam"}
  THEN pairs = <<>> /\ selected = <<>>
  ELSE Lists(Order, PairsOf(ToSet(beam)), pairs)

PassIsFair ==
  selecting \in {"first pass", "second pass"} =>
    /\ Len(selected) \in Nat /\ selected \in Seq(Brief)
    /\ Len(selected) = Cardinality(ToSet(selected)) /\ Len(selected) < maximum
    /\ \E k \in 0..Len(pairs) :
         /\ Rest(left, pairs, k)
         /\ ToSet(selected) = IF selecting = "first pass"
                              THEN Firsts(pairs, k)
                              ELSE Firsts(pairs, Len(pairs)) \cup UpTo(pairs, k)

ChoiceIsFair ==
  selecting = "selected" =>
    /\ Lists(Order, ToSet(selected), selected)
    /\ Chosen(ToSet(selected), pairs, maximum)

SelInv == SelectionTyped /\ BeamIsFair /\ PairsAreRanked /\ PassIsFair /\ ChoiceIsFair

LEMMA ListsTell ==
  ASSUME NEW R, NEW S, NEW q, Lists(R, S, q)
  PROVE  /\ Apart(q) /\ ToSet(q) = S /\ UpTo(q, Len(q)) = S /\ q \in Seq(S)
<1>1. q \in Seq(S) /\ Len(q) \in Nat /\ DOMAIN q = 1..Len(q)
  BY DEF Lists
<1>2. \A i \in 1..Len(q) : q[i] \in S
  BY <1>1
<1>3. Apart(q)
  BY <1>1 DEF Lists, Apart
<1>4. {q[i] : i \in 1..Len(q)} = S
  <2>1. \A x \in S : \E i \in 1..Len(q) : q[i] = x
    BY DEF Lists
  <2> QED BY <1>2, <2>1
<1> QED BY <1>1, <1>3, <1>4 DEF ToSet, UpTo

LEMMA NothingListed ==
  ASSUME NEW R
  PROVE  Lists(R, {}, <<>>) /\ ToSet(<<>>) = {}
<1>1. Len(<<>>) = 0 /\ <<>> \in Seq({}) /\ DOMAIN <<>> = 1..0 /\ \A i : i \notin 1..0
  OBVIOUS
<1>2. Cardinality({}) = 0
  BY FS_EmptySet
<1> QED BY <1>1, <1>2 DEF Lists, ToSet

\* What nobody has touched.
LEMMA BeamStays ==
  ASSUME SelInv, UNCHANGED <<bad, columns, thresholds, least, width, grouped, beam, position>>,
         selecting' = selecting \/ selecting' # "begun"
  PROVE  BeamIsFair'
<1>1. Singles' = Singles
  BY CandidatesStay
<1> QED BY <1>1 DEF SelInv, BeamIsFair

LEMMA PairsOfBeamStay ==
  ASSUME UNCHANGED <<bad, columns, thresholds, least, beam>>
  PROVE  PairsOf(ToSet(beam))' = PairsOf(ToSet(beam))
<1>1. \A r : Mask(r)' = Mask(r)
  BY MasksStay
<1>2. ASSUME NEW t
      PROVE  /\ Supported(t[1] \cup t[2])' <=> Supported(t[1] \cup t[2])
             /\ Narrows(t[1], t[2])' <=> Narrows(t[1], t[2])
  BY <1>1 DEF Supported, Narrows
<1>3. ToSet(beam)' = ToSet(beam)
  OBVIOUS
<1> QED BY <1>2, <1>3 DEF PairsOf

LEMMA PairsStay ==
  ASSUME SelInv, UNCHANGED <<bad, columns, thresholds, least, beam, pairs>>,
         selecting \notin {"begun", "beam"}, selecting' \notin {"begun", "beam"}
  PROVE  PairsAreRanked'
<1>1. Order' = Order
  BY CandidatesStay
<1>2. PairsOf(ToSet(beam))' = PairsOf(ToSet(beam))
  BY PairsOfBeamStay
<1>3. Lists(Order, PairsOf(ToSet(beam)), pairs)
  BY DEF SelInv, PairsAreRanked
<1>4. Lists(Order, PairsOf(ToSet(beam)), pairs)'
  BY <1>1, <1>2, <1>3
<1> QED BY <1>4 DEF PairsAreRanked

LEMMA PairingFacts ==
  ASSUME SelInv
  PROVE  /\ ToSet(beam) \subseteq Singles
         /\ PairsOf(ToSet(beam)) \subseteq Brief /\ IsFiniteSet(PairsOf(ToSet(beam)))
         /\ \A r \in PairsOf(ToSet(beam)) : Cardinality(Mask(r)) # 0
<1>1. ToSet(beam) \subseteq Singles
  BY DEF SelInv, BeamIsFair, Drawn, ToSet
<1>2. least \in Nat \ {0}
  BY DEF SelInv, SelectionTyped
<1> QED BY <1>1, <1>2, PairsAre, SmallIsFinite, FS_Subset

\* Pairs chosen among the ranked ones can be ranked themselves.
LEMMA PairsFacts ==
  ASSUME SelInv, selecting \notin {"begun", "beam"}
  PROVE  /\ Apart(pairs) /\ ToSet(pairs) = PairsOf(ToSet(beam))
         /\ UpTo(pairs, Len(pairs)) = PairsOf(ToSet(beam))
         /\ pairs \in Seq(Brief)
         /\ \A C : C \subseteq UpTo(pairs, Len(pairs)) =>
              /\ IsFiniteSet(C) /\ Cardinality(C) \in Nat
              /\ Lists(Order, C, Ranked(C)) /\ ToSet(Ranked(C)) = C
<1>1. Lists(Order, PairsOf(ToSet(beam)), pairs)
  BY DEF SelInv, PairsAreRanked
<1>2. /\ Apart(pairs) /\ ToSet(pairs) = PairsOf(ToSet(beam))
      /\ UpTo(pairs, Len(pairs)) = PairsOf(ToSet(beam))
      /\ pairs \in Seq(PairsOf(ToSet(beam)))
  BY <1>1, ListsTell
<1>3. ASSUME NEW C, C \subseteq UpTo(pairs, Len(pairs))
      PROVE  /\ IsFiniteSet(C) /\ Cardinality(C) \in Nat
             /\ Lists(Order, C, Ranked(C)) /\ ToSet(Ranked(C)) = C
  <2>1. C \in SUBSET Brief /\ \A r \in C : Cardinality(Mask(r)) # 0
    BY <1>2, <1>3, PairingFacts
  <2>2. IsFiniteSet(C) /\ Cardinality(C) \in Nat
    BY <1>2, <1>3, PairingFacts, FS_Subset, FS_CardinalityType
  <2>3. Lists(Order, C, Ranked(C))
    BY <2>1, <2>2, RankedLists
  <2> QED BY <2>2, <2>3, ListsTell
<1>4. pairs \in Seq(Brief)
  BY <1>2, PairingFacts
<1> QED BY <1>2, <1>3, <1>4

LEMMA NothingDrawn ==
  ASSUME NEW g, Groups(g), NEW wide \in Nat
  PROVE  Drawn(g, <<>>, 0, wide)
<1> DEFINE n == [f \in Feature |-> 0]
<1>1. Len(<<>>) = 0 /\ <<>> \in Seq(Brief) /\ \A i : i \notin 1..0
  OBVIOUS
<1>2. \A f \in Feature : Len(g[f]) \in Nat
  BY DEF Groups
<1>3. n \in [Feature -> Nat] /\ \A f \in Feature : n[f] = 0
  OBVIOUS
<1> HIDE DEF n
<1>4. Even(g, <<>>, n, 0, wide)
  BY <1>1, <1>2, <1>3 DEF Even
<1>5. Draws(g, <<>>, n)
  BY <1>1, <1>3 DEF Draws
<1> QED BY <1>1, <1>4, <1>5 DEF Drawn

LEMMA NothingChosen ==
  ASSUME NEW m \in Nat
  PROVE  Chosen({}, <<>>, m)
<1>1. UpTo(<<>>, Len(<<>>)) = {}
  BY DEF UpTo
<1>2. Cardinality({}) <= m
  BY FS_EmptySet
<1> QED BY <1>1, <1>2 DEF Chosen

LEMMA BegunFacts ==
  ASSUME SelInv, selecting \in {"begun", "beam"}
  PROVE  pairs = <<>> /\ selected = <<>>
BY DEF SelInv, PairsAreRanked

LEMMA SelectionInitially == SelectionInit => SelInv
<1> SUFFICES ASSUME SelectionInit
             PROVE  SelInv
  OBVIOUS
<1>1. SelectionTyped
  <2>1. Cardinality(Row) \in Nat
    BY SelectionAssumption, FS_CardinalityType
  <2> QED BY <2>1, SelectionAssumption DEF SelectionInit, SelectionTyped
<1>2. Groups(grouped) /\ \A f \in Feature : \A i \in 1..Len(grouped[f]) : FALSE
  <2>1. Len(<<>>) = 0 /\ <<>> \in Seq(Brief) /\ \A i : i \notin 1..0
    OBVIOUS
  <2>2. \A f \in Feature : grouped[f] = <<>>
    BY DEF SelectionInit
  <2>3. ASSUME NEW f \in Feature
        PROVE  grouped[f] \in Seq(Brief) /\ Len(grouped[f]) = 0
    BY <2>1, <2>2
  <2>4. \A i : i \notin 1..0
    OBVIOUS
  <2> QED BY <2>3, <2>4 DEF Groups
<1>3. BeamIsFair
  <2>1. Drawn(grouped, beam, position, width)
    BY <1>1, <1>2, NothingDrawn DEF SelectionInit, SelectionTyped
  <2> QED BY <1>2, <2>1 DEF SelectionInit, BeamIsFair
<1>4. PairsAreRanked /\ PassIsFair /\ ChoiceIsFair
  BY DEF SelectionInit, PairsAreRanked, PassIsFair, ChoiceIsFair
<1> QED BY <1>1, <1>3, <1>4 DEF SelInv

LEMMA BeginStep == ASSUME SelInv, Begin PROVE SelInv'
<1>1. /\ selecting = "begun" /\ position = 0 /\ beam = <<>> /\ pairs = <<>>
      /\ selected = <<>> /\ SelectionTyped /\ BeamIsFair
  BY BegunFacts DEF SelInv, Begin, BeamIsFair
<1>2. SelectionTyped'
  BY <1>1 DEF Begin, SelectionTyped
<1>3. CASE selecting' = "selected" /\ UNCHANGED grouped
  <2>1. BeamIsFair'
    BY <1>1, <1>3, BeamStays DEF Begin
  <2>2. PairsAreRanked'
    <3>1. PairsOf(ToSet(beam))' = {} /\ pairs' = <<>>
      <4>1. ToSet(beam)' = {}
        BY <1>1, NothingListed DEF Begin
      <4> QED BY <1>1, <4>1 DEF PairsOf, Begin
    <3>2. Lists(Order, PairsOf(ToSet(beam)), pairs)'
      BY <3>1, NothingListed
    <3> QED BY <1>3, <3>2 DEF PairsAreRanked
  <2>3. ChoiceIsFair'
    <3>1. selected' = <<>> /\ pairs' = <<>> /\ ToSet(selected)' = {} /\ maximum' \in Nat
      BY <1>1, <1>2, NothingListed DEF Begin, SelectionTyped
    <3>2. /\ Lists(Order, ToSet(selected), selected)'
          /\ Chosen(ToSet(selected), pairs, maximum)'
      BY <3>1, NothingListed, NothingChosen
    <3> QED BY <3>2 DEF ChoiceIsFair
  <2>4. PassIsFair'
    BY <1>3 DEF PassIsFair
  <2> QED BY <1>2, <2>1, <2>2, <2>3, <2>4 DEF SelInv
<1>4. CASE selecting' = "beam" /\ grouped' = [f \in Feature |-> Ranked(SinglesOf(f))]
  <2>1. ASSUME NEW f \in Feature
        PROVE  Lists(Order, SinglesOf(f), Ranked(SinglesOf(f)))
    <3>1. /\ SinglesOf(f) \in SUBSET Brief
          /\ \A r \in SinglesOf(f) : Cardinality(Mask(r)) # 0
      BY <1>1, SinglesAre DEF SelectionTyped
    <3>2. IsFiniteSet(SinglesOf(f))
      BY <3>1, SmallIsFinite, FS_Subset
    <3> QED BY <3>1, <3>2, RankedLists
  <2>2. PICK g : g = [f \in Feature |-> Ranked(SinglesOf(f))]
    OBVIOUS
  <2>3. ASSUME NEW f \in Feature
        PROVE  /\ g[f] \in Seq(Brief) /\ Len(g[f]) \in Nat
               /\ \A i \in 1..Len(g[f]) : g[f][i] \in Singles /\ Features(g[f][i]) = {f}
               /\ \A i, j \in 1..Len(g[f]) : g[f][i] = g[f][j] => i = j
    <3>1. Lists(Order, SinglesOf(f), g[f])
      BY <2>1, <2>2
    <3>2. /\ Apart(g[f]) /\ g[f] \in Seq(SinglesOf(f))
      BY <3>1, ListsTell
    <3>3. \A r \in SinglesOf(f) : r \in Singles /\ r \in Brief /\ Features(r) = {f}
      BY <1>1, SinglesAre DEF SelectionTyped
    <3> QED BY <3>2, <3>3 DEF Apart
  <2>4. Groups(g)
    <3>1. Singles \subseteq Brief
      BY <1>1, SinglesAre DEF SelectionTyped
    <3> QED BY <2>3, <3>1 DEF Groups
  <2>5. Drawn(g, <<>>, 0, width)
    BY <1>1, <2>4, NothingDrawn DEF SelectionTyped
  <2>6. BeamIsFair'
    <3>1. Singles' = Singles
      BY CandidatesStay DEF Begin
    <3>2. /\ grouped' = g /\ beam' = <<>> /\ position' = 0 /\ width' = width
          /\ \A i : i \notin 1..Len(<<>>)
      BY <1>1, <1>4, <2>2 DEF Begin
    <3> QED BY <2>3, <2>4, <2>5, <3>1, <3>2 DEF BeamIsFair
  <2>7. PairsAreRanked' /\ PassIsFair' /\ ChoiceIsFair'
    BY <1>1, <1>4 DEF Begin, PairsAreRanked, PassIsFair, ChoiceIsFair
  <2> QED BY <1>2, <2>6, <2>7 DEF SelInv
<1> QED BY <1>3, <1>4 DEF Begin

\* The order of the features' names.
Numbered == {t \in Int \X Int : t[1] < t[2]}

LEMMA FeaturesAreOrdered ==
  ASSUME NEW H, H \subseteq Feature
  PROVE  IsFiniteSet(H) /\ Orders(Numbered, H)
<1>1. Base - 1 \in Int /\ Feature \subseteq 1..(Base - 1)
  BY SelectionAssumption
<1>2. IsFiniteSet(1..(Base - 1))
  BY <1>1, FS_Interval
<1>3. IsFiniteSet(H)
  BY <1>1, <1>2, FS_Subset
<1>4. \A x \in H : x \in Int
  BY <1>1
<1>5. \A x, y \in H : <<x, y>> \in Numbered <=> x < y
  BY <1>4 DEF Numbered
<1>6. Orders(Numbered, H)
  BY <1>4, <1>5 DEF Orders
<1> QED BY <1>3, <1>6

\* The features of a round, in order, each once.
LEMMA RoundIs ==
  ASSUME SelInv
  PROVE  \E fs : /\ fs \in Seq(Feature) /\ Len(fs) \in Nat
                 /\ \A f \in Feature : position < Len(grouped[f])
                                         <=> \E i \in 1..Len(fs) : fs[i] = f
                 /\ \A i, j \in 1..Len(fs) : fs[i] = fs[j] => i = j
                 /\ Len(Round) = Len(fs) /\ DOMAIN Round = 1..Len(fs)
                 /\ \A i \in 1..Len(fs) : Round[i] = grouped[fs[i]][position + 1]
<1> DEFINE H == HasNext
           Nth(i) == CHOOSE f \in HasNext : Cardinality({g \in HasNext : g < f}) = i - 1
           fs == [i \in 1..Cardinality(H) |-> Nth(i)]
<1>1. H \subseteq Feature
  BY DEF HasNext
<1>2. IsFiniteSet(H) /\ Orders(Numbered, H) /\ Cardinality(H) \in Nat
  BY <1>1, FeaturesAreOrdered, FS_CardinalityType
<1>3. ASSUME NEW f \in H
      PROVE  {g \in HasNext : g < f} = Above(Numbered, H, f)
  <2>1. \A x \in H : x \in Int
    BY <1>1, SelectionAssumption
  <2> QED BY <2>1 DEF Above, Numbered
<1>4. ASSUME NEW i \in 1..Cardinality(H)
      PROVE  /\ Nth(i) \in H /\ Cardinality(Above(Numbered, H, Nth(i))) = i - 1
  <2>1. \E f \in HasNext : Cardinality({g \in HasNext : g < f}) = i - 1
    <3>1. PICK f \in H : Cardinality(Above(Numbered, H, f)) = i - 1
      BY <1>2, RanksAre
    <3> QED BY <1>3, <3>1
  <2>2. /\ Nth(i) \in HasNext
        /\ Cardinality({g \in HasNext : g < Nth(i)}) = i - 1
    BY <2>1
  <2> HIDE DEF Nth
  <2> QED BY <1>3, <2>2
<1>5. Round = [i \in 1..Cardinality(H) |-> grouped[Nth(i)][position + 1]]
  BY DEF Round
<1> HIDE DEF Nth
<1>6. fs = [i \in 1..Cardinality(H) |-> fs[i]] /\ \A i \in 1..Cardinality(H) : fs[i] = Nth(i)
  OBVIOUS
<1>7. Round = [i \in 1..Cardinality(H) |-> grouped[fs[i]][position + 1]]
  BY <1>5, <1>6
<1> HIDE DEF fs
<1>8. Lists(Numbered, H, fs)
  <2> HIDE DEF H
  <2> QED BY <1>2, <1>4, <1>6, ByRankLists
<1>9. Apart(fs) /\ fs \in Seq(H) /\ Len(fs) = Cardinality(H)
  <2> HIDE DEF H
  <2> QED BY <1>8, ListsTell DEF Lists
<1>10. \A f \in Feature : position < Len(grouped[f]) <=> \E i \in 1..Len(fs) : fs[i] = f
  <2>1. \A f \in H : \E i \in 1..Len(fs) : fs[i] = f
    BY <1>8 DEF Lists
  <2>2. \A i \in 1..Len(fs) : fs[i] \in H
    BY <1>9
  <2> QED BY <2>1, <2>2 DEF HasNext
<1>11. Len(Round) = Len(fs) /\ DOMAIN Round = 1..Len(fs)
  BY <1>2, <1>7, <1>9
<1>12. fs \in Seq(Feature) /\ Len(fs) \in Nat
  BY <1>1, <1>2, <1>9
<1>13. \A i \in 1..Len(fs) : Round[i] = grouped[fs[i]][position + 1]
  BY <1>7, <1>9
<1>14. \A i, j \in 1..Len(fs) : fs[i] = fs[j] => i = j
  BY <1>9 DEF Apart
<1> QED BY <1>10, <1>11, <1>12, <1>13, <1>14

LEMMA ExtendBeamStep == ASSUME SelInv, ExtendBeam PROVE SelInv'
<1>1. PICK fs : /\ fs \in Seq(Feature) /\ Len(fs) \in Nat
                /\ \A f \in Feature : position < Len(grouped[f])
                                        <=> \E i \in 1..Len(fs) : fs[i] = f
                /\ \A i, j \in 1..Len(fs) : fs[i] = fs[j] => i = j
                /\ Len(Round) = Len(fs) /\ DOMAIN Round = 1..Len(fs)
                /\ \A i \in 1..Len(fs) : Round[i] = grouped[fs[i]][position + 1]
  BY RoundIs
<1>2. /\ selecting = "beam" /\ Len(beam) < width
      /\ width \in Nat /\ position \in Nat
      /\ Groups(grouped) /\ Drawn(grouped, beam, position, width)
      /\ beam \in Seq(Brief) /\ Len(beam) \in Nat
      /\ \A f \in Feature : \A i \in 1..Len(grouped[f]) : grouped[f][i] \in Singles
      /\ \A i \in 1..Len(beam) : beam[i] \in Singles
  BY DEF ExtendBeam, SelInv, SelectionTyped, BeamIsFair, Drawn
<1>3. ASSUME NEW i \in 1..Len(fs)
      PROVE  Round[i] \in Singles /\ Round[i] \in Brief
  <2>1. fs[i] \in Feature /\ position < Len(grouped[fs[i]])
    BY <1>1
  <2>2. Len(grouped[fs[i]]) \in Nat
    BY <1>2, <2>1 DEF Groups
  <2>3. position + 1 \in 1..Len(grouped[fs[i]])
    BY <1>2, <2>1, <2>2
  <2>4. Round[i] \in Singles
    BY <1>1, <1>2, <2>1, <2>3
  <2> QED BY <1>2, <2>1, <2>3, <2>4, <1>1 DEF Groups
<1>4. PICK rd : rd = Round /\ rd \in Seq(Brief) /\ Len(rd) = Len(fs)
  <2>1. Round \in [1..Len(fs) -> Brief]
    <3>1. Round = [i \in 1..Len(fs) |-> Round[i]]
      BY <1>1 DEF Round
    <3> QED BY <1>3, <3>1
  <2>2. Round \in Seq(Brief)
    BY <1>1, <2>1
  <2> QED BY <1>1, <2>2
<1> DEFINE all == beam \o rd
           room == IF Len(all) < width THEN Len(all) ELSE width
           m == room - Len(beam)
<1>5. /\ all \in Seq(Brief) /\ Len(all) = Len(beam) + Len(fs)
      /\ \A i \in 1..Len(beam) : all[i] = beam[i]
      /\ \A i \in 1..Len(fs) : all[Len(beam) + i] = rd[i]
  <2>1. beam \in Seq(Brief) /\ rd \in Seq(Brief) /\ Len(rd) = Len(fs)
    BY <1>2, <1>4
  <2>2. /\ all \in Seq(Brief) /\ Len(all) = Len(beam) + Len(rd)
        /\ \A i \in 1..Len(beam) : all[i] = beam[i]
    BY <2>1
  <2>3. \A i \in 1..Len(rd) : all[Len(beam) + i] = rd[i]
    BY <2>1
  <2> QED BY <2>1, <2>2, <2>3
<1>6. beam' = SubSeq(all, 1, room)
  BY <1>4 DEF ExtendBeam
<1> HIDE DEF all
<1>7. /\ m \in Nat /\ m <= Len(fs) /\ Len(beam) + m <= width
      /\ m = Len(fs) \/ Len(beam) + m = width
      /\ room = Len(beam) + m /\ room <= Len(all) /\ room \in Nat
  BY <1>1, <1>2, <1>5
<1> HIDE DEF m, room
<1>8. PICK c : c = beam'
  OBVIOUS
<1>9. /\ c \in Seq(Brief) /\ Len(c) = Len(beam) + m
      /\ \A i \in 1..room : c[i] = all[i]
  <2>1. /\ SubSeq(all, 1, room) \in Seq(Brief) /\ Len(SubSeq(all, 1, room)) = room
        /\ \A i \in 1..room : SubSeq(all, 1, room)[i] = all[i]
    BY <1>5, <1>7
  <2> QED BY <1>6, <1>7, <1>8, <2>1
<1>10. /\ \A i \in 1..Len(beam) : c[i] = beam[i]
       /\ \A i \in 1..m : c[Len(beam) + i] = rd[i]
  <2>1. \A i \in 1..Len(beam) : i \in 1..room
    BY <1>2, <1>7
  <2>2. \A i \in 1..m : Len(beam) + i \in 1..room /\ i \in 1..Len(fs)
    <3>1. /\ Len(beam) \in Nat /\ Len(fs) \in Nat /\ m \in Nat /\ m <= Len(fs)
          /\ room = Len(beam) + m
      BY <1>1, <1>2, <1>7
    <3> QED BY <3>1
  <2> QED BY <1>5, <1>9, <2>1, <2>2
<1>11. \A i \in 1..m : i \in 1..Len(fs)
  <2>1. Len(fs) \in Nat /\ m \in Nat /\ m <= Len(fs)
    BY <1>1, <1>7
  <2> QED BY <2>1
<1>12. Drawn(grouped, c, position + 1, width)
  <2>1. \A i \in 1..m : c[Len(beam) + i] = grouped[fs[i]][position + 1]
    BY <1>1, <1>4, <1>10, <1>11
  <2>2. PICK g, b, at, wide, n : /\ g = grouped /\ b = beam /\ at = position
                                 /\ wide = width /\ n = m
    OBVIOUS
  <2>3. /\ Groups(g) /\ at \in Nat /\ wide \in Nat /\ Drawn(g, b, at, wide) /\ Len(b) < wide
        /\ n \in Nat /\ n <= Len(fs) /\ Len(b) + n <= wide
        /\ n = Len(fs) \/ Len(b) + n = wide
    BY <1>2, <1>7, <2>2
  <2>4. HaveNext(fs, g, at)
    BY <1>1, <2>2 DEF HaveNext
  <2>5. Extended(c, b, n, fs, g, at)
    BY <1>9, <1>10, <2>1, <2>2 DEF Extended
  <2>6. Drawn(g, c, at + 1, wide)
    BY <2>3, <2>4, <2>5, RoundDraws
  <2> QED BY <2>2, <2>6
<1>13. \A i \in 1..Len(c) : c[i] \in Singles
  <2> TAKE i \in 1..Len(c)
  <2>1. CASE i \in 1..Len(beam)
    BY <1>2, <1>10, <2>1
  <2>2. CASE i \notin 1..Len(beam)
    <3>1. i - Len(beam) \in 1..m /\ i = Len(beam) + (i - Len(beam))
      BY <1>2, <1>7, <1>9, <2>2
    <3> QED BY <1>3, <1>4, <1>10, <1>11, <3>1
  <2> QED BY <2>1, <2>2
<1>14. BeamIsFair'
  <2>1. Singles' = Singles
    BY CandidatesStay DEF ExtendBeam
  <2>2. grouped' = grouped /\ position' = position + 1 /\ width' = width /\ selecting' = "beam"
    BY <1>2 DEF ExtendBeam
  <2> QED BY <1>2, <1>8, <1>12, <1>13, <2>1, <2>2 DEF BeamIsFair
<1>15. SelectionTyped'
  BY DEF SelInv, ExtendBeam, SelectionTyped
<1>16. PairsAreRanked' /\ PassIsFair' /\ ChoiceIsFair'
  BY BegunFacts DEF ExtendBeam, PairsAreRanked, PassIsFair, ChoiceIsFair
<1> QED BY <1>14, <1>15, <1>16 DEF SelInv

LEMMA PairUpStep == ASSUME SelInv, PairUp PROVE SelInv'
<1> DEFINE P == PairsOf(ToSet(beam))
<1>1. Lists(Order, P, Ranked(P))
  BY PairingFacts, RankedLists
<1>2. /\ pairs' = Ranked(P) /\ left' = pairs' /\ selected' = <<>> /\ maximum' = maximum
      /\ selecting' = IF maximum = 0 THEN "selected" ELSE "first pass"
      /\ maximum \in Nat
  BY BegunFacts DEF PairUp, SelInv, SelectionTyped
<1>3. SelectionTyped'
  BY <1>2 DEF SelInv, PairUp, SelectionTyped
<1>4. BeamIsFair'
  BY <1>2, BeamStays DEF PairUp
<1>5. PairsAreRanked'
  <2>1. Order' = Order /\ PairsOf(ToSet(beam))' = PairsOf(ToSet(beam))
    BY CandidatesStay, PairsOfBeamStay DEF PairUp
  <2>2. Lists(Order, PairsOf(ToSet(beam)), pairs)'
    BY <1>1, <1>2, <2>1
  <2> QED BY <1>2, <2>2 DEF PairsAreRanked
<1>6. left' = pairs' /\ (maximum # 0 => 0 < maximum)
  <2>1. maximum \in Nat
    BY DEF SelInv, SelectionTyped
  <2>2. left' = pairs'
    BY DEF PairUp
  <2>3. maximum # 0 => 0 < maximum
    BY <2>1
  <2> QED BY <2>2, <2>3
<1>7. PICK p : p = pairs' /\ Apart(p) /\ p \in Seq(Brief) /\ Len(p) \in Nat
  <2>1. Apart(Ranked(P)) /\ Ranked(P) \in Seq(P)
    BY <1>1, ListsTell
  <2>2. Ranked(P) \in Seq(Brief)
    BY <2>1, PairingFacts
  <2> QED BY <1>2, <2>1, <2>2 DEF Apart
<1>8. Firsts(p, 0) = {} /\ 0 \in 0..Len(p) /\ Len(<<>>) = 0 /\ ToSet(<<>>) = {}
  BY <1>7, NothingListed DEF Firsts
<1>9. PassIsFair'
  <2>1. SUFFICES ASSUME maximum # 0, selecting' = "first pass"
                 PROVE  PassIsFair'
    BY <1>2 DEF PassIsFair
  <2>2. Rest(left', p, 0)
    <3>1. left' = p /\ Len(p) = Len(p) - 0 /\ \A i \in 1..Len(p) : 0 + i = i
      BY <1>7, <1>6
    <3>2. Rest(p, p, 0)
      BY <1>7, <3>1 DEF Rest
    <3> QED BY <3>1, <3>2
  <2>3. /\ Len(<<>>) = Cardinality(ToSet(<<>>)) /\ <<>> \in Seq(Brief)
        /\ Len(<<>>) \in Nat /\ Len(<<>>) < maximum
    <3>1. <<>> \in Seq(Brief)
      OBVIOUS
    <3>2. Cardinality(ToSet(<<>>)) = 0
      BY <1>8, FS_EmptySet
    <3>3. 0 < maximum
      BY <1>6, <2>1
    <3> QED BY <3>1, <3>2, <3>3
  <2> QED BY <1>2, <1>7, <1>8, <2>1, <2>2, <2>3 DEF PassIsFair
<1>10. ChoiceIsFair'
  <2>1. SUFFICES ASSUME maximum = 0
                 PROVE  ChoiceIsFair'
    BY <1>2 DEF ChoiceIsFair
  <2>2. Chosen({}, p, 0)
    BY <1>8, FS_EmptySet DEF Chosen
  <2>3. Lists(Order', {}, <<>>)
    BY NothingListed
  <2> QED BY <1>2, <1>7, <1>8, <2>1, <2>2, <2>3 DEF ChoiceIsFair
<1> QED BY <1>3, <1>4, <1>5, <1>9, <1>10 DEF SelInv

LEMMA LookedAt ==
  ASSUME NEW p, Apart(p), p \in Seq(Brief), NEW k \in 0..Len(p), NEW l, Rest(l, p, k), l # <<>>
  PROVE  /\ k \in 0..(Len(p) - 1) /\ k + 1 \in 0..Len(p)
         /\ Head(l) = p[k + 1] /\ Head(l) \in UpTo(p, Len(p)) /\ Head(l) \in Brief
         /\ Rest(Tail(l), p, k + 1)
<1>1. /\ l \in Seq(Brief) /\ Len(l) \in Nat /\ Len(l) = Len(p) - k /\ Len(p) \in Nat
      /\ \A i \in 1..Len(l) : l[i] = p[k + i]
  BY DEF Rest, Apart
<1>2. Len(l) # 0
  BY <1>1
<1>3. k \in 0..(Len(p) - 1) /\ k + 1 \in 0..Len(p) /\ k + 1 \in 1..Len(p)
  BY <1>1, <1>2
<1>4. Head(l) = l[1] /\ 1 \in 1..Len(l) /\ Head(l) \in Brief
  BY <1>1, <1>2
<1>5. Head(l) = p[k + 1]
  BY <1>1, <1>4
<1>6. /\ Tail(l) \in Seq(Brief) /\ Len(Tail(l)) = Len(l) - 1
      /\ \A i \in 1..(Len(l) - 1) : Tail(l)[i] = l[i + 1]
  BY <1>1, <1>2
<1>7. ASSUME NEW i \in 1..Len(Tail(l))
      PROVE  Tail(l)[i] = p[k + 1 + i]
  <2>1. i \in 1..(Len(l) - 1) /\ i + 1 \in 1..Len(l) /\ k + (i + 1) = k + 1 + i
    BY <1>1, <1>6
  <2> QED BY <1>1, <1>6, <2>1
<1>8. Rest(Tail(l), p, k + 1)
  <2>1. Len(Tail(l)) = Len(p) - (k + 1) /\ Len(Tail(l)) \in Nat
    BY <1>1, <1>2, <1>6
  <2> QED BY <1>6, <1>7, <2>1 DEF Rest
<1> QED BY <1>3, <1>4, <1>5, <1>8 DEF UpTo

LEMMA NothingLeft ==
  ASSUME NEW p, Apart(p), NEW k \in 0..Len(p), NEW l, Rest(l, p, k), l = <<>>
  PROVE  k = Len(p)
<1>1. Len(l) = Len(p) - k /\ Len(p) \in Nat
  BY DEF Rest, Apart
<1>2. Len(l) = 0
  OBVIOUS
<1> QED BY <1>1, <1>2

LEMMA AllAreWithin ==
  ASSUME NEW p, Apart(p)
  PROVE  Len(p) \in 0..Len(p)
BY DEF Apart

LEMMA OneMoreChosen ==
  ASSUME NEW s, s \in Seq(Brief), Len(s) \in Nat, IsFiniteSet(ToSet(s)),
         Len(s) = Cardinality(ToSet(s)), NEW e \in Brief, e \notin ToSet(s)
  PROVE  /\ Append(s, e) \in Seq(Brief) /\ Len(Append(s, e)) = Len(s) + 1
         /\ ToSet(Append(s, e)) = ToSet(s) \cup {e}
         /\ Cardinality(ToSet(Append(s, e))) = Len(s) + 1
<1>1. /\ Append(s, e) \in Seq(Brief) /\ Len(Append(s, e)) = Len(s) + 1
      /\ \A i \in 1..Len(s) : Append(s, e)[i] = s[i]
      /\ Append(s, e)[Len(s) + 1] = e
      /\ DOMAIN Append(s, e) = 1..(Len(s) + 1) /\ DOMAIN s = 1..Len(s)
  OBVIOUS
<1>2. \A i : i \in 1..(Len(s) + 1) <=> i \in 1..Len(s) \/ i = Len(s) + 1
  OBVIOUS
<1>3. ToSet(Append(s, e)) = ToSet(s) \cup {e}
  BY <1>1, <1>2 DEF ToSet
<1>4. Cardinality(ToSet(s) \cup {e}) = Len(s) + 1
  BY FS_AddElement
<1> QED BY <1>1, <1>3, <1>4

\* A step of a pass, once what it chooses is known.
LEMMA PassGoesOn ==
  ASSUME SelInv, selecting \in {"first pass", "second pass"}, selecting' = selecting,
         NEW k \in 0..Len(pairs), Rest(left', pairs, k),
         Len(selected') \in Nat, selected' \in Seq(Brief),
         Len(selected') = Cardinality(ToSet(selected')), Len(selected') < maximum,
         ToSet(selected') = IF selecting = "first pass" THEN Firsts(pairs, k)
                            ELSE Firsts(pairs, Len(pairs)) \cup UpTo(pairs, k),
         UNCHANGED <<bad, columns, thresholds, least, width, maximum, grouped, beam,
                     position, pairs>>
  PROVE  SelInv'
<1>1. SelectionTyped'
  BY DEF SelInv, SelectionTyped
<1>2. BeamIsFair'
  BY BeamStays
<1>3. PairsAreRanked'
  BY PairsStay
<1>4. PassIsFair'
  BY DEF PassIsFair
<1>5. ChoiceIsFair'
  BY DEF ChoiceIsFair
<1> QED BY <1>1, <1>2, <1>3, <1>4, <1>5 DEF SelInv

LEMMA PassesEnd ==
  ASSUME SelInv, selecting \in {"first pass", "second pass"}, selecting' = "selected",
         NEW C, C \subseteq UpTo(pairs, Len(pairs)), Chosen(C, pairs, maximum),
         selected' = Ranked(C),
         UNCHANGED <<bad, columns, thresholds, least, width, maximum, grouped, beam,
                     position, pairs>>
  PROVE  SelInv'
<1>1. SelectionTyped'
  BY DEF SelInv, SelectionTyped
<1>2. BeamIsFair'
  BY BeamStays
<1>3. PairsAreRanked'
  BY PairsStay
<1>4. PassIsFair'
  BY DEF PassIsFair
<1>5. ChoiceIsFair'
  <2>1. Lists(Order, C, Ranked(C)) /\ ToSet(Ranked(C)) = C
    BY PairsFacts
  <2>2. Order' = Order
    BY CandidatesStay
  <2>3. ToSet(selected)' = C
    BY <2>1
  <2>4. Lists(Order, ToSet(selected), selected)'
    BY <2>1, <2>2, <2>3
  <2>5. Chosen(ToSet(selected), pairs, maximum)'
    BY <2>3
  <2> QED BY <2>4, <2>5 DEF ChoiceIsFair
<1> QED BY <1>1, <1>2, <1>3, <1>4, <1>5 DEF SelInv

\* Where a pass is.
LEMMA PassFacts ==
  ASSUME SelInv, selecting \in {"first pass", "second pass"}
  PROVE  /\ Apart(pairs) /\ pairs \in Seq(Brief) /\ maximum \in Nat
         /\ Len(selected) \in Nat /\ selected \in Seq(Brief)
         /\ Len(selected) = Cardinality(ToSet(selected)) /\ Len(selected) < maximum
         /\ IsFiniteSet(ToSet(selected)) /\ ToSet(selected) \subseteq UpTo(pairs, Len(pairs))
         /\ \E k \in 0..Len(pairs) :
              /\ Rest(left, pairs, k)
              /\ ToSet(selected) = IF selecting = "first pass"
                                   THEN Firsts(pairs, k)
                                   ELSE Firsts(pairs, Len(pairs)) \cup UpTo(pairs, k)
<1>1. /\ Apart(pairs) /\ pairs \in Seq(Brief)
      /\ \A C : C \subseteq UpTo(pairs, Len(pairs)) => IsFiniteSet(C)
  BY PairsFacts
<1>2. /\ Len(selected) \in Nat /\ selected \in Seq(Brief)
      /\ Len(selected) = Cardinality(ToSet(selected)) /\ Len(selected) < maximum
      /\ maximum \in Nat
  BY DEF SelInv, PassIsFair, SelectionTyped
<1>3. PICK k \in 0..Len(pairs) :
              /\ Rest(left, pairs, k)
              /\ ToSet(selected) = IF selecting = "first pass"
                                   THEN Firsts(pairs, k)
                                   ELSE Firsts(pairs, Len(pairs)) \cup UpTo(pairs, k)
  BY DEF SelInv, PassIsFair
<1>4. ToSet(selected) \subseteq UpTo(pairs, Len(pairs))
  <2>1. Len(pairs) \in 0..Len(pairs)
    BY <1>1, AllAreWithin
  <2>2. /\ Firsts(pairs, k) \subseteq UpTo(pairs, k)
        /\ Firsts(pairs, Len(pairs)) \subseteq UpTo(pairs, Len(pairs))
        /\ UpTo(pairs, k) \subseteq UpTo(pairs, Len(pairs))
    BY <1>1, <2>1, FirstsAre
  <2> QED BY <1>3, <2>2
<1> QED BY <1>1, <1>2, <1>3, <1>4

LEMMA FirstPassStep == ASSUME SelInv, FirstPass PROVE SelInv'
<1>1. /\ selecting = "first pass" /\ left # <<>> /\ left' = Tail(left)
      /\ UNCHANGED <<bad, columns, thresholds, least, width, maximum, grouped, beam,
                     position, pairs>>
  BY DEF FirstPass
<1>2. /\ Apart(pairs) /\ pairs \in Seq(Brief) /\ maximum \in Nat
      /\ Len(selected) \in Nat /\ selected \in Seq(Brief)
      /\ Len(selected) = Cardinality(ToSet(selected)) /\ Len(selected) < maximum
      /\ IsFiniteSet(ToSet(selected)) /\ ToSet(selected) \subseteq UpTo(pairs, Len(pairs))
  BY <1>1, PassFacts
<1>3. PICK k \in 0..Len(pairs) : Rest(left, pairs, k) /\ ToSet(selected) = Firsts(pairs, k)
  BY <1>1, PassFacts
<1> DEFINE e == Head(left)
<1>4. /\ k \in 0..(Len(pairs) - 1) /\ k + 1 \in 0..Len(pairs)
      /\ e = pairs[k + 1] /\ e \in UpTo(pairs, Len(pairs)) /\ e \in Brief
      /\ Rest(left', pairs, k + 1)
  BY <1>1, <1>2, <1>3, LookedAt
<1> HIDE DEF e
<1>5. /\ (\E s \in ToSet(selected) : Features(s) = Features(e))
              => Firsts(pairs, k + 1) = ToSet(selected)
      /\ ~ (\E s \in ToSet(selected) : Features(s) = Features(e))
              => Firsts(pairs, k + 1) = ToSet(selected) \cup {e}
  BY <1>2, <1>3, <1>4, FirstsGrow
<1>6. CASE Represented(e) /\ UNCHANGED <<selected, selecting>>
  <2>1. Firsts(pairs, k + 1) = ToSet(selected')
    BY <1>5, <1>6 DEF Represented
  <2> QED BY <1>1, <1>2, <1>4, <1>6, <2>1, PassGoesOn
<1>7. CASE ~ Represented(e) /\ Select(e, "first pass")
  <2>1. Firsts(pairs, k + 1) = ToSet(selected) \cup {e} /\ e \notin ToSet(selected)
    BY <1>5, <1>7 DEF Represented
  <2>2. PICK s : s = Append(selected, e)
    OBVIOUS
  <2>3. /\ s \in Seq(Brief) /\ Len(s) = Len(selected) + 1
        /\ ToSet(s) = ToSet(selected) \cup {e} /\ Cardinality(ToSet(s)) = Len(selected) + 1
    BY <1>2, <1>4, <2>1, <2>2, OneMoreChosen
  <2>4. CASE Len(s) = maximum
    <3>1. selected' = Ranked(ToSet(s)) /\ selecting' = "selected"
      BY <1>7, <2>2, <2>4 DEF Select
    <3>2. Chosen(ToSet(s), pairs, maximum)
      BY <1>4, <2>1, <2>3, <2>4 DEF Chosen
    <3>3. ToSet(s) \subseteq UpTo(pairs, Len(pairs))
      BY <1>2, <1>4, <2>3
    <3> QED BY <1>1, <3>1, <3>2, <3>3, PassesEnd
  <2>5. CASE Len(s) # maximum
    <3>1. selected' = s /\ selecting' = "first pass"
      BY <1>7, <2>2, <2>5 DEF Select
    <3>2. Len(s) \in Nat /\ Len(s) < maximum /\ Len(s) = Cardinality(ToSet(s))
      BY <1>2, <2>3, <2>5
    <3>3. ToSet(s) = Firsts(pairs, k + 1)
      BY <2>1, <2>3
    <3> QED BY <1>1, <1>4, <2>3, <3>1, <3>2, <3>3, PassGoesOn
  <2> QED BY <2>4, <2>5
<1> QED BY <1>6, <1>7 DEF FirstPass, e

LEMMA SecondPassStep == ASSUME SelInv, SecondPass PROVE SelInv'
<1>1. /\ selecting = "second pass" /\ left # <<>> /\ left' = Tail(left)
      /\ UNCHANGED <<bad, columns, thresholds, least, width, maximum, grouped, beam,
                     position, pairs>>
  BY DEF SecondPass
<1>2. /\ Apart(pairs) /\ pairs \in Seq(Brief) /\ maximum \in Nat
      /\ Len(selected) \in Nat /\ selected \in Seq(Brief)
      /\ Len(selected) = Cardinality(ToSet(selected)) /\ Len(selected) < maximum
      /\ IsFiniteSet(ToSet(selected)) /\ ToSet(selected) \subseteq UpTo(pairs, Len(pairs))
  BY <1>1, PassFacts
<1> DEFINE F == Firsts(pairs, Len(pairs))
<1>3. PICK k \in 0..Len(pairs) :
        Rest(left, pairs, k) /\ ToSet(selected) = F \cup UpTo(pairs, k)
  BY <1>1, PassFacts
<1> DEFINE e == Head(left)
<1>4. /\ k \in 0..(Len(pairs) - 1) /\ k + 1 \in 0..Len(pairs)
      /\ e = pairs[k + 1] /\ e \in UpTo(pairs, Len(pairs)) /\ e \in Brief
      /\ Rest(left', pairs, k + 1)
  BY <1>1, <1>2, <1>3, LookedAt
<1> HIDE DEF e
<1>5. UpTo(pairs, k + 1) = UpTo(pairs, k) \cup {e}
  BY <1>2, <1>4, FirstsGrow
<1> HIDE DEF F
<1>6. CASE e \in ToSet(selected) /\ UNCHANGED <<selected, selecting>>
  <2>1. F \cup UpTo(pairs, k + 1) = ToSet(selected')
    BY <1>3, <1>5, <1>6
  <2> QED BY <1>1, <1>2, <1>4, <1>6, <2>1, PassGoesOn DEF F
<1>7. CASE e \notin ToSet(selected) /\ Select(e, "second pass")
  <2>1. F \cup UpTo(pairs, k + 1) = ToSet(selected) \cup {e}
    BY <1>3, <1>5
  <2>2. PICK s : s = Append(selected, e)
    OBVIOUS
  <2>3. /\ s \in Seq(Brief) /\ Len(s) = Len(selected) + 1
        /\ ToSet(s) = ToSet(selected) \cup {e} /\ Cardinality(ToSet(s)) = Len(selected) + 1
    BY <1>2, <1>4, <1>7, <2>2, OneMoreChosen
  <2>4. CASE Len(s) = maximum
    <3>1. selected' = Ranked(ToSet(s)) /\ selecting' = "selected"
      BY <1>7, <2>2, <2>4 DEF Select
    <3>2. Chosen(ToSet(s), pairs, maximum)
      BY <1>4, <2>1, <2>3, <2>4 DEF Chosen, F
    <3>3. ToSet(s) \subseteq UpTo(pairs, Len(pairs))
      BY <1>2, <1>4, <2>3
    <3> QED BY <1>1, <3>1, <3>2, <3>3, PassesEnd
  <2>5. CASE Len(s) # maximum
    <3>1. selected' = s /\ selecting' = "second pass"
      BY <1>7, <2>2, <2>5 DEF Select
    <3>2. Len(s) \in Nat /\ Len(s) < maximum /\ Len(s) = Cardinality(ToSet(s))
      BY <1>2, <2>3, <2>5
    <3>3. ToSet(s) = F \cup UpTo(pairs, k + 1)
      BY <2>1, <2>3
    <3> QED BY <1>1, <1>4, <2>3, <3>1, <3>2, <3>3, PassGoesOn DEF F
  <2> QED BY <2>4, <2>5
<1> QED BY <1>6, <1>7 DEF SecondPass, e

LEMMA StartSecondPassStep == ASSUME SelInv, StartSecondPass PROVE SelInv'
<1>1. /\ selecting = "first pass" /\ left = <<>> /\ left' = pairs /\ selecting' = "second pass"
      /\ UNCHANGED <<bad, columns, thresholds, least, width, maximum, grouped, beam,
                     position, pairs, selected>>
  BY DEF StartSecondPass
<1>2. /\ Apart(pairs) /\ pairs \in Seq(Brief) /\ maximum \in Nat
      /\ Len(selected) \in Nat /\ selected \in Seq(Brief)
      /\ Len(selected) = Cardinality(ToSet(selected)) /\ Len(selected) < maximum
  BY <1>1, PassFacts
<1>3. PICK k \in 0..Len(pairs) : Rest(left, pairs, k) /\ ToSet(selected) = Firsts(pairs, k)
  BY <1>1, PassFacts
<1>4. k = Len(pairs)
  BY <1>1, <1>2, <1>3, NothingLeft
<1>5. Len(pairs) \in Nat
  BY <1>2 DEF Apart
<1>6. Rest(left', pairs, 0) /\ 0 \in 0..Len(pairs)
  <2>1. \A p : p \in Seq(Brief) /\ Len(p) \in Nat => Rest(p, p, 0)
    <3> TAKE p
    <3> SUFFICES ASSUME p \in Seq(Brief), Len(p) \in Nat
                 PROVE  Rest(p, p, 0)
      OBVIOUS
    <3>1. Len(p) = Len(p) - 0 /\ \A i \in 1..Len(p) : 0 + i = i
      OBVIOUS
    <3> QED BY <3>1 DEF Rest
  <2>2. \A n \in Nat : 0 \in 0..n
    OBVIOUS
  <2> QED BY <1>1, <1>2, <1>5, <2>1, <2>2
<1>7. ToSet(selected) = Firsts(pairs, Len(pairs)) \cup UpTo(pairs, 0)
  <2>1. UpTo(pairs, 0) = {}
    BY DEF UpTo
  <2> QED BY <1>3, <1>4, <2>1
<1>8. SelectionTyped'
  BY <1>1 DEF SelInv, SelectionTyped
<1>9. BeamIsFair'
  BY <1>1, BeamStays
<1>10. PairsAreRanked'
  BY <1>1, PairsStay
<1>11. PassIsFair'
  <2>1. ToSet(selected') = Firsts(pairs', Len(pairs')) \cup UpTo(pairs', 0)
    BY <1>1, <1>7
  <2> QED BY <1>1, <1>2, <1>6, <2>1 DEF PassIsFair
<1>12. ChoiceIsFair'
  BY <1>1 DEF ChoiceIsFair
<1> QED BY <1>8, <1>9, <1>10, <1>11, <1>12 DEF SelInv

LEMMA FinishSelectionStep == ASSUME SelInv, FinishSelection PROVE SelInv'
<1>1. /\ selecting = "second pass" /\ left = <<>> /\ selecting' = "selected"
      /\ selected' = Ranked(ToSet(selected))
      /\ UNCHANGED <<bad, columns, thresholds, least, width, maximum, grouped, beam,
                     position, pairs>>
  BY DEF FinishSelection
<1>2. /\ Apart(pairs) /\ maximum \in Nat /\ Len(selected) \in Nat
      /\ Len(selected) = Cardinality(ToSet(selected)) /\ Len(selected) < maximum
      /\ ToSet(selected) \subseteq UpTo(pairs, Len(pairs))
  BY <1>1, PassFacts
<1>3. PICK k \in 0..Len(pairs) :
        /\ Rest(left, pairs, k)
        /\ ToSet(selected) = Firsts(pairs, Len(pairs)) \cup UpTo(pairs, k)
  BY <1>1, PassFacts
<1>4. k = Len(pairs)
  BY <1>1, <1>2, <1>3, NothingLeft
<1>5. ToSet(selected) = UpTo(pairs, Len(pairs))
  BY <1>2, <1>3, <1>4
<1>6. Cardinality(ToSet(selected)) <= maximum
  BY <1>2
<1>7. Chosen(ToSet(selected), pairs, maximum)
  BY <1>5, <1>6 DEF Chosen
<1> QED BY <1>1, <1>2, <1>7, PassesEnd

LEMMA NextSelectionInv == SelInv /\ [SelectionNext]_selectionVars => SelInv'
<1> SUFFICES ASSUME SelInv, [SelectionNext]_selectionVars
             PROVE  SelInv'
  OBVIOUS
<1>1. CASE SelectionNext
  BY <1>1, BeginStep, ExtendBeamStep, PairUpStep, FirstPassStep, StartSecondPassStep,
     SecondPassStep, FinishSelectionStep DEF SelectionNext
<1>2. CASE UNCHANGED selectionVars
  <2>1. UNCHANGED <<bad, columns, thresholds, least, width, maximum, grouped, beam,
                    position, pairs, left, selected, selecting>>
    BY <1>2 DEF selectionVars
  <2>2. SelectionTyped' /\ PassIsFair'
    BY <2>1 DEF SelInv, SelectionTyped, PassIsFair
  <2>3. BeamIsFair'
    BY <2>1, BeamStays
  <2>4. Order' = Order /\ PairsOf(ToSet(beam))' = PairsOf(ToSet(beam))
    BY <2>1, CandidatesStay, PairsOfBeamStay
  <2>5. PairsAreRanked' /\ ChoiceIsFair'
    BY <2>1, <2>4 DEF SelInv, PairsAreRanked, ChoiceIsFair
  <2> QED BY <2>2, <2>3, <2>5 DEF SelInv
<1> QED BY <1>1, <1>2

\* The inductive invariant: the beam has gone through the features together, what
\* is selected are the first pairs of their features or all looked at since.
THEOREM SelectionInvariance == SelectionSpec => []SelInv
<1>1. SelectionInit => SelInv
  BY SelectionInitially
<1>2. SelInv /\ [SelectionNext]_selectionVars => SelInv'
  BY NextSelectionInv
<1> QED BY <1>1, <1>2, PTL DEF SelectionSpec

LEMMA SelectionTells == SelInv => SelectionIsDiverse
<1> SUFFICES ASSUME SelInv
             PROVE  SelectionIsDiverse
  OBVIOUS
<1>1. PICK held : held = [f \in Feature |-> InBeam(f)]
  OBVIOUS
<1>2. HoldsBest(held, grouped)
  <2>1. PICK g, b, at, wide : /\ g = grouped /\ b = beam /\ at = position /\ wide = width
    OBVIOUS
  <2>2. Groups(g) /\ Drawn(g, b, at, wide) /\ at \in Nat
    BY <2>1 DEF SelInv, BeamIsFair, SelectionTyped
  <2>3. HeldIn(held, b)
    BY <1>1, <2>1 DEF InBeam, HeldIn
  <2>4. HoldsBest(held, g)
    BY <2>2, <2>3, DrawnTells
  <2> QED BY <2>1, <2>4
<1>3. \A f \in Feature : held[f] = InBeam(f)
  BY <1>1
<1>4. \A f \in Feature :
       /\ InBeam(f) = BestOf(f, Cardinality(InBeam(f)))
       /\ \A g \in Feature :
            \/ Cardinality(InBeam(g)) <= Cardinality(InBeam(f)) + 1
            \/ Cardinality(InBeam(f)) = Len(grouped[f])
  BY <1>2, <1>3 DEF BestOf, HoldsBest
<1>5. ASSUME selecting = "selected"
      PROVE  LET chosen == ToSet(selected)
                 Kinds(rules) == {Features(rule) : rule \in rules}
             IN
             /\ Len(selected) = Cardinality(chosen)
             /\ Len(selected) = IF Len(pairs) < maximum THEN Len(pairs) ELSE maximum
             /\ chosen \subseteq PairsOf(ToSet(beam))
             /\ \A i, j \in DOMAIN selected : i < j => RanksAbove(selected[i], selected[j])
             /\ Kinds(chosen) # Kinds(ToSet(pairs)) => Cardinality(Kinds(chosen)) = maximum
             /\ \A i \in DOMAIN pairs : pairs[i] \notin chosen =>
                  LET above == {pairs[j] : j \in 1..(i - 1)} IN
                  /\ Features(pairs[i]) \in Kinds(chosen) =>
                       \E s \in chosen \cap above : Features(s) = Features(pairs[i])
                  /\ Features(pairs[i]) \notin Kinds(chosen) =>
                       Kinds(chosen) \subseteq Kinds(above)
  <2> DEFINE C == ToSet(selected)
  <2>1. /\ Apart(pairs) /\ ToSet(pairs) = PairsOf(ToSet(beam))
        /\ UpTo(pairs, Len(pairs)) = ToSet(pairs)
    BY <1>5, PairsFacts
  <2>2. Lists(Order, C, selected) /\ Chosen(C, pairs, maximum) /\ maximum \in Nat
    BY <1>5 DEF SelInv, ChoiceIsFair, SelectionTyped
  <2>3. /\ Len(selected) = Cardinality(C) /\ DOMAIN selected = 1..Len(selected)
        /\ \A i, j \in 1..Len(selected) : i < j => RanksAbove(selected[i], selected[j])
    <3>1. Apart(selected)
      BY <2>2, ListsTell
    <3> QED BY <2>2, <3>1 DEF Lists, Order, Apart
  <2> HIDE DEF C
  <2>4. /\ C \subseteq UpTo(pairs, Len(pairs))
        /\ Cardinality(C) = IF Len(pairs) < maximum THEN Len(pairs) ELSE maximum
        /\ KindsOf(C) # KindsOf(UpTo(pairs, Len(pairs))) => Cardinality(KindsOf(C)) = maximum
        /\ \A i \in 1..Len(pairs) : pairs[i] \notin C =>
             /\ Features(pairs[i]) \in KindsOf(C) =>
                  \E s \in C \cap UpTo(pairs, i - 1) : Features(s) = Features(pairs[i])
             /\ Features(pairs[i]) \notin KindsOf(C) =>
                  KindsOf(C) \subseteq KindsOf(UpTo(pairs, i - 1))
    BY <2>1, <2>2, ChosenTells
  <2>5. DOMAIN pairs = 1..Len(pairs)
    BY <2>1 DEF Apart
  <2>6. /\ Len(selected) = Cardinality(C)
        /\ Len(selected) = IF Len(pairs) < maximum THEN Len(pairs) ELSE maximum
        /\ C \subseteq PairsOf(ToSet(beam))
        /\ \A i, j \in DOMAIN selected : i < j => RanksAbove(selected[i], selected[j])
    BY <2>1, <2>3, <2>4
  <2>7. KindsOf(C) # KindsOf(ToSet(pairs)) => Cardinality(KindsOf(C)) = maximum
    BY <2>1, <2>4
  <2>8. ASSUME NEW i \in DOMAIN pairs, pairs[i] \notin C
        PROVE  LET above == {pairs[j] : j \in 1..(i - 1)} IN
               /\ Features(pairs[i]) \in KindsOf(C) =>
                    \E s \in C \cap above : Features(s) = Features(pairs[i])
               /\ Features(pairs[i]) \notin KindsOf(C) =>
                    KindsOf(C) \subseteq KindsOf(above)
    <3>1. UpTo(pairs, i - 1) = {pairs[j] : j \in 1..(i - 1)}
      BY DEF UpTo
    <3> QED BY <2>4, <2>5, <2>8, <3>1
  <2> QED BY <2>6, <2>7, <2>8 DEF C, KindsOf
<1> QED BY <1>4, <1>5 DEF SelectionIsDiverse

\* However many candidates: no feature crowds out another in the beam of
\* _pair_beam, nor a pair of features one that ranks higher in
\* _diverse_pair_selection, and what is selected is ranked and as much as may be.
THEOREM SelectionStaysDiverse == SelectionSpec => []SelectionIsDiverse
<1>1. SelectionSpec => []SelInv
  BY SelectionInvariance
<1>2. SelInv => SelectionIsDiverse
  BY SelectionTells
<1> QED BY <1>1, <1>2, PTL

-----------------------------------------------------------------------------
(***************************************************************************)
(* DeliveryTelemetry: any number of keys and of clients.                   *)
(***************************************************************************)

Phase == {"unknown", "open"} \cup Ends
Event == [name : EventName, job : Key, status : Phase, attempt : Nat]
Entry == [by : Client, event : Event]

LedgerWellTyped ==
  /\ phase \in [Key -> Phase] /\ runs \in [Key -> Nat]
  /\ \A k \in Key : answer[k] # None <=> phase[k] = "succeeded"
  /\ DOMAIN answer = Key

TelemetryWellTyped ==
  /\ pending \in [Client -> SUBSET Event]
  /\ events \in Seq(Entry)

\* What an event says was so, and an end it reports has come for good.
IsTrue(e) ==
  /\ e.attempt <= runs[e.job] /\ phase[e.job] # "unknown"
  /\ e.status \in Ends => phase[e.job] = e.status /\ runs[e.job] = e.attempt
  /\ e.name = "job_result" => answer[e.job] # None
  /\ e.name = "job_cancelled" => phase[e.job] = "cancelled"

AllAreTrue ==
  /\ \A c \in Client : \A e \in pending[c] : IsTrue(e)
  /\ \A i \in DOMAIN events : IsTrue(events[i].event)

\* The events of a client follow one another, the one it has yet to write last.
InCourse ==
  /\ \A i, j \in DOMAIN events :
       i < j /\ events[i].by = events[j].by /\ events[j].event.job = events[i].event.job =>
         Follows(events[i].event, events[j].event)
  /\ \A i \in DOMAIN events : \A e \in pending[events[i].by] :
       e.job = events[i].event.job => Follows(events[i].event, e)
  /\ \A c \in Client : \A e, f \in pending[c] : e = f

TellInv == LedgerWellTyped /\ TelemetryWellTyped /\ AllAreTrue /\ InCourse

-----------------------------------------------------------------------------
\* What no step of the ledger takes back.
Grows ==
  \A k \in Key :
    /\ runs[k] <= runs'[k]
    /\ phase[k] # "unknown" => phase'[k] # "unknown"
    /\ phase[k] \in Ends => phase'[k] = phase[k] /\ runs'[k] = runs[k]

LEMMA BindGrows ==
  ASSUME LedgerWellTyped, NEW k \in Key, NEW q, NEW n, Bind(k, q, n)
  PROVE  LedgerWellTyped' /\ Grows
  BY DEF LedgerWellTyped, Bind, Grows, Phase, Ends

LEMMA WithdrawGrows ==
  ASSUME LedgerWellTyped, NEW k \in Key, Withdraw(k)
  PROVE  LedgerWellTyped' /\ Grows
  BY DEF LedgerWellTyped, Withdraw, Grows, Phase, Ends

LEMMA FinishGrows ==
  ASSUME LedgerWellTyped, NEW k \in Key, NEW r \in Result, Finish(k, r)
  PROVE  LedgerWellTyped' /\ Grows
  BY TelemetryAssumption DEF LedgerWellTyped, Finish, Grows, Phase, Ends

LEMMA RunGrows ==
  ASSUME LedgerWellTyped, NEW k \in Key, Run(k, {})
  PROVE  LedgerWellTyped' /\ Grows
  BY DEF LedgerWellTyped, Run, Bury, Grows, Phase, Ends

LEMMA GiveUpGrows ==
  ASSUME LedgerWellTyped, NEW D \in SUBSET Spent, GiveUp(D)
  PROVE  LedgerWellTyped' /\ Grows
  BY DEF LedgerWellTyped, GiveUp, Bury, Spent, Grows, Phase, Ends

LEMMA StillGrows ==
  ASSUME LedgerWellTyped, UNCHANGED ledgerVars
  PROVE  LedgerWellTyped' /\ Grows
  BY DEF LedgerWellTyped, ledgerVars, Grows

\* What was true of an ended or running job stays true.
LEMMA TruthStays ==
  ASSUME LedgerWellTyped, LedgerWellTyped', Grows, NEW e \in Event, IsTrue(e)
  PROVE  /\ e.attempt <= runs'[e.job] /\ phase'[e.job] # "unknown"
         /\ e.status \in Ends => phase'[e.job] = e.status /\ runs'[e.job] = e.attempt
         /\ e.name = "job_result" => answer'[e.job] # None
         /\ e.name = "job_cancelled" => phase'[e.job] = "cancelled"
  BY DEF LedgerWellTyped, Grows, IsTrue, Event, Ends

LEMMA InitTellInv == TelemetryInit => TellInv
  BY DEF TelemetryInit, LedgerInit, TellInv, LedgerWellTyped, TelemetryWellTyped,
     AllAreTrue, InCourse, Phase, Ends

\* A step of the ledger that leaves what was said alone.
LEMMA SilentStep ==
  ASSUME TellInv, LedgerWellTyped', Grows, UNCHANGED events,
         pending' \in [Client -> SUBSET Event],
         \A c \in Client : pending'[c] \subseteq pending[c]
  PROVE  TellInv'
<1>1. TelemetryWellTyped'
  BY DEF TellInv, TelemetryWellTyped
<1>2. \A i \in DOMAIN events : events[i] \in Entry
  BY DEF TellInv, TelemetryWellTyped
<1>3. ASSUME NEW c \in Client, NEW e \in pending'[c]
      PROVE  e \in Event /\ IsTrue(e)
  BY <1>3 DEF TellInv, TelemetryWellTyped, AllAreTrue
<1>4. ASSUME NEW i \in DOMAIN events
      PROVE  events[i].event \in Event /\ IsTrue(events[i].event)
  BY <1>2 DEF TellInv, AllAreTrue, Entry
<1>5. AllAreTrue'
  BY <1>3, <1>4, TruthStays DEF TellInv, AllAreTrue, IsTrue
<1>6. InCourse'
  BY <1>2 DEF TellInv, InCourse, Follows, Entry
<1> QED BY <1>1, <1>5, <1>6 DEF TellInv

\* A call of the facade: what it will write is true, and follows what was written.
LEMMA EmitStep ==
  ASSUME TellInv, LedgerWellTyped', Grows, NEW c \in Client, NEW k \in Key,
         NEW n \in EventName, Emit(c, Summary(n, k)),
         phase'[k] # "unknown",
         n = "job_result" => phase'[k] = "succeeded",
         n = "job_cancelled" => phase'[k] = "cancelled"
  PROVE  TellInv'
<1>1. PICK s \in Event :
        /\ s = Summary(n, k)
        /\ s.job = k /\ s.name = n /\ s.status = phase'[k] /\ s.attempt = runs'[k]
  BY DEF Summary, Event, LedgerWellTyped
<1>2. /\ pending[c] = {} /\ pending' = [pending EXCEPT ![c] = {s}]
      /\ UNCHANGED <<events, head>>
  BY <1>1 DEF Emit
<1>3. /\ pending' \in [Client -> SUBSET Event] /\ pending'[c] = {s}
      /\ \A d \in Client \ {c} : pending'[d] = pending[d]
  BY <1>1, <1>2 DEF TellInv, TelemetryWellTyped
<1>4. \A i \in DOMAIN events : events[i] \in Entry
  BY DEF TellInv, TelemetryWellTyped
<1>5. TelemetryWellTyped'
  BY <1>2, <1>3 DEF TellInv, TelemetryWellTyped
<1>6. ASSUME NEW i \in DOMAIN events
      PROVE  events[i].event \in Event /\ IsTrue(events[i].event)
  BY <1>4 DEF TellInv, AllAreTrue, Entry
<1>7. IsTrue(s)'
  BY <1>1 DEF IsTrue, LedgerWellTyped
<1>8. ASSUME NEW d \in Client \ {c}, NEW e \in pending[d] PROVE e \in Event /\ IsTrue(e)
  BY DEF TellInv, TelemetryWellTyped, AllAreTrue
<1>9. AllAreTrue'
  BY <1>2, <1>3, <1>6, <1>7, <1>8, TruthStays DEF TellInv, AllAreTrue, IsTrue
<1>10. ASSUME NEW i \in DOMAIN events, events[i].event.job = k
       PROVE  Follows(events[i].event, s)
  BY <1>1, <1>6, <1>10, TruthStays DEF TellInv, Follows
<1>11. InCourse'
  BY <1>1, <1>2, <1>3, <1>4, <1>10 DEF TellInv, InCourse, Follows, Entry
<1> QED BY <1>5, <1>9, <1>11 DEF TellInv

LEMMA AppendStep == ASSUME TellInv, NEW c \in Client, AppendEvent(c) PROVE TellInv'
<1>1. PICK e \in pending[c] : events' = Append(events, [by |-> c, event |-> e])
  BY DEF AppendEvent
<1>2. pending' = [pending EXCEPT ![c] = {}] /\ UNCHANGED ledgerVars
  BY DEF AppendEvent
<1>3. e \in Event /\ [by |-> c, event |-> e] \in Entry
  BY DEF TellInv, TelemetryWellTyped, Entry
<1>4. /\ events' \in Seq(Entry) /\ Len(events) \in Nat /\ DOMAIN events = 1..Len(events)
      /\ DOMAIN events' = 1..(Len(events) + 1)
      /\ \A i \in DOMAIN events : events'[i] = events[i] /\ events[i] \in Entry
      /\ events'[Len(events) + 1] = [by |-> c, event |-> e]
  BY <1>1, <1>3 DEF TellInv, TelemetryWellTyped
<1>5. /\ pending' \in [Client -> SUBSET Event] /\ pending'[c] = {}
      /\ \A d \in Client \ {c} : pending'[d] = pending[d]
  BY <1>2 DEF TellInv, TelemetryWellTyped
<1>6. TelemetryWellTyped' /\ LedgerWellTyped'
  BY <1>2, <1>4, <1>5 DEF TellInv, TelemetryWellTyped, LedgerWellTyped, ledgerVars
<1>7. UNCHANGED <<runs, phase, answer>> /\ IsTrue(e)
  BY <1>2 DEF ledgerVars, TellInv, AllAreTrue
<1>8. AllAreTrue'
  BY <1>4, <1>5, <1>7 DEF TellInv, AllAreTrue, IsTrue
<1>9. ASSUME NEW i \in DOMAIN events, events[i].by = c, events[i].event.job = e.job
      PROVE  Follows(events[i].event, e)
  BY <1>9 DEF TellInv, InCourse
<1>10. ASSUME NEW i \in DOMAIN events', NEW j \in DOMAIN events', i < j,
              events'[i].by = events'[j].by,
              events'[j].event.job = events'[i].event.job
       PROVE  Follows(events'[i].event, events'[j].event)
  <2>1. i \in DOMAIN events
    BY <1>4, <1>10
  <2>2. CASE j \in DOMAIN events
    BY <1>4, <1>10, <2>1, <2>2 DEF TellInv, InCourse
  <2>3. CASE j = Len(events) + 1
    BY <1>4, <1>9, <1>10, <2>1, <2>3
  <2> QED BY <1>4, <2>2, <2>3
<1>11. ASSUME NEW i \in DOMAIN events', NEW f \in pending'[events'[i].by],
              f.job = events'[i].event.job
       PROVE  Follows(events'[i].event, f)
  <2>1. events'[i].by # c
    BY <1>5, <1>11
  <2>2. i \in DOMAIN events
    BY <1>4, <2>1
  <2> QED BY <1>4, <1>5, <1>11, <2>1, <2>2 DEF TellInv, InCourse, Entry
<1>12. InCourse'
  <2>1. \A d \in Client : \A f, g \in pending'[d] : f = g
    BY <1>5 DEF TellInv, InCourse
  <2> QED BY <1>10, <1>11, <2>1 DEF InCourse, Follows
<1> QED BY <1>6, <1>8, <1>12 DEF TellInv

LEMMA NextTellInv == TellInv /\ [TelemetryNext]_telemetryVars => TellInv'
<1> SUFFICES ASSUME TellInv, [TelemetryNext]_telemetryVars PROVE TellInv'
  OBVIOUS
<1> USE DEF TellInv
<1>1. CASE OpenSink
  BY <1>1, StillGrows, SilentStep DEF OpenSink, TelemetryWellTyped
<1>2. CASE WorkersStep
  <2>1. LedgerWellTyped' /\ Grows
    BY <1>2, GiveUpGrows, RunGrows, FinishGrows DEF WorkersStep
  <2> QED BY <1>2, <2>1, SilentStep DEF WorkersStep, TelemetryWellTyped
<1>3. ASSUME NEW c \in Client, AppendEvent(c) PROVE TellInv'
  BY <1>3, AppendStep
<1>4. ASSUME NEW c \in Client, LoseEvent(c) PROVE TellInv'
  <2>1. /\ pending' \in [Client -> SUBSET Event]
        /\ \A d \in Client : pending'[d] \subseteq pending[d]
    BY <1>4 DEF LoseEvent, TelemetryWellTyped
  <2> QED BY <1>4, <2>1, StillGrows, SilentStep DEF LoseEvent
<1>5. ASSUME NEW c \in Client, NEW k \in Key, NEW q \in Request, NEW n \in Attempts,
             SubmitJob(c, k, q, n)
      PROVE TellInv'
  <2>1. LedgerWellTyped' /\ Grows /\ phase'[k] # "unknown"
    <3>1. CASE Bind(k, q, n)
      BY <3>1, BindGrows DEF Bind, LedgerWellTyped
    <3>2. CASE phase[k] # "unknown" /\ UNCHANGED ledgerVars
      BY <3>2, StillGrows DEF ledgerVars
    <3> QED BY <1>5, <3>1, <3>2 DEF SubmitJob
  <2> QED BY <1>5, <2>1, EmitStep DEF SubmitJob, EventName
<1>6. ASSUME NEW c \in Client, NEW k \in Key, JobStatusOf(c, k) PROVE TellInv'
  <2>1. LedgerWellTyped' /\ Grows /\ phase'[k] # "unknown"
    BY <1>6, StillGrows DEF JobStatusOf, ledgerVars
  <2> QED BY <1>6, <2>1, EmitStep DEF JobStatusOf, EventName
<1>7. ASSUME NEW c \in Client, NEW k \in Key, JobResultOf(c, k) PROVE TellInv'
  <2>1. LedgerWellTyped' /\ Grows /\ phase'[k] = "succeeded"
    BY <1>7, StillGrows DEF JobResultOf, ledgerVars
  <2> QED BY <1>7, <2>1, EmitStep DEF JobResultOf, EventName
<1>8. ASSUME NEW c \in Client, NEW k \in Key, CancelJob(c, k) PROVE TellInv'
  <2>1. LedgerWellTyped' /\ Grows /\ phase'[k] = "cancelled"
    <3>1. CASE Withdraw(k)
      BY <3>1, WithdrawGrows DEF Withdraw, LedgerWellTyped
    <3>2. CASE phase[k] = "cancelled" /\ UNCHANGED ledgerVars
      BY <3>2, StillGrows DEF ledgerVars
    <3> QED BY <1>8, <3>1, <3>2 DEF CancelJob
  <2> QED BY <1>8, <2>1, EmitStep DEF CancelJob, EventName
<1>9. CASE UNCHANGED telemetryVars
  BY <1>9, StillGrows, SilentStep DEF telemetryVars, TelemetryWellTyped
<1> QED
  BY <1>1, <1>2, <1>3, <1>4, <1>5, <1>6, <1>7, <1>8, <1>9 DEF TelemetryNext

(***************************************************************************)
(* The inductive invariant of telemetry: what is written and what is yet   *)
(* to be written is true, and in the course of its job.                    *)
(***************************************************************************)
THEOREM TelemetryInvariance == TelemetrySpec => []TellInv
  BY InitTellInv, NextTellInv, PTL DEF TelemetrySpec

(***************************************************************************)
(* No event is false, and those of one client are in order.                *)
(***************************************************************************)
THEOREM TelemetryIsTrue == TelemetrySpec => []EventsTellHistory
<1>1. TellInv => EventsTellHistory
  BY DEF TellInv, AllAreTrue, IsTrue, InCourse, EventsTellHistory
<1> QED BY <1>1, TelemetryInvariance, PTL
=============================================================================
