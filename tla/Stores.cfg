\* Each part with bounds at which its interesting cases happen; see the README.
CONSTANTS
  a1 = a1  c1 = c1  d1 = d1  d2 = d2  e1 = e1  f1 = f1  f2 = f2  k1 = k1
  p = p  q = q  r = r  r1 = r1  s1 = s1  s2 = s2  x = x
  None = None
  Nothing = Nothing
  Absent = Absent
  \* ExecutionStore: two nodes, two sets of inputs, budgets that bind in both ways
  Node <- MCNode
  Fingerprint = {f1, f2}
  Artifact = {a1}
  MaxAttempts = 2
  MaxNodes = 1
  MaxTotal = 3
  MaxTrace = 4
  \* EvolutionRegistry: three candidates over four reports, four rows of history
  Report <- MCReport
  Full = 1
  Registry <- MCRegistry
  Approver <- MCApprover
  MaxCandidates = 3
  MaxHistory = 4
  \* DatasetSnapshot
  Copier = {p, q}
  Directory = {d1, d2}
  \* CitationIndex
  Indexer = {p, q}
  Scope = {s1, s2}
  FilePath = {e1}
  Content = {c1}
  MaxScopes = 2
  MaxSources = 1
  MaxDocuments = 1
  MaxKeys = 2
  \* TerminalReports
  Publisher = {p, q}
  Renderer = {1, 2}
  \* DeliveryTelemetry
  Key = {k1}
  Request = {r1}
  Attempts = {2}
  Result = {x}
  Client = {p, q}
  MaxEvents = 2
  \* RuleBinning
  MaxBins = 4
  MaxRows = 2
  MaxMinimum = 3
  \* RuleSelection: three features, a beam that is full and one that is not
  Feature = {1, 2, 3}
  Row = {1, 2, 3, 4, 5}
  Targets = {{1, 3}, {}}
  Column <- MCColumn
  Cut = {0, 1}
  Thresholds = {{0}, {0, 1}}
  Support = {1}
  Base = 4
  Width = {4, 6}
  MaxPairRules = {0, 2}
  \* Monitoring
  Monitored = {"x", "y"}
  Rule = {r}
  Family <- MCFamily
  Snapshot <- MCSnapshot
  Reference <- MCReference
  MinGroup = 3
  NotEvaluated = NotEvaluated
  \* DataSplit
  Segments = 2
  DateRows <- MCDateRows
  Undated <- MCUndated
  MaxDates = 4
SPECIFICATION MCSpec
INVARIANTS
  TraceTellsState
  OneOutcome
  FreshAttempts
  RecordsTellActive
  ForwardOrBack
  OneSuite
  LiveSnapshotStays
  BuildsLast
  IndexOpens
  ReportCanBePublished
  OneReport
  EventsTellHistory
  BinsAreSound
  SelectionIsDiverse
  SplitsAreSound
  RetestTellsMeasures
CHECK_DEADLOCK FALSE
