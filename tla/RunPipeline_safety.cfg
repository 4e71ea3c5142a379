\* Two callers, three stages, the retry limit of the code, any two faults.
CONSTANTS
  p1 = p1
  p2 = p2
  fp = fp
  Nothing = Nothing
  Process = {p1, p2}
  Stages <- MCStages
  Node <- MCNode
  Fingerprint = {fp}
  Artifact <- MCArtifact
  MaxAttempts = 3
  MaxNodes = 64
  MaxTotal = 256
  MaxTrace = 0
  Faults = {"crash", "query", "damage", "error"}
  MaxFaults = 2
SPECIFICATION FairSpec
INVARIANTS
  PublishedIsCoherent
  OwnAttempt
PROPERTIES
  PublishedStays
  Settles
  TraceIsRepaired
CHECK_DEADLOCK FALSE
