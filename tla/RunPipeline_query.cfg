\* One status query while a call is at work.
CONSTANTS
  p1 = p1
  p2 = p2
  fp = fp
  Nothing = Nothing
  Process = {p1, p2}
  Stages <- MCStages
  Node <- MCNode
  Fingerprint = {fp}
  Artifact <- MCArtifact
  MaxAttempts = 3
  MaxNodes = 64
  MaxTotal = 256
  MaxTrace = 0
  Faults = {"query"}
  MaxFaults = 1
SPECIFICATION FairSpec
INVARIANTS
  LiveIsNotInterrupted
CHECK_DEADLOCK FALSE
