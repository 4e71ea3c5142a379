\* One crash, and the retry limit of the code: three attempts.
CONSTANTS
  p1 = p1
  p2 = p2
  fp = fp
  Nothing = Nothing
  Process = {p1, p2}
  Stages <- MCStages
  Node <- MCNode
  Fingerprint = {fp}
  Artifact <- MCArtifact
  MaxAttempts = 3
  MaxNodes = 64
  MaxTotal = 256
  MaxTrace = 0
  Faults = {"crash"}
  MaxFaults = 1
SPECIFICATION FairSpec
INVARIANTS
  OneCrashIsSurvived
CHECK_DEADLOCK FALSE
