SPECIFICATION Spec
CONSTANTS
  k1 = k1
  c1 = c1
  good = good
  None = None
  Key = {k1}
  Client = {c1}
  Proposal = {good}
  Applicable = {good}
  MaxFaults = 0
  MaxCrashes = 1
INVARIANT
  SubmitHasRunner
CHECK_DEADLOCK FALSE
