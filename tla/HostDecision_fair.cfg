SPECIFICATION FairSpec
CONSTANTS
  k1 = k1
  k2 = k2
  c1 = c1
  good = good
  None = None
  Key = {k1, k2}
  Client = {c1}
  Proposal = {good}
  Applicable = {good}
  MaxFaults = 0
  MaxCrashes = 1
PROPERTIES
  ProposalIsAnswered
  WaitsEnd
CHECK_DEADLOCK FALSE
