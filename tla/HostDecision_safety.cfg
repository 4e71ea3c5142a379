SPECIFICATION Spec
CONSTANTS
  k1 = k1
  k2 = k2
  c1 = c1
  c2 = c2
  good = good
  bad = bad
  None = None
  Key = {k1, k2}
  Client = {c1, c2}
  Proposal = {good, bad}
  Applicable = {good}
  MaxFaults = 2
  MaxCrashes = 1
SYMMETRY Symmetry
INVARIANTS
  DurableAnswers
  OneContext
  NoProposalDropped
PROPERTIES
  OneVerdict
  FinalRecordsStay
  DecidedOnce
CHECK_DEADLOCK FALSE
