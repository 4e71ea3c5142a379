\* No faults: one command on the evidence of a run that was approved.
CONSTANTS
  None = None
  Finding <- MCFinding
  Action <- MCAction
  ActionFor <- MCActionFor
  MinActions = 1
  MaxActions = 2
  Report <- MCReport
  HostProposal <- MCHostProposal
  MaxBudget = 4
  MaxFaults = 0
  MaxCli = 1
SPECIFICATION Spec
INVARIANT ApprovedStaysRecoverable
CHECK_DEADLOCK FALSE
