\* Budgets from nothing to enough, two faults, one command beside the agent.
CONSTANTS
  None = None
  Finding <- MCFinding
  Action <- MCAction
  ActionFor <- MCActionFor
  MinActions = 1
  MaxActions = 2
  Report <- MCReport
  HostProposal <- MCHostProposal
  MaxBudget = 4
  MaxFaults = 2
  MaxCli = 1
SPECIFICATION Spec
INVARIANTS
  JournalRecovers
  SameAnswer
  OneDecision
  ApprovalIsGrounded
  SingleAttempt
CHECK_DEADLOCK FALSE
