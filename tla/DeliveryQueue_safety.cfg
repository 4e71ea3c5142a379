SPECIFICATION Spec
CONSTANTS
  k1 = k1
  k2 = k2
  q1 = q1
  q2 = q2
  w1 = w1
  w2 = w2
  r1 = r1
  None = None
  Key = {k1, k2}
  Request = {q1, q2}
  Attempts = {1, 2}
  Owner = {w1}
  Result = {r1}
  Failure = {"TimeoutError"}
  ClaimSeconds = {1}
  HeartbeatSeconds = {2}
  MaxTime = 3
  HeartbeatUntil = 3
  ClockSetBack = TRUE
SYMMETRY Symmetry
INVARIANTS
  LeaseFencing
  DeadLetterIsTruthful
PROPERTIES
  NoOvertaking
  KeepsLedger
CHECK_DEADLOCK FALSE
