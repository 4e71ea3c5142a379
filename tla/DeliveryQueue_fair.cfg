SPECIFICATION FairSpec
CONSTANTS
  k1 = k1
  k2 = k2
  q1 = q1
  q2 = q2
  w1 = w1
  w2 = w2
  r1 = r1
  None = None
  Key = {k1, k2}
  Request = {q1}
  Attempts = {2}
  Owner = {w1, w2}
  Result = {r1}
  Failure = {"TimeoutError"}
  ClaimSeconds = {2}
  HeartbeatSeconds = {1}
  MaxTime = 11
  HeartbeatUntil = 3
  ClockSetBack = FALSE
INVARIANT
  AtMostOneHolder
PROPERTY
  EveryJobEnds
CHECK_DEADLOCK FALSE
