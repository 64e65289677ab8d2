SPECIFICATION Spec
CONSTANTS
  None = None
  Channels = {c1}
  Events = {ev1, ev2}
  Pollers = {p1, p2}
  MaxAttempts = 3
  Batch = 2
  Outcomes = {"accepted", "rejected", "unavailable", "unanswered"}
  FaultKinds = {"insert", "abandon", "read", "update", "crash"}
  MaxFaults = 1
CHECK_DEADLOCK FALSE
SYMMETRY Symmetry
INVARIANT Exclusive
INVARIANT AttemptsAreSends
PROPERTY AcceptedIsLast
PROPERTY PoolSpec
