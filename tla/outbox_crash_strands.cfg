SPECIFICATION FairSpec
CONSTANTS
  None = None
  Channels = {c1}
  Events = {ev1}
  Pollers = {p1}
  MaxAttempts = 2
  Batch = 1
  Outcomes = {"accepted", "rejected", "unavailable", "unanswered"}
  FaultKinds = {"crash"}
  MaxFaults = 1
CHECK_DEADLOCK FALSE
PROPERTY EveryRowSettles
