SPECIFICATION FairSpec
CONSTANTS
  None = None
  Channels = {c1, c2}
  Events = {ev1}
  Pollers = {p1, p2}
  MaxAttempts = 2
  Batch = 2
  Outcomes = {"accepted", "rejected", "unanswered"}
  FaultKinds = {"insert", "abandon"}
  MaxFaults = 1
CHECK_DEADLOCK FALSE
INVARIANT DeliveredIsReceived
PROPERTY EveryRowSettles
