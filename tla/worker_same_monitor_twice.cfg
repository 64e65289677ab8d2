SPECIFICATION Spec
CONSTANTS
  m1 = m1
  m2 = m2
  None = None
  Monitors = {m1, m2}
  Listed <- BothListed
  Consumers = {c1, c2}
  Capacity = 2
CHECK_DEADLOCK FALSE
INVARIANT OneRunPerMonitor
