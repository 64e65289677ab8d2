SPECIFICATION Spec
CONSTANTS
  m1 = m1
  m2 = m2
  None = None
  Evaluators = {e1}
  Users = {}
  UserOps = {}
  Targets = {}
  Monitors = {m1}
  Parents <- NoParents
  Regions = {r1}
  Outcomes <- UpOrDown
  Paths = {"outbox"}
  Threshold = 1
  RegionThreshold = 1
  CountLimit = 2
  QuorumLimit = 2
  FlapLimit = 2
  FlapMinRows = 3
  FlapTransitions = 2
  HistoryCap = 2
  MaxIncidents = 2
  MaxFaults = 1
INVARIANT AlertsKept
