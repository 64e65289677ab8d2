SPECIFICATION SerialSpec
CONSTANTS
  m1 = m1
  m2 = m2
  None = None
  Evaluators = {e1}
  Users = {}
  UserOps = {"resolve"}
  Targets = {}
  Monitors = {m1, m2}
  Parents <- ChildAndParent
  Regions = {r1, r2}
  Outcomes <- AllOutcomes
  Paths = {}
  Threshold = 1
  RegionThreshold = 2
  CountLimit = 3
  QuorumLimit = 3
  FlapLimit = 3
  FlapMinRows = 3
  FlapTransitions = 2
  HistoryCap = 3
  MaxIncidents = 2
  MaxFaults = 0
INVARIANT AtMostOneActive
INVARIANT StatusAgrees
PROPERTY OpensJustified
PROPERTY ResolvedIsFinal
