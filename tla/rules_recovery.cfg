SPECIFICATION FairSpec
CONSTANTS
  m1 = m1
  m2 = m2
  None = None
  Evaluators = {e1, e2}
  Users = {}
  UserOps = {"resolve"}
  Targets = {}
  Monitors = {m1}
  Parents <- NoParents
  Regions = {r1}
  Outcomes <- UpOrDown
  Paths = {"outbox"}
  Threshold = 2
  RegionThreshold = 1
  CountLimit = 2
  QuorumLimit = 2
  FlapLimit = 2
  FlapMinRows = 2
  FlapTransitions = 1
  HistoryCap = 2
  MaxIncidents = 2
  MaxFaults = 1
INVARIANT TypeOK
PROPERTIES
  Recovery
  OutageFound
