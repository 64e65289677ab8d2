SPECIFICATION Spec
CONSTANTS
  m1 = m1
  m2 = m2
  None = None
  Evaluators = {e1, e2}
  Users = {u1}
  UserOps = {"acknowledge", "transition"}
  Targets = {"investigating"}
  Monitors = {m1}
  Parents <- NoParents
  Regions = {r1}
  Outcomes <- UpOrDown
  Paths = {"outbox"}
  Threshold = 1
  RegionThreshold = 1
  CountLimit = 1
  QuorumLimit = 1
  FlapLimit = 1
  FlapMinRows = 3
  FlapTransitions = 2
  HistoryCap = 1
  MaxIncidents = 2
  MaxFaults = 0
SYMMETRY Symmetry
INVARIANT OneLivePerEvaluator
INVARIANT NoticesAreTrue
INVARIANT AlertsKept
