SPECIFICATION FairSpec
CONSTANTS
  None = None
  Gone = Gone
  Replicas = {r1, r2}
  Monitors = {m1}
  Regions = {g1, g2}
  RegionsOf <- EverywhereChecked
  TTL = 2
  MaxFaults = 1
INVARIANT TypeOK
INVARIANT StaleLeadIsOld
PROPERTY OnlyOwnerDecides
PROPERTY JobsKeepComing
