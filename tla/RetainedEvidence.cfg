SPECIFICATION CampaignsOnly
CONSTANTS
  Requests = {r1, r2, r3}
  Unsafe = {r3}
  CacheLimit = 2
  MaxTime = 1
  MaxSequence = 4
  PermitLife = 1
  MaxAge = 1
  MaxAttempts = 2
  c1 = c1
  c2 = c2
  Campaigns = {c1, c2}
  Pairings <- MCPairings
  Defects <- MCDefects
  MaxFaults = 1
  Nobody = Nobody
  Buses = {1, 2, 3, 4}
  Branches = {"ring1", "ring2", "ring3", "spur"}
  Ends <- MCEnds
  LoadBus <- MCLoadBus
  Priority = {"hospital"}
  Feeder = "ring1"
  Writers = {w1, w2}
  Controlled = {w1}
  Shortcomings <- KnownShortcomings
  Slips <- KnownSlips
  MaxMishaps = 2
  NoOne = NoOne
SYMMETRY Symmetry
CHECK_DEADLOCK FALSE
INVARIANTS
  ReportedEvidenceRemains
