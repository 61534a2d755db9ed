CONSTANTS
  r1 = r1
  r2 = r2
  h1 = h1
  h2 = h2
  Handlers = {h1, h2}
  Grants <- MCGrants
  ActorIds <- MCActorIds
  Requests <- MCRequests
  Answers = {"true", "malformed"}
  Revocable = {"leaf"}
  Nominal <- MCNominal
  MinLoad = 8
  MinVolt = 9
  MaxVolt = 11
  MaxIsolations = 1
  ApprovalThreshold = 7
  MaxStateAge = 1
  Retention = 3
  RequestTtl = 1
  MaxStall = 1
  CacheSize = 1
  MaxTime = 4
  MaxObservations = 2
  MaxSubmissions = 2
  MaxEvents = 1
  Runtimes = {r1, r2}
  MaxWrites = 3
  MaxUpsets = 3
SYMMETRY HandlerSymmetry
SPECIFICATION ServicesSpec
INVARIANTS
  PlantStaysWithinLimits
  OneAnswerPerNonce
  PermitWithinWholeChain
  AnsweredSurvives
CHECK_DEADLOCK FALSE
