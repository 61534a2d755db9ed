SPECIFICATION Spec
CONSTANTS
  e1 = e1
  e2 = e2
  e3 = e3
  open = open
  close = close
  g = g
  o1 = o1
  o2 = o2
  Effects = {e1, e2, e3}
  Commands = {open, close}
  CommandOf <- TwoCommands
  Baseline = Baseline
  NoEffect = NoEffect
  MaxFaults = 0
  MaxAttempts = 2
  MaxVersion = 3
  None = None
  Refused = Refused
  Ttl = 1
  FutureSkew = 1
  PermitLife = 3
  GatewayCred = g
  OtCreds = {o1, o2}
  FirstCred = o1
  ValidUntil <- ShortAndLong
  AttemptCapacity = 4
  MaxTime = 3
  MaxDrift = 1
  MaxDisturbances = 1
  Sites = {s1, s2}
  MaxToken = 2
  MaxChanges = 2
  MaxRestores = 1
SYMMETRY SiteSymmetry
INVARIANTS
  VerdictsAgree
  UsableMeansAccounted
  RetainedStaysVerifiable
  BuiltRecordsAreLegal
  AnchorsFormOneLine
PROPERTIES
  OutdatedNeverAnchored
CHECK_DEADLOCK FALSE
