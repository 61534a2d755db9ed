SPECIFICATION Spec
CONSTANTS
  p1 = p1
  c1 = c1
  c2 = c2
  t1 = t1
  t2 = t2
  t3 = t3
  v1 = v1
  v2 = v2
  Peers = {p1}
  Credentials = {c1, c2}
  FirstOf <- FirstCredential
  NoRotation = NoRotation
  MaxClock = 2
  Threads = {t1, t2, t3}
  Verifiers = {v1, v2}
  VerifierOf <- VerifierOfThread
  NoThread = NoThread
  NoBundle = NoBundle
  NoQuestion = NoQuestion
  MaxFaults = 1
SYMMETRY Symmetry
CHECK_DEADLOCK FALSE
INVARIANTS
  VerdictUnderCheckpoint
PROPERTIES
  AdmissionInOrder
  RevocationIsPermanent
  WedgedForGood
