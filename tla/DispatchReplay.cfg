SPECIFICATION PathSpec
CONSTANTS
  p1 = p1
  p2 = p2
  p3 = p3
  m1 = m1
  m2 = m2
  m3 = m3
  m4 = m4
  e1 = e1
  e2 = e2
  e3 = e3
  e4 = e4
  n1 = n1
  n2 = n2
  n3 = n3
  t1 = t1
  t2 = t2
  t3 = t3
  t4 = t4
  i1 = i1
  i2 = i2
  q1 = q1
  q2 = q2
  q3 = q3
  Permits = {p1, p2, p3}
  Marks = {m1, m2, m3, m4}
  MarksOf <- PermitMarks
  Envelopes = {e1, e2, e3, e4}
  NonceOf <- EnvelopeNonce
  PermitOf <- EnvelopePermit
  Threads = {t1, t2, t3, t4}
  Instances = {i1, i2}
  InstanceOf <- HandlerInstance
  NoEnvelope = NoEnvelope
  TransportCap = 2
  SemanticCap = 2
  Actions = {q1, q2, q3}
  Harmful = {q3}
  CallTtl = 2
  ActionLife = 1
  ObservationCache = 2
  ObservationAge = 0
  MaxClock = 1
  MaxObservations = 3
  MaxRestarts = 1
  MaxExecutions = 2
SYMMETRY Symmetry
CHECK_DEADLOCK FALSE
INVARIANTS
  NoncePassesOnce
  PermitDispatchedOnce
  SegmentedClaimsAreTrue
PROPERTIES
  SemanticExhaustion
