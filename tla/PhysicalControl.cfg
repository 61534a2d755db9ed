SPECIFICATION Spec
CONSTANTS
  Clients = {c1, c2}
  Proposals = {p1, p2, p3}
  Unsafe = {p3}
  MaxFaults = 1
SYMMETRY Symmetry
CHECK_DEADLOCK FALSE
INVARIANTS
  RecordedOutcomeIsReal
