SPECIFICATION OperationSpec
CONSTANTS
  Leases <- MCLeases
  Conditions <- MCConditions
  Budgets <- MCBudgets
  PublicationAge = 1
  StatusAge = 1
  CredentialUntil = 1
  Requests = {q1, q2}
  Work = {"inScope"}
  SnapshotLifetime = 1
  SnapshotAge = 0
  ReversalAge = 1
  MaxTime = 1
  Commits = {c1, c2}
  Flaws <- MCFlaws
  Edited = Edited
  Places = {1, 2, 3, 4}
  Terminals = {t1}
  Grounds = {"management_lost"}
  LeaseLife = 0
  Earlier = 2
  MaxJobs = 2
  MaxMoves = 2
  NoPackage = NoPackage
  Idle = Idle
SYMMETRY Symmetry
CHECK_DEADLOCK FALSE

  
INVARIANTS
  ReversedLeaseStaysClosed
  FloorNeverEquivocates
  PackagesHold
