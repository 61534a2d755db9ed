SPECIFICATION Spec
CONSTANTS
  e1 = e1
  e2 = e2
  cmd = cmd
  Effects = {e1, e2}
  Commands = {cmd}
  CommandOf <- SameCommand
  Baseline = Baseline
  NoEffect = NoEffect
  MaxFaults = 2
  MaxAttempts = 3
SYMMETRY Symmetry
CHECK_DEADLOCK FALSE
INVARIANTS
  Inv
  AppliedAtMostOnce
  CommitSentAtMostOnce
  ClaimsAreTrue
  JournalsAgree
  RecoveryExplained
PROPERTIES
  BlockedForGood
  ImplementsEffectOutcome
