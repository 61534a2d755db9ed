SPECIFICATION LiveSpec
CONSTANTS
  e1 = e1
  e2 = e2
  cmd = cmd
  Effects = {e1, e2}
  Commands = {cmd}
  CommandOf <- SameCommand
  Baseline = Baseline
  NoEffect = NoEffect
  MaxFaults = 1
  MaxAttempts = 4
CHECK_DEADLOCK FALSE
PROPERTY EventuallySettled
