SPECIFICATION Spec
CONSTANTS
  Choices = {2, 4}
  DelayLimit = 1
  Bodies <- MCBodies
  Kept <- MCKept
  Device = 4
  Intervals = {2, 4}
  Backoff = 3
  Never = Never
  Horizon = 14
  MaxSaves = 2
INVARIANTS CutFindsItAsleep PanelIsTrue
PROPERTY SleepsAsTold
