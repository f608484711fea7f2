SPECIFICATION FairSpec
CONSTANTS
  Callers = {c1, c2}
  Workers = {w1, w2}
  Printer = printer
  None = none
  FloatInterval = TRUE
  MaxFailures = 2
INVARIANTS
  NoOrphan
PROPERTIES
  StopSilences
  OneLateHeartbeat
  EndsWhenTold
