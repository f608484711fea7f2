SPECIFICATION Spec
CONSTANTS
  Jobs = {j1, j2, j3}
  NoJob = NoJob
  MaxHistory = 2
  Schedules <- MCSchedules
  MaxWrites = 1
SYMMETRY MCSymmetry
INVARIANTS
  OneJobOnTheWire
  NothingStranded
  NeverPrintedTwice
  GateIsPendingWork
  FinishedShowsNothing
PROPERTIES
  SettledStaysOffTheWire
  EvictsOldestFinished
