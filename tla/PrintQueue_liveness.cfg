SPECIFICATION FairSpec
CONSTANTS
  Jobs = {j1, j2}
  NoJob = NoJob
  MaxHistory = 1
  Schedules <- MCSchedules
  MaxWrites = 1
PROPERTY
  EveryJobSettles
