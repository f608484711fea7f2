SPECIFICATION FairSpec
CONSTANTS
  Offset = 2
  MaxAge = 1
  MaxChanges = 1
  MaxCrashes = 1
  NoMoment = NoMoment
INVARIANTS
  RestartKeepsSchedule
  NoCutThroughPendingWork
PROPERTIES
  CutKeepsWindow
  ScheduleIsResolved
