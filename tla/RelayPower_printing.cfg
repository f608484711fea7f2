SPECIFICATION Spec
CONSTANTS
  Offset = 2
  MaxAge = 1
  MaxChanges = 0
  MaxCrashes = 0
  NoMoment = NoMoment
PROPERTY
  NeverCutWhilePrinting
