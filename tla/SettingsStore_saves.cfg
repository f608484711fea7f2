SPECIFICATION Spec
CONSTANTS
  Keys <- MCKeys
  Values <- MCValues
  Defaults <- MCDefaults
  Invalid <- MCInvalid
  HookKeys <- MCHookKeys
  Savers = {s1, s2}
  Readers = {s1}
  Inodes = {i1, i2, i3, i4}
  Empty = Empty
  Torn = Torn
  None = None
  MaxUpdates = 3
  MaxCrashes = 1
INVARIANTS
  TornByClashOnly
  CacheIsTheFile
PROPERTIES
  AnsweredTruly
  OnlyAskedChange
SYMMETRY MCSymmetry
