SPECIFICATION Spec
CONSTANTS
  tape62 = tape62
  red62 = red62
  tape29 = tape29
  Labels <- MCLabels
  Media <- MCMedia
  Plain <- MCPlain
  Tabs = {t1}
  Checks = {c1}
  Saves = {s1, s2}
  None = none
  Configured = {tape62}
  Ownable = {red62}
  MaxSwaps = 1
  MaxActs = 2
INVARIANTS
  ManualChoiceHolds
  SpecialIsMeant
  ShownIsStored
SYMMETRY Slots
