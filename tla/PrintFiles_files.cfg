SPECIFICATION Spec
CONSTANTS
  Token = {t1, t2, t3}
  Nothing = Nothing
  Job = {j1, j2}
  Request = {r1}
  Worker = w
  Ttl = 1
  ShareTtl = 0
  Attempts = 2
  Total = 2
  MaxPages = 2
  Rotations = {TRUE}
  Specs <- MCSpecs
  Sweeps = {2}
  MaxKept = 1
  MaxLitter = 1
SYMMETRY Symmetry
INVARIANTS ArtefactsStay NoStrays EachLabelOnce
PROPERTY KeptForTheirTtl
CHECK_DEADLOCK TRUE
