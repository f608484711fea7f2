SPECIFICATION Spec
CONSTANTS
  Converters = {c1, c2}
  Catalogue <- MCCatalogue
  Head = 720
  Addition = 0
  BleedMax = 500
  CalibrationMax = 1000
  Requests <- MCRequests
  Asked <- MCAsked
  None = None
SYMMETRY MCSymmetry
INVARIANTS
  EditsAreUndone
  FitsTheLabel
  LandsWhereAsked
  ReportIsAppliedWithRoom
