CONSTANTS
  Ids = {i1, i2}
  ManualId = m
  Data = {d1, d2}
  Resources = {r1}
  None = None
  MaxOps = 6
  MaxFaults = 2
SPECIFICATION Spec
SYMMETRY Symmetry
CHECK_DEADLOCK FALSE
INVARIANTS
  NothingUnreviewed
  AgreesUnlessExplained
