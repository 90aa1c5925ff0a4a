SPECIFICATION Spec
CONSTANTS
  Iccid = {i1, i2, i3}
  None = None
  Sizes = {1}
  FreeNvram = 2
  Challenges = {0}
SYMMETRY IccidSymmetry
INVARIANTS TypeOK OneEnabled ActiveIsEnabled AcknowledgedSurvives
PROPERTIES DirectoryIsSlot
