SPECIFICATION FairSpec
CONSTANTS
  Connection = {c1, c2}
  Iccid = {i1, i2}
  None = none
  Scenes <- MCScenes
INVARIANTS OwnSession ResultIsTrue
PROPERTY CommandsEnd
CHECK_DEADLOCK FALSE
