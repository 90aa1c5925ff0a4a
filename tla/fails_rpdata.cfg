SPECIFICATION Spec
CONSTANTS
  s1 = s1
  s2 = s2
  Sender <- MCSender
  Scenes <- MCScenes
  OwnNumber <- MCOwnNumber
  MaxParts = 4
  RefModulus = 2
INVARIANT RpDataIsGiven
