SPECIFICATION Spec
CONSTANTS
  Monitor = {d1, d2}
  PhoneSqn = 32
  NetworkSqn = 32
  Step = 32
  MaxChallenge = 3
  Scenes <- AllScenes
PROPERTY KeepsRunning
CHECK_DEADLOCK FALSE
