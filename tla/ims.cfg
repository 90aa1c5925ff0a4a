SPECIFICATION FairSpec
CONSTANTS
  Monitor = {d1, d2}
  PhoneSqn = 32
  NetworkSqn = 32
  Step = 32
  MaxChallenge = 3
  Scenes <- AllScenes
INVARIANTS ShownIsSo MonitorIsKnown TornDown FailedNeedsFault RegisteredIsSaved NotAheadOfNetwork
PROPERTIES LossNoticed RegisteringEnds
CHECK_DEADLOCK FALSE
