SPECIFICATION FairSpec
CONSTANTS
  Idle = Idle
  NoCall = NoCall
  Mo = {m1}
  Mt = {n1}
  Ril = {u1, u2}
  Handlers = {h1}
  MaxIndex = 2
  Scenes <- SharedScenes
PROPERTIES RequestsEnd
