SPECIFICATION Spec
CONSTANTS
  Idle = Idle
  NoCall = NoCall
  Mo = {m1}
  Mt = {n1}
  Ril = {u1}
  Handlers = {h1}
  MaxIndex = 2
  Scenes <- RepeatedScenes
SYMMETRY CallSymmetry
INVARIANTS AnsweredByUser
