SPECIFICATION Spec
CONSTANTS
  Idle = Idle
  NoCall = NoCall
  Mo = {m1, m2}
  Mt = {n1}
  Ril = {u1, u2}
  Handlers = {h1, h2}
  MaxIndex = 2
  Scenes <- OverlapScenes
SYMMETRY CallSymmetry
INVARIANTS TypeOK PendingHasWaiter UpdatesReachOwnCall LeakNeedsEarlyTeardown
PROPERTIES NothingAfterBye
