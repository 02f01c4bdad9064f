SPECIFICATION CoreFairSpec
CONSTANTS
  Engines = {e1, e2, e3}
  NoEngine = NoEngine
INVARIANTS RunningMeansAlive LatestIsCancellable
PROPERTY CancelledGoes
