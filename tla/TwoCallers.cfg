SPECIFICATION Spec
CONSTANTS
  Calls = {c1, c2}
  NoCall = NoCall
  Configs <- Tweeted
  AfterglowOn = TRUE
  Perils <- EnginePerils
  WalkBound = 1
  RefusedKeysBeforeGone = 2
SYMMETRY Interchangeable
INVARIANT OneCaller
INVARIANT ThreadJoined
INVARIANT HistoryAgrees
PROPERTY Settled
CHECK_DEADLOCK FALSE
