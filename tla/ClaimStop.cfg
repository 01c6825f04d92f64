SPECIFICATION Spec
CONSTANTS
  Calls = {c1, c2}
  NoCall = NoCall
  Configs <- Tweeted
  AfterglowOn = TRUE
  Perils <- JustStop
  WalkBound = 1
  RefusedKeysBeforeGone = 2
INVARIANT ActiveCallFinishes
CHECK_DEADLOCK FALSE
