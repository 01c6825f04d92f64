SPECIFICATION Spec
CONSTANTS
  Calls = {c1}
  NoCall = NoCall
  Configs <- Tweeted
  AfterglowOn = TRUE
  Perils <- NoPerils
  WalkBound = 1
  RefusedKeysBeforeGone = 2
INVARIANT DroppedIsOurFault
CHECK_DEADLOCK FALSE
