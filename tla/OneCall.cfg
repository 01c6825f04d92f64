SPECIFICATION FairSpec
CONSTANTS
  Calls = {c1}
  NoCall = NoCall
  Configs <- EveryGame
  AfterglowOn = TRUE
  Perils <- EveryPeril
  WalkBound = 2
  RefusedKeysBeforeGone = 2
INVARIANT WinIsBridged
INVARIANT LoggedOnce
INVARIANT CountsWithinRules
PROPERTY CallsEnd
PROPERTY BoothReadsIdle
CHECK_DEADLOCK FALSE
