SPECIFICATION FairSpec
CONSTANTS
  Calls = {c1, c2}
  NoCall = NoCall
  Configs <- Riddle
  AfterglowOn = TRUE
  Perils <- GamePerils
  WalkBound = 1
  RefusedKeysBeforeGone = 2
INVARIANT BridgedIsWin
INVARIANT Attended
PROPERTY ImplementsBooth
PROPERTY NobodyLeftHanging
CHECK_DEADLOCK FALSE
