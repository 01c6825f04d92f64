SPECIFICATION FairSpec
CONSTANTS
  Rooms = 3
  WalkBound = 4
  RefusedKeysBeforeGone = 2
INVARIANT WalkIsTheirs
PROPERTY PlaysTheFlow
PROPERTY MazeEnds
CHECK_DEADLOCK FALSE
