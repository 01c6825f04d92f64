SPECIFICATION FairSpec
CONSTANTS
  Sockets = {s1, s2}
  MaxChanges = 1
  MaxWrites = 2
  MaxTrouble = 1
  Unreadable = {1}
  Malformed = {}
INVARIANT NobodyLeftBehind
INVARIANT StoppedIsGone
PROPERTY Converges
INVARIANT GivenUpIsClosing
CHECK_DEADLOCK FALSE
