SPECIFICATION FairSpec
CONSTANTS
  Channels = {c1}
  Lengths = {1, 2}
  BaseDelay = 1
  MaxDelay = 3
  MaxDigits = 3
  MaxCommands = 3
  MaxDrops = 1
INVARIANT DigitsInOrder
INVARIANT PlaybackFlags
INVARIANT SilentOnceEnded
PROPERTY CommandsReturn
PROPERTY HearsAgain
CHECK_DEADLOCK FALSE
