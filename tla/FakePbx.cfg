SPECIFICATION FairSpec
CONSTANTS
  WalkBound = 3
  RefusedKeysBeforeGone = 2
  Scenarios <- DefaultScenarios
  Cycles = 2
  AttemptLimit = 3
  Listeners = {tee, console}
  Tee = tee
INVARIANT AsScripted
INVARIANT OneSound
INVARIANT StopsClean
PROPERTY RunEnds
CHECK_DEADLOCK FALSE
