SPECIFICATION FairSpec
CONSTANTS
  MaxTrouble = 2
  MaxNudges = 3
INVARIANT NoMemoryAsNews
INVARIANT NoSocketLeaks
INVARIANT OneThingAwaited
INVARIANT LoginOnlyWhenForgotten
PROPERTY Recovers
PROPERTY DeadIsNoticed
PROPERTY ForgottenIsTold
CHECK_DEADLOCK FALSE
