SPECIFICATION Spec
CONSTANTS
  Sockets = {s1}
  MaxChanges = 1
  MaxWrites = 1
  MaxTrouble = 0
  Unreadable = {}
  Malformed = {1}
INVARIANT PulseOutlivesConfig
CHECK_DEADLOCK FALSE
