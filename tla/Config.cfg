SPECIFICATION Spec
CONSTANTS
  tweeted = tweeted
  puzzle = puzzle
  zeros = zeros
  code = code
  plain = plain
  notANumber = notANumber
  Modes = {tweeted, puzzle}
  DefaultMode = tweeted
  Codes = {zeros, code}
  DefaultCode = zeros
  Rests = {plain, notANumber}
  Wrong = {notANumber}
  Unknown = Unknown
  Unset = Unset
  Garbage = Garbage
  Nothing = Nothing
  Failed = Failed
  Spent = Spent
  Updaters = {u1}
  Setters = {s1}
  Editors = {e1}
  Readers = {r1}
  Original = Original
  Installed <- MCInstalled
  Asked <- MCAsked
  Set <- MCSet
  Typed <- MCTyped
INVARIANT WholeFiles
INVARIANT NoLitter
PROPERTY AloneKeepsRest
PROPERTY ImplementsRegister
CHECK_DEADLOCK FALSE
