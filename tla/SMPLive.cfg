CONSTANTS
  Caches = {c1, c2}
  Slots = {s1, s2}
  Lines = {a, b}
  Assoc = 1
  NUpper = 0
  PushBound = 0
  None = None
  MaxAccess = 3
SPECIFICATION LiveSpec
PROPERTIES EveryAccessConcludes
CHECK_DEADLOCK FALSE
