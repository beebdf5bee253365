CONSTANTS
  Caches = {c1, c2}
  Slots = {s1, s2}
  Lines = {a, b}
  Assoc = 1
  NUpper = 1
  MaxOutstanding = 4
  PushBound = 0
  None = None
SPECIFICATION MCSpec
SYMMETRY Symmetry
INVARIANTS SendFindsLine
