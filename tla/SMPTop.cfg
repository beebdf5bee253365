\* SMPCache as the highest level (the shipped configuration): two caches of
\* one line per set, two accesses each, two lines.
CONSTANTS
  Caches = {c1, c2}
  Slots = {s1, s2}
  Lines = {a, b}
  Assoc = 1
  NUpper = 0
  MaxOutstanding = 4
  PushBound = 0
  None = None
SPECIFICATION MCSpec
SYMMETRY Symmetry
INVARIANTS SingleWriter DirtyIffStale SendFindsLine AckKeepsOperation
PROPERTY WriteBackOnce
