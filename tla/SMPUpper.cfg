\* SMPCache below two upper-level caches each: replacement and snooped
\* invalidations wait for their answers.
CONSTANTS
  Caches = {c1, c2, c3}
  Slots = {s1}
  Lines = {a, b}
  Assoc = 1
  NUpper = 2
  MaxOutstanding = 2
  PushBound = 0
  None = None
SPECIFICATION MCSpec
SYMMETRY Symmetry
INVARIANTS SnoopsAccounted InvalidationReachesUpper
