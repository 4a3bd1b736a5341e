SPECIFICATION Spec
CONSTANTS
  Requests = {r1, r2, r3, r4, r5}
  Docs = {d1}
  Titles = {t1, t2}
  Contents = {c1, c2}
  None = None
  MaxLost = 0
SYMMETRY Interchangeable
INVARIANTS ServesWhatWasRead
CHECK_DEADLOCK FALSE
