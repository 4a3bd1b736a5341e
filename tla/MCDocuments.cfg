SPECIFICATION Spec
CONSTANTS
  Requests = {r1, r2, r3, r4}
  Docs = {d1}
  Titles = {t1, t2}
  Contents = {c1, c2}
  None = None
  MaxLost = 1
SYMMETRY Interchangeable
INVARIANTS TypeOK HistoryExplainsRow DistinctMeansSerial RendersMatchVersions ChangesAnnounced
PROPERTIES DeletedStaysDeleted ImplementsLog
CHECK_DEADLOCK FALSE
