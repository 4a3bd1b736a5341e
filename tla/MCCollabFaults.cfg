SPECIFICATION Spec
CONSTANTS
  Sockets = {s1, s2}
  Docs = {d1}
  Updates = {u1, u2}
  Absent = Absent
  NoDoc = NoDoc
  Patient = {}
  MaxFaults = 2
  MaxRestarts = 1
SYMMETRY Interchangeable
INVARIANTS TypeOK TrackedInMemory OneLoad UnsavedOnlyByFailure LossNeedsFailedWrite
PROPERTIES RedisNeverShrinks EndLosesOnlyInFlight
CHECK_DEADLOCK FALSE
