SPECIFICATION Spec
CONSTANTS
  Sockets = {s1, s2}
  Docs = {d1, d2}
  Updates = {u1}
  Absent = Absent
  NoDoc = NoDoc
  Patient = {s1}
  MaxFaults = 0
  MaxRestarts = 1
SYMMETRY InterchangeableDocs
INVARIANTS AwarenessAgrees PresenceMatchesRooms EmptyIsLeaving
PROPERTIES ImplementsDurable
CHECK_DEADLOCK FALSE
