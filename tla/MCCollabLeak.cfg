SPECIFICATION FairSpec
CONSTANTS
  Sockets = {s1}
  Docs = {d1, d2}
  Updates = {u1}
  Absent = Absent
  NoDoc = NoDoc
  Patient = {}
  MaxFaults = 0
  MaxRestarts = 0
PROPERTIES EmptyDocumentEvicted
CHECK_DEADLOCK FALSE
