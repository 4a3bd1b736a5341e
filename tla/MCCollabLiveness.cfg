SPECIFICATION FairSpec
CONSTANTS
  Sockets = {s1, s2}
  Docs = {d1}
  Updates = {u1}
  Absent = Absent
  NoDoc = NoDoc
  Patient = {s1, s2}
  MaxFaults = 1
  MaxRestarts = 1
PROPERTIES EmptyDocumentEvicted EventuallyPersisted JoinsSettle
CHECK_DEADLOCK FALSE
