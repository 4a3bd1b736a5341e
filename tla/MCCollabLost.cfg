SPECIFICATION Spec
CONSTANTS
  Sockets = {s1}
  Docs = {d1}
  Updates = {u1}
  Absent = Absent
  NoDoc = NoDoc
  Patient = {s1}
  MaxFaults = 1
  MaxRestarts = 0
INVARIANTS NoAcceptedUpdateLost
CHECK_DEADLOCK FALSE
