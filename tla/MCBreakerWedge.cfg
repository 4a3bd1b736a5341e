SPECIFICATION SpecRequestsEnd
CONSTANTS
  Requests = {r1, r2, r3}
  MaxRequests = 2
  HasInterval = TRUE
  RatioNum = 3
  RatioDen = 5
  MaxCount = 6
  MaxAborts = 1
PROPERTIES HalfOpenKeepsProbing
CHECK_DEADLOCK FALSE
