\* Three tables, four rows: one may be refused or change, one may fail its hash.
SPECIFICATION Spec
CONSTANTS
  p1 = p1
  d1 = d1
  d2 = d2
  f1 = f1
  None = None
  NumTables = 3
  Reference = {1}
  Keys <- MCKeys
  Ranges = {1, 2, 3}
  RangeTable <- MCRangeTable
  RangeOf <- MCRangeOf
  ParentOf <- MCParentOf
  Policy <- MCPolicy
  RawClass <- MCRawClass
  NewClass <- MCNewClass
  TargetClass <- MCNewClass
  Summed = {2}
  Charged = {d2}
  Suspect = {d2}
  Rejectable = {f1}
  MayBeArchived = {}
  Mutable = {f1}
  PurgeFlags = {TRUE, FALSE}
  BatchRows = 2
  MaxRetries = 1
  MaxFaults = 2
INVARIANTS
  TypeOK
  PurgedRowsArchived
  AuditsAgree
  ClosedBooks
PROPERTIES
  GuardStopsEverything
  PurgedForGood
  ImplementsArchive
CHECK_DEADLOCK FALSE
