\* One file, two consumers that race on its events, one reindex.
SPECIFICATION Spec
CONSTANTS
  Docs = {}
  Files = {f1}
  Consumers = {c1, c2}
  Nobody = Nobody
  Crawler = Crawler
  MaxMessages = 1
  MaxChanges = 2
  MaxCrawls = 1
  MaxFaults = 2
INVARIANTS
  TypeOK
  SettledMeansIndexed
PROPERTIES
  GoneStaysGone
  Converges
CHECK_DEADLOCK FALSE
