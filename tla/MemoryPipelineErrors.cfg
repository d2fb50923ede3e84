SPECIFICATION FairSpec
CONSTANTS
  Episodes = {e1, e2}
  Ids = {1, 2, 3, 4}
  Times = {1, 2}
  Relays = {r1}
  BatchSize = 2
  Faults = {"error"}
  MaxFaults = 2
INVARIANTS
  TypeOK
  InboxMeansProcessed
  PublishedWasExtracted
PROPERTIES
  EventuallyPublished
  EventuallyClaimed
CHECK_DEADLOCK FALSE
