SPECIFICATION Spec
CONSTANTS
  Episodes = {e1}
  Ids = {1, 2}
  Times = {1}
  Relays = {r1}
  BatchSize = 2
  Faults = {"interrupt"}
  MaxFaults = 1
INVARIANTS
  InboxMeansProcessed
CHECK_DEADLOCK FALSE
