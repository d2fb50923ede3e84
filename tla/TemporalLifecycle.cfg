SPECIFICATION FairSpec
CONSTANTS
  Cancels = {c1}
  MaxAttempts = 3
  MaxFaults = 3
INVARIANTS
  TypeOK
  EventsTellOnePath
  
PROPERTIES
  HistorySpec
  Settles
CHECK_DEADLOCK FALSE
