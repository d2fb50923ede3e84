SPECIFICATION FairSpec
CONSTANTS
  Users = {u1, u2}
  None = None
  Scenarios <- MCScenarios
  MaxStarts = 2
INVARIANTS
  TypeOK
  MigratedBeforeUse
  NothingForgotten
  HandlersWork
PROPERTY EveryWaitEnds
CHECK_DEADLOCK FALSE
