SPECIFICATION Spec
CONSTANTS
  Calls = {c1, c2, c3}
  Earlier = {e1}
  Found = {"pending", "planning", "running", "cancelling", "succeeded", "cancelled"}
  Keys = {k1}
  s1 = s1
  Specs = {f1, f2}
  Scopes = {s1, s2}
  ScopeOf <- OneScope
  Processes = {p1, p2}
  MaxTries = 5
SYMMETRY Symmetry
INVARIANTS
  TypeOK
  HistoryIsAPath
  CopiesCrossProcesses
  NoCircularWait
PROPERTIES
  LedgerSpec
CHECK_DEADLOCK FALSE
