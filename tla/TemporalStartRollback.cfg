SPECIFICATION Spec
CONSTANTS
  Calls = {c1, c2, c3}
  Keys = {k1}
  Specs = {f1}
  Faults = {"refused"}
INVARIANT ReplaysAgree
CHECK_DEADLOCK FALSE
