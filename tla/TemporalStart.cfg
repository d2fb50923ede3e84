SPECIFICATION Spec
CONSTANTS
  Calls = {c1, c2, c3}
  Keys = {k1, k2}
  Specs = {f1, f2}
  Faults = {"refused", "lost", "unanswered", "crash"}
SYMMETRY Symmetry
INVARIANTS
  TypeOK
  AnsweredWithOwnSpec
  OneExecutionPerKey
  ConflictsAreReal
CHECK_DEADLOCK FALSE
