SPECIFICATION FairSpec
CONSTANTS
  c1 = c1
  c2 = c2
  c3 = c3
  t1 = t1
  t2 = t2
  k1 = k1
  k2 = k2
  Calls = {c1, c2, c3}
  Tenants = {t1, t2}
  Keys = {k1, k2}
  Fingerprints = {f1, f2}
  Hash <- CollidingHash
INVARIANTS
  TypeOK
  RowsTogether
  AnswersAgree
  NoIntegrityError
PROPERTIES
  LedgerSpec
  EveryCallEnds
CHECK_DEADLOCK FALSE
