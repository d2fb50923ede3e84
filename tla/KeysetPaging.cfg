SPECIFICATION Spec
CONSTANTS
  Ids <- MCIds
  Stamps <- MCStamps
  Scopes = {asked, foreign}
  Asked = asked
  Limits <- MCLimits
  None = None
INVARIANTS
  TypeOK
  NothingMissed
  NeverTwice
CHECK_DEADLOCK FALSE
