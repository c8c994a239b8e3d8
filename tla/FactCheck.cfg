CONSTANTS
  MAX_RETRIES = 2
  Size = 2
  Confidences = {1992, 4000, 8000}
  Missing = Missing
SPECIFICATION FairSpec
INVARIANTS
  CheckTypeOK
  RowsAgreeWithLists
  DebatesAreTraced
PROPERTIES
  CheckEnds
  SettlesClaims
CHECK_DEADLOCK FALSE
