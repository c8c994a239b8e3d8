CONSTANTS
  ClaimIds = {1}
  MaxRevisions = 0
SPECIFICATION Spec
INVARIANT ReplansUntilBudget
CHECK_DEADLOCK FALSE
