CONSTANTS
  ClaimIds = {1}
  MaxRevisions = 1
SPECIFICATION Spec
INVARIANT ExpansionResumesResearch
CHECK_DEADLOCK FALSE
