CONSTANTS
  ClaimIds = {1}
  MaxRevisions = 2
SPECIFICATION FairSpec
INVARIANTS
  TypeOK
  NoClaimLost
  OneVerdictPerClaim
  RowsMatchChecks
  PublishedAsReviewed
  QuickSkips
  StateConsistent
PROPERTIES
  GraphStops
  ImplementsContract
CHECK_DEADLOCK FALSE
