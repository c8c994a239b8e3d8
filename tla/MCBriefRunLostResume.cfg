CONSTANTS
  Briefs = {b1}
  NoBrief = NoBrief
  Quick = {}
  Consenting = {}
  Runs = {r1}
  NoRun = NoRun
  Slots = 2
  Requests = {q1}
  MaxRedeliveries = 0
  MaxCrashes = 0
SPECIFICATION Spec
INVARIANTS
  RevisionReachesRun
CHECK_DEADLOCK FALSE
