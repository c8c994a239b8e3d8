CONSTANTS
  Briefs = {b1, b2}
  NoBrief = NoBrief
  Quick = {}
  Consenting = {}
  Runs = {r1, r2}
  NoRun = NoRun
  Slots = 2
  Requests = {q1, q2}
  MaxRedeliveries = 0
  MaxCrashes = 0
SPECIFICATION Spec
SYMMETRY ReviewSymmetry
INVARIANTS
  RunsConsistent
  DecisionWasSentHere
CHECK_DEADLOCK FALSE
