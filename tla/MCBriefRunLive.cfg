CONSTANTS
  Briefs = {b1, b2}
  NoBrief = NoBrief
  Quick = {b2}
  Consenting = {b1}
  Runs = {r1, r2}
  NoRun = NoRun
  Slots = 1
  Requests = {q1}
  MaxRedeliveries = 0
  MaxCrashes = 0
SPECIFICATION FairSpec
PROPERTIES
  BriefSettles
  SlotIsReleased
CHECK_DEADLOCK FALSE
