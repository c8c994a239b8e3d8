CONSTANTS
  Briefs = {b1, b2}
  NoBrief = NoBrief
  Quick = {b2}
  Consenting = {b2}
  Runs = {r1, r2}
  NoRun = NoRun
  Slots = 2
  Requests = {q1}
  MaxRedeliveries = 1
  MaxCrashes = 1
SPECIFICATION Spec
SYMMETRY RunSymmetry
INVARIANTS
  TypeOK
  RunsConsistent
  CompletedHasReport
  DecidedBeforeReport
  OneReportPerDelivery
  
PROPERTIES
  TerminalIsFinal
  RunsKeepContract
CHECK_DEADLOCK FALSE
