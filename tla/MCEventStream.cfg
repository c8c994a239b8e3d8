CONSTANTS
  b1 = b1
  Briefs = {b1}
  NoBrief = NoBrief
  Quick = {}
  Consenting = {}
  Runs = {r1}
  NoRun = NoRun
  Slots = 1
  Requests = {q1}
  MaxRedeliveries = 0
  MaxCrashes = 0
  Demos = {q1}
  Pages = {p1}
  Watches <- WatchesOne
  Asked = {"approve", "revise"}
  MaxPresent = 1
  MaxCuts = 1
SPECIFICATION FairStreamSpec
INVARIANTS
  StreamTypeOK
  ViewersToldTheTruth
PROPERTIES
  StreamsEnd
  StreamsImplementFeed
CHECK_DEADLOCK FALSE
