CONSTANTS
  t1 = t1
  t2 = t2
  b1 = b1
  b2 = b2
  r1 = r1
  r2 = r2
  Tenants = {t1, t2}
  Briefs = {b1, b2}
  Owner <- TwoOwners
  Consenting = {b1}
  Runs = {r1, r2}
  Resends = {}
  NoBrief = NoBrief
  NoRun = NoRun
  CHUNK_WORDS = 3
  CHUNK_OVERLAP_WORDS = 1
  RELATED_TOP_K = 2
  RELATED_LIMIT = 1
  Length <- Lengths
SPECIFICATION Spec
INVARIANT AgentFindsIndexed
CHECK_DEADLOCK FALSE
