CONSTANTS
  Tenants = {t1, t2}
  NoTenant = NoTenant
  Registrations = {q1, q2}
  Calls = {c1, c2}
  NoCall = NoCall
  Sessions = {s1}
  FREE_TIER_BRIEF_LIMIT = 2
  MaxBriefs = 3
SPECIFICATION Spec
INVARIANTS
  AdmissionTypeOK
  LimitHolds
  SessionsSound
SYMMETRY Symmetry
CHECK_DEADLOCK FALSE
