CONSTANTS
  t1 = t1
  t2 = t2
  t3 = t3
  t4 = t4
  u1 = u1
  u2 = u2
  d1 = d1
  d2 = d2
  Requests = {r1, r2}
  Users = {u1, u2}
  SessionIds = {d1, d2}
  Tokens = {t1, t2, t3, t4}
  NoToken = NoToken
  Identity <- Verified
  Reports <- Deviations
  InOrder <- LiveSession
  Changing = {t1}
  Absent = Absent
  MaxChanges = 2
  MaxClock = 2
SPECIFICATION Spec
SYMMETRY RequestSymmetry
INVARIANTS
  TypeOK
  AcceptedWasLive
  RefusedForCause
PROPERTIES
  AcceptedWithinLifetime
CHECK_DEADLOCK FALSE
