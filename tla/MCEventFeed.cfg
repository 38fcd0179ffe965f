CONSTANTS
  t1 = t1
  t2 = t2
  c1 = c1
  s1 = s1
  s2 = s2
  Tenants = {t1, t2}
  Cases = {c1}
  NoCase = NoCase
  Wanted <- CaseOrTenant
  Sockets = {s1, s2}
  Cap = 2
  MaxSent = 3
  Membership <- OwnTenant
  Leavable = {s1}
  Reading = {s1}
SPECIFICATION FairSpec
INVARIANTS
  TypeOK
  DeliveredInOrder
  FeedIsolation
  NothingMissedWithinCap
PROPERTIES
  LagSkipsOnlyOverwritten
  ReadersCatchUp
CHECK_DEADLOCK FALSE
