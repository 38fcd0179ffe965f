CONSTANTS
  t1 = t1
  t2 = t2
  u1 = u1
  u2 = u2
  c1 = c1
  c2 = c2
  k1 = k1
  k2 = k2
  NoInput = NoInput
  ValidTransition <- Lifecycle
  Tenants = {t1}
  Users = {u1}
  Cases = {c1, c2}
  Keys = {k1, k2}
  Requests = {r1, r2}
  Inputs <- OneOfEach
  MaxClock = 1
  InitialRoles <- OneRole
  InitialScopes <- OneScopes
  RoleChanges <- OneChange
  Revocable = {u1}
  ForeignWrites <- LiveFlaws
SPECIFICATION FairSpec
PROPERTIES
  EveryRequestEnds
CHECK_DEADLOCK FALSE
