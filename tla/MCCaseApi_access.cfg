CONSTANTS
  t1 = t1
  t2 = t2
  u1 = u1
  u2 = u2
  c1 = c1
  c2 = c2
  k1 = k1
  k2 = k2
  NoInput = NoInput
  ValidTransition <- Lifecycle
  Tenants = {t1, t2}
  Users = {u1, u2}
  Cases = {c1}
  Keys = {k1, k2}
  Requests = {r1, r2, r3}
  Inputs <- AccessInputs
  MaxClock = 0
  InitialRoles <- AccessRoles
  InitialScopes <- FullScopes
  RoleChanges <- AccessChanges
  Revocable = {u1}
  ForeignWrites = {}
SPECIFICATION Spec
SYMMETRY RequestSymmetry
INVARIANTS
  TypeOK
  TenantIsolation
  AuthorizedCommit
  AccessAudited
CHECK_DEADLOCK FALSE
