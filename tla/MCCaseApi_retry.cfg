CONSTANTS
  t1 = t1
  t2 = t2
  u1 = u1
  u2 = u2
  c1 = c1
  c2 = c2
  k1 = k1
  k2 = k2
  NoInput = NoInput
  ValidTransition <- Lifecycle
  Tenants = {t1}
  Users = {u1, u2}
  Cases = {c1, c2}
  Keys = {k1, k2}
  Requests = {r1, r2, r3}
  Inputs <- RetryInputs
  MaxClock = 1
  InitialRoles <- RetryRoles
  InitialScopes <- FullScopes
  RoleChanges = {}
  Revocable = {}
  ForeignWrites <- RetryFlaws
SPECIFICATION Spec
SYMMETRY RequestSymmetry
INVARIANTS
  ReplyMatchesRequest
  AtMostOnceEffect
  PublishedOncePerCommit
PROPERTIES
  RefusalMeansNoEffect
  RetryOutcome
  ImplementsLedger
CHECK_DEADLOCK FALSE
