CONSTANTS
  t1 = t1
  u1 = u1
  u2 = u2
  c1 = c1
  k1 = k1
  k2 = k2
  s1 = s1
  s2 = s2
  NoInput = NoInput
  NoCase = NoCase
  ValidTransition <- OneMove
  Tenants = {t1}
  Users = {u1, u2}
  Cases = {c1}
  Keys = {k1, k2}
  Requests = {r1, r2}
  Inputs <- CreateAndMove
  MaxClock = 0
  InitialRoles <- AgentAndViewer
  InitialScopes <- FullScopes
  RoleChanges = {}
  Revocable = {}
  ForeignWrites = {}
  Wanted <- WholeTenant
  Sockets = {s1, s2}
  Cap = 1
  Reading = {s1}
  UserOf <- Viewers
SPECIFICATION ComposedSpec
INVARIANTS
  CausesFirst
PROPERTIES
  MutationsAreHeard
  EveryRequestEnds
CHECK_DEADLOCK FALSE
