CONSTANTS
  Connections = {c1, c2, c3}
  MaxConnections = 2
  MaxRequests = 2
  Revocable = {c1}
SPECIFICATION FairSpec
INVARIANTS
  TypeOK
  PermitsConserved
  LockStep
  
PROPERTIES
  EstablishedConnectionsEnd
CHECK_DEADLOCK FALSE
