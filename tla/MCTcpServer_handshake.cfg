CONSTANTS
  Connections = {c1, c2}
  MaxConnections = 1
  MaxRequests = 2
  Revocable = {c1}
SPECIFICATION FairSpec
PROPERTIES
  AcceptedConnectionsEnd
CHECK_DEADLOCK FALSE
