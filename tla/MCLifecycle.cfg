CONSTANTS
  h1 = h1
  h2 = h2
  s1 = s1
  c1 = c1
  n1 = n1
  n2 = n2
  Jobs = {h1, h2, s1, c1, n1, n2}
  KindOf <- OneOfEach
  Prompt = {h1}
  Blank = Blank
  RawLength = 4
  Environments <- AllEnvironments
SPECIFICATION FairSpec
INVARIANTS
  TypeOK
  ServedOnlyWhenReady
  AllowListExact
  ExitCutsNoRequest
PROPERTIES
  DrainEnds
  RequestsOutliveAvenues
CHECK_DEADLOCK FALSE
