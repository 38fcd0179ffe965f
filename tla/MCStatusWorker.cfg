CONSTANTS
  m1 = m1
  m2 = m2
  o1 = o1
  o2 = o2
  Signals = {m1, m2}
  Operations = {o1, o2}
  Invalid = Invalid
  PayloadOf <- Payload
  Topologies <- GoodAndWrong
  Workers = {w1, w2}
  NoDelivery = NoDelivery
  MaxExpiries = 1
  MaxStarts = 3
SPECIFICATION FairSpec
INVARIANTS
  TypeOK
  RemovedOnlyIfAnswered
  OneResponsePerWindow
  LostOnlyToFailures
PROPERTIES
  AnsweredUnlessAllLost
CHECK_DEADLOCK FALSE
