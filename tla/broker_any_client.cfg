CONSTANTS
  Channel = {c1, c2}
  Message = {m1, m2, m3}
  Nil = Nil
  SubCap = 2
  ReqCap = 1
  MaxNil = 0
SPECIFICATION BrokerSpec
INVARIANTS
  TypeOK
  DeliveredInOrder
  LossNeedsBacklog
PROPERTY FeedSpec
SYMMETRY Symmetry
CHECK_DEADLOCK FALSE
