SPECIFICATION FairSpec
CONSTANTS
  Kinds = {"request", "badop", "garbage", "oversize"}
  MaxRequests = 3
  MaxDrops = 2
  Window = 3
INVARIANTS
  TypeOK
  InStep
  BusyWhileAwaiting
PROPERTIES
  RefinesRequestReply
  EveryRequestAnswered
CHECK_DEADLOCK FALSE
