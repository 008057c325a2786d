SPECIFICATION FairSpec
CONSTANTS
  Kinds = {"request"}
  MaxRequests = 2
  MaxDrops = 0
  Window = 2
PROPERTY PipelinedAnswered
CHECK_DEADLOCK FALSE
