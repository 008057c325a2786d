SPECIFICATION Spec
CONSTANTS
  NoToken = NoToken
  NoData = NoData
  Users = {"alice", "bob"}
  Tokens = {"t1", "t2"}
  MaxDials = 3
  MaxClicks = 1
INVARIANT SignedInIsServed
CHECK_DEADLOCK FALSE
