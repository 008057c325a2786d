SPECIFICATION Spec
CONSTANTS
  NoToken = NoToken
  NoData = NoData
  Users = {"alice", "bob"}
  Tokens = {"t1", "t2"}
  MaxDials = 3
  MaxClicks = 1
INVARIANTS
  TypeOK
  NoAnswerCrossesSessions
  SessionIsOfLastAttempt
PROPERTY
  AttemptIsSettled
CHECK_DEADLOCK FALSE
