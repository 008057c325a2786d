SPECIFICATION Spec
CONSTANTS
  a1 = a1
  a2 = a2
  t1 = t1
  t2 = t2
  None = None
  Accounts <- MCAccounts
  Tokens <- MCTokens
  MaxFailedAttempts = 2
  LockoutMinutes = 2
  SessionLifetime = 1
  MaxTime = 3
  MaxFaults = 1
INVARIANTS
  TypeOK
  BruteForceBound
  LockoutInv
  LockIsEarned
  LogoutEndsSessionUnlessFault
PROPERTIES
  GuessingEndsNoSession
  RefinesLifecycle
SYMMETRY Symmetric
CHECK_DEADLOCK FALSE
