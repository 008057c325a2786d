----------------------------- MODULE AuthProofs -----------------------------
(***************************************************************************)
(* Proofs about Auth and Sessions, for every set of accounts and tokens,   *)
(* every limit, lockout and session lifetime, and however many faults.     *)
(***************************************************************************)
EXTENDS Sessions, TLAPS

\* The initial rows have the type of rows and no wrong password is on record.
LEMMA InitTypeOK == Init => TypeOK
<1> SUFFICES ASSUME Init PROVE TypeOK
  OBVIOUS
<1>1. NewUser(TRUE) \in UserRow /\ NoUser("unborn") \in UserRow
  BY DEF NewUser, NoUser, UserRow
<1>2. users \in [Accounts -> UserRow]
  BY <1>1 DEF Init
<1>3. sessions \in [Tokens -> SessionRow]
  BY DEF Init, NoSession, SessionRow
<1>4. QED
  BY <1>2, <1>3, AuthAssumption DEF Init, TypeOK

\* No statement of the code, no fault and no clock tick leaves the types.
LEMMA NextTypeOK == TypeOK /\ [Next]_vars => TypeOK'
<1> SUFFICES ASSUME TypeOK, [Next]_vars PROVE TypeOK'
  OBVIOUS
<1> USE AuthAssumption DEF TypeOK, UserRow, SessionRow, tables, history, Done
<1>1. ASSUME NEW u \in Accounts, WrongPassword(u) PROVE TypeOK'
  BY <1>1 DEF WrongPassword
<1>2. ASSUME NEW u \in Accounts, RightPassword(u) PROVE TypeOK'
  BY <1>2 DEF RightPassword
<1>3. CASE IncrementFailed
  BY <1>3 DEF IncrementFailed
<1>4. CASE LockIfExhausted
  BY <1>4 DEF LockIfExhausted
<1>5. CASE ResetFailed
  BY <1>5 DEF ResetFailed
<1>6. ASSUME NEW t \in Tokens, CreateSession(t) PROVE TypeOK'
  BY <1>6 DEF CreateSession
<1>7. CASE StatementFails
  BY <1>7 DEF StatementFails
<1>8. CASE Crash
  BY <1>8 DEF Crash
<1>9. ASSUME NEW t \in Tokens, Logout(t) PROVE TypeOK'
  BY <1>9 DEF Logout
<1>10. ASSUME NEW t \in Tokens, LogoutFails(t) PROVE TypeOK'
  BY <1>10 DEF LogoutFails
<1>11. ASSUME NEW u \in Accounts, NEW b \in BOOLEAN, CreateUser(u, b) PROVE TypeOK'
  <2>1. NewUser(b) \in UserRow
    BY DEF NewUser
  <2>2. users' \in [Accounts -> UserRow]
    BY <1>11, <2>1 DEF CreateUser
  <2>3. QED
    BY <1>11, <2>2 DEF CreateUser
<1>12. ASSUME NEW u \in Accounts, NEW b \in BOOLEAN, SetActive(u, b) PROVE TypeOK'
  BY <1>12 DEF SetActive
<1>13. ASSUME NEW u \in Accounts, DeleteUser(u) PROVE TypeOK'
  <2>1. NoUser("deleted") \in UserRow /\ NoSession \in SessionRow
    BY DEF NoUser, NoSession
  <2>2. users' \in [Accounts -> UserRow] /\ sessions' \in [Tokens -> SessionRow]
    BY <1>13, <2>1 DEF DeleteUser
  <2>3. QED
    BY <1>13, <2>2 DEF DeleteUser
<1>14. CASE Tick
  BY <1>14 DEF Tick
<1>15. CASE UNCHANGED vars
  BY <1>15 DEF vars
<1>16. QED
  BY <1>1, <1>2, <1>3, <1>4, <1>5, <1>6, <1>7, <1>8, <1>9, <1>10, <1>11, <1>12,
     <1>13, <1>14, <1>15 DEF Next

(* The tables, the statement in progress and the history always have their *)
(* types, and a user is being served exactly while a statement is pending. *)
THEOREM TypeCorrect == Spec => []TypeOK
  BY InitTypeOK, NextTypeOK, PTL DEF Spec

-----------------------------------------------------------------------------
(* Brute-force protection.  LockoutInv is inductive; the counter and the   *)
(* lock are followed through each statement of authenticate().             *)

\* Periods of lockout multiply as expected.
LEMMA Periods ==
  ASSUME NEW a \in Int, NEW b \in Int, a <= b
  PROVE  a * LockoutMinutes <= b * LockoutMinutes
<1>1. PICK n \in Nat : b = a + n
  <2>1. b - a \in Nat /\ b = a + (b - a)
    OBVIOUS
  <2>2. QED
    BY <2>1
<1>2. b * LockoutMinutes = a * LockoutMinutes + n * LockoutMinutes
  BY <1>1, AuthAssumption
<1>3. n * LockoutMinutes >= 0
  BY AuthAssumption
<1>4. QED
  BY <1>2, <1>3, AuthAssumption

\* Nobody has guessed anything when the server is set up.
LEMMA InitLockoutInv == Init => LockoutInv
<1> SUFFICES ASSUME Init PROVE LockoutInv
  OBVIOUS
<1>1. TypeOK
  BY InitTypeOK
<1>2. \A u \in Accounts : users[u].failed = 0 /\ users[u].lockedUntil = 0
  <2>1. \A row \in {NewUser(TRUE), NoUser("unborn")} : row.failed = 0 /\ row.lockedUntil = 0
    BY DEF NewUser, NoUser
  <2>2. QED
    BY <2>1 DEF Init
<1>3. HandlerInv /\ UnbornInv /\ BruteForceBound
  BY AuthAssumption DEF Init, HandlerInv, UnbornInv, BruteForceBound
<1>4. CounterInv /\ LockInv
  BY <1>2, AuthAssumption DEF Init, CounterInv, LockInv, Debt, InFlight
<1>5. QED
  BY <1>1, <1>3, <1>4 DEF LockoutInv

\* The statements of authenticate() keep track of the password in hand.
LEMMA NextHandlerInv == LockoutInv /\ [Next]_vars => HandlerInv'
<1> SUFFICES ASSUME LockoutInv, [Next]_vars PROVE HandlerInv'
  OBVIOUS
<1> USE AuthAssumption
    DEF LockoutInv, HandlerInv, TypeOK, UserRow, tables, history, Done
<1>1. ASSUME NEW u \in Accounts, WrongPassword(u) \/ RightPassword(u) PROVE HandlerInv'
  BY <1>1 DEF WrongPassword, RightPassword, MayTry
<1>2. CASE IncrementFailed \/ LockIfExhausted
  BY <1>2 DEF IncrementFailed, LockIfExhausted
<1>3. CASE ResetFailed
  BY <1>3 DEF ResetFailed
<1>4. ASSUME NEW t \in Tokens, CreateSession(t) \/ Logout(t) \/ LogoutFails(t)
      PROVE  HandlerInv'
  BY <1>4 DEF CreateSession, Logout, LogoutFails
<1>5. CASE StatementFails \/ Crash
  BY <1>5 DEF StatementFails, Crash
<1>6. ASSUME NEW u \in Accounts, NEW b \in BOOLEAN,
             CreateUser(u, b) \/ SetActive(u, b) \/ DeleteUser(u)
      PROVE  HandlerInv'
  BY <1>6 DEF CreateUser, SetActive, DeleteUser
<1>7. CASE Tick \/ UNCHANGED vars
  BY <1>7 DEF Tick, vars
<1>8. QED
  BY <1>1, <1>2, <1>3, <1>4, <1>5, <1>6, <1>7 DEF Next

\* No wrong password escapes the counter unless a fault is counted.
LEMMA NextCounterInv == LockoutInv /\ [Next]_vars => CounterInv'
<1> SUFFICES ASSUME LockoutInv, [Next]_vars,
                    NEW v \in Accounts, users'[v].status = "present"
             PROVE  guesses'[v] - (IF who' = v /\ pc' = "increment" THEN 1 ELSE 0) - faults'
                      <= users'[v].failed
  BY DEF CounterInv
<1> USE AuthAssumption
    DEF LockoutInv, HandlerInv, CounterInv, TypeOK, UserRow, tables, history, Done
<1>1. ASSUME NEW u \in Accounts, WrongPassword(u) \/ RightPassword(u) PROVE CounterInv'
  BY <1>1 DEF WrongPassword, RightPassword
<1>2. CASE IncrementFailed \/ LockIfExhausted
  BY <1>2 DEF IncrementFailed, LockIfExhausted
<1>3. CASE ResetFailed
  BY <1>3 DEF ResetFailed
<1>4. ASSUME NEW t \in Tokens, CreateSession(t) \/ Logout(t) \/ LogoutFails(t)
      PROVE  CounterInv'
  BY <1>4 DEF CreateSession, Logout, LogoutFails
<1>5. CASE StatementFails \/ Crash
  BY <1>5 DEF StatementFails, Crash
<1>6. ASSUME NEW u \in Accounts, NEW b \in BOOLEAN, CreateUser(u, b) PROVE CounterInv'
  BY <1>6 DEF CreateUser, NewUser, UnbornInv
<1>7. ASSUME NEW u \in Accounts, NEW b \in BOOLEAN, SetActive(u, b) \/ DeleteUser(u)
      PROVE  CounterInv'
  BY <1>7 DEF SetActive, DeleteUser, NoUser
<1>8. CASE Tick \/ UNCHANGED vars
  BY <1>8 DEF Tick, vars
<1>9. QED
  BY <1>1, <1>2, <1>3, <1>4, <1>5, <1>6, <1>7, <1>8 DEF Next

\* Every wrong password past the allowance is paid for with a lockout period.
LEMMA NextLockInv == LockoutInv /\ [Next]_vars => LockInv'
<1> SUFFICES ASSUME LockoutInv, [Next]_vars,
                    NEW v \in Accounts, users'[v].status = "present"
             PROVE  /\ users'[v].lockedUntil <= now' + LockoutMinutes
                    /\ Debt(v)' >= 0 =>
                         (Debt(v)' + 1) * LockoutMinutes <= users'[v].lockedUntil
  BY DEF LockInv
<1> DEFINE Goal == /\ users'[v].lockedUntil <= now' + LockoutMinutes
                   /\ Debt(v)' >= 0 =>
                        (Debt(v)' + 1) * LockoutMinutes <= users'[v].lockedUntil
<1> USE AuthAssumption
    DEF LockoutInv, HandlerInv, TypeOK, UserRow, tables, history, Done
<1>0. Debt(v) \in Int
  BY DEF Debt
\* A step that leaves v's row alone and raises no debt of v.
<1>1. ASSUME users'[v] = users[v], now' >= now, now' \in Nat,
             Debt(v)' \in Int, Debt(v)' <= Debt(v)
      PROVE  Goal
  <2>1. (Debt(v)' + 1) * LockoutMinutes <= (Debt(v) + 1) * LockoutMinutes
    BY <1>0, <1>1, Periods
  <2>2. QED
    BY <1>0, <1>1, <2>1 DEF LockInv
<1>2. ASSUME NEW u \in Accounts, WrongPassword(u) PROVE Goal
  BY <1>1, <1>2 DEF WrongPassword, Debt, InFlight
<1>3. ASSUME NEW u \in Accounts, RightPassword(u) PROVE Goal
  BY <1>1, <1>3 DEF RightPassword, Debt, InFlight
<1>4. CASE IncrementFailed
  BY <1>4 DEF IncrementFailed, Debt, InFlight, LockInv
<1>5. CASE LockIfExhausted
  <2>1. CASE v # who
    BY <1>1, <1>5, <2>1 DEF LockIfExhausted, Debt, InFlight
  <2>2. CASE v = who
    <3>0. /\ users[v].lockedUntil \in Nat /\ users[v].lockedUntil <= now
          /\ Debt(v) >= 0 => (Debt(v) + 1) * LockoutMinutes <= users[v].lockedUntil
      BY <1>5, <2>2 DEF LockIfExhausted, LockInv
    <3>1. Debt(v)' = Debt(v) + 1
      BY <1>5, <2>2 DEF LockIfExhausted, Debt, InFlight
    <3>2. Debt(v)' >= 0 => users[v].failed >= MaxFailedAttempts
      BY <1>5, <2>2, <3>1 DEF LockIfExhausted, Debt, InFlight, CounterInv
    <3>3. Debt(v)' >= 0 => Debt(v)' * LockoutMinutes <= now
      <4>1. CASE Debt(v) >= 0
        BY <1>0, <3>0, <3>1, <4>1
      <4>2. CASE Debt(v) = -1
        BY <3>1, <4>2
      <4>3. QED
        BY <1>0, <3>1, <4>1, <4>2
    <3>4. CASE Debt(v)' >= 0
      <4>1. users'[v].lockedUntil = now + LockoutMinutes /\ now' = now
        BY <1>5, <2>2, <3>2, <3>4 DEF LockIfExhausted
      <4>2. (Debt(v)' + 1) * LockoutMinutes = Debt(v)' * LockoutMinutes + LockoutMinutes
        BY <1>0, <3>1
      <4>3. QED
        BY <1>0, <3>1, <3>3, <3>4, <4>1, <4>2
    <3>5. CASE Debt(v)' < 0
      <4>1. users'[v].lockedUntil \in {users[v].lockedUntil, now + LockoutMinutes} /\ now' = now
        BY <1>5, <2>2 DEF LockIfExhausted
      <4>2. QED
        BY <1>0, <3>0, <3>1, <3>5, <4>1
    <3>6. QED
      BY <1>0, <3>1, <3>4, <3>5
  <2>3. QED
    BY <2>1, <2>2
<1>6. CASE ResetFailed
  <2>1. CASE v # who
    BY <1>1, <1>6, <2>1 DEF ResetFailed, Debt, InFlight
  <2>2. CASE v = who
    <3>1. Debt(v)' \in Int /\ Debt(v)' < 0
      BY <1>6, <2>2 DEF ResetFailed, Debt, InFlight
    <3>2. users'[v].lockedUntil = 0 /\ now' = now
      BY <1>6, <2>2 DEF ResetFailed
    <3>3. QED
      BY <3>1, <3>2
  <2>3. QED
    BY <2>1, <2>2
<1>7. ASSUME NEW t \in Tokens, CreateSession(t) \/ Logout(t) \/ LogoutFails(t)
      PROVE  Goal
  BY <1>1, <1>7 DEF CreateSession, Logout, LogoutFails, Debt, InFlight
<1>8. CASE StatementFails \/ Crash
  BY <1>1, <1>8 DEF StatementFails, Crash, Debt, InFlight
<1>9. ASSUME NEW u \in Accounts, NEW b \in BOOLEAN, CreateUser(u, b) PROVE Goal
  <2>1. CASE v # u
    BY <1>1, <1>9, <2>1 DEF CreateUser, Debt, InFlight
  <2>2. CASE v = u
    BY <1>9, <2>2 DEF CreateUser, NewUser, UnbornInv, Debt, InFlight
  <2>3. QED
    BY <2>1, <2>2
<1>10. ASSUME NEW u \in Accounts, NEW b \in BOOLEAN, SetActive(u, b) PROVE Goal
  BY <1>10 DEF SetActive, Debt, InFlight, LockInv
<1>11. ASSUME NEW u \in Accounts, DeleteUser(u) PROVE Goal
  BY <1>1, <1>11 DEF DeleteUser, NoUser, Debt, InFlight
<1>12. CASE Tick \/ UNCHANGED vars
  BY <1>1, <1>12 DEF Tick, vars, Debt, InFlight
<1>13. QED
  BY <1>2, <1>3, <1>4, <1>5, <1>6, <1>7, <1>8, <1>9, <1>10, <1>11, <1>12 DEF Next

\* Passwords are only compared for rows that exist.
LEMMA NextUnbornInv == LockoutInv /\ [Next]_vars => UnbornInv'
<1> SUFFICES ASSUME LockoutInv, [Next]_vars,
                    NEW v \in Accounts, users'[v].status = "unborn"
             PROVE  guesses'[v] = 0
  BY DEF UnbornInv
<1> USE DEF LockoutInv, HandlerInv, UnbornInv, TypeOK, UserRow, tables, history
<1>1. ASSUME NEW u \in Accounts, WrongPassword(u) \/ RightPassword(u)
      PROVE  guesses'[v] = 0
  BY <1>1 DEF WrongPassword, RightPassword, MayTry
<1>2. CASE IncrementFailed \/ LockIfExhausted \/ ResetFailed
  BY <1>2 DEF IncrementFailed, LockIfExhausted, ResetFailed
<1>3. ASSUME NEW t \in Tokens, CreateSession(t) \/ Logout(t) \/ LogoutFails(t)
      PROVE  guesses'[v] = 0
  BY <1>3 DEF CreateSession, Logout, LogoutFails
<1>4. ASSUME NEW u \in Accounts, NEW b \in BOOLEAN, CreateUser(u, b) \/ SetActive(u, b)
      PROVE  guesses'[v] = 0
  BY <1>4 DEF CreateUser, SetActive
<1>5. ASSUME NEW u \in Accounts, DeleteUser(u) PROVE guesses'[v] = 0
  BY <1>5 DEF DeleteUser, NoUser
<1>6. CASE StatementFails \/ Crash \/ Tick \/ UNCHANGED vars
  BY <1>6 DEF StatementFails, Crash, Tick, vars
<1>7. QED
  BY <1>1, <1>2, <1>3, <1>4, <1>5, <1>6 DEF Next

\* Time and faults never run backwards, and only rows that exist are guessed.
LEMMA HistoryGrows ==
  ASSUME LockoutInv, [Next]_vars, NEW v \in Accounts, users'[v].status # "present"
  PROVE  now' >= now /\ faults' >= faults /\ guesses'[v] = guesses[v]
<1> USE DEF LockoutInv, HandlerInv, TypeOK, UserRow, tables, history
<1> DEFINE Goal == now' >= now /\ faults' >= faults /\ guesses'[v] = guesses[v]
<1>1. ASSUME NEW u \in Accounts, WrongPassword(u) \/ RightPassword(u) PROVE Goal
  BY <1>1 DEF WrongPassword, RightPassword, MayTry
<1>2. CASE IncrementFailed \/ LockIfExhausted \/ ResetFailed
  BY <1>2 DEF IncrementFailed, LockIfExhausted, ResetFailed
<1>3. ASSUME NEW t \in Tokens, CreateSession(t) \/ Logout(t) \/ LogoutFails(t)
      PROVE  Goal
  BY <1>3 DEF CreateSession, Logout, LogoutFails
<1>4. ASSUME NEW u \in Accounts, NEW b \in BOOLEAN,
             CreateUser(u, b) \/ SetActive(u, b) \/ DeleteUser(u)
      PROVE  Goal
  BY <1>4 DEF CreateUser, SetActive, DeleteUser
<1>5. CASE StatementFails \/ Crash \/ Tick \/ UNCHANGED vars
  BY <1>5 DEF StatementFails, Crash, Tick, vars
<1>6. QED
  BY <1>1, <1>2, <1>3, <1>4, <1>5 DEF Next

\* The bound follows from the lock of an existing row, and time keeps it of others.
LEMMA NextBruteForceBound == LockoutInv /\ [Next]_vars => BruteForceBound'
<1> SUFFICES ASSUME LockoutInv, [Next]_vars, NEW v \in Accounts,
                    guesses'[v] > MaxFailedAttempts + faults'
             PROVE  (guesses'[v] - MaxFailedAttempts - faults') * LockoutMinutes <= now'
  BY DEF BruteForceBound
<1> DEFINE e == guesses[v] - MaxFailedAttempts - faults
           f == guesses'[v] - MaxFailedAttempts - faults'
<1>1. TypeOK /\ TypeOK' /\ HandlerInv' /\ LockInv'
  BY NextTypeOK, NextHandlerInv, NextLockInv DEF LockoutInv
<1>2. /\ e \in Int /\ f \in Int /\ f > 0
      /\ now \in Nat /\ now' \in Nat /\ LockoutMinutes \in Nat
  BY <1>1, AuthAssumption DEF TypeOK
<1>3. CASE users'[v].status = "present"
  <2>1. /\ users'[v].lockedUntil \in Nat
        /\ users'[v].lockedUntil <= now' + LockoutMinutes
    BY <1>1, <1>3 DEF LockInv, TypeOK, UserRow
  <2>2. CASE InFlight(v)'
    <3>1. Debt(v)' = f - 1
      BY <1>1, <2>2, AuthAssumption DEF Debt, TypeOK
    <3>2. users'[v].lockedUntil <= now'
      BY <1>1, <2>2 DEF InFlight, HandlerInv
    <3>3. (f - 1 + 1) * LockoutMinutes <= users'[v].lockedUntil
      BY <1>1, <1>2, <1>3, <3>1 DEF LockInv
    <3>4. f - 1 + 1 = f
      BY <1>2
    <3>5. QED
      BY <1>2, <2>1, <3>2, <3>3, <3>4
  <2>3. CASE ~InFlight(v)'
    <3>1. Debt(v)' = f
      BY <1>1, <2>3, AuthAssumption DEF Debt, TypeOK
    <3>2. (f + 1) * LockoutMinutes <= users'[v].lockedUntil
      BY <1>1, <1>2, <1>3, <3>1 DEF LockInv
    <3>3. (f + 1) * LockoutMinutes = f * LockoutMinutes + LockoutMinutes
      BY <1>2
    <3>4. QED
      BY <1>2, <2>1, <3>2, <3>3
  <2>4. QED
    BY <2>2, <2>3
<1>4. CASE users'[v].status # "present"
  <2>1. now' >= now /\ faults' >= faults /\ guesses'[v] = guesses[v]
    BY <1>4, HistoryGrows
  <2>2. f <= e
    BY <1>1, <2>1, AuthAssumption DEF TypeOK
  <2>3. e * LockoutMinutes <= now
    BY <1>1, <1>2, <2>2, AuthAssumption DEF LockoutInv, BruteForceBound, TypeOK
  <2>4. f * LockoutMinutes <= e * LockoutMinutes
    BY <1>2, <2>2, Periods
  <2>5. QED
    BY <1>2, <2>1, <2>3, <2>4
<1>5. QED
  BY <1>3, <1>4

(* Counter and lock account for every wrong password, always: LockoutInv   *)
(* holds in every reachable state.                                         *)
THEOREM LockoutSafe == Spec => []LockoutInv
<1>1. LockoutInv /\ [Next]_vars => LockoutInv'
  BY NextTypeOK, NextHandlerInv, NextCounterInv, NextLockInv, NextUnbornInv,
     NextBruteForceBound DEF LockoutInv
<1>2. QED
  BY <1>1, InitLockoutInv, PTL DEF Spec

(* However long somebody guesses and whatever fails in between, an         *)
(* account is guessed at most MaxFailedAttempts times, once more per fault *)
(* and once more per lockout period that has passed.                       *)
THEOREM BruteForceBounded == Spec => []BruteForceBound
<1>1. LockoutInv => BruteForceBound
  BY DEF LockoutInv
<1>2. QED
  BY <1>1, LockoutSafe, PTL

-----------------------------------------------------------------------------
(* Locks are earned.  While no statement has failed, the counter never     *)
(* runs ahead of the wrong passwords, except between the comparison of a   *)
(* right one and the statement that clears it.                             *)

\* Wrong passwords of u that the counter may have counted.
Counted(u) == guesses[u] - (IF who = u /\ pc = "increment" THEN 1 ELSE 0)

\* Unless a statement failed, the counter and the lock claim no more than happened.
EarnedInv ==
    faults = 0 => \A u \in Accounts :
        /\ (who = u /\ pc = "reset") \/ users[u].failed <= Counted(u)
        /\ users[u].lockedUntil > now => guesses[u] >= MaxFailedAttempts

\* No account starts with a count or a lock.
LEMMA InitEarnedInv == Init => EarnedInv
<1> SUFFICES ASSUME Init, NEW u \in Accounts
             PROVE  /\ (who = u /\ pc = "reset") \/ users[u].failed <= Counted(u)
                    /\ users[u].lockedUntil > now => guesses[u] >= MaxFailedAttempts
  BY DEF EarnedInv
<1>1. \A row \in {NewUser(TRUE), NoUser("unborn")} : row.failed = 0 /\ row.lockedUntil = 0
  BY DEF NewUser, NoUser
<1>2. users[u].failed = 0 /\ users[u].lockedUntil = 0
  BY <1>1 DEF Init
<1>3. guesses[u] = 0 /\ now = 0 /\ pc = "idle"
  BY DEF Init
<1>4. QED
  BY <1>2, <1>3 DEF Counted

\* No step counts or locks more than it compared.
LEMMA NextEarnedInv == TypeOK /\ EarnedInv /\ [Next]_vars => EarnedInv'
<1> SUFFICES ASSUME TypeOK, EarnedInv, [Next]_vars, faults' = 0, NEW v \in Accounts
             PROVE  /\ (who' = v /\ pc' = "reset") \/ users'[v].failed <= Counted(v)'
                    /\ users'[v].lockedUntil > now' => guesses'[v] >= MaxFailedAttempts
  BY DEF EarnedInv
<1> DEFINE Goal == /\ (who' = v /\ pc' = "reset") \/ users'[v].failed <= Counted(v)'
                   /\ users'[v].lockedUntil > now' => guesses'[v] >= MaxFailedAttempts
<1> USE AuthAssumption DEF EarnedInv, Counted, TypeOK, UserRow, tables, history, Done
<1>1. ASSUME NEW u \in Accounts, WrongPassword(u) PROVE Goal
  BY <1>1 DEF WrongPassword, MayTry
<1>2. ASSUME NEW u \in Accounts, RightPassword(u) PROVE Goal
  BY <1>2 DEF RightPassword, MayTry
<1>3. CASE IncrementFailed
  BY <1>3 DEF IncrementFailed
<1>4. CASE LockIfExhausted
  BY <1>4 DEF LockIfExhausted
<1>5. CASE ResetFailed
  BY <1>5 DEF ResetFailed
<1>6. ASSUME NEW t \in Tokens, CreateSession(t) \/ Logout(t) \/ LogoutFails(t) PROVE Goal
  BY <1>6 DEF CreateSession, Logout, LogoutFails
<1>7. CASE StatementFails \/ Crash
  BY <1>7 DEF StatementFails, Crash
<1>8. ASSUME NEW u \in Accounts, NEW b \in BOOLEAN, CreateUser(u, b) PROVE Goal
  BY <1>8 DEF CreateUser, NewUser
<1>9. ASSUME NEW u \in Accounts, NEW b \in BOOLEAN, SetActive(u, b) PROVE Goal
  BY <1>9 DEF SetActive
<1>10. ASSUME NEW u \in Accounts, DeleteUser(u) PROVE Goal
  BY <1>10 DEF DeleteUser, NoUser
<1>11. CASE Tick \/ UNCHANGED vars
  BY <1>11 DEF Tick, vars
<1>12. QED
  BY <1>1, <1>2, <1>3, <1>4, <1>5, <1>6, <1>7, <1>8, <1>9, <1>10, <1>11 DEF Next

(* Nobody is locked out for less than MaxFailedAttempts wrong passwords    *)
(* since his last right one, unless a statement failed.                    *)
THEOREM LocksAreEarned == Spec => []LockIsEarned
<1>1. EarnedInv => LockIsEarned
  BY DEF EarnedInv, LockIsEarned
<1>2. QED
  BY <1>1, InitEarnedInv, NextEarnedInv, TypeCorrect, PTL DEF Spec

-----------------------------------------------------------------------------
(* Sessions.  Rows of sessions belong to issued tokens, so that a token is *)
(* never given out again, and LOGOUT leaves a row that is not found.       *)

\* Rows of sessions are of issued tokens; a logged-out row is revoked or gone.
LogoutInv ==
    /\ \A t \in Tokens : sessions[t].owner # None => t \in issued
    /\ loggedOut \subseteq issued
    /\ faults = 0 => \A t \in loggedOut : sessions[t].revoked \/ sessions[t].owner = None

\* There is no session at first.
LEMMA InitLogoutInv == Init => LogoutInv
  BY DEF Init, LogoutInv, NoSession

\* No step brings a logged-out session back or reuses its token.
LEMMA NextLogoutInv == TypeOK /\ LogoutInv /\ [Next]_vars => LogoutInv'
<1> SUFFICES ASSUME TypeOK, LogoutInv, [Next]_vars PROVE LogoutInv'
  OBVIOUS
<1> USE AuthAssumption DEF LogoutInv, TypeOK, SessionRow, tables, history, Done
<1>1. ASSUME NEW u \in Accounts, WrongPassword(u) \/ RightPassword(u) PROVE LogoutInv'
  BY <1>1 DEF WrongPassword, RightPassword
<1>2. CASE IncrementFailed \/ LockIfExhausted \/ ResetFailed
  BY <1>2 DEF IncrementFailed, LockIfExhausted, ResetFailed
<1>3. ASSUME NEW t \in Tokens, CreateSession(t) PROVE LogoutInv'
  BY <1>3 DEF CreateSession
<1>4. ASSUME NEW t \in Tokens, Logout(t) PROVE LogoutInv'
  BY <1>4 DEF Logout, Valid, SessionFound
<1>5. ASSUME NEW t \in Tokens, LogoutFails(t) PROVE LogoutInv'
  BY <1>5 DEF LogoutFails, Valid, SessionFound
<1>6. CASE StatementFails \/ Crash
  BY <1>6 DEF StatementFails, Crash
<1>7. ASSUME NEW u \in Accounts, NEW b \in BOOLEAN, CreateUser(u, b) \/ SetActive(u, b)
      PROVE  LogoutInv'
  BY <1>7 DEF CreateUser, SetActive
<1>8. ASSUME NEW u \in Accounts, DeleteUser(u) PROVE LogoutInv'
  BY <1>8 DEF DeleteUser, NoSession
<1>9. CASE Tick \/ UNCHANGED vars
  BY <1>9 DEF Tick, vars
<1>10. QED
  BY <1>1, <1>2, <1>3, <1>4, <1>5, <1>6, <1>7, <1>8, <1>9 DEF Next

(* What sessions are like, always: used here and for their life cycle.     *)
LEMMA SessionsInOrder == Spec => [](TypeOK /\ LogoutInv)
  BY TypeCorrect, InitLogoutInv, NextLogoutInv, PTL DEF Spec

(* A session whose LOGOUT was answered is dead for good unless a statement *)
(* failed, whatever is done to its account.                                *)
THEOREM LogoutEndsSessions == Spec => []LogoutEndsSessionUnlessFault
<1>1. TypeOK /\ LogoutInv => LogoutEndsSessionUnlessFault
  BY DEF LogoutInv, LogoutEndsSessionUnlessFault, Valid, SessionFound
<1>2. QED
  BY <1>1, SessionsInOrder, PTL

\* Statements of authenticate() touch no column that verifyToken() reads.
LEMMA GuessingStep ==
  ASSUME TypeOK, Next, pc' # pc, NEW s \in issued
  PROVE  Valid(s)' = Valid(s)
<1> DEFINE Same == /\ sessions'[s] = sessions[s] /\ now' = now
                   /\ \A u \in Accounts : /\ users'[u].status = users[u].status
                                          /\ users'[u].active = users[u].active
                                          /\ users'[u].attrs = users[u].attrs
<1> USE AuthAssumption DEF TypeOK, UserRow, SessionRow, tables, history, Done
<1>1. ASSUME NEW u \in Accounts, WrongPassword(u) \/ RightPassword(u) PROVE Same
  BY <1>1 DEF WrongPassword, RightPassword
<1>2. ASSUME IncrementFailed \/ LockIfExhausted \/ ResetFailed PROVE Same
  <2>1. CASE IncrementFailed
    BY <2>1 DEF IncrementFailed
  <2>2. CASE LockIfExhausted
    BY <2>2 DEF LockIfExhausted
  <2>3. CASE ResetFailed
    <3>1. users' = [users EXCEPT ![who] = [@ EXCEPT !.failed = 0, !.lockedUntil = 0]]
      BY <2>3 DEF ResetFailed
    <3>2. QED
      BY <2>3, <3>1 DEF ResetFailed
  <2>4. QED
    BY <1>2, <2>1, <2>2, <2>3
<1>3. ASSUME NEW t \in Tokens, CreateSession(t) PROVE Same
  BY <1>3 DEF CreateSession
<1>4. ASSUME StatementFails \/ Crash PROVE Same
  BY <1>4 DEF StatementFails, Crash
<1>5. /\ \A t \in Tokens : ~Logout(t) /\ ~LogoutFails(t)
      /\ \A u \in Accounts, b \in BOOLEAN : ~CreateUser(u, b) /\ ~SetActive(u, b)
      /\ \A u \in Accounts : ~DeleteUser(u)
      /\ ~Tick
  BY DEF Logout, LogoutFails, CreateUser, SetActive, DeleteUser, Tick
<1>6. Same
  BY <1>1, <1>2, <1>3, <1>4, <1>5 DEF Next
<1>7. sessions[s].owner \in Accounts \cup {None}
  OBVIOUS
<1>8. QED
  BY <1>6, <1>7 DEF Valid, SessionFound, Usable

(* Guessing at passwords, being locked out and signing in again leave the  *)
(* sessions that are open alone.                                           *)
THEOREM GuessingIsHarmless == Spec => GuessingEndsNoSession
<1>1. TypeOK /\ [Next]_vars => [pc' # pc => \A t \in issued : Valid(t)' = Valid(t)]_vars
  BY GuessingStep
<1>2. QED
  BY <1>1, TypeCorrect, PTL DEF Spec, GuessingEndsNoSession

-----------------------------------------------------------------------------
(* The authenticator implements SessionLifecycle: every step of Auth is a  *)
(* step of the life cycle of tokens, or leaves it alone.                   *)

\* The step leaves the life of every token as it is.
Idle == phaseMap' = phaseMap /\ holderMap' = holderMap

\* What the life of tokens depends on.
LEMMA IdleStep ==
  ASSUME TypeOK, UNCHANGED <<sessions, issued, now>>,
         \A u \in Accounts : Usable(u)' = Usable(u)
  PROVE  Idle
<1>1. \A t \in Tokens : SessionFound(t)' <=> SessionFound(t)
  BY DEF SessionFound
<1>2. ASSUME NEW t \in Tokens PROVE Phase(t)' = Phase(t)
  <2>1. SessionFound(t) => sessions[t].owner \in Accounts
    BY DEF SessionFound, TypeOK, SessionRow
  <2>2. sessions'[t].owner = sessions[t].owner
    OBVIOUS
  <2>3. SessionFound(t) => Usable(sessions[t].owner)' = Usable(sessions[t].owner)
    BY <2>1, <2>2
  <2>4. QED
    BY <1>1, <2>3 DEF Phase
<1>3. phaseMap' = phaseMap
  BY <1>2 DEF phaseMap
<1>4. holderMap' = holderMap
  BY <1>1 DEF holderMap
<1>5. QED
  BY <1>3, <1>4 DEF Idle

\* authenticate() before it creates the session, faults and what stutters.
LEMMA HandlerStep ==
  ASSUME TypeOK,
         \/ \E u \in Accounts : WrongPassword(u) \/ RightPassword(u)
         \/ IncrementFailed \/ LockIfExhausted \/ ResetFailed
         \/ StatementFails \/ Crash
         \/ \E t \in Tokens : LogoutFails(t)
  PROVE  Idle
<1> USE DEF TypeOK, UserRow, tables, history, Done
<1> DEFINE Same == /\ UNCHANGED <<sessions, issued, now>>
                   /\ \A u \in Accounts : /\ users'[u].status = users[u].status
                                          /\ users'[u].active = users[u].active
                                          /\ users'[u].attrs = users[u].attrs
<1>1. ASSUME NEW u \in Accounts, WrongPassword(u) \/ RightPassword(u) PROVE Same
  BY <1>1 DEF WrongPassword, RightPassword
<1>2. ASSUME IncrementFailed PROVE Same
  BY <1>2 DEF IncrementFailed
<1>3. ASSUME LockIfExhausted PROVE Same
  BY <1>3 DEF LockIfExhausted
<1>4. ASSUME ResetFailed PROVE Same
  <2>1. users' = [users EXCEPT ![who] = [@ EXCEPT !.failed = 0, !.lockedUntil = 0]]
    BY <1>4 DEF ResetFailed
  <2>2. QED
    BY <1>4, <2>1 DEF ResetFailed
<1>5. ASSUME StatementFails \/ Crash PROVE Same
  BY <1>5 DEF StatementFails, Crash
<1>6. ASSUME NEW t \in Tokens, LogoutFails(t) PROVE Same
  BY <1>6 DEF LogoutFails
<1>7. Same
  BY <1>1, <1>2, <1>3, <1>4, <1>5, <1>6
<1>8. \A u \in Accounts : Usable(u)' = Usable(u)
  BY <1>7 DEF Usable
<1>9. QED
  BY <1>7, <1>8, IdleStep

\* A step that ends the sessions of T, and no others, is a step End(T).
LEMMA EndStep ==
  ASSUME TypeOK, LogoutInv, NEW T \in SUBSET Tokens, T \subseteq issued,
         issued' = issued,
         \A t \in Tokens : SessionFound(t)' <=> (SessionFound(t) /\ t \notin T),
         \A t \in Tokens : SessionFound(t)' =>
             /\ sessions'[t].owner = sessions[t].owner
             /\ Usable(sessions[t].owner)' = Usable(sessions[t].owner)
  PROVE  Lifecycle!Next
<1>1. \A t \in Tokens : phaseMap[t] = Phase(t)
  BY DEF phaseMap
<1>2. T \in SUBSET {t \in Tokens : phaseMap[t] # "fresh"}
  BY <1>1 DEF Phase
<1>3. ASSUME NEW t \in Tokens
      PROVE  Phase(t)' = IF t \in T THEN "ended" ELSE phaseMap[t]
  BY <1>1 DEF Phase
<1>4. phaseMap' = [t \in Tokens |-> IF t \in T THEN "ended" ELSE phaseMap[t]]
  BY <1>3 DEF phaseMap
<1>5. holderMap' = [t \in Tokens |-> IF t \in T THEN None ELSE holderMap[t]]
  BY DEF holderMap
<1>6. Lifecycle!End(T)
  BY <1>4, <1>5 DEF Lifecycle!End
<1>7. QED
  BY <1>2, <1>6 DEF Lifecycle!Next

\* The clock ends the sessions that expire at the new time.
LEMMA TickStep == ASSUME TypeOK, LogoutInv, Tick PROVE Lifecycle!Next
<1> DEFINE T == {t \in Tokens : SessionFound(t) /\ sessions[t].expires <= now'}
<1>1. UNCHANGED <<users, sessions, issued>> /\ now' = now + 1
  BY DEF Tick, tables
<1>2. T \subseteq issued
  BY DEF LogoutInv, SessionFound
<1>3. ASSUME NEW t \in Tokens PROVE SessionFound(t)' <=> (SessionFound(t) /\ t \notin T)
  <2>1. sessions[t].expires \in Nat /\ now \in Nat
    BY DEF TypeOK, SessionRow
  <2>2. (sessions[t].expires > now') = (sessions[t].expires > now /\ ~(sessions[t].expires <= now'))
    BY <1>1, <2>1
  <2>3. QED
    BY <1>1, <2>2 DEF SessionFound
<1>4. \A t \in Tokens : /\ sessions'[t].owner = sessions[t].owner
                        /\ Usable(sessions[t].owner)' = Usable(sessions[t].owner)
  BY <1>1 DEF Usable
<1> HIDE DEF T
<1>5. QED
  BY <1>1, <1>2, <1>3, <1>4, EndStep, T \in SUBSET Tokens DEF T

\* logout() ends the one session it is called with.
LEMMA LogoutStep == ASSUME TypeOK, LogoutInv, NEW u \in Tokens, Logout(u) PROVE Lifecycle!Next
<1>1. /\ UNCHANGED <<users, issued, now>>
      /\ sessions' = [sessions EXCEPT ![u].revoked = TRUE]
      /\ SessionFound(u)
  BY DEF Logout, Valid
<1>2. {u} \subseteq issued
  BY <1>1 DEF LogoutInv, SessionFound
<1>3. \A t \in Tokens : /\ sessions'[t].owner = sessions[t].owner
                        /\ sessions'[t].expires = sessions[t].expires
                        /\ sessions'[t].revoked = (sessions[t].revoked \/ t = u)
  BY <1>1 DEF TypeOK, SessionRow
<1>4. \A t \in Tokens : SessionFound(t)' <=> (SessionFound(t) /\ t \notin {u})
  BY <1>1, <1>3 DEF SessionFound
<1>5. \A t \in Tokens : Usable(sessions[t].owner)' = Usable(sessions[t].owner)
  BY <1>1, <1>3 DEF Usable
<1>6. QED
  BY <1>1, <1>2, <1>3, <1>4, <1>5, EndStep

\* Deleting an account ends the sessions it holds.
LEMMA DeleteStep == ASSUME TypeOK, LogoutInv, NEW u \in Accounts, DeleteUser(u) PROVE Lifecycle!Next
<1> DEFINE T == {t \in Tokens : SessionFound(t) /\ sessions[t].owner = u}
<1>1. UNCHANGED <<issued, now>>
  BY DEF DeleteUser
<1>2. T \subseteq issued
  BY DEF LogoutInv, SessionFound
<1>3. \A t \in Tokens : sessions'[t] = IF sessions[t].owner = u THEN NoSession ELSE sessions[t]
  BY DEF DeleteUser
<1>4. ASSUME NEW t \in Tokens PROVE SessionFound(t)' <=> (SessionFound(t) /\ t \notin T)
  <2>1. CASE sessions[t].owner = u
    <3>1. sessions'[t].owner = None
      BY <1>3, <2>1 DEF NoSession
    <3>2. ~SessionFound(t)'
      BY <3>1 DEF SessionFound
    <3>3. QED
      BY <2>1, <3>2
  <2>2. CASE sessions[t].owner # u
    <3>1. sessions'[t] = sessions[t] /\ t \notin T
      BY <1>3, <2>2
    <3>2. SessionFound(t)' <=> SessionFound(t)
      BY <1>1, <3>1 DEF SessionFound
    <3>3. QED
      BY <3>1, <3>2
  <2>3. QED
    BY <2>1, <2>2
<1>5. \A v \in Accounts : v # u => users'[v] = users[v]
  BY DEF DeleteUser, TypeOK
<1>6. ASSUME NEW t \in Tokens, SessionFound(t)'
      PROVE  /\ sessions'[t].owner = sessions[t].owner
             /\ Usable(sessions[t].owner)' = Usable(sessions[t].owner)
  <2>1. sessions'[t] = sessions[t] /\ sessions[t].owner # u /\ sessions[t].owner # None
    BY <1>3, <1>6 DEF SessionFound, NoSession
  <2>2. sessions[t].owner \in Accounts
    BY <2>1 DEF TypeOK, SessionRow
  <2>3. users'[sessions[t].owner] = users[sessions[t].owner]
    BY <1>5, <2>1, <2>2
  <2>4. QED
    BY <2>1, <2>3 DEF Usable
<1> HIDE DEF T
<1>7. QED
  BY <1>1, <1>2, <1>4, <1>6, EndStep, T \in SUBSET Tokens DEF T

\* Switching one account suspends or resumes all its sessions, or nothing.
LEMMA TurnStep ==
  ASSUME TypeOK, LogoutInv, UNCHANGED <<sessions, issued, now>>, NEW h \in Accounts,
         \A u \in Accounts : u # h => Usable(u)' = Usable(u)
  PROVE  [Lifecycle!Next]_<<phaseMap, holderMap>>
<1>1. CASE Usable(h)' = Usable(h)
  BY <1>1, IdleStep DEF Idle
<1>2. CASE Usable(h)' # Usable(h)
  <2> DEFINE p == IF Usable(h) THEN "live" ELSE "suspended"
             q == IF Usable(h) THEN "suspended" ELSE "live"
  <2>1. \A t \in Tokens : SessionFound(t)' <=> SessionFound(t)
    BY DEF SessionFound
  <2>2. \A t \in Tokens : /\ phaseMap[t] = Phase(t)
                          /\ holderMap[t] = IF SessionFound(t) THEN sessions[t].owner ELSE None
    BY DEF phaseMap, holderMap
  <2>3. Lifecycle!HeldBy(h) = {t \in Tokens : SessionFound(t) /\ sessions[t].owner = h}
    BY <2>2, AuthAssumption DEF Lifecycle!HeldBy
  <2>4. \A t \in Lifecycle!HeldBy(h) : t \in issued
    BY <2>3 DEF LogoutInv, SessionFound
  <2>5. \A t \in Lifecycle!HeldBy(h) : phaseMap[t] = p
    BY <2>2, <2>3, <2>4 DEF Phase
  <2>6. ASSUME NEW t \in Tokens
        PROVE  Phase(t)' = IF t \in Lifecycle!HeldBy(h) THEN q ELSE phaseMap[t]
    <3>1. CASE t \in Lifecycle!HeldBy(h)
      <4>1. SessionFound(t)' /\ t \in issued' /\ sessions'[t].owner = h
        BY <2>1, <2>3, <2>4, <3>1
      <4>2. Usable(sessions[t].owner)' = Usable(h)'
        BY <4>1 DEF Usable
      <4>3. Usable(h)' = ~Usable(h)
        BY <1>2 DEF Usable
      <4>4. QED
        BY <3>1, <4>1, <4>2, <4>3 DEF Phase
    <3>2. CASE t \notin Lifecycle!HeldBy(h) /\ SessionFound(t)
      <4>1. sessions[t].owner \in Accounts /\ sessions[t].owner # h
        BY <2>3, <3>2 DEF SessionFound, TypeOK, SessionRow
      <4>2. Usable(sessions[t].owner)' = Usable(sessions[t].owner)
        BY <4>1 DEF Usable
      <4>3. QED
        BY <2>1, <2>2, <3>2, <4>2 DEF Phase
    <3>3. CASE ~SessionFound(t)
      <4>1. t \notin Lifecycle!HeldBy(h)
        BY <2>3, <3>3
      <4>2. QED
        BY <2>1, <2>2, <3>3, <4>1 DEF Phase
    <3>4. QED
      BY <3>1, <3>2, <3>3
  <2>7. phaseMap' = [t \in Tokens |-> IF t \in Lifecycle!HeldBy(h) THEN q ELSE phaseMap[t]]
    BY <2>6 DEF phaseMap
  <2>8. holderMap' = holderMap
    BY <2>1 DEF holderMap
  <2>9. Lifecycle!Turn(h, p, q)
    BY <2>5, <2>7, <2>8 DEF Lifecycle!Turn
  <2>10. Lifecycle!Suspend(h) \/ Lifecycle!Resume(h)
    BY <2>9 DEF Lifecycle!Suspend, Lifecycle!Resume
  <2>11. QED
    BY <2>10 DEF Lifecycle!Next
<1>3. QED
  BY <1>1, <1>2

\* createSession() gives out a fresh token, live or suspended as its account is.
LEMMA IssueStep ==
  ASSUME TypeOK, LogoutInv, NEW s \in Tokens, CreateSession(s)
  PROVE  [Lifecycle!Next]_<<phaseMap, holderMap>>
<1> DEFINE row == [owner |-> who, expires |-> now + SessionLifetime, revoked |-> FALSE]
           p == IF Usable(who) THEN "live" ELSE "suspended"
<1>1. /\ who \in Accounts /\ s \notin issued /\ issued' = issued \cup {s}
      /\ users' = users /\ now' = now
      /\ sessions' = [sessions EXCEPT ![s] = row]
  BY DEF CreateSession, TypeOK
<1>2. sessions'[s] = row /\ \A t \in Tokens : t # s => sessions'[t] = sessions[t]
  BY <1>1 DEF TypeOK
<1>3. SessionFound(s)'
  BY <1>1, <1>2, AuthAssumption DEF SessionFound, TypeOK
<1>4. \A t \in Tokens : t # s => SessionFound(t)' <=> SessionFound(t)
  BY <1>1, <1>2 DEF SessionFound
<1>5. ~SessionFound(s)
  BY <1>1 DEF LogoutInv, SessionFound
<1>6. \A t \in Tokens : /\ phaseMap[t] = Phase(t)
                        /\ holderMap[t] = IF SessionFound(t) THEN sessions[t].owner ELSE None
  BY DEF phaseMap, holderMap
<1>7. Lifecycle!HeldBy(who) = {t \in Tokens : SessionFound(t) /\ sessions[t].owner = who}
  BY <1>1, <1>6, AuthAssumption DEF Lifecycle!HeldBy
<1>8. \A t \in Lifecycle!HeldBy(who) : phaseMap[t] = p
  BY <1>6, <1>7 DEF Phase, LogoutInv, SessionFound
<1>9. phaseMap[s] = "fresh"
  BY <1>1, <1>6 DEF Phase
<1>10. \A v : Usable(v)' = Usable(v)
  BY <1>1 DEF Usable
<1>11. Usable(sessions[s].owner)' = Usable(who)
  BY <1>1, <1>2 DEF Usable
<1>12. Phase(s)' = p
  BY <1>1, <1>3, <1>11 DEF Phase
<1>13. ASSUME NEW t \in Tokens, t # s PROVE Phase(t)' = phaseMap[t]
  <2>1. Usable(sessions[t].owner)' = Usable(sessions[t].owner)
    BY <1>1, <1>2, <1>13 DEF Usable
  <2>2. QED
    BY <1>1, <1>4, <1>6, <1>13, <2>1 DEF Phase
<1>14. phaseMap' = [phaseMap EXCEPT ![s] = p]
  BY <1>12, <1>13 DEF phaseMap
<1>15. holderMap' = [holderMap EXCEPT ![s] = who]
  <2>1. sessions'[s].owner = who
    BY <1>2
  <2>2. ASSUME NEW t \in Tokens, t # s
        PROVE  (IF SessionFound(t) THEN sessions[t].owner ELSE None)' = holderMap[t]
    BY <1>2, <1>4, <2>2 DEF holderMap
  <2>3. QED
    BY <1>3, <2>1, <2>2 DEF holderMap
<1>16. p \in {"live", "suspended"}
  OBVIOUS
<1>17. Lifecycle!Issue(s, who, p)
  BY <1>8, <1>9, <1>14, <1>15, <1>16 DEF Lifecycle!Issue
<1>18. QED
  BY <1>1, <1>16, <1>17 DEF Lifecycle!Next

\* No session at first.
LEMMA InitMaps == Init => Lifecycle!Init
<1> SUFFICES ASSUME Init PROVE Lifecycle!Init
  OBVIOUS
<1>1. \A t \in Tokens : ~SessionFound(t) /\ t \notin issued
  BY DEF Init, NoSession, SessionFound
<1>2. phaseMap = [t \in Tokens |-> "fresh"]
  BY <1>1 DEF phaseMap, Phase
<1>3. holderMap = [t \in Tokens |-> None]
  BY <1>1 DEF holderMap
<1>4. QED
  BY <1>2, <1>3 DEF Lifecycle!Init

\* Every step is one of the life cycle, or leaves it alone.
LEMMA StepMaps ==
  TypeOK /\ LogoutInv /\ [Next]_vars => [Lifecycle!Next]_<<phaseMap, holderMap>>
<1> SUFFICES ASSUME TypeOK, LogoutInv, [Next]_vars
             PROVE  [Lifecycle!Next]_<<phaseMap, holderMap>>
  OBVIOUS
<1>1. CASE \/ \E u \in Accounts : WrongPassword(u) \/ RightPassword(u)
           \/ IncrementFailed \/ LockIfExhausted \/ ResetFailed
           \/ StatementFails \/ Crash
           \/ \E t \in Tokens : LogoutFails(t)
  BY <1>1, HandlerStep DEF Idle
<1>2. CASE \E t \in Tokens : CreateSession(t)
  BY <1>2, IssueStep
<1>3. CASE \E t \in Tokens : Logout(t)
  BY <1>3, LogoutStep
<1>4. ASSUME NEW u \in Accounts, NEW b \in BOOLEAN, CreateUser(u, b) \/ SetActive(u, b)
      PROVE  [Lifecycle!Next]_<<phaseMap, holderMap>>
  <2>1. UNCHANGED <<sessions, issued, now>>
    BY <1>4 DEF CreateUser, SetActive
  <2>2. \A v \in Accounts : v # u => users'[v] = users[v]
    BY <1>4 DEF CreateUser, SetActive, TypeOK
  <2>3. \A v \in Accounts : v # u => Usable(v)' = Usable(v)
    BY <2>2 DEF Usable
  <2>4. QED
    BY <2>1, <2>3, TurnStep
<1>5. CASE \E u \in Accounts : DeleteUser(u)
  BY <1>5, DeleteStep
<1>6. CASE Tick
  BY <1>6, TickStep
<1>7. CASE UNCHANGED vars
  <2>1. \A v \in Accounts : Usable(v)' = Usable(v)
    BY <1>7 DEF vars, Usable
  <2>2. QED
    BY <1>7, <2>1, IdleStep DEF vars, Idle
<1>8. QED
  BY <1>1, <1>2, <1>3, <1>4, <1>5, <1>6, <1>7 DEF Next

(* The authenticator, its clock and the statements of the administration   *)
(* on users keep the life cycle of a token: an ended one is never accepted *)
(* again, and an account's sessions are suspended and resumed together.    *)
THEOREM SessionsFollowLifecycle == Spec => RefinesLifecycle
  BY InitMaps, StepMaps, SessionsInOrder, PTL DEF Spec, RefinesLifecycle, Lifecycle!Spec
=============================================================================
