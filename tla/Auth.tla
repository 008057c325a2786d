-------------------------------- MODULE Auth --------------------------------
(***************************************************************************)
(* auth::Authenticator over the users and sessions tables                  *)
(* (src/src/server/authenticator.cpp, pip.cpp, sql/V001__schema.sql).      *)
(*                                                                         *)
(* The server is one thread: a request runs to its end before the next one *)
(* is read.  But every SQL statement commits on its own, so authenticate() *)
(* is modelled statement by statement (pc, who): the clock moves, a        *)
(* statement fails or the process dies between two of them.  Reads that    *)
(* precede a write are one step with the decision they take.               *)
(* A refused AUTH (no row, inactive, locked) writes nothing: it stutters.  *)
(***************************************************************************)
EXTENDS Integers

CONSTANTS Accounts,          \* users.id (BIGSERIAL: never given out twice)
          Tokens,            \* what generateToken() can return
          None,              \* no row, no user
          MaxFailedAttempts, \* ServerConfig::max_failed_attempts
          LockoutMinutes,    \* ServerConfig::lockout_minutes
          SessionLifetime,   \* ServerConfig::session_lifetime_h
          MaxTime,           \* bound of the clock
          MaxFaults          \* bound of failed statements and crashes

ASSUME AuthAssumption ==
    /\ None \notin Accounts
    /\ MaxFailedAttempts \in Nat \ {0}
    /\ LockoutMinutes \in Nat \ {0}
    /\ SessionLifetime \in Nat \ {0}
    /\ MaxTime \in Nat
    /\ MaxFaults \in Nat

VARIABLES users,     \* table users, with whether the subject_attrs row exists
          sessions,  \* table sessions, by token_hash (revoked: revoked_at set)
          issued,    \* tokens generateToken() has returned
          pc, who,   \* the statement authenticate() is about to run, for whom
          now,       \* the clock of server and database
          guesses,   \* history: wrong passwords compared since a right one
          faults,    \* history: statements failed and crashes so far
          loggedOut  \* history: tokens whose LOGOUT was answered ok

tables  == <<users, sessions, issued>>
history == <<guesses, faults, loggedOut>>
vars    == <<users, sessions, issued, pc, who, now, guesses, faults, loggedOut>>

-----------------------------------------------------------------------------
(* Rows.  locked_until = 0 is NULL, it is never in the future.             *)

UserRow == [status : {"unborn", "present", "deleted"}, active : BOOLEAN,
            attrs : BOOLEAN, failed : Nat, lockedUntil : Nat]

SessionRow == [owner : Accounts \cup {None}, expires : Nat, revoked : BOOLEAN]

NewUser(hasAttrs) == [status |-> "present", active |-> TRUE, attrs |-> hasAttrs,
                      failed |-> 0, lockedUntil |-> 0]

NoUser(status) == [status |-> status, active |-> FALSE, attrs |-> FALSE,
                   failed |-> 0, lockedUntil |-> 0]

NoSession == [owner |-> None, expires |-> 0, revoked |-> FALSE]

\* Bug: the lock is set but not looked at.
MayTry_IgnoresLock(u) == users[u].status = "present" /\ users[u].active

\* authenticate() lets a password be compared: row found, active, not locked.
MayTry(u) == /\ users[u].status = "present"
             /\ users[u].active
             /\ users[u].lockedUntil <= now

\* Bug: the query forgets revoked_at.
SessionFound_Revoked(t) == sessions[t].owner # None /\ sessions[t].expires > now

\* findSessionByTokenHash() returns a row.
SessionFound(t) == /\ sessions[t].owner # None
                   /\ sessions[t].expires > now
                   /\ ~sessions[t].revoked

\* Bug: a lock suspends the sessions that are open.
Usable_Locked(u) == /\ users[u].status = "present"
                    /\ users[u].active
                    /\ users[u].attrs
                    /\ users[u].lockedUntil <= now

\* The row of an existing, active user with attributes; a lock is not looked at.
Usable(u) == /\ users[u].status = "present"
             /\ users[u].active
             /\ users[u].attrs

\* verifyToken() returns attributes.
Valid(t) == SessionFound(t) /\ Usable(sessions[t].owner)

-----------------------------------------------------------------------------
Init == /\ users \in [Accounts -> {NewUser(TRUE), NoUser("unborn")}]
        /\ sessions = [t \in Tokens |-> NoSession]
        /\ issued = {}
        /\ pc = "idle"
        /\ who = None
        /\ now = 0
        /\ guesses = [u \in Accounts |-> 0]
        /\ faults = 0
        /\ loggedOut = {}

\* Bug: the request is over, its user is kept.
Done_KeepsWho == pc' = "idle" /\ who' = who

Done == pc' = "idle" /\ who' = None

(* authenticate(): lookup, checks and comparison of the password.          *)
WrongPassword(u) ==
    /\ pc = "idle" /\ MayTry(u)
    /\ pc' = "increment" /\ who' = u
    /\ guesses' = [guesses EXCEPT ![u] = @ + 1]
    /\ UNCHANGED <<tables, now, faults, loggedOut>>

RightPassword(u) ==
    /\ pc = "idle" /\ MayTry(u)
    /\ issued # Tokens                     \* bound: a token is left to issue
    /\ pc' = "reset" /\ who' = u
    /\ guesses' = [guesses EXCEPT ![u] = 0]
    /\ UNCHANGED <<tables, now, faults, loggedOut>>

IncrementFailed ==
    /\ pc = "increment"
    /\ users' = [users EXCEPT ![who].failed = @ + 1]
    /\ pc' = "lock"
    /\ UNCHANGED <<sessions, issued, who, now, history>>

\* Bug: only the attempt that reaches the limit locks.
LockIfExhausted_Once ==
    /\ pc = "lock"
    /\ users' = IF users[who].failed = MaxFailedAttempts
                THEN [users EXCEPT ![who].lockedUntil = now + LockoutMinutes]
                ELSE users
    /\ Done
    /\ UNCHANGED <<sessions, issued, now, history>>

\* The row is read again; the lock starts when the counter has reached the limit.
LockIfExhausted ==
    /\ pc = "lock"
    /\ users' = IF users[who].failed >= MaxFailedAttempts
                THEN [users EXCEPT ![who].lockedUntil = now + LockoutMinutes]
                ELSE users
    /\ Done
    /\ UNCHANGED <<sessions, issued, now, history>>

\* Bug: the lock is cleared, the counter is not.
ResetFailed_LockOnly ==
    /\ pc = "reset"
    /\ users' = [users EXCEPT ![who].lockedUntil = 0]
    /\ pc' = "create"
    /\ UNCHANGED <<sessions, issued, who, now, history>>

ResetFailed ==
    /\ pc = "reset"
    /\ users' = [users EXCEPT ![who].failed = 0, ![who].lockedUntil = 0]
    /\ pc' = "create"
    /\ UNCHANGED <<sessions, issued, who, now, history>>

\* Bug: a login renews all sessions of the account, expired ones too.
CreateSession_RenewsAll(t) ==
    /\ pc = "create"
    /\ t \notin issued
    /\ issued' = issued \cup {t}
    /\ sessions' = [s \in Tokens |->
                      IF s = t \/ sessions[s].owner = who
                      THEN [owner |-> who, expires |-> now + SessionLifetime,
                            revoked |-> sessions[s].revoked]
                      ELSE sessions[s]]
    /\ Done
    /\ UNCHANGED <<users, now, history>>

CreateSession(t) ==
    /\ pc = "create"
    /\ t \notin issued
    /\ issued' = issued \cup {t}
    /\ sessions' = [sessions EXCEPT ![t] = [owner |-> who,
                                            expires |-> now + SessionLifetime,
                                            revoked |-> FALSE]]
    /\ Done
    /\ UNCHANGED <<users, now, history>>

\* A statement of authenticate() fails: only createSession()'s result is looked at.
StatementFails ==
    /\ faults < MaxFaults
    /\ \/ pc = "increment" /\ pc' = "lock" /\ who' = who
       \/ pc = "reset" /\ pc' = "create" /\ who' = who
       \/ pc \in {"lock", "create"} /\ Done
    /\ faults' = faults + 1
    /\ UNCHANGED <<tables, now, guesses, loggedOut>>

\* The process dies inside authenticate() and is started again.
Crash ==
    /\ pc # "idle" /\ faults < MaxFaults
    /\ Done
    /\ faults' = faults + 1
    /\ UNCHANGED <<tables, now, guesses, loggedOut>>

(* LOGOUT is answered ok whatever logout() returns.                        *)
Logout(t) ==
    /\ pc = "idle" /\ Valid(t)
    /\ sessions' = [sessions EXCEPT ![t].revoked = TRUE]
    /\ loggedOut' = loggedOut \cup {t}
    /\ UNCHANGED <<users, issued, pc, who, now, guesses, faults>>

LogoutFails(t) ==
    /\ pc = "idle" /\ Valid(t) /\ faults < MaxFaults
    /\ faults' = faults + 1
    /\ loggedOut' = loggedOut \cup {t}
    /\ UNCHANGED <<tables, pc, who, now, guesses>>

-----------------------------------------------------------------------------
(* What the administration requests do to these tables.                    *)

\* Two inserts; a bad role or clearance, or a crash, can leave no attributes.
CreateUser(u, hasAttrs) ==
    /\ pc = "idle" /\ users[u].status = "unborn"
    /\ users' = [users EXCEPT ![u] = NewUser(hasAttrs)]
    /\ UNCHANGED <<sessions, issued, pc, who, now, history>>

\* is_active is overwritten; counters, lock and sessions stay as they are.
SetActive(u, active) ==
    /\ pc = "idle" /\ users[u].status = "present"
    /\ users' = [users EXCEPT ![u].active = active]
    /\ UNCHANGED <<sessions, issued, pc, who, now, history>>

\* ON DELETE CASCADE takes the attributes and the sessions along.
DeleteUser(u) ==
    /\ pc = "idle" /\ users[u].status = "present"
    /\ users' = [users EXCEPT ![u] = NoUser("deleted")]
    /\ sessions' = [t \in Tokens |-> IF sessions[t].owner = u THEN NoSession
                                                               ELSE sessions[t]]
    /\ UNCHANGED <<issued, pc, who, now, history>>

Tick == /\ now < MaxTime
        /\ now' = now + 1
        /\ UNCHANGED <<tables, pc, who, history>>

Next == \/ \E u \in Accounts : WrongPassword(u) \/ RightPassword(u)
        \/ IncrementFailed \/ LockIfExhausted \/ ResetFailed
        \/ \E t \in Tokens : CreateSession(t)
        \/ StatementFails \/ Crash
        \/ \E t \in Tokens : Logout(t) \/ LogoutFails(t)
        \/ \E u \in Accounts : \/ \E b \in BOOLEAN : CreateUser(u, b) \/ SetActive(u, b)
                               \/ DeleteUser(u)
        \/ Tick

Spec == Init /\ [][Next]_vars

-----------------------------------------------------------------------------
(* Every variable holds rows and counters of its type, and who names an    *)
(* account exactly while authenticate() is between two statements.         *)
TypeOK ==
    /\ users \in [Accounts -> UserRow]
    /\ sessions \in [Tokens -> SessionRow]
    /\ issued \subseteq Tokens
    /\ pc \in {"idle", "increment", "lock", "reset", "create"}
    /\ who \in Accounts \cup {None}
    /\ (who = None) <=> (pc = "idle")
    /\ now \in Nat
    /\ guesses \in [Accounts -> Nat]
    /\ faults \in Nat
    /\ loggedOut \subseteq Tokens

(* Brute-force protection, authenticator.cpp 109-137: since the last right *)
(* password an account has been guessed at most MaxFailedAttempts times,   *)
(* once more per failed statement or crash, and once more per full lockout *)
(* period that has gone by.  The counter alone does not give this: the     *)
(* lock must start in the request that reaches the limit, and start anew   *)
(* after every later miss although the counter is never set back.          *)
BruteForceBound ==
    \A u \in Accounts :
        guesses[u] > MaxFailedAttempts + faults =>
            (guesses[u] - MaxFailedAttempts - faults) * LockoutMinutes <= now

(* No lock on account of the owner's own past: while no statement failed,  *)
(* a lock in force was earned by MaxFailedAttempts wrong passwords since   *)
(* the last right one (resetFailedAttempts must clear the counter).        *)
LockIsEarned ==
    \A u \in Accounts :
        faults = 0 /\ pc = "idle" /\ users[u].lockedUntil > now =>
            guesses[u] >= MaxFailedAttempts

(* LOGOUT ends the session (docs/protocol.md:60): while no statement       *)
(* failed, a token whose LOGOUT was answered ok is never accepted again,   *)
(* whatever happens to the account.                                        *)
LogoutEndsSessionUnlessFault == faults = 0 => \A t \in loggedOut : ~Valid(t)

(* Whoever guesses at a password, or signs in with it, disturbs nobody who *)
(* is signed in: no statement of authenticate(), a lockout least of all,   *)
(* ends, suspends or brings back a session that was issued before          *)
(* (verifyToken() does not look at locked_until, 173-189).                 *)
GuessingEndsNoSession ==
    [][pc' # pc => \A t \in issued : Valid(t)' = Valid(t)]_vars

-----------------------------------------------------------------------------
(* Why BruteForceBound holds: the inductive invariant proved in AuthProofs. *)

\* authenticate() has seen a wrong password of u and not yet finished with it.
InFlight(u) == who = u /\ pc \in {"increment", "lock"}

\* Wrong passwords that are dealt with, beyond the allowance and the faults.
Debt(u) == guesses[u] - (IF InFlight(u) THEN 1 ELSE 0) - MaxFailedAttempts - faults

\* The counter misses no wrong password but those lost to faults.
CounterInv ==
    \A u \in Accounts : users[u].status = "present" =>
        guesses[u] - (IF who = u /\ pc = "increment" THEN 1 ELSE 0) - faults
            <= users[u].failed

\* Every wrong password past the allowance is covered by a period of lockout.
LockInv ==
    \A u \in Accounts : users[u].status = "present" =>
        /\ users[u].lockedUntil <= now + LockoutMinutes
        /\ Debt(u) >= 0 => (Debt(u) + 1) * LockoutMinutes <= users[u].lockedUntil

\* What authenticate() has established when it is between two statements.
HandlerInv ==
    /\ pc # "idle" => users[who].status = "present"
    /\ pc \in {"increment", "lock"} => users[who].lockedUntil <= now
    /\ pc = "reset" => guesses[who] = 0

\* An id that was never given out was never guessed.
UnbornInv == \A u \in Accounts : users[u].status = "unborn" => guesses[u] = 0

(* The counter and the lock together account for every wrong password that *)
(* authenticate() compared: none is missed by the counter but to a fault,  *)
(* and each one past the allowance waited for a lockout period to end.     *)
LockoutInv == /\ TypeOK
              /\ HandlerInv
              /\ CounterInv
              /\ LockInv
              /\ UnbornInv
              /\ BruteForceBound
=============================================================================
