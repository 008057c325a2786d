------------------------------ MODULE Sessions ------------------------------
(***************************************************************************)
(* The sessions of the authenticator as SessionLifecycle tells them.       *)
(***************************************************************************)
EXTENDS Auth

\* The life of a token as SessionLifecycle tells it.
Phase(t) == IF t \notin issued THEN "fresh"
            ELSE IF ~SessionFound(t) THEN "ended"
            ELSE IF Usable(sessions[t].owner) THEN "live" ELSE "suspended"

phaseMap  == [t \in Tokens |-> Phase(t)]
holderMap == [t \in Tokens |-> IF SessionFound(t) THEN sessions[t].owner ELSE None]

Lifecycle == INSTANCE SessionLifecycle
               WITH Holders <- Accounts, phase <- phaseMap, holder <- holderMap

(* authenticate(), logout(), verifyToken(), the clock and the statements   *)
(* on users keep the life of a token: an ended token is never accepted     *)
(* again (not by reactivating its owner either), and only switching        *)
(* is_active suspends or resumes sessions, all of the account's at once.   *)
RefinesLifecycle == Lifecycle!Spec
=============================================================================
