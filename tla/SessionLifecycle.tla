-------------------------- MODULE SessionLifecycle --------------------------
(***************************************************************************)
(* What the server promises about a session token, with no clock, table or *)
(* password.  A token is fresh until it is issued to a holder; it is then  *)
(* live, or suspended while its holder may not use the system; once ended  *)
(* it stays ended.  A holder is suspended and resumed with all its tokens. *)
(***************************************************************************)
CONSTANTS Holders, Tokens, None

VARIABLES phase, holder

Init == /\ phase = [t \in Tokens |-> "fresh"]
        /\ holder = [t \in Tokens |-> None]

HeldBy(h) == {t \in Tokens : holder[t] = h}

Issue(t, h, p) ==
    /\ phase[t] = "fresh"
    /\ p \in {"live", "suspended"}
    /\ \A s \in HeldBy(h) : phase[s] = p
    /\ phase' = [phase EXCEPT ![t] = p]
    /\ holder' = [holder EXCEPT ![t] = h]

\* All tokens of a holder go from phase p to phase q.
Turn(h, p, q) ==
    /\ \A t \in HeldBy(h) : phase[t] = p
    /\ phase' = [t \in Tokens |-> IF t \in HeldBy(h) THEN q ELSE phase[t]]
    /\ UNCHANGED holder

Suspend(h) == Turn(h, "live", "suspended")

Resume(h) == Turn(h, "suspended", "live")

\* Logout, expiry or deletion of the account: any tokens, for good.
End(T) ==
    /\ phase' = [t \in Tokens |-> IF t \in T THEN "ended" ELSE phase[t]]
    /\ holder' = [t \in Tokens |-> IF t \in T THEN None ELSE holder[t]]

Next == \/ \E t \in Tokens, h \in Holders, p \in {"live", "suspended"} : Issue(t, h, p)
        \/ \E h \in Holders : Suspend(h) \/ Resume(h)
        \/ \E T \in SUBSET {t \in Tokens : phase[t] # "fresh"} : End(T)

Spec == Init /\ [][Next]_<<phase, holder>>
=============================================================================
