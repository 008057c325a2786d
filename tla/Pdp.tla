-------------------------------- MODULE Pdp --------------------------------
(***************************************************************************)
(* The two evaluators of the same rules: domain::evaluate_policy, which    *)
(* the unit tests call, and pdp::PDP::evaluate, which the server calls and *)
(* which works on pip::PolicyRecord, where NULL has become "", -1 or 0.    *)
(* PostgreSQL returns the rows by descending priority and rows of equal    *)
(* priority in any order (pip.cpp 619).                                    *)
(***************************************************************************)
EXTENDS Policy, Sequences, SequencesExt

Deny(reason) == [allowed |-> FALSE, reason |-> reason, policy |-> 0]
Permit(p)    == [allowed |-> TRUE, reason |-> "policy", policy |-> p.key]

\* Bug: the first policy that matches, as if every caller sorted them.
Best_First(ps, matching) ==
    IF \A i \in DOMAIN ps : ps[i] \notin matching THEN <<>>
    ELSE <<ps[CHOOSE i \in DOMAIN ps : /\ ps[i] \in matching
                                      /\ \A j \in 1..(i - 1) : ps[j] \notin matching]>>

\* One turn of the loop over the policies: best holds, if there is one, the first
\* of the highest priority among those so far that match.
Turn(best, p, matching) ==
    IF p \in matching /\ (best = <<>> \/ p.priority > best[1].priority) THEN <<p>> ELSE best

\* The loop.
Best(ps, matching) ==
    LET best[i \in 0..Len(ps)] == IF i = 0 THEN <<>>
                                             ELSE Turn(best[i - 1], ps[i], matching)
    IN best[Len(ps)]

Verdict(ps, matching) == LET best == Best(ps, matching)
                         IN IF best = <<>> THEN Deny("no_matching_policy")
                                           ELSE Permit(best[1])

\* domain::evaluate_policy(); it knows of no lock and takes attributes for granted.
EvaluatePolicy(s, r, a, policies) ==
    IF ~s.active THEN Deny("account_inactive")
    ELSE Verdict(policies, {p \in ToSet(policies) : Grants(p, s, r, a)})

-----------------------------------------------------------------------------
\* What createPolicy() and updatePolicy() leave in a row: they write NULL for an empty
\* text, a clearance below 0 and an id that is not positive.
Columns == {"key", "enabled", "action", "priority", "role", "department", "clearance",
            "rtype", "subject", "resource"}

Text(x)  == x = Unset \/ x # ""
Level(x) == x = Unset \/ x \in Nat
Id(x)    == x = Unset \/ x # 0

Conditions(p) == /\ Text(p.role) /\ Text(p.department) /\ Text(p.rtype)
                 /\ Level(p.clearance) /\ Id(p.subject) /\ Id(p.resource)

Stored(p) == Columns \subseteq DOMAIN p /\ p.priority \in Int /\ Conditions(p)

\* pip::PolicyRecord of a row.
Loaded(p) == [p EXCEPT !.role       = IF @ = Unset THEN "" ELSE @,
                       !.department = IF @ = Unset THEN "" ELSE @,
                       !.clearance  = IF @ = Unset THEN -1 ELSE @,
                       !.rtype      = IF @ = Unset THEN "" ELSE @,
                       !.subject    = IF @ = Unset THEN 0 ELSE @,
                       !.resource   = IF @ = Unset THEN 0 ELSE @]

\* Bug: the query forgets the wildcard.
Selected_NoWildcard(table, a) == {p \in table : p.enabled /\ p.action = a}

Selected(table, a) == {p \in table : p.enabled /\ p.action \in {a, "*"}}

\* Every result that findEnabledPolicies(action) may return.
FindEnabledPolicies(table, a) ==
    LET ordered == {o \in SetToSeqs(Selected(table, a)) :
                      \A i, j \in DOMAIN o : i < j => o[i].priority >= o[j].priority}
    IN {[i \in DOMAIN o |-> Loaded(o[i])] : o \in ordered}

\* The checks of the loop in PDP::evaluate().
RecordMatches(s, r, pol) ==
    /\ pol.role       \in {"", s.role}
    /\ pol.department \in {"", s.department}
    /\ pol.clearance >= 0 => s.clearance >= pol.clearance
    /\ pol.rtype      \in {"", r.rtype}
    /\ pol.subject    \in {0, s.id}
    /\ pol.resource   \in {0, r.id}

\* Bug: the lock is left to the sign-in.
Evaluate_NoLock(s, r, a, records) ==
    CASE ~s.active -> Deny("account_inactive")
      [] s.active /\ ~s.attrs -> Deny("no_subject_attrs")
      [] OTHER -> Verdict(records, {p \in ToSet(records) : RecordMatches(s, r, p)})

\* pdp::PDP::evaluate() when the query returns records.
Evaluate(s, r, a, records) ==
    CASE ~s.active -> Deny("account_inactive")
      [] s.active /\ s.locked -> Deny("account_locked")
      [] s.active /\ ~s.locked /\ ~s.attrs -> Deny("no_subject_attrs")
      [] OTHER -> Verdict(records, {p \in ToSet(records) : RecordMatches(s, r, p)})

\* What it may return over this table.
ServerDecisions(s, r, a, table) ==
    {Evaluate(s, r, a, records) : records \in FindEnabledPolicies(table, a)}
=============================================================================
