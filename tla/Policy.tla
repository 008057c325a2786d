------------------------------- MODULE Policy -------------------------------
(***************************************************************************)
(* ABAC rules as rows of the table policies: what a rule demands of a      *)
(* subject and a resource (domain.h policy_matches) and, as the reference  *)
(* for both evaluators, which requests a set of rules permits.             *)
(* A rule only ever permits; a request that no rule grants is denied.      *)
(***************************************************************************)
EXTENDS Integers

CONSTANT Unset               \* NULL: the condition is not set

\* policy_matches(subject, resource, policy)
PolicyMatches(s, r, p) ==
    /\ p.role       \in {Unset, s.role}
    /\ p.department \in {Unset, s.department}
    /\ p.clearance = Unset \/ s.clearance >= p.clearance
    /\ p.rtype      \in {Unset, r.rtype}
    /\ p.subject    \in {Unset, s.id}
    /\ p.resource   \in {Unset, r.id}

\* The rule is selected for the request.
Grants(p, s, r, a) == /\ p.enabled
                      /\ p.action \in {"*", a}
                      /\ PolicyMatches(s, r, p)

\* The account is one that a rule may be applied to.
MayUse(s) == s.active /\ s.attrs /\ ~s.locked

\* The server decides in favour of the request.
Allowed(s, r, a, table) == MayUse(s) /\ \E p \in table : Grants(p, s, r, a)
=============================================================================
