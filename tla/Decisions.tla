----------------------------- MODULE Decisions -----------------------------
(***************************************************************************)
(* A policy table that administrators fill, and a request that is put to   *)
(* both evaluators after every change.                                     *)
(***************************************************************************)
EXTENDS Pdp

CONSTANTS Rules,             \* what POLICY_CREATE and GRANT_ACCESS may ask for
          Subjects, Resources, Actions,   \* who asks for what
          MaxPolicies        \* bound of the rows in the table

ASSUME DecisionsAssumption ==
    /\ \A p \in Rules : /\ Columns \ {"key"} \subseteq DOMAIN p /\ "key" \notin DOMAIN p
                        /\ p.priority \in Int /\ Conditions(p)
    /\ \A s \in Subjects : s.active \in BOOLEAN /\ s.locked \in BOOLEAN
                           /\ s.attrs \in BOOLEAN /\ s.clearance \in Nat
    /\ MaxPolicies \in Nat

VARIABLES table, subject, resource, action

vars == <<table, subject, resource, action>>

Init == /\ table = {}
        /\ subject \in Subjects /\ resource \in Resources
        /\ action \in Actions

\* The row of a rule.
Numbered(rule, n) == [c \in {"key"} \cup DOMAIN rule |-> IF c = "key" THEN n ELSE rule[c]]

\* The next id is free: ids are as many as rows in the order of insertion.
Create(rule) ==
    /\ \A p \in table : p.key < MaxPolicies
    /\ table' = table \cup {Numbered(rule, Cardinality(table) + 1)}
    /\ UNCHANGED <<subject, resource, action>>

Next == \E rule \in Rules : Create(rule)

Spec == Init /\ [][Next]_vars

-----------------------------------------------------------------------------
\* domain::evaluate_policy() on the rows, in whatever order it is given them.
DomainDecisions == {EvaluatePolicy(subject, resource, action, o) : o \in SetToSeqs(table)}

\* The rules that grant the request with the highest priority.
Applicable == LET granting == {p \in table : Grants(p, subject, resource, action)}
              IN {p \in granting : \A q \in granting : q.priority <= p.priority}

(* What the unit tests show of domain::evaluate_policy carries over to     *)
(* pdp::PDP::evaluate although the code is written twice: for a subject    *)
(* with attributes who is not locked out both return the same decisions,   *)
(* and which ones is settled by priority alone, not by how rows happen to  *)
(* be ordered.                                                             *)
EvaluatorsAgree ==
    subject.attrs /\ ~subject.locked =>
        ServerDecisions(subject, resource, action, table) = DomainDecisions

(* The server's answer does not depend on the order of rows: it is yes     *)
(* exactly if the account may be used and some enabled rule grants the     *)
(* request, and the rule named as reason is one of the highest priority.   *)
DecisionIsSettled ==
    \A d \in ServerDecisions(subject, resource, action, table) :
        /\ d.allowed <=> Allowed(subject, resource, action, table)
        /\ d.allowed => d.policy \in {p.key : p \in Applicable}
=============================================================================
