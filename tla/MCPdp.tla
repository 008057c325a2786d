------------------------------- MODULE MCPdp -------------------------------
(***************************************************************************)
(* Small instances of Decisions: rules with one condition or none, and     *)
(* GRANT_ACCESS's with two.                                                *)
(***************************************************************************)
EXTENDS Decisions

NoConditions == [enabled |-> TRUE, action |-> "read", priority |-> 1, role |-> Unset,
                 department |-> Unset, clearance |-> Unset, rtype |-> Unset,
                 subject |-> Unset, resource |-> Unset]

RuleShapes ==
    {NoConditions} \cup {[NoConditions EXCEPT !.role = x] : x \in {"user", "admin"}}
    \cup {[NoConditions EXCEPT !.department = "IT"]}
    \cup {[NoConditions EXCEPT !.clearance = x] : x \in {0, 1, 2}}
    \cup {[NoConditions EXCEPT !.rtype = x] : x \in {"printer", "database"}}
    \cup {[NoConditions EXCEPT !.subject = x, !.resource = y] :
             x \in {1, 2, Unset}, y \in {1, 2, Unset}}

MCRules == {[c EXCEPT !.enabled = e, !.action = a, !.priority = n] :
               c \in RuleShapes, e \in BOOLEAN, a \in {"read", "write", "*"}, n \in {1, 10}}

MCSubjects == [id : {1}, active : BOOLEAN, locked : {FALSE}, attrs : {TRUE},
               role : {"user"}, department : {"IT", ""}, clearance : {0, 1}]
              \cup [id : {1}, active : {TRUE}, locked : BOOLEAN, attrs : BOOLEAN,
                    role : {"user"}, department : {"IT"}, clearance : {1}]

MCResources == [id : {1}, rtype : {"printer"}]
=============================================================================
