------------------------------- MODULE MCPep -------------------------------
(***************************************************************************)
(* Small instances of Pep and of the access it leads to.                   *)
(***************************************************************************)
EXTENDS Enforcement

CONSTANTS u1, u2, r1, r2

TwoUsers   == {u1, u2}
TwoResources == {r1, r2}
OneResource  == {r1}

Employee == [role |-> "user", department |-> "IT", clearance |-> 1]

\* What a client may send and subject_attrs refuses.
Superuser == [role |-> "superuser", department |-> "IT", clearance |-> 1]

TwoProfiles   == {SeedProfile, Employee}
ThreeProfiles == {SeedProfile, Employee, Superuser}

RuleNames == {<<"user-print">>, <<"cleared">>}

Draft(name, action, role, rtype) ==
    [name |-> <<name>>, enabled |-> TRUE, action |-> action, priority |-> 1, role |-> role,
     department |-> Unset, clearance |-> Unset, rtype |-> rtype, subject |-> Unset,
     resource |-> Unset]

\* A rule of the seed.
SeedDrafts == {Draft("user-print", "print", "user", "printer")}

\* The same, and one for whoever is cleared for everything.
MixedDrafts == SeedDrafts \cup
               {[Draft("cleared", "*", Unset, Unset) EXCEPT !.clearance = 1]}
=============================================================================
