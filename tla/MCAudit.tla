------------------------------ MODULE MCAudit ------------------------------
(***************************************************************************)
(* Small instances of Audit.                                               *)
(***************************************************************************)
EXTENDS Audit

CONSTANTS u1, u2, r1

TwoUsers == {u1, u2}
OneResource == {r1}

Employee == [role |-> "user", department |-> "IT", clearance |-> 1]

\* What a client may send and subject_attrs refuses.
Superuser == [role |-> "superuser", department |-> "IT", clearance |-> 1]

ThreeProfiles == {SeedProfile, Employee, Superuser}

RuleNames == {<<"user-print">>}

Draft(name, action, role, rtype) ==
    [name |-> <<name>>, enabled |-> TRUE, action |-> action, priority |-> 1, role |-> role,
     department |-> Unset, clearance |-> Unset, rtype |-> rtype, subject |-> Unset,
     resource |-> Unset]

\* A rule of the seed.
SeedDrafts == {Draft("user-print", "print", "user", "printer")}
=============================================================================
