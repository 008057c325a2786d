-------------------------------- MODULE Pep --------------------------------
(***************************************************************************)
(* The administration requests of pep::PEP over the tables users,          *)
(* subject_attrs, resources and policies, and the access that follows.     *)
(*                                                                         *)
(* The server is one thread: a handler runs to its end before the next     *)
(* request.  Where it runs several statements that commit one by one, what *)
(* a statement refused by the database leaves behind is a case of the      *)
(* action.  A request that is refused, or whose first statement fails,     *)
(* changes nothing: it stutters.  Sessions are Auth's matter: here any     *)
(* account that verifyToken() would answer for may send a request.         *)
(***************************************************************************)
EXTENDS Policy, FiniteSets

CONSTANTS Users, Resources,  \* ids (BIGSERIAL: never given out twice)
          Seed,              \* the administrator that V002 inserts
          Types,             \* resource_type
          Actions,           \* actions of requests and of rules
          Departments,       \* department
          Names,             \* names given to rules
          Profiles,          \* [role, department, clearance] that may be asked for
          Drafts,            \* rules that POLICY_CREATE and POLICY_UPDATE may ask for
          MaxPolicies        \* bound of rules created

Roles == {"admin", "user", "auditor"}

GrantName(s, r, a) == <<"grant", s, r, a>>

GrantNames == {GrantName(s, r, a) : s \in Users, r \in Resources, a \in Actions}

\* What department_required may hold: NULL takes the place of an empty text.
Required == Departments \ {""}

\* A rule as a request describes it: the conditions are the nullable columns.
Rule == [name : Names \cup GrantNames, enabled : BOOLEAN, action : Actions, priority : Int,
         role : Roles \cup {Unset}, department : Required \cup {Unset},
         clearance : (0..5) \cup {Unset}, rtype : Types \cup {Unset},
         subject : Users \cup {Unset}, resource : Resources \cup {Unset}]

\* CHECK of subject_attrs.
Fit(profile) == profile.role \in Roles /\ profile.clearance \in 0..5

ASSUME PepAssumption == /\ Seed \in Users
                        /\ Unset \notin Users \cup Resources
                        /\ 0 \notin Users \cup Resources
                        /\ "" \notin Types
                        /\ {"", "IT"} \subseteq Departments
                        /\ \A q \in Profiles : q.department \in Departments
                        /\ Drafts \subseteq Rule
                        /\ MaxPolicies \in Nat

VARIABLES accounts,          \* users with their subject_attrs (attrs: row exists)
          catalogue,         \* resources
          policies,          \* rows of policies
          serial             \* policies_id_seq

vars == <<accounts, catalogue, policies, serial>>

-----------------------------------------------------------------------------
Account(u, status, active, attrs, profile) ==
    [id |-> u, status |-> status, active |-> active, locked |-> FALSE, attrs |-> attrs,
     role |-> profile.role, department |-> profile.department,
     clearance |-> profile.clearance]

\* What the server reads of an account without attributes.
NoProfile == [role |-> "user", department |-> "", clearance |-> 0]

SeedProfile == [role |-> "admin", department |-> "IT", clearance |-> 5]

Present(T) == {x \in DOMAIN T : T[x].status = "present"}

\* verifyToken() can answer with u: no look at the lock.
Caller(u) == u \in Present(accounts) /\ accounts[u].active /\ accounts[u].attrs

Admin(u) == Caller(u) /\ accounts[u].role = "admin"

\* The rule's subject and resource exist.
RefersToRows(p) == /\ p.subject \in {Unset} \cup Present(accounts)
                   /\ p.resource \in {Unset} \cup Present(catalogue)

NameTaken(name, T) == \E p \in T : p.name = name

-----------------------------------------------------------------------------
\* After V002, the base rules deleted: POLICY_CREATE brings back those of Drafts.
Init == /\ accounts = [u \in Users |-> IF u = Seed
                                       THEN Account(u, "present", TRUE, TRUE, SeedProfile)
                                       ELSE Account(u, "unborn", FALSE, FALSE, NoProfile)]
        /\ catalogue = [r \in Resources |-> [id |-> r, status |-> "unborn", rtype |-> Unset]]
        /\ policies = {}
        /\ serial = 0

ResourceCreate(by, r, t) ==
    /\ Admin(by) /\ catalogue[r].status = "unborn"
    /\ catalogue' = [catalogue EXCEPT ![r] = [id |-> r, status |-> "present", rtype |-> t]]
    /\ UNCHANGED <<accounts, policies, serial>>

ResourceUpdate(by, r, t) ==
    /\ Admin(by) /\ r \in Present(catalogue)
    /\ catalogue' = [catalogue EXCEPT ![r].rtype = t]
    /\ UNCHANGED <<accounts, policies, serial>>

\* Bug: the rules for the resource stay behind as they are.
ResourceDelete_Dangling(by, r) ==
    /\ Admin(by) /\ r \in Present(catalogue)
    /\ catalogue' = [catalogue EXCEPT ![r].status = "deleted"]
    /\ UNCHANGED <<accounts, policies, serial>>

\* ON DELETE SET NULL; a row that is not there is deleted without effect.
ResourceDelete(by, r) ==
    /\ Admin(by) /\ r \in Present(catalogue)
    /\ catalogue' = [catalogue EXCEPT ![r].status = "deleted"]
    /\ policies' = {[p EXCEPT !.resource = IF @ = r THEN Unset ELSE @] : p \in policies}
    /\ UNCHANGED <<accounts, serial>>

\* The columns of rule under the id key.
RowOf(rule, key) == [key |-> key, name |-> rule.name, enabled |-> rule.enabled,
                     action |-> rule.action, role |-> rule.role,
                     department |-> rule.department, clearance |-> rule.clearance,
                     rtype |-> rule.rtype, subject |-> rule.subject,
                     resource |-> rule.resource, priority |-> rule.priority]

\* INSERT INTO policies: name is UNIQUE, subject and resource are references.
InsertPolicy(rule) ==
    /\ serial < MaxPolicies
    /\ ~NameTaken(rule.name, policies) /\ RefersToRows(rule)
    /\ serial' = serial + 1
    /\ policies' = policies \cup {RowOf(rule, serial + 1)}
    /\ UNCHANGED <<accounts, catalogue>>

PolicyCreate(by, draft) == Admin(by) /\ InsertPolicy(draft)

\* The columns the request names are replaced: all of them or the switch alone.
PolicyUpdate(by, p, rule) ==
    /\ Admin(by) /\ p \in policies
    /\ ~NameTaken(rule.name, policies \ {p}) /\ RefersToRows(rule)
    /\ policies' = (policies \ {p}) \cup {RowOf(rule, p.key)}
    /\ UNCHANGED <<accounts, catalogue, serial>>

Switched(p) == [p EXCEPT !.enabled = ~@]

\* Bug: the rule is unbound instead of deleted.
PolicyDelete_Unbinds(by, p) ==
    /\ Admin(by) /\ p \in policies
    /\ policies' = (policies \ {p}) \cup {[p EXCEPT !.subject = Unset]}
    /\ UNCHANGED <<accounts, catalogue, serial>>

\* POLICY_DELETE and REVOKE_ACCESS; an unknown id is deleted without effect.
PolicyDelete(by, p) ==
    /\ Admin(by) /\ p \in policies
    /\ policies' = policies \ {p}
    /\ UNCHANGED <<accounts, catalogue, serial>>

\* The rule that GRANT_ACCESS inserts.
GrantRule(s, r, a) ==
    [name |-> GrantName(s, r, a), enabled |-> TRUE, action |-> a, priority |-> 10,
     role |-> Unset, department |-> Unset, clearance |-> Unset, rtype |-> Unset,
     subject |-> s, resource |-> r]

\* Bug: the resource is left out of the rule.
GrantAccess_AnyResource(by, s, r, a) ==
    /\ Admin(by)
    /\ s \in Present(accounts) /\ r \in Present(catalogue)
    /\ InsertPolicy([GrantRule(s, r, a) EXCEPT !.resource = Unset])

GrantAccess(by, s, r, a) ==
    /\ Admin(by)
    /\ s \in Present(accounts) /\ r \in Present(catalogue)
    /\ InsertPolicy(GrantRule(s, r, a))

\* Two INSERTs: attributes that subject_attrs refuses leave the first one's row.
UserCreate(by, u, profile) ==
    /\ Admin(by) /\ accounts[u].status = "unborn"
    /\ accounts' = [accounts EXCEPT ![u] =
                      IF Fit(profile) THEN Account(u, "present", TRUE, TRUE, profile)
                                      ELSE Account(u, "present", TRUE, FALSE, NoProfile)]
    /\ UNCHANGED <<catalogue, policies, serial>>

\* Bug: subject_attrs takes any attributes.
UserUpdate_Unchecked(by, u, active, profile) ==
    /\ Admin(by) /\ u \in Present(accounts)
    /\ accounts' = [accounts EXCEPT ![u] =
                      IF accounts[u].attrs
                      THEN [@ EXCEPT !.active = active, !.role = profile.role,
                                     !.department = profile.department,
                                     !.clearance = profile.clearance]
                      ELSE [@ EXCEPT !.active = active]]
    /\ UNCHANGED <<catalogue, policies, serial>>

\* Two UPDATEs; whether there was a second one and how it went is not looked at.
UserUpdate(by, u, active, profile) ==
    /\ Admin(by) /\ u \in Present(accounts)
    /\ accounts' = [accounts EXCEPT ![u] =
                      IF accounts[u].attrs /\ Fit(profile)
                      THEN [@ EXCEPT !.active = active, !.role = profile.role,
                                     !.department = profile.department,
                                     !.clearance = profile.clearance]
                      ELSE [@ EXCEPT !.active = active]]
    /\ UNCHANGED <<catalogue, policies, serial>>

\* Bug: nobody asks who is deleted.
UserDelete_Self(by, u) ==
    /\ Admin(by) /\ u \in Present(accounts)
    /\ accounts' = [accounts EXCEPT ![u] = Account(u, "deleted", FALSE, FALSE, NoProfile)]
    /\ policies' = {[p EXCEPT !.subject = IF @ = u THEN Unset ELSE @] : p \in policies}
    /\ UNCHANGED <<catalogue, serial>>

\* Not oneself; ON DELETE CASCADE takes the attributes, SET NULL frees the rules.
UserDelete(by, u) ==
    /\ Admin(by) /\ u \in Present(accounts) /\ u # by
    /\ accounts' = [accounts EXCEPT ![u] = Account(u, "deleted", FALSE, FALSE, NoProfile)]
    /\ policies' = {[p EXCEPT !.subject = IF @ = u THEN Unset ELSE @] : p \in policies}
    /\ UNCHANGED <<catalogue, serial>>

\* A lockout of the account begins or ends (Auth).
LockChanges(u) ==
    /\ u \in Present(accounts)
    /\ accounts' = [accounts EXCEPT ![u].locked = ~@]
    /\ UNCHANGED <<catalogue, policies, serial>>

Administer(by) ==
    \/ \E r \in Resources, t \in Types : ResourceCreate(by, r, t) \/ ResourceUpdate(by, r, t)
    \/ \E r \in Resources : ResourceDelete(by, r)
    \/ \E d \in Drafts : PolicyCreate(by, d)
    \/ \E p \in policies : \/ \E rule \in Drafts \cup {Switched(p)} : PolicyUpdate(by, p, rule)
                           \/ PolicyDelete(by, p)
    \/ \E s \in Users, r \in Resources, a \in Actions : GrantAccess(by, s, r, a)
    \/ \E u \in Users, profile \in Profiles :
          \/ UserCreate(by, u, profile)
          \/ \E active \in BOOLEAN : UserUpdate(by, u, active, profile)
    \/ \E u \in Users : UserDelete(by, u)

Next == (\E by \in Users : Administer(by)) \/ (\E u \in Users : LockChanges(u))

Spec == Init /\ [][Next]_vars

-----------------------------------------------------------------------------
(* ACCESS_CHECK, which only reads.                                         *)

\* ACCESS_CHECK is answered ok.
Can(u, r, a) == /\ r \in Present(catalogue)
                /\ Allowed(accounts[u], catalogue[r], a, policies)

\* Everything that ACCESS_CHECK would answer ok to.
Access == {x \in Users \X Resources \X Actions : Can(x[1], x[2], x[3])}

-----------------------------------------------------------------------------
AccountRow == [id : Users, status : {"unborn", "present", "deleted"}, active : BOOLEAN,
               locked : BOOLEAN, attrs : BOOLEAN, role : Roles,
               department : Departments, clearance : 0..5]

ResourceRow == [id : Resources, rtype : Types \cup {Unset},
                status : {"unborn", "present", "deleted"}]

PolicyRow == [key : 1..MaxPolicies, name : Names \cup GrantNames, enabled : BOOLEAN,
              action : Actions, priority : Int, role : Roles \cup {Unset},
              department : Required \cup {Unset}, clearance : (0..5) \cup {Unset},
              rtype : Types \cup {Unset}, subject : Users \cup {Unset},
              resource : Resources \cup {Unset}]

\* Accounts are rows, and one that is not there may not be used.
AccountsOK == /\ accounts \in [Users -> AccountRow]
              /\ \A u \in Users : accounts[u].id = u
              /\ \A u \in Users : u \in Present(accounts) \/ ~accounts[u].active

CatalogueOK == /\ catalogue \in [Resources -> ResourceRow]
               /\ \A r \in Resources : catalogue[r].id = r

\* key is the column id.
PoliciesOK == /\ policies \subseteq PolicyRow
              /\ serial \in 0..MaxPolicies
              /\ \A p \in policies : p.key <= serial

(* Rows have the types of their columns (CHECK constraints included), and  *)
(* the sequence is ahead of the ids it gave out.                           *)
TypeOK == AccountsOK /\ CatalogueOK /\ PoliciesOK

(* Every rule can be told from every other by its id and by its name, and  *)
(* what it refers to exists, whoever has been deleted since: no rule waits *)
(* for an id to come back (V001__schema.sql 62-78).                        *)
RulesInOrder ==
    /\ \A p \in policies : RefersToRows(p)
    /\ \A p, q \in policies : p.key = q.key \/ p.name = q.name => p = q

\* RulesInOrder in its inductive form.
PepInv == TypeOK /\ RulesInOrder

(* Taking a right away never gives one: REVOKE_ACCESS, POLICY_DELETE and   *)
(* switching a rule off let nobody do what he could not do before, however *)
(* the rules overlap and whichever had the highest priority.               *)
RevokeNeverWidens ==
    [][\A by \in Users, p \in policies :
          PolicyDelete(by, p) \/ (p.enabled /\ PolicyUpdate(by, p, Switched(p)))
             => Access' \subseteq Access]_vars

(* GRANT_ACCESS gives the right it names, if the account can be used at    *)
(* all, and no other: no other subject and no other resource gains.        *)
GrantIsScoped ==
    [][\A by, s \in Users, r \in Resources, a \in Actions :
          GrantAccess(by, s, r, a) =>
             /\ Access' \ Access \subseteq {s} \X {r} \X Actions
             /\ MayUse(accounts[s]) => <<s, r, a>> \in Access']_vars

(* Deleting users never leaves the system without an administrator: the    *)
(* one who deletes stays (pep.cpp 838-842).                                *)
DeletionKeepsAnAdmin ==
    [][\A by, u \in Users : UserDelete(by, u) => \E w \in Users : Admin(w)']_vars

-----------------------------------------------------------------------------
(* What the documents promise and the code does not do.                    *)

(* A rule bound to a subject or a resource (domain.h:202-203) says nothing *)
(* about others: deleting a user or a resource gives nobody a new right.   *)
DeletionNeverWidens ==
    [][\A by \in Users : (\E u \in Users : UserDelete(by, u)) \/
                         (\E r \in Resources : ResourceDelete(by, r))
          => Access' \subseteq Access]_vars
=============================================================================
