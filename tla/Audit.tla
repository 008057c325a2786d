------------------------------- MODULE Audit -------------------------------
(***************************************************************************)
(* The requests of pep::PEP with what they leave in audit_log.  The record *)
(* is the last statement of a handler, commits on its own, and its result  *)
(* is not looked at (pip.cpp 648-663): it may be lost, to a failure or to  *)
(* a crash, when the change it tells of is already there.                  *)
(***************************************************************************)
EXTENDS Pep, Sequences

CONSTANTS MaxEvents,         \* bound of events
          MaxFaults          \* bound of lost records

ASSUME AuditAssumption == MaxEvents \in Nat /\ MaxFaults \in Nat

VARIABLES audit,             \* audit_log by id; n, the event told of, is history
          happened,          \* history: the events, in order
          faults             \* history: records lost so far

auditVars == <<accounts, catalogue, policies, serial, audit, happened, faults>>

\* An event and how the client is answered.
Happens(by, event, target, code) ==
    /\ Len(happened) < MaxEvents
    /\ happened' = Append(happened, [by |-> by, event |-> event, target |-> target,
                                     code |-> code])

\* writeAuditLog() after the records in log.
Write(log, by, event, target) ==
    \/ /\ audit' = Append(log, [n |-> Len(happened) + 1, actor |-> by, event |-> event,
                                target |-> target])
       /\ UNCHANGED faults
    \/ /\ faults < MaxFaults
       /\ audit' = log
       /\ faults' = faults + 1

\* Bug: the handler returns before it writes.
Log_Forgotten(by, event, target) ==
    Happens(by, event, target, "OK") /\ UNCHANGED <<audit, faults>>

Log(by, event, target) == Happens(by, event, target, "OK") /\ Write(audit, by, event, target)

\* The event is answered and leaves no record.
Unlogged(by, event, target, code) ==
    Happens(by, event, target, code) /\ UNCHANGED <<audit, faults>>

\* Bug: ON DELETE CASCADE in place of SET NULL.
WithoutActor_Cascade(u) == SelectSeq(audit, LAMBDA rec : rec.actor # u)

\* ON DELETE SET NULL of audit_log.actor_id.
WithoutActor(u) ==
    [i \in DOMAIN audit |-> [audit[i] EXCEPT !.actor = IF @ = u THEN Unset ELSE @]]

-----------------------------------------------------------------------------
AuditInit == Init /\ audit = <<>> /\ happened = <<>> /\ faults = 0

Changes(by) ==
    \/ \E r \in Resources, t \in Types :
          \/ ResourceCreate(by, r, t) /\ Log(by, "RESOURCE_CREATE", r)
          \/ ResourceUpdate(by, r, t) /\ Log(by, "RESOURCE_UPDATE", r)
    \/ \E r \in Resources : ResourceDelete(by, r) /\ Log(by, "RESOURCE_DELETE", r)
    \/ \E d \in Drafts : PolicyCreate(by, d) /\ Log(by, "POLICY_CREATE", serial')
    \/ \E s \in Users, r \in Resources, a \in Actions :
          GrantAccess(by, s, r, a) /\ Log(by, "POLICY_CREATE", serial')
    \/ \E p \in policies :
          \/ \E rule \in Drafts \cup {Switched(p)} :
                PolicyUpdate(by, p, rule) /\ Log(by, "POLICY_UPDATE", p.key)
          \/ PolicyDelete(by, p) /\ Log(by, "POLICY_DELETE", p.key)
    \/ \E u \in Users, active \in BOOLEAN, profile \in Profiles :
          UserUpdate(by, u, active, profile) /\ Log(by, "USER_UPDATE", u)
    \/ \E u \in Users :
          /\ UserDelete(by, u)
          /\ Happens(by, "USER_DELETE", u, "OK")
          /\ Write(WithoutActor(u), by, "USER_DELETE", u)

\* The second INSERT decides whether USER_CREATE is answered OK and recorded.
CreatesUser(by) ==
    \E u \in Users, profile \in Profiles :
       /\ UserCreate(by, u, profile)
       /\ \/ Fit(profile) /\ Log(by, "USER_CREATE", u)
          \/ ~Fit(profile) /\ Unlogged(by, "USER_CREATE", u, "INTERNAL_ERROR")

\* DELETE of a row that is not there succeeds.
DeletesNothing(by) ==
    /\ Admin(by)
    /\ \/ \E u \in Users \ (Present(accounts) \cup {by}) : Log(by, "USER_DELETE", u)
       \/ \E r \in Resources \ Present(catalogue) : Log(by, "RESOURCE_DELETE", r)
       \/ \E id \in 1..MaxPolicies : /\ \A p \in policies : p.key # id
                                     /\ Log(by, "POLICY_DELETE", id)
    /\ UNCHANGED vars

\* handleAuth(): authenticate() refuses a locked or inactive account.
SignIn(u) ==
    /\ u \in Present(accounts)
    /\ \/ /\ accounts[u].active /\ ~accounts[u].locked
          /\ Log(u, "AUTH_SUCCESS", u)
       \/ Unlogged(u, "AUTH_FAILURE", u, "AUTH_DENIED")
    /\ UNCHANGED vars

SignOut(u) == Caller(u) /\ Unlogged(u, "LOGOUT", u, "OK") /\ UNCHANGED vars

\* Administration without the role, or ACCESS_CHECK of what is not permitted.
Refused(u) ==
    /\ Caller(u)
    /\ \/ ~Admin(u) /\ Unlogged(u, "ACCESS_DENIED", Unset, "ACCESS_DENIED")
       \/ \E r \in Present(catalogue), a \in Actions :
             ~Can(u, r, a) /\ Unlogged(u, "ACCESS_DENIED", r, "ACCESS_DENIED")
    /\ UNCHANGED vars

AuditNext ==
    \/ \E by \in Users : \/ Changes(by) \/ CreatesUser(by) \/ DeletesNothing(by)
                         \/ SignIn(by) \/ SignOut(by) \/ Refused(by)
    \/ \E u \in Users : LockChanges(u) /\ UNCHANGED <<audit, happened, faults>>

AuditSpec == AuditInit /\ [][AuditNext]_auditVars

-----------------------------------------------------------------------------
\* The events that some record tells of.
Recorded == {audit[i].n : i \in DOMAIN audit}

ChangeEvents == {"RESOURCE_CREATE", "RESOURCE_UPDATE", "RESOURCE_DELETE", "POLICY_CREATE",
                 "POLICY_UPDATE", "POLICY_DELETE", "USER_CREATE", "USER_UPDATE", "USER_DELETE"}

(* The journal can be relied on: records stand in the order of the events, *)
(* each tells what was done to what and by whom as long as he exists, and  *)
(* every change or sign-in answered OK has one, save one per fault.        *)
JournalIsTrue ==
    /\ \A i, j \in DOMAIN audit : i < j => audit[i].n < audit[j].n
    /\ \A i \in DOMAIN audit :
          LET e == happened[audit[i].n]
          IN /\ audit[i].event = e.event /\ audit[i].target = e.target
             /\ audit[i].actor = (IF e.by \in Present(accounts) THEN e.by ELSE Unset)
    /\ Cardinality({n \in DOMAIN happened :
                      /\ happened[n].event \in ChangeEvents \cup {"AUTH_SUCCESS"}
                      /\ happened[n].code = "OK"
                      /\ n \notin Recorded}) <= faults

(* Append-only but for the reference to the actor, which is given up when  *)
(* the actor is deleted and by nothing else (V001__schema.sql 81-100).     *)
JournalOnlyGrows ==
    [][/\ Len(audit) <= Len(audit')
       /\ \A i \in DOMAIN audit :
             \/ audit'[i] = audit[i]
             \/ /\ audit'[i] = [audit[i] EXCEPT !.actor = Unset]
                /\ audit[i].actor \notin Present(accounts')]_auditVars
=============================================================================
