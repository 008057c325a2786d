----------------------------- MODULE PepProofs -----------------------------
(***************************************************************************)
(* What TLAPS proves of the administration requests, of the access they    *)
(* lead to and of the journal they leave, for any number of users,         *)
(* resources, rules, events and lost records.                              *)
(***************************************************************************)
EXTENDS Audit, Enforcement, PdpProofs, FiniteSetTheorems, SequenceTheorems

-----------------------------------------------------------------------------
(* Accounts.                                                               *)

\* An account made from fit attributes is a row.
LEMMA AccountIsRow ==
  ASSUME NEW u \in Users, NEW status \in {"unborn", "present", "deleted"},
         NEW active \in BOOLEAN, NEW attrs \in BOOLEAN, NEW profile,
         Fit(profile), profile.department \in Departments
  PROVE  Account(u, status, active, attrs, profile) \in AccountRow
  BY DEF Account, AccountRow, Fit

\* The attributes the model starts from are fit.
LEMMA GivenProfiles ==
  /\ Fit(NoProfile) /\ NoProfile.department \in Departments
  /\ Fit(SeedProfile) /\ SeedProfile.department \in Departments
<1>1. Fit(NoProfile) /\ Fit(SeedProfile)
  BY DEF Fit, NoProfile, SeedProfile, Roles
<1>2. NoProfile.department \in Departments
  BY PepAssumption DEF NoProfile
<1>3. SeedProfile.department \in Departments
  BY PepAssumption DEF SeedProfile
<1>4. QED
  BY <1>1, <1>2, <1>3

\* A new row in the place of u leaves the table in order.
LEMMA ReplaceAccount ==
  ASSUME AccountsOK, NEW u \in Users, NEW row \in AccountRow,
         row.id = u, row.status = "present" \/ ~row.active,
         accounts' = [accounts EXCEPT ![u] = row]
  PROVE  AccountsOK'
<1>1. accounts' \in [Users -> AccountRow]
  BY DEF AccountsOK
<1>2. \A w \in Users : accounts'[w] = IF w = u THEN row ELSE accounts[w]
  BY DEF AccountsOK
<1>3. \A w \in Users : accounts'[w].id = w
  BY <1>2 DEF AccountsOK
<1>4. \A w \in Users : w \in Present(accounts)' \/ ~accounts'[w].active
  BY <1>1, <1>2 DEF AccountsOK, Present
<1>5. QED
  BY <1>1, <1>3, <1>4 DEF AccountsOK

-----------------------------------------------------------------------------
(* Rules that refer to existing rows, and what INSERT, UPDATE and SET NULL *)
(* make of them.                                                           *)

\* GRANT_ACCESS describes a rule.
LEMMA GrantRuleIsRule ==
  ASSUME NEW s \in Users, NEW r \in Resources, NEW a \in Actions
  PROVE  GrantRule(s, r, a) \in Rule
<1>1. GrantName(s, r, a) \in Names \cup GrantNames
  BY DEF GrantNames
<1>2. QED
  BY <1>1 DEF GrantRule, Rule

\* A row is made of columns of the right types,
LEMMA PolicyRowMade ==
  ASSUME NEW key \in 1..MaxPolicies, NEW name \in Names \cup GrantNames,
         NEW enabled \in BOOLEAN, NEW action \in Actions, NEW priority \in Int,
         NEW role \in Roles \cup {Unset}, NEW department \in Required \cup {Unset},
         NEW clearance \in (0..5) \cup {Unset}, NEW rtype \in Types \cup {Unset},
         NEW subject \in Users \cup {Unset}, NEW resource \in Resources \cup {Unset}
  PROVE  [key |-> key, name |-> name, enabled |-> enabled, action |-> action,
          role |-> role, department |-> department, clearance |-> clearance,
          rtype |-> rtype, subject |-> subject, resource |-> resource,
          priority |-> priority] \in PolicyRow
  BY DEF PolicyRow

\* a rule describes such columns,
LEMMA RuleFields ==
  ASSUME NEW rule \in Rule
  PROVE /\ rule.name \in Names \cup GrantNames /\ rule.enabled \in BOOLEAN
        /\ rule.action \in Actions /\ rule.priority \in Int
        /\ rule.role \in Roles \cup {Unset} /\ rule.department \in Required \cup {Unset}
        /\ rule.clearance \in (0..5) \cup {Unset} /\ rule.rtype \in Types \cup {Unset}
        /\ rule.subject \in Users \cup {Unset} /\ rule.resource \in Resources \cup {Unset}
<1> USE DEF Rule
<1>1. rule.name \in Names \cup GrantNames
  OBVIOUS
<1>2. rule.enabled \in BOOLEAN
  OBVIOUS
<1>3. rule.action \in Actions
  OBVIOUS
<1>4. rule.priority \in Int
  OBVIOUS
<1>5. rule.role \in Roles \cup {Unset}
  OBVIOUS
<1>6. rule.clearance \in (0..5) \cup {Unset}
  OBVIOUS
<1> HIDE DEF Rule
<1>7. QED
  BY <1>1, <1>2, <1>3, <1>4, <1>5, <1>6 DEF Rule

\* and so does the row made of it.
LEMMA RowOfRule ==
  ASSUME NEW rule \in Rule, NEW key \in 1..MaxPolicies
  PROVE  RowOf(rule, key) \in PolicyRow
  BY RuleFields, PolicyRowMade, Zenon DEF RowOf

\* An inserted rule has a new id and a new name.
LEMMA InsertKeepsOrder ==
  ASSUME PepInv, NEW rule \in Rule, InsertPolicy(rule)
  PROVE  PepInv'
<1> DEFINE new == RowOf(rule, serial + 1)
<1>1. /\ policies' = policies \cup {new} /\ serial' = serial + 1
      /\ serial < MaxPolicies /\ ~NameTaken(rule.name, policies) /\ RefersToRows(rule)
      /\ UNCHANGED <<accounts, catalogue>>
  BY DEF InsertPolicy
<1>2. new.key = serial + 1 /\ new.name = rule.name
      /\ new.subject = rule.subject /\ new.resource = rule.resource
  BY DEF RowOf
<1>3. serial \in Nat /\ serial + 1 \in 1..MaxPolicies
  <2>1. serial \in 0..MaxPolicies /\ MaxPolicies \in Nat
    BY PepAssumption DEF PepInv, TypeOK, PoliciesOK
  <2>2. serial < MaxPolicies
    BY <1>1
  <2>3. QED
    BY <2>1, <2>2
<1>4. new \in PolicyRow
  BY <1>3, RowOfRule
<1>5. \A p \in policies : p.key \in Nat /\ p.key <= serial
  BY DEF PepInv, TypeOK, PoliciesOK, PolicyRow
<1> HIDE DEF new
<1>6. PoliciesOK'
  BY <1>1, <1>2, <1>3, <1>4, <1>5 DEF PepInv, TypeOK, PoliciesOK
<1>7. TypeOK'
  BY <1>1, <1>6 DEF PepInv, TypeOK, AccountsOK, CatalogueOK, Present
<1>8. \A p \in policies' : RefersToRows(p)'
  BY <1>1, <1>2 DEF PepInv, RulesInOrder, RefersToRows, Present
<1>9. \A p \in policies : p.key # new.key /\ p.name # new.name
  BY <1>1, <1>2, <1>3, <1>5 DEF NameTaken
<1>10. \A p, q \in policies' : p.key = q.key \/ p.name = q.name => p = q
  BY <1>1, <1>9 DEF PepInv, RulesInOrder
<1>11. QED
  BY <1>7, <1>8, <1>10 DEF PepInv, RulesInOrder

\* The switched rule has the columns of the rule.
LEMMA SwitchedRow ==
  ASSUME NEW p \in PolicyRow
  PROVE  /\ RowOf(Switched(p), p.key) \in PolicyRow
         /\ RowOf(Switched(p), p.key) = [p EXCEPT !.enabled = ~p.enabled]
<1>1. Switched(p) = [p EXCEPT !.enabled = ~p.enabled]
  BY DEF Switched
<1>2. [p EXCEPT !.enabled = ~p.enabled] \in PolicyRow
  BY DEF PolicyRow
<1>3. \A q \in PolicyRow : RowOf(q, q.key) = q
  BY DEF PolicyRow, RowOf
<1>4. [p EXCEPT !.enabled = ~p.enabled].key = p.key
  BY DEF PolicyRow
<1>5. QED
  BY <1>1, <1>2, <1>3, <1>4

\* A rule that is replaced keeps its id and takes no other rule's name.
LEMMA UpdateKeepsOrder ==
  ASSUME PepInv, NEW by, NEW p \in policies, NEW rule,
         rule \in Rule \/ rule = Switched(p), PolicyUpdate(by, p, rule)
  PROVE  PepInv'
<1> DEFINE new == RowOf(rule, p.key)
<1>1. /\ policies' = (policies \ {p}) \cup {new}
      /\ ~NameTaken(rule.name, policies \ {p}) /\ RefersToRows(rule)
      /\ UNCHANGED <<accounts, catalogue, serial>>
  BY DEF PolicyUpdate
<1>2. p \in PolicyRow /\ p.key \in 1..MaxPolicies
  BY DEF PepInv, TypeOK, PoliciesOK, PolicyRow
<1>3. new \in PolicyRow
  BY <1>2, RowOfRule, SwitchedRow
<1>4. /\ new.key = p.key /\ new.name = rule.name
      /\ new.subject = rule.subject /\ new.resource = rule.resource
  BY DEF RowOf
<1> HIDE DEF new
<1>5. PoliciesOK'
  BY <1>1, <1>3, <1>4 DEF PepInv, TypeOK, PoliciesOK
<1>6. TypeOK'
  BY <1>1, <1>5 DEF PepInv, TypeOK, AccountsOK, CatalogueOK, Present
<1>7. \A q \in policies' : RefersToRows(q)'
  BY <1>1, <1>4 DEF PepInv, RulesInOrder, RefersToRows, Present
<1>8. \A q \in policies \ {p} : q.key # new.key /\ q.name # new.name
  BY <1>1, <1>4 DEF PepInv, RulesInOrder, NameTaken
<1>9. \A q1, q2 \in policies' : q1.key = q2.key \/ q1.name = q2.name => q1 = q2
  BY <1>1, <1>8 DEF PepInv, RulesInOrder
<1>10. QED
  BY <1>6, <1>7, <1>9 DEF PepInv, RulesInOrder

\* SET NULL of a user frees the rules of that user and keeps the others.
LEMMA UserDeleteKeepsOrder ==
  ASSUME PepInv, NEW by \in Users, NEW u \in Users, UserDelete(by, u)
  PROVE  PepInv'
<1> DEFINE freed(p) == [p EXCEPT !.subject = IF @ = u THEN Unset ELSE @]
<1> DEFINE gone == Account(u, "deleted", FALSE, FALSE, NoProfile)
<1>1. /\ accounts' = [accounts EXCEPT ![u] = gone]
      /\ policies' = {freed(p) : p \in policies}
      /\ UNCHANGED <<catalogue, serial>>
  BY DEF UserDelete
<1>2. \A p \in policies : /\ freed(p) \in PolicyRow
                          /\ freed(p).key = p.key /\ freed(p).name = p.name
                          /\ freed(p).resource = p.resource
                          /\ freed(p).subject = IF p.subject = u THEN Unset ELSE p.subject
  BY DEF PepInv, TypeOK, PoliciesOK, PolicyRow
<1>3. gone \in AccountRow
  BY AccountIsRow, GivenProfiles
<1>4. gone.id = u /\ gone.active = FALSE /\ gone.status = "deleted"
  BY DEF Account
<1> HIDE DEF freed, gone
<1>5. AccountsOK'
  BY <1>1, <1>3, <1>4, ReplaceAccount DEF PepInv, TypeOK
<1>6. PoliciesOK'
  BY <1>1, <1>2 DEF PepInv, TypeOK, PoliciesOK
<1>7. TypeOK'
  BY <1>1, <1>5, <1>6 DEF PepInv, TypeOK, CatalogueOK
<1>8. \A p \in policies' : RefersToRows(p)'
  <2>1. Present(accounts)' = Present(accounts) \ {u} /\ Present(catalogue)' = Present(catalogue)
    <3>1. accounts' \in [Users -> AccountRow] /\ accounts \in [Users -> AccountRow]
      BY <1>5 DEF PepInv, TypeOK, AccountsOK
    <3>2. \A w \in Users : accounts'[w] = IF w = u THEN gone ELSE accounts[w]
      BY <1>1, <3>1
    <3>3. \A w \in Users : accounts'[w].status = "present"
                              <=> w # u /\ accounts[w].status = "present"
      BY <1>4, <3>2
    <3>4. QED
      BY <1>1, <3>1, <3>3 DEF Present
  <2>2. ASSUME NEW p \in policies
        PROVE  /\ freed(p).subject \in {Unset} \cup Present(accounts)'
               /\ freed(p).resource \in {Unset} \cup Present(catalogue)'
    <3>1. /\ p.subject \in {Unset} \cup Present(accounts)
          /\ p.resource \in {Unset} \cup Present(catalogue)
      BY DEF PepInv, RulesInOrder, RefersToRows
    <3>2. QED
      BY <1>2, <2>1, <3>1
  <2>3. QED
    BY <1>1, <2>2 DEF RefersToRows
<1>9. \A p, q \in policies' : p.key = q.key \/ p.name = q.name => p = q
  BY <1>1, <1>2 DEF PepInv, RulesInOrder
<1>10. QED
  BY <1>7, <1>8, <1>9 DEF PepInv, RulesInOrder

\* SET NULL of a resource likewise.
LEMMA ResourceDeleteKeepsOrder ==
  ASSUME PepInv, NEW by \in Users, NEW r \in Resources, ResourceDelete(by, r)
  PROVE  PepInv'
<1> DEFINE freed(p) == [p EXCEPT !.resource = IF @ = r THEN Unset ELSE @]
<1>1. /\ catalogue' = [catalogue EXCEPT ![r].status = "deleted"]
      /\ policies' = {freed(p) : p \in policies}
      /\ UNCHANGED <<accounts, serial>>
  BY DEF ResourceDelete
<1>2. \A p \in policies : /\ freed(p) \in PolicyRow
                          /\ freed(p).key = p.key /\ freed(p).name = p.name
                          /\ freed(p).subject = p.subject
                          /\ freed(p).resource = IF p.resource = r THEN Unset ELSE p.resource
  BY DEF PepInv, TypeOK, PoliciesOK, PolicyRow
<1> HIDE DEF freed
<1>3. CatalogueOK'
  BY <1>1 DEF PepInv, TypeOK, CatalogueOK, ResourceRow
<1>4. PoliciesOK'
  BY <1>1, <1>2 DEF PepInv, TypeOK, PoliciesOK
<1>5. TypeOK'
  BY <1>1, <1>3, <1>4 DEF PepInv, TypeOK, AccountsOK, Present
<1>6. \A p \in policies' : RefersToRows(p)'
  <2>1. Present(catalogue)' = Present(catalogue) \ {r} /\ Present(accounts)' = Present(accounts)
    <3>1. catalogue' \in [Resources -> ResourceRow] /\ catalogue \in [Resources -> ResourceRow]
      BY <1>3 DEF PepInv, TypeOK, CatalogueOK
    <3>2. \A x \in Resources : catalogue'[x].status = "present"
                                  <=> x # r /\ catalogue[x].status = "present"
      BY <1>1, <3>1 DEF ResourceRow
    <3>3. QED
      BY <1>1, <3>1, <3>2 DEF Present
  <2>2. ASSUME NEW p \in policies
        PROVE  /\ freed(p).subject \in {Unset} \cup Present(accounts)'
               /\ freed(p).resource \in {Unset} \cup Present(catalogue)'
    <3>1. /\ p.subject \in {Unset} \cup Present(accounts)
          /\ p.resource \in {Unset} \cup Present(catalogue)
      BY DEF PepInv, RulesInOrder, RefersToRows
    <3>2. QED
      BY <1>2, <2>1, <3>1
  <2>3. QED
    BY <1>1, <2>2 DEF RefersToRows
<1>7. \A p, q \in policies' : p.key = q.key \/ p.name = q.name => p = q
  BY <1>1, <1>2 DEF PepInv, RulesInOrder
<1>8. QED
  BY <1>5, <1>6, <1>7 DEF PepInv, RulesInOrder

\* Rows that come or change take no rule's subject or resource away.
LEMMA MoreRowsKeepOrder ==
  ASSUME PepInv, AccountsOK', CatalogueOK', UNCHANGED <<policies, serial>>,
         Present(accounts) \subseteq Present(accounts)',
         Present(catalogue) \subseteq Present(catalogue)'
  PROVE  PepInv'
<1>1. PoliciesOK'
  BY DEF PepInv, TypeOK, PoliciesOK
<1>2. TypeOK'
  BY <1>1 DEF TypeOK
<1>3. ASSUME NEW p \in policies'
      PROVE  RefersToRows(p)'
  <2>1. RefersToRows(p)
    BY <1>3 DEF PepInv, RulesInOrder
  <2>2. QED
    BY <2>1 DEF RefersToRows
<1>4. \A p, q \in policies' : p.key = q.key \/ p.name = q.name => p = q
  BY DEF PepInv, RulesInOrder
<1>5. QED
  BY <1>2, <1>3, <1>4 DEF PepInv, RulesInOrder

\* An account that is replaced by one that is there,
LEMMA PresentAccount ==
  ASSUME PepInv, NEW u \in Users, NEW row \in AccountRow,
         row.id = u, row.status = "present",
         accounts' = [accounts EXCEPT ![u] = row],
         UNCHANGED <<catalogue, policies, serial>>
  PROVE  PepInv'
<1>1. AccountsOK'
  BY ReplaceAccount DEF PepInv, TypeOK
<1>2. CatalogueOK'
  BY DEF PepInv, TypeOK, CatalogueOK
<1>3. Present(accounts) \subseteq Present(accounts)'
  <2>1. accounts \in [Users -> AccountRow] /\ accounts' \in [Users -> AccountRow]
    BY <1>1 DEF PepInv, TypeOK, AccountsOK
  <2>2. \A w \in Users : accounts'[w] = IF w = u THEN row ELSE accounts[w]
    BY <2>1
  <2>3. QED
    BY <2>1, <2>2 DEF Present
<1>4. Present(catalogue) \subseteq Present(catalogue)'
  BY DEF Present
<1>5. QED
  BY <1>1, <1>2, <1>3, <1>4, MoreRowsKeepOrder

\* and a resource likewise.
LEMMA PresentResource ==
  ASSUME PepInv, NEW r \in Resources, NEW row \in ResourceRow,
         row.id = r, row.status = "present",
         catalogue' = [catalogue EXCEPT ![r] = row],
         UNCHANGED <<accounts, policies, serial>>
  PROVE  PepInv'
<1>1. catalogue \in [Resources -> ResourceRow] /\ \A x \in Resources : catalogue[x].id = x
  BY DEF PepInv, TypeOK, CatalogueOK
<1>2. catalogue' \in [Resources -> ResourceRow]
  BY <1>1
<1>3. \A x \in Resources : catalogue'[x] = IF x = r THEN row ELSE catalogue[x]
  BY <1>1
<1>4. CatalogueOK'
  BY <1>1, <1>2, <1>3 DEF CatalogueOK
<1>5. AccountsOK'
  BY DEF PepInv, TypeOK, AccountsOK, Present
<1>6. Present(accounts) \subseteq Present(accounts)'
  BY DEF Present
<1>7. Present(catalogue) \subseteq Present(catalogue)'
  BY <1>1, <1>2, <1>3 DEF Present
<1>8. QED
  BY <1>4, <1>5, <1>6, <1>7, MoreRowsKeepOrder

-----------------------------------------------------------------------------
(* The invariant.                                                          *)

\* It holds of the seeded database.
LEMMA InitPepInv == Init => PepInv
<1> SUFFICES ASSUME Init PROVE PepInv
  OBVIOUS
<1>1. \A u \in Users : /\ Account(u, "present", TRUE, TRUE, SeedProfile) \in AccountRow
                       /\ Account(u, "unborn", FALSE, FALSE, NoProfile) \in AccountRow
  BY AccountIsRow, GivenProfiles
<1>2. \A u \in Users : accounts[u] = IF u = Seed
                                     THEN Account(u, "present", TRUE, TRUE, SeedProfile)
                                     ELSE Account(u, "unborn", FALSE, FALSE, NoProfile)
  BY DEF Init
<1>3. accounts \in [Users -> AccountRow]
  BY <1>1 DEF Init
<1>4. \A u \in Users : /\ accounts[u].id = u
                       /\ accounts[u].status = "present" \/ ~accounts[u].active
  <2>1. ASSUME NEW u \in Users
        PROVE  /\ accounts[u].id = u
               /\ accounts[u].status = "present" \/ ~accounts[u].active
    <3>1. CASE u = Seed
      <4>1. accounts[u] = Account(u, "present", TRUE, TRUE, SeedProfile)
        BY <1>2, <3>1
      <4>2. accounts[u].id = u
        BY <4>1 DEF Account
      <4>3. accounts[u].status = "present"
        BY <4>1 DEF Account
      <4>4. QED
        BY <4>2, <4>3
    <3>2. CASE u # Seed
      <4>1. accounts[u] = Account(u, "unborn", FALSE, FALSE, NoProfile)
        BY <1>2, <3>2
      <4>2. accounts[u].id = u
        BY <4>1 DEF Account
      <4>3. accounts[u].active = FALSE
        BY <4>1 DEF Account
      <4>4. QED
        BY <4>2, <4>3
    <3>3. QED
      BY <3>1, <3>2
  <2>2. QED
    BY <2>1
<1>5. AccountsOK
  BY <1>3, <1>4 DEF AccountsOK, Present
<1>6. CatalogueOK
  <2>1. catalogue = [r \in Resources |-> [id |-> r, status |-> "unborn", rtype |-> Unset]]
    BY DEF Init
  <2>2. \A r \in Resources : [id |-> r, status |-> "unborn", rtype |-> Unset] \in ResourceRow
    BY DEF ResourceRow
  <2>3. QED
    BY <2>1, <2>2 DEF CatalogueOK
<1>7. PoliciesOK
  <2>1. policies = {} /\ serial = 0
    BY DEF Init
  <2>2. MaxPolicies \in Nat
    BY PepAssumption
  <2>3. QED
    BY <2>1, <2>2 DEF PoliciesOK
<1>8. RulesInOrder
  BY DEF Init, RulesInOrder
<1>9. QED
  BY <1>5, <1>6, <1>7, <1>8 DEF PepInv, TypeOK

\* Every step keeps it: one step of the proof per action.
LEMMA NextPepInv == PepInv /\ [Next]_vars => PepInv'
<1> SUFFICES ASSUME PepInv, [Next]_vars PROVE PepInv'
  OBVIOUS
<1> USE DEF Admin, Caller
<1>1. ASSUME NEW by \in Users, NEW r \in Resources, NEW t \in Types,
             ResourceCreate(by, r, t) \/ ResourceUpdate(by, r, t)
      PROVE  PepInv'
  <2>1. catalogue \in [Resources -> ResourceRow] /\ catalogue[r].id = r
    BY DEF PepInv, TypeOK, CatalogueOK
  <2>2. CASE ResourceCreate(by, r, t)
    <3> DEFINE row == [id |-> r, status |-> "present", rtype |-> t]
    <3>1. row \in ResourceRow /\ row.id = r /\ row.status = "present"
      BY DEF ResourceRow
    <3>2. catalogue' = [catalogue EXCEPT ![r] = row] /\ UNCHANGED <<accounts, policies, serial>>
      BY <2>2 DEF ResourceCreate
    <3> HIDE DEF row
    <3>3. QED
      BY <3>1, <3>2, PresentResource
  <2>3. CASE ResourceUpdate(by, r, t)
    <3> DEFINE row == [catalogue[r] EXCEPT !.rtype = t]
    <3>1. r \in Present(catalogue)
      BY <2>3 DEF ResourceUpdate
    <3>2. row \in ResourceRow /\ row.id = r /\ row.status = "present"
      BY <2>1, <3>1 DEF ResourceRow, Present
    <3>3. catalogue' = [catalogue EXCEPT ![r] = row] /\ UNCHANGED <<accounts, policies, serial>>
      BY <2>3 DEF ResourceUpdate
    <3> HIDE DEF row
    <3>4. QED
      BY <3>2, <3>3, PresentResource
  <2>4. QED
    BY <1>1, <2>2, <2>3
<1>2. ASSUME NEW by \in Users, NEW r \in Resources, ResourceDelete(by, r)
      PROVE  PepInv'
  BY <1>2, ResourceDeleteKeepsOrder
<1>3. ASSUME NEW by \in Users, NEW d \in Drafts, PolicyCreate(by, d)
      PROVE  PepInv'
  BY <1>3, InsertKeepsOrder, PepAssumption DEF PolicyCreate
<1>4. ASSUME NEW by \in Users, NEW p \in policies, NEW rule \in Drafts \cup {Switched(p)},
             PolicyUpdate(by, p, rule)
      PROVE  PepInv'
  BY <1>4, UpdateKeepsOrder, PepAssumption
<1>5. ASSUME NEW by \in Users, NEW p \in policies, PolicyDelete(by, p)
      PROVE  PepInv'
  <2>1. policies' = policies \ {p} /\ UNCHANGED <<accounts, catalogue, serial>>
    BY <1>5 DEF PolicyDelete
  <2>2. AccountsOK' /\ CatalogueOK'
    BY <2>1 DEF PepInv, TypeOK, AccountsOK, CatalogueOK, Present
  <2>3. PoliciesOK'
    BY <2>1 DEF PepInv, TypeOK, PoliciesOK
  <2>4. \A q \in policies' : RefersToRows(q)'
    BY <2>1 DEF PepInv, RulesInOrder, RefersToRows, Present
  <2>5. \A q1, q2 \in policies' : q1.key = q2.key \/ q1.name = q2.name => q1 = q2
    BY <2>1 DEF PepInv, RulesInOrder
  <2>6. QED
    BY <2>2, <2>3, <2>4, <2>5 DEF PepInv, TypeOK, RulesInOrder
<1>6. ASSUME NEW by \in Users, NEW s \in Users, NEW r \in Resources, NEW a \in Actions,
             GrantAccess(by, s, r, a)
      PROVE  PepInv'
  <2>1. GrantRule(s, r, a) \in Rule
    BY GrantRuleIsRule
  <2>2. InsertPolicy(GrantRule(s, r, a))
    BY <1>6 DEF GrantAccess
  <2>3. QED
    BY <2>1, <2>2, InsertKeepsOrder
<1>7. ASSUME NEW by \in Users, NEW u \in Users, NEW profile \in Profiles,
             UserCreate(by, u, profile)
      PROVE  PepInv'
  <2> DEFINE row == IF Fit(profile) THEN Account(u, "present", TRUE, TRUE, profile)
                                    ELSE Account(u, "present", TRUE, FALSE, NoProfile)
  <2>1. accounts' = [accounts EXCEPT ![u] = row] /\ UNCHANGED <<catalogue, policies, serial>>
    BY <1>7 DEF UserCreate
  <2>2. row \in AccountRow
    BY AccountIsRow, GivenProfiles, PepAssumption
  <2>3. row.id = u /\ row.status = "present"
    BY DEF Account
  <2> HIDE DEF row
  <2>4. QED
    BY <2>1, <2>2, <2>3, PresentAccount
<1>8. ASSUME NEW by \in Users, NEW u \in Users, NEW active \in BOOLEAN,
             NEW profile \in Profiles, UserUpdate(by, u, active, profile)
      PROVE  PepInv'
  <2> DEFINE row == IF accounts[u].attrs /\ Fit(profile)
                    THEN [accounts[u] EXCEPT !.active = active, !.role = profile.role,
                                             !.department = profile.department,
                                             !.clearance = profile.clearance]
                    ELSE [accounts[u] EXCEPT !.active = active]
  <2>1. accounts' = [accounts EXCEPT ![u] = row] /\ UNCHANGED <<catalogue, policies, serial>>
    BY <1>8 DEF UserUpdate
  <2>2. accounts[u] \in AccountRow /\ accounts[u].id = u /\ accounts[u].status = "present"
    BY <1>8 DEF UserUpdate, Present, PepInv, TypeOK, AccountsOK
  <2>3. profile.department \in Departments
    BY PepAssumption
  <2>4. row \in AccountRow /\ row.id = u /\ row.status = "present"
    BY <2>2, <2>3 DEF AccountRow, Fit
  <2> HIDE DEF row
  <2>5. QED
    BY <2>1, <2>4, PresentAccount
<1>9. ASSUME NEW by \in Users, NEW u \in Users, UserDelete(by, u)
      PROVE  PepInv'
  BY <1>9, UserDeleteKeepsOrder
<1>10. ASSUME NEW u \in Users, LockChanges(u)
       PROVE  PepInv'
  <2> DEFINE row == [accounts[u] EXCEPT !.locked = ~accounts[u].locked]
  <2>1. accounts' = [accounts EXCEPT ![u] = row] /\ UNCHANGED <<catalogue, policies, serial>>
    BY <1>10 DEF LockChanges
  <2>2. accounts[u] \in AccountRow /\ accounts[u].id = u /\ accounts[u].status = "present"
    BY <1>10 DEF LockChanges, Present, PepInv, TypeOK, AccountsOK
  <2>3. row \in AccountRow /\ row.id = u /\ row.status = "present"
    BY <2>2 DEF AccountRow
  <2> HIDE DEF row
  <2>4. QED
    BY <2>1, <2>3, PresentAccount
<1>11. CASE UNCHANGED vars
  <2>1. AccountsOK' /\ CatalogueOK'
    BY <1>11 DEF vars, PepInv, TypeOK, AccountsOK, CatalogueOK, Present
  <2>2. Present(accounts)' = Present(accounts) /\ Present(catalogue)' = Present(catalogue)
    BY <1>11 DEF vars, Present
  <2>3. QED
    BY <1>11, <2>1, <2>2, MoreRowsKeepOrder DEF vars
<1>12. QED
  BY <1>1, <1>2, <1>3, <1>4, <1>5, <1>6, <1>7, <1>8, <1>9, <1>10, <1>11
  DEF Next, Administer

\* Rows are of their types, rules can be told apart and refer to rows
\* that exist, in every reachable state (TypeOK and RulesInOrder).
THEOREM RulesStayInOrder == Spec => [](TypeOK /\ RulesInOrder)
<1>1. Init => PepInv
  BY InitPepInv
<1>2. PepInv /\ [Next]_vars => PepInv'
  BY NextPepInv
<1>3. PepInv => TypeOK /\ RulesInOrder
  BY DEF PepInv
<1>4. QED
  BY <1>1, <1>2, <1>3, PTL DEF Spec

(* Rows have the types of their columns, and the sequence of policies is   *)
(* ahead of the ids it gave out.                                           *)
THEOREM PepTypeCorrect == Spec => []TypeOK
  BY RulesStayInOrder, PTL

-----------------------------------------------------------------------------
(* The rules as PDP::evaluate() reads them.                                *)

\* The rules are rows that createPolicy() may have written, and finitely many.
LEMMA RulesAreTable ==
  ASSUME PepInv
  PROVE  Table(policies)
<1>1. IsFiniteSet(policies)
  <2> DEFINE f == [p \in policies |-> p.key]
  <2>0. \A p \in policies : p.key \in 1..MaxPolicies
    BY DEF PepInv, TypeOK, PoliciesOK, PolicyRow
  <2>1. f \in [policies -> 1..MaxPolicies]
    BY <2>0
  <2>2. \A p, q \in policies : f[p] = f[q] => p = q
    BY DEF PepInv, RulesInOrder
  <2> HIDE DEF f
  <2>3. f \in Injection(policies, 1..MaxPolicies)
    BY <2>1, <2>2, Fun_IsInj
  <2>4. IsFiniteSet(1..MaxPolicies)
    <3>1. MaxPolicies \in Nat
      BY PepAssumption, Zenon
    <3>2. QED
      BY <3>1, FS_Interval
  <2>5. QED
    BY <2>3, <2>4, FS_Injection
<1>2. ASSUME NEW p \in policies PROVE Stored(p)
  <2>1. p \in PolicyRow
    BY DEF PepInv, TypeOK, PoliciesOK
  <2>2. Columns \subseteq DOMAIN p /\ p.priority \in Int
    BY <2>1 DEF PolicyRow, Columns
  <2>3. Text(p.role) /\ Level(p.clearance)
    <3>1. p.role \in Roles \cup {Unset} /\ p.clearance \in (0..5) \cup {Unset}
      BY <2>1 DEF PolicyRow
    <3>2. Text(p.role)
      BY <3>1 DEF Text, Roles
    <3>3. Level(p.clearance)
      BY <3>1 DEF Level
    <3>4. QED
      BY <3>2, <3>3
  <2>4. Text(p.department)
    BY <2>1 DEF PolicyRow, Text, Required
  <2>5. Text(p.rtype)
    <3>1. "" \notin Types
      BY PepAssumption, Zenon
    <3>2. QED
      BY <2>1, <3>1 DEF PolicyRow, Text
  <2>6. Id(p.subject) /\ Id(p.resource)
    <3>1. 0 \notin Users \cup Resources
      BY PepAssumption, Zenon
    <3>2. p.subject \in Users \cup {Unset} /\ p.resource \in Resources \cup {Unset}
      BY <2>1 DEF PolicyRow
    <3>3. QED
      BY <3>1, <3>2 DEF Id
  <2>7. QED
    BY <2>2, <2>3, <2>4, <2>5, <2>6 DEF Stored, Conditions
<1>3. QED
  BY <1>1, <1>2 DEF Table

\* Whom the server may permit something can send requests.
LEMMA PermittedIsCaller ==
  ASSUME PepInv, NEW u \in Users, MayUse(accounts[u])
  PROVE  Caller(u)
  BY DEF PepInv, TypeOK, AccountsOK, MayUse, Caller

(* ACCESS_CHECK over every table of rules that administration can leave:   *)
(* PDP::evaluate(), on records in whatever order they are read, answers ok *)
(* exactly if Can says so.  What is proved of Access below is therefore    *)
(* true of the answers of the server.                                      *)
THEOREM AccessIsAsRuled == Spec => []AccessIsSettled
<1>1. ASSUME PepInv, NEW u \in Users, NEW r \in Resources, NEW a \in Actions
      PROVE  IF Can(u, r, a) THEN AccessCheck(u, r, a) = {"OK"}
                             ELSE "OK" \notin AccessCheck(u, r, a)
  <2> DEFINE ds == ServerDecisions(accounts[u], catalogue[r], a, policies)
             results == {IF d.allowed THEN "OK" ELSE "ACCESS_DENIED" : d \in ds}
  <2>1. /\ accounts[u].active \in BOOLEAN /\ accounts[u].locked \in BOOLEAN
        /\ accounts[u].attrs \in BOOLEAN /\ accounts[u].clearance \in Nat
    BY <1>1 DEF PepInv, TypeOK, AccountsOK, AccountRow
  <2>2. Table(policies)
    BY <1>1, RulesAreTable
  <2>3. \A d \in ds : d.allowed <=> Allowed(accounts[u], catalogue[r], a, policies)
    BY <2>1, <2>2, ServerPermits
  <2>4. ds # {}
    BY <2>2, ServerAnswers
  <2> HIDE DEF ds
  <2>5. CASE Can(u, r, a)
    <3>1. r \in Present(catalogue) /\ Allowed(accounts[u], catalogue[r], a, policies)
      BY <2>5 DEF Can
    <3>2. Caller(u)
      BY <1>1, <3>1, PermittedIsCaller DEF Allowed
    <3>3. AccessCheck(u, r, a) = results
      BY <3>1, <3>2, Zenon DEF AccessCheck, ds
    <3>4. results = {"OK"}
      BY <2>3, <2>4, <3>1
    <3>5. QED
      BY <2>5, <3>3, <3>4
  <2>6. CASE ~Can(u, r, a)
    <3>1. CASE ~Caller(u)
      <4>1. AccessCheck(u, r, a) = {"TOKEN_INVALID"}
        BY <3>1, Zenon DEF AccessCheck
      <4>2. QED
        BY <2>6, <4>1
    <3>2. CASE Caller(u) /\ r \notin Present(catalogue)
      <4>1. AccessCheck(u, r, a) = {"RESOURCE_NOT_FOUND"}
        BY <3>2, Zenon DEF AccessCheck
      <4>2. QED
        BY <2>6, <4>1
    <3>3. CASE Caller(u) /\ r \in Present(catalogue)
      <4>1. AccessCheck(u, r, a) = results
        BY <3>3, Zenon DEF AccessCheck, ds
      <4>2. ~Allowed(accounts[u], catalogue[r], a, policies)
        BY <2>6, <3>3 DEF Can
      <4>3. "OK" \notin results
        BY <2>3, <4>2
      <4>4. QED
        BY <2>6, <4>1, <4>3
    <3>4. QED
      BY <3>1, <3>2, <3>3
  <2>7. QED
    BY <2>5, <2>6
<1>2. PepInv => AccessIsSettled
  BY <1>1 DEF AccessIsSettled
<1>3. Spec => []PepInv
  BY InitPepInv, NextPepInv, PTL DEF Spec
<1>4. QED
  BY <1>2, <1>3, PTL

-----------------------------------------------------------------------------
(* What follows for access.                                                *)

\* Where every rule of S grants what a rule of T grants, S permits no more.
LEMMA FewerRulesPermitLess ==
  ASSUME NEW S, NEW T, NEW s, NEW r, NEW a,
         \A p \in S : Grants(p, s, r, a) => \E q \in T : Grants(q, s, r, a),
         Allowed(s, r, a, S)
  PROVE  Allowed(s, r, a, T)
  BY DEF Allowed

\* Deleting a rule or switching it off gives nobody a right.
LEMMA RevocationStep ==
  ASSUME PepInv, NEW by, NEW p \in policies,
         PolicyDelete(by, p) \/ (p.enabled /\ PolicyUpdate(by, p, Switched(p)))
  PROVE  Access' \subseteq Access
<1>1. UNCHANGED <<accounts, catalogue>>
  BY DEF PolicyDelete, PolicyUpdate
<1>2. ASSUME NEW s, NEW r, NEW a, NEW q \in policies', Grants(q, s, r, a)
      PROVE  q \in policies
  <2>1. CASE PolicyDelete(by, p)
    BY <1>2, <2>1 DEF PolicyDelete
  <2>2. CASE p.enabled /\ PolicyUpdate(by, p, Switched(p))
    <3> DEFINE new == RowOf(Switched(p), p.key)
    <3>1. policies' = (policies \ {p}) \cup {new}
      BY <2>2 DEF PolicyUpdate
    <3>2. p \in PolicyRow /\ p.enabled
      BY <2>2 DEF PepInv, TypeOK, PoliciesOK
    <3>3. new.enabled = ~p.enabled
      <4>1. new = [p EXCEPT !.enabled = ~p.enabled]
        BY <3>2, SwitchedRow
      <4>2. [p EXCEPT !.enabled = ~p.enabled].enabled = ~p.enabled
        BY <3>2 DEF PolicyRow
      <4>3. QED
        BY <4>1, <4>2
    <3>4. q.enabled
      BY <1>2 DEF Grants
    <3> HIDE DEF new
    <3>5. q # new
      BY <3>2, <3>3, <3>4
    <3>6. QED
      BY <3>1, <3>5
  <2>3. QED
    BY <2>1, <2>2
<1>3. ASSUME NEW u \in Users, NEW r \in Resources, NEW a \in Actions, Can(u, r, a)'
      PROVE  Can(u, r, a)
  <2>1. r \in Present(catalogue) /\ Allowed(accounts[u], catalogue[r], a, policies')
    BY <1>1, <1>3 DEF Can, Present
  <2>2. Allowed(accounts[u], catalogue[r], a, policies)
    BY <1>2, <2>1 DEF Allowed
  <2>3. QED
    BY <2>1, <2>2 DEF Can
<1>4. QED
  BY <1>3 DEF Access

\* REVOKE_ACCESS, POLICY_DELETE and switching a rule off never widen access.
THEOREM RevocationIsMonotone == Spec => RevokeNeverWidens
<1>1. PepInv /\ [Next]_vars =>
        [\A by \in Users, p \in policies :
           PolicyDelete(by, p) \/ (p.enabled /\ PolicyUpdate(by, p, Switched(p)))
             => Access' \subseteq Access]_vars
  BY RevocationStep
<1>2. QED
  BY <1>1, InitPepInv, NextPepInv, PTL DEF Spec, RevokeNeverWidens

\* A grant gives access to its subject and its resource alone.
LEMMA GrantStep ==
  ASSUME PepInv, NEW by \in Users, NEW s \in Users, NEW r \in Resources,
         NEW a \in Actions, GrantAccess(by, s, r, a)
  PROVE  /\ Access' \ Access \subseteq {s} \X {r} \X Actions
         /\ MayUse(accounts[s]) => <<s, r, a>> \in Access'
<1> DEFINE new == RowOf(GrantRule(s, r, a), serial + 1)
<1>1. /\ UNCHANGED <<accounts, catalogue>> /\ policies' = policies \cup {new}
      /\ s \in Present(accounts) /\ r \in Present(catalogue)
  BY DEF GrantAccess, InsertPolicy
<1>2. new.subject = s /\ new.resource = r
  BY DEF RowOf, GrantRule
<1>3. new.enabled /\ new.action = a
  BY DEF RowOf, GrantRule
<1>4. new.role = Unset /\ new.department = Unset /\ new.clearance = Unset /\ new.rtype = Unset
  BY DEF RowOf, GrantRule
<1>5. s # Unset /\ r # Unset
  BY PepAssumption
<1> HIDE DEF new
<1>6. ASSUME NEW u \in Users, NEW x \in Resources, NEW b \in Actions,
             Can(u, x, b)', ~Can(u, x, b)
      PROVE  u = s /\ x = r
  <2>1. x \in Present(catalogue) /\ Allowed(accounts[u], catalogue[x], b, policies')
    BY <1>1, <1>6 DEF Can, Present
  <2>2. ~Allowed(accounts[u], catalogue[x], b, policies)
    BY <1>6, <2>1 DEF Can
  <2>3. Grants(new, accounts[u], catalogue[x], b)
    BY <1>1, <2>1, <2>2 DEF Allowed
  <2>4. accounts[u].id = s /\ catalogue[x].id = r
    BY <1>2, <1>5, <2>3 DEF Grants, PolicyMatches
  <2>5. QED
    BY <2>4 DEF PepInv, TypeOK, AccountsOK, CatalogueOK
<1>7. ASSUME MayUse(accounts[s]) PROVE Can(s, r, a)'
  <2>1. accounts[s].id = s /\ catalogue[r].id = r
    BY DEF PepInv, TypeOK, AccountsOK, CatalogueOK
  <2>2. Grants(new, accounts[s], catalogue[r], a)
    BY <1>2, <1>3, <1>4, <2>1 DEF Grants, PolicyMatches
  <2>3. Allowed(accounts[s], catalogue[r], a, policies')
    BY <1>1, <1>7, <2>2 DEF Allowed
  <2>4. QED
    BY <1>1, <2>3 DEF Can, Present
<1>8. Access' \ Access \subseteq {s} \X {r} \X Actions
  BY <1>6 DEF Access
<1>9. MayUse(accounts[s]) => <<s, r, a>> \in Access'
  BY <1>7 DEF Access
<1>10. QED
  BY <1>8, <1>9

\* GRANT_ACCESS gives what it names and nothing else.
THEOREM GrantsAreScoped == Spec => GrantIsScoped
<1>1. PepInv /\ [Next]_vars =>
        [\A by, s \in Users, r \in Resources, a \in Actions :
          GrantAccess(by, s, r, a) =>
             /\ Access' \ Access \subseteq {s} \X {r} \X Actions
             /\ MayUse(accounts[s]) => <<s, r, a>> \in Access']_vars
  BY GrantStep
<1>2. QED
  BY <1>1, InitPepInv, NextPepInv, PTL DEF Spec, GrantIsScoped

\* Whoever deletes a user is an administrator afterwards.
THEOREM AnAdminSurvives == Spec => DeletionKeepsAnAdmin
<1>1. ASSUME PepInv, NEW by \in Users, NEW u \in Users, UserDelete(by, u)
      PROVE  \E w \in Users : Admin(w)'
  <2>1. /\ accounts \in [Users -> AccountRow] /\ by # u /\ Admin(by)
        /\ accounts' = [accounts EXCEPT ![u] = Account(u, "deleted", FALSE, FALSE, NoProfile)]
    BY <1>1 DEF UserDelete, PepInv, TypeOK, AccountsOK
  <2>2. accounts'[by] = accounts[by] /\ DOMAIN accounts' = Users
    BY <2>1
  <2>3. Admin(by)'
    BY <2>1, <2>2 DEF Admin, Caller, Present
  <2>4. QED
    BY <2>3
<1>2. PepInv /\ [Next]_vars =>
        [\A by, u \in Users : UserDelete(by, u) => \E w \in Users : Admin(w)']_vars
  BY <1>1
<1>3. QED
  BY <1>2, InitPepInv, NextPepInv, PTL DEF Spec, DeletionKeepsAnAdmin

-----------------------------------------------------------------------------
(* The journal.                                                            *)

\* A record and an event, whatever they tell of.
IsRecord(x) == \E n, actor, event, target :
                  x = [n |-> n, actor |-> actor, event |-> event, target |-> target]

IsEvent(x) == \E by, event, target, code :
                 x = [by |-> by, event |-> event, target |-> target, code |-> code]

\* A sequence over whatever set.
IsList(s) == \E S : s \in Seq(S)

\* An event that calls for a record.
Calls(e) == e.event \in ChangeEvents \cup {"AUTH_SUCCESS"} /\ e.code = "OK"

\* The parts of the invariant, of a journal log that tells of the events evs.
Shape(log, evs) == /\ IsList(log) /\ IsList(evs)
                   /\ \A i \in DOMAIN log : IsRecord(log[i])
                   /\ \A i \in DOMAIN evs : IsEvent(evs[i])

\* The records stand in the order of the events.
Ordered(log) == \A i, j \in DOMAIN log : i < j => log[i].n < log[j].n

\* A record tells what was done to what,
Tells(log, evs) == \A i \in DOMAIN log : /\ log[i].n \in 1..Len(evs)
                                         /\ log[i].event = evs[log[i].n].event
                                         /\ log[i].target = evs[log[i].n].target

\* and by whom, as long as he is in the table of the accounts.
Attributed(log, evs, table) ==
    \A i \in DOMAIN log :
       log[i].actor = (IF evs[log[i].n].by \in Present(table) THEN evs[log[i].n].by ELSE Unset)

\* Who did something has been in the table, so his id never comes back.
Known(evs, table) == \A k \in DOMAIN evs : /\ evs[k].by \in Users
                                           /\ table[evs[k].by].status # "unborn"

\* The events that should have a record and have none.
Missing(log, evs) == {k \in DOMAIN evs : Calls(evs[k]) /\ k \notin {log[i].n : i \in DOMAIN log}}

\* There are not more of them than records were lost.
Counted(log, evs, lost) == /\ lost \in Nat
                           /\ IsFiniteSet(Missing(log, evs))
                           /\ Cardinality(Missing(log, evs)) <= lost

\* The inductive invariant of the journal.
AuditInv == /\ PepInv
            /\ Shape(audit, happened)
            /\ Ordered(audit)
            /\ Tells(audit, happened)
            /\ Attributed(audit, happened, accounts)
            /\ Known(happened, accounts)
            /\ Counted(audit, happened, faults)

-----------------------------------------------------------------------------
(* What a step can do.                                                     *)

\* An event by `by`, told after log, lost at the price of a fault, or not to be told.
EventTold(log, by, event, target, code) ==
    /\ by \in Present(accounts) /\ by \in Users
    /\ happened' = Append(happened, [by |-> by, event |-> event, target |-> target,
                                     code |-> code])
    /\ \/ /\ audit' = Append(log, [n |-> Len(happened) + 1, actor |-> by, event |-> event,
                                   target |-> target])
          /\ faults' = faults
       \/ audit' = log /\ faults' = faults + 1
       \/ audit' = log /\ faults' = faults
          /\ ~Calls([by |-> by, event |-> event, target |-> target, code |-> code])

\* The accounts of S that have been there stay what they are.
StatusKept(S) == \A w \in S : /\ w \in Users
                              /\ accounts[w].status # "unborn"
                                   => accounts'[w].status = accounts[w].status

\* Nothing is told; an event is told; u is deleted, and that is told.
Quiet == UNCHANGED <<audit, happened, faults>> /\ StatusKept(Users)

Adds == /\ \E by, event, target, code : EventTold(audit, by, event, target, code)
        /\ StatusKept(Users)

Removes(u) == /\ u \in Users
              /\ \E by, event, target, code :
                    by # u /\ EventTold(WithoutActor(u), by, event, target, code)
              /\ StatusKept(Users \ {u})
              /\ accounts'[u].status = "deleted"

\* Log() and Unlogged() are what EventTold describes.
LEMMA LogRecords ==
  ASSUME NEW by, NEW event, NEW target, by \in Users, by \in Present(accounts),
         Log(by, event, target)
  PROVE  \E e, t, c : EventTold(audit, by, e, t, c)
<1>1. EventTold(audit, by, event, target, "OK")
  BY DEF Log, Happens, Write, EventTold
<1>2. QED
  BY <1>1

\* An event that is not OK, or no change, may be left out.
LEMMA UnloggedRecords ==
  ASSUME NEW by, NEW event, NEW target, NEW code, by \in Users, by \in Present(accounts),
         Unlogged(by, event, target, code),
         code # "OK" \/ event \notin ChangeEvents \cup {"AUTH_SUCCESS"}
  PROVE  \E e, t, c : EventTold(audit, by, e, t, c)
<1>1. ~Calls([by |-> by, event |-> event, target |-> target, code |-> code])
  BY DEF Calls
<1>2. EventTold(audit, by, event, target, code)
  BY <1>1 DEF Unlogged, Happens, EventTold
<1>3. QED
  BY <1>2

\* Who administers is there.
LEMMA AdminIsPresent ==
  ASSUME PepInv, NEW by, Admin(by)
  PROVE  by \in Users /\ by \in Present(accounts)
  BY DEF Admin, Caller, Present, PepInv, TypeOK, AccountsOK

\* A change other than the creation of a user.
LEMMA ChangesStep ==
  ASSUME PepInv, NEW by \in Users, Changes(by)
  PROVE  (Adds \/ \E u \in Users : Removes(u)) /\ [Next]_vars
<1> DEFINE Kept == UNCHANGED accounts
<1>0. Kept => StatusKept(Users)
  BY DEF StatusKept
<1>1. CASE \E r \in Resources, t \in Types :
             \/ ResourceCreate(by, r, t) /\ Log(by, "RESOURCE_CREATE", r)
             \/ ResourceUpdate(by, r, t) /\ Log(by, "RESOURCE_UPDATE", r)
  <2>1. PICK r \in Resources, t \in Types :
             \/ ResourceCreate(by, r, t) /\ Log(by, "RESOURCE_CREATE", r)
             \/ ResourceUpdate(by, r, t) /\ Log(by, "RESOURCE_UPDATE", r)
    BY <1>1
  <2>2. Admin(by) /\ Kept
    BY <2>1 DEF ResourceCreate, ResourceUpdate
  <2>3. \E e, t2, c : EventTold(audit, by, e, t2, c)
    BY <2>1, <2>2, AdminIsPresent, LogRecords
  <2>4. QED
    BY <2>1, <2>2, <2>3, <1>0 DEF Adds, Next, Administer
<1>2. CASE \E r \in Resources : ResourceDelete(by, r) /\ Log(by, "RESOURCE_DELETE", r)
  <2>1. PICK r \in Resources : ResourceDelete(by, r) /\ Log(by, "RESOURCE_DELETE", r)
    BY <1>2
  <2>2. Admin(by) /\ Kept
    BY <2>1 DEF ResourceDelete
  <2>3. \E e, t, c : EventTold(audit, by, e, t, c)
    BY <2>1, <2>2, AdminIsPresent, LogRecords
  <2>4. QED
    BY <2>1, <2>2, <2>3, <1>0 DEF Adds, Next, Administer
<1>3. CASE \E d \in Drafts : PolicyCreate(by, d) /\ Log(by, "POLICY_CREATE", serial')
  <2>1. PICK d \in Drafts : PolicyCreate(by, d) /\ Log(by, "POLICY_CREATE", serial')
    BY <1>3
  <2>2. Admin(by) /\ Kept
    BY <2>1 DEF PolicyCreate, InsertPolicy
  <2>3. \E e, t, c : EventTold(audit, by, e, t, c)
    BY <2>1, <2>2, AdminIsPresent, LogRecords
  <2>4. QED
    BY <2>1, <2>2, <2>3, <1>0 DEF Adds, Next, Administer
<1>4. CASE \E s \in Users, r \in Resources, a \in Actions :
             GrantAccess(by, s, r, a) /\ Log(by, "POLICY_CREATE", serial')
  <2>1. PICK s \in Users, r \in Resources, a \in Actions :
             GrantAccess(by, s, r, a) /\ Log(by, "POLICY_CREATE", serial')
    BY <1>4
  <2>2. Admin(by) /\ Kept
    BY <2>1 DEF GrantAccess, InsertPolicy
  <2>3. \E e, t, c : EventTold(audit, by, e, t, c)
    BY <2>1, <2>2, AdminIsPresent, LogRecords
  <2>4. QED
    BY <2>1, <2>2, <2>3, <1>0 DEF Adds, Next, Administer
<1>5. CASE \E p \in policies :
             \/ \E rule \in Drafts \cup {Switched(p)} :
                   PolicyUpdate(by, p, rule) /\ Log(by, "POLICY_UPDATE", p.key)
             \/ PolicyDelete(by, p) /\ Log(by, "POLICY_DELETE", p.key)
  <2>1. PICK p \in policies :
             \/ \E rule \in Drafts \cup {Switched(p)} :
                   PolicyUpdate(by, p, rule) /\ Log(by, "POLICY_UPDATE", p.key)
             \/ PolicyDelete(by, p) /\ Log(by, "POLICY_DELETE", p.key)
    BY <1>5
  <2>2. Admin(by) /\ Kept
    BY <2>1 DEF PolicyUpdate, PolicyDelete
  <2>3. \E e, t, c : EventTold(audit, by, e, t, c)
    BY <2>1, <2>2, AdminIsPresent, LogRecords
  <2>4. QED
    BY <2>1, <2>2, <2>3, <1>0 DEF Adds, Next, Administer
<1>6. CASE \E u \in Users, active \in BOOLEAN, profile \in Profiles :
             UserUpdate(by, u, active, profile) /\ Log(by, "USER_UPDATE", u)
  <2>1. PICK u \in Users, active \in BOOLEAN, profile \in Profiles :
             UserUpdate(by, u, active, profile) /\ Log(by, "USER_UPDATE", u)
    BY <1>6
  <2>2. Admin(by)
    BY <2>1 DEF UserUpdate
  <2>3. \E e, t, c : EventTold(audit, by, e, t, c)
    BY <2>1, <2>2, AdminIsPresent, LogRecords
  <2>4. accounts \in [Users -> AccountRow]
    BY DEF PepInv, TypeOK, AccountsOK
  <2>5. \A w \in Users : accounts'[w].status = accounts[w].status
    BY <2>1, <2>4 DEF UserUpdate, AccountRow
  <2>6. QED
    BY <2>1, <2>3, <2>5 DEF Adds, StatusKept, Next, Administer
<1>7. CASE \E u \in Users : /\ UserDelete(by, u)
                            /\ Happens(by, "USER_DELETE", u, "OK")
                            /\ Write(WithoutActor(u), by, "USER_DELETE", u)
  <2>1. PICK u \in Users : /\ UserDelete(by, u)
                           /\ Happens(by, "USER_DELETE", u, "OK")
                           /\ Write(WithoutActor(u), by, "USER_DELETE", u)
    BY <1>7
  <2>2. Admin(by) /\ by # u
    BY <2>1 DEF UserDelete
  <2>3. EventTold(WithoutActor(u), by, "USER_DELETE", u, "OK")
    BY <2>1, <2>2, AdminIsPresent DEF Happens, Write, EventTold
  <2>4. accounts \in [Users -> AccountRow]
    BY DEF PepInv, TypeOK, AccountsOK
  <2>5. accounts' = [accounts EXCEPT ![u] = Account(u, "deleted", FALSE, FALSE, NoProfile)]
    BY <2>1 DEF UserDelete
  <2>6. accounts'[u].status = "deleted"
    BY <2>4, <2>5 DEF Account
  <2>7. StatusKept(Users \ {u})
    BY <2>4, <2>5 DEF StatusKept
  <2>8. QED
    BY <2>1, <2>2, <2>3, <2>6, <2>7 DEF Removes, Next, Administer
<1>8. QED
  BY <1>1, <1>2, <1>3, <1>4, <1>5, <1>6, <1>7 DEF Changes

\* Every step is quiet, adds an event, or removes a user and adds that.
LEMMA AuditStep ==
  ASSUME PepInv, AuditNext
  PROVE  (Quiet \/ Adds \/ \E u \in Users : Removes(u)) /\ [Next]_vars
<1>0. accounts \in [Users -> AccountRow]
  BY DEF PepInv, TypeOK, AccountsOK
<1>k. UNCHANGED vars => StatusKept(Users)
  BY DEF StatusKept, vars
<1>1. CASE \E by \in Users : Changes(by)
  BY <1>1, ChangesStep
<1>2. CASE \E by \in Users : CreatesUser(by)
  <2>1. PICK by \in Users, u \in Users, profile \in Profiles :
           /\ UserCreate(by, u, profile)
           /\ \/ Fit(profile) /\ Log(by, "USER_CREATE", u)
              \/ ~Fit(profile) /\ Unlogged(by, "USER_CREATE", u, "INTERNAL_ERROR")
    BY <1>2 DEF CreatesUser
  <2>2. Admin(by) /\ accounts[u].status = "unborn"
    BY <2>1 DEF UserCreate
  <2>3. \E e, t, c : EventTold(audit, by, e, t, c)
    BY <2>1, <2>2, AdminIsPresent, LogRecords, UnloggedRecords
  <2>4. \A w \in Users : w # u => accounts'[w] = accounts[w]
    BY <2>1, <1>0 DEF UserCreate
  <2>5. StatusKept(Users)
    BY <2>2, <2>4 DEF StatusKept
  <2>6. QED
    BY <2>1, <2>3, <2>5 DEF Adds, Next, Administer
<1>3. CASE \E by \in Users : DeletesNothing(by)
  <2>1. PICK by \in Users : DeletesNothing(by)
    BY <1>3
  <2>2. Admin(by) /\ UNCHANGED vars /\ \E e, t : Log(by, e, t)
    BY <2>1 DEF DeletesNothing
  <2>3. \E e, t, c : EventTold(audit, by, e, t, c)
    BY <2>2, AdminIsPresent, LogRecords
  <2>4. QED
    BY <2>2, <2>3, <1>k DEF Adds
<1>4. CASE \E u \in Users : SignIn(u)
  <2>1. PICK u \in Users : SignIn(u)
    BY <1>4
  <2>2. \E e, t, c : EventTold(audit, u, e, t, c)
    <3>1. CASE Log(u, "AUTH_SUCCESS", u)
      BY <2>1, <3>1, LogRecords DEF SignIn
    <3>2. CASE Unlogged(u, "AUTH_FAILURE", u, "AUTH_DENIED")
      BY <2>1, <3>2, UnloggedRecords DEF SignIn
    <3>3. QED
      BY <2>1, <3>1, <3>2 DEF SignIn
  <2>3. QED
    BY <2>1, <2>2, <1>k DEF SignIn, Adds
<1>5. CASE \E u \in Users : SignOut(u)
  <2>1. PICK u \in Users : SignOut(u)
    BY <1>5
  <2>2. "LOGOUT" \notin ChangeEvents \cup {"AUTH_SUCCESS"}
    BY DEF ChangeEvents
  <2>3. \E e, t, c : EventTold(audit, u, e, t, c)
    BY <2>1, <2>2, UnloggedRecords DEF SignOut, Caller
  <2>4. QED
    BY <2>1, <2>3, <1>k DEF SignOut, Adds
<1>6. CASE \E u \in Users : Refused(u)
  <2>1. PICK u \in Users : Refused(u)
    BY <1>6
  <2>2. UNCHANGED vars /\ u \in Present(accounts)
        /\ \E t : Unlogged(u, "ACCESS_DENIED", t, "ACCESS_DENIED")
    BY <2>1 DEF Refused, Caller
  <2>3. \E e, t, c : EventTold(audit, u, e, t, c)
    BY <2>2, UnloggedRecords
  <2>4. QED
    BY <2>2, <2>3, <1>k DEF Adds
<1>7. CASE \E u \in Users : LockChanges(u) /\ UNCHANGED <<audit, happened, faults>>
  <2>1. PICK u \in Users : LockChanges(u) /\ UNCHANGED <<audit, happened, faults>>
    BY <1>7
  <2>2. \A w \in Users : accounts'[w].status = accounts[w].status
    BY <2>1, <1>0 DEF LockChanges, AccountRow
  <2>3. QED
    BY <2>1, <2>2 DEF Quiet, StatusKept, Next
<1>8. QED
  BY <1>1, <1>2, <1>3, <1>4, <1>5, <1>6, <1>7 DEF AuditNext
-----------------------------------------------------------------------------
(* What becomes of the parts of the invariant.                             *)

\* One more element on a list.
LEMMA AppendToList ==
  ASSUME NEW s, IsList(s), NEW e
  PROVE  /\ IsList(Append(s, e)) /\ Len(s) \in Nat /\ DOMAIN s = 1..Len(s)
         /\ Len(Append(s, e)) = Len(s) + 1 /\ DOMAIN Append(s, e) = 1..(Len(s) + 1)
         /\ \A i \in 1..Len(s) : Append(s, e)[i] = s[i]
         /\ Append(s, e)[Len(s) + 1] = e
<1>1. PICK S : s \in Seq(S)
  BY DEF IsList
<1>2. s \in Seq(S \cup {e}) /\ e \in S \cup {e}
  BY <1>1
<1>3. Append(s, e) \in Seq(S \cup {e})
  BY <1>2
<1>4. /\ Len(s) \in Nat /\ DOMAIN s = 1..Len(s) /\ Len(Append(s, e)) = Len(s) + 1
      /\ \A i \in 1..Len(s) : Append(s, e)[i] = s[i]
      /\ Append(s, e)[Len(s) + 1] = e
  BY <1>2
<1>5. QED
  BY <1>3, <1>4 DEF IsList

\* Lists of records that differ in their actors at most.
OnlyActorsDiffer(log, old) ==
    /\ DOMAIN log = DOMAIN old /\ Len(log) = Len(old)
    /\ \A i \in DOMAIN old : /\ log[i] = [old[i] EXCEPT !.actor = log[i].actor]
                             /\ log[i].n = old[i].n /\ log[i].event = old[i].event
                             /\ log[i].target = old[i].target

\* Deleting a user takes his name out of the records and nothing else.
LEMMA WithoutActorFacts ==
  ASSUME Shape(audit, happened), NEW u
  PROVE  /\ Shape(WithoutActor(u), happened)
         /\ OnlyActorsDiffer(WithoutActor(u), audit)
         /\ \A i \in DOMAIN audit : WithoutActor(u)[i].actor =
                                      (IF audit[i].actor = u THEN Unset ELSE audit[i].actor)
         /\ \A i \in DOMAIN audit : audit[i].actor # u => WithoutActor(u)[i] = audit[i]
<1>1. PICK S : audit \in Seq(S)
  BY DEF Shape, IsList
<1>2. Len(audit) \in Nat /\ DOMAIN audit = 1..Len(audit)
  BY <1>1
<1> DEFINE log == WithoutActor(u)
           Made(r) == [r EXCEPT !.actor = IF r.actor = u THEN Unset ELSE r.actor]
<1>3. log = [i \in 1..Len(audit) |-> Made(audit[i])]
  BY <1>2 DEF WithoutActor
<1>4. ASSUME NEW r, IsRecord(r)
      PROVE  /\ IsRecord(Made(r)) /\ Made(r) = [r EXCEPT !.actor = Made(r).actor]
             /\ Made(r).n = r.n /\ Made(r).event = r.event /\ Made(r).target = r.target
             /\ Made(r).actor = (IF r.actor = u THEN Unset ELSE r.actor)
             /\ r.actor # u => Made(r) = r
  <2>1. PICK n, actor, event, target :
          r = [n |-> n, actor |-> actor, event |-> event, target |-> target]
    BY <1>4 DEF IsRecord
  <2>2. Made(r) = [n |-> n, actor |-> (IF actor = u THEN Unset ELSE actor),
                   event |-> event, target |-> target]
    BY <2>1
  <2>3. IsRecord(Made(r))
    BY <2>2 DEF IsRecord
  <2>4. QED
    BY <2>1, <2>2, <2>3
<1> HIDE DEF Made
<1>5. log \in Seq({Made(audit[i]) : i \in 1..Len(audit)})
  BY <1>2, <1>3
<1>6. DOMAIN log = DOMAIN audit /\ Len(log) = Len(audit)
      /\ \A i \in DOMAIN audit : log[i] = Made(audit[i])
  BY <1>2, <1>3, <1>5
<1> HIDE DEF log
<1>7. \A i \in DOMAIN audit : IsRecord(audit[i])
  BY DEF Shape
<1>8. Shape(log, happened)
  BY <1>4, <1>5, <1>6, <1>7 DEF Shape, IsList
<1>9. \A i \in DOMAIN audit :
               /\ log[i] = [audit[i] EXCEPT !.actor = log[i].actor]
               /\ log[i].n = audit[i].n /\ log[i].event = audit[i].event
               /\ log[i].target = audit[i].target
               /\ log[i].actor = (IF audit[i].actor = u THEN Unset ELSE audit[i].actor)
               /\ audit[i].actor # u => log[i] = audit[i]
  BY <1>4, <1>6, <1>7
<1>10. OnlyActorsDiffer(log, audit)
  BY <1>6, <1>9 DEF OnlyActorsDiffer
<1>11. QED
  BY <1>8, <1>9, <1>10 DEF log

\* The events of log that have no record, after one more event.
LEMMA OneMoreEvent ==
  ASSUME NEW log, NEW evs, NEW lost, Shape(log, evs), Counted(log, evs, lost), NEW e, IsEvent(e)
  PROVE  /\ Shape(log, Append(evs, e))
         /\ Counted(log, Append(evs, e), lost + 1)
         /\ ~Calls(e) => Counted(log, Append(evs, e), lost)
<1> DEFINE more == Append(evs, e)
           old == Missing(log, evs)
<1>1. /\ IsList(more) /\ Len(evs) \in Nat /\ DOMAIN evs = 1..Len(evs)
      /\ DOMAIN more = 1..(Len(evs) + 1)
      /\ \A i \in 1..Len(evs) : more[i] = evs[i]
      /\ more[Len(evs) + 1] = e
  BY AppendToList DEF Shape
<1> HIDE DEF more
<1>2. Shape(log, more)
  BY <1>1 DEF Shape
<1>3. Missing(log, more) \subseteq old \cup {Len(evs) + 1}
  BY <1>1 DEF Missing
<1>4. ~Calls(e) => Missing(log, more) \subseteq old
  BY <1>1 DEF Missing
<1>5. lost \in Nat /\ IsFiniteSet(old) /\ Cardinality(old) <= lost
  BY DEF Counted
<1> HIDE DEF old
<1>6. /\ IsFiniteSet(old \cup {Len(evs) + 1})
      /\ Cardinality(old \cup {Len(evs) + 1}) <= lost + 1
  <2>1. Cardinality(old) \in Nat
    BY <1>5, FS_CardinalityType
  <2>2. /\ IsFiniteSet(old \cup {Len(evs) + 1})
        /\ Cardinality(old \cup {Len(evs) + 1}) =
             (IF Len(evs) + 1 \in old THEN Cardinality(old) ELSE Cardinality(old) + 1)
    BY <1>5, FS_AddElement, Zenon
  <2>3. QED
    BY <2>1, <2>2, <1>5
<1>7. Counted(log, more, lost + 1)
  <2>1. IsFiniteSet(Missing(log, more))
        /\ Cardinality(Missing(log, more)) <= Cardinality(old \cup {Len(evs) + 1})
    BY <1>3, <1>6, FS_Subset
  <2>2. Cardinality(Missing(log, more)) \in Nat /\ Cardinality(old \cup {Len(evs) + 1}) \in Nat
    BY <2>1, <1>6, FS_CardinalityType
  <2>3. QED
    BY <2>1, <2>2, <1>5, <1>6 DEF Counted
<1>8. ASSUME ~Calls(e) PROVE Counted(log, more, lost)
  <2>1. IsFiniteSet(Missing(log, more)) /\ Cardinality(Missing(log, more)) <= Cardinality(old)
    BY <1>4, <1>5, <1>8, FS_Subset
  <2>2. Cardinality(Missing(log, more)) \in Nat /\ Cardinality(old) \in Nat
    BY <2>1, <1>5, FS_CardinalityType
  <2>3. QED
    BY <2>1, <2>2, <1>5 DEF Counted
<1>9. QED
  BY <1>2, <1>7, <1>8 DEF more

\* What an event told after log leaves of the journal, who did it aside.
LEMMA ToldInOrder ==
  ASSUME NEW log, Shape(log, happened), Ordered(log), Tells(log, happened),
         Counted(log, happened, faults),
         NEW by, NEW event, NEW target, NEW code, EventTold(log, by, event, target, code)
  PROVE  /\ Shape(audit, happened)' /\ Ordered(audit)' /\ Tells(audit, happened)'
         /\ Counted(audit, happened, faults)'
<1> DEFINE e == [by |-> by, event |-> event, target |-> target, code |-> code]
           rec == [n |-> Len(happened) + 1, actor |-> by, event |-> event, target |-> target]
<1>1. happened' = Append(happened, e)
  BY DEF EventTold
<1>2. IsEvent(e) /\ IsRecord(rec)
  BY DEF IsEvent, IsRecord
<1>3. e.event = event /\ e.target = target
      /\ rec.n = Len(happened) + 1 /\ rec.event = event /\ rec.target = target
  OBVIOUS
<1>e. \/ audit' = Append(log, rec) /\ faults' = faults
      \/ audit' = log /\ faults' = faults + 1
      \/ audit' = log /\ faults' = faults /\ ~Calls(e)
  BY DEF EventTold
<1> HIDE DEF e, rec
<1>4. /\ Len(happened) \in Nat /\ DOMAIN happened = 1..Len(happened)
      /\ Len(happened') = Len(happened) + 1
      /\ DOMAIN happened' = 1..(Len(happened) + 1)
      /\ \A i \in 1..Len(happened) : happened'[i] = happened[i]
      /\ happened'[Len(happened) + 1] = e
  BY <1>1, AppendToList DEF Shape
<1>5. /\ Shape(log, happened') /\ Counted(log, happened', faults + 1)
      /\ ~Calls(e) => Counted(log, happened', faults)
  BY <1>1, <1>2, OneMoreEvent
<1>6. Tells(log, happened')
  BY <1>4 DEF Tells
<1>7. CASE audit' = log
  BY <1>7, <1>e, <1>5, <1>6 DEF Shape, Ordered, Tells, Counted, Missing
<1>8. CASE audit' = Append(log, rec) /\ faults' = faults
  <2>1. /\ IsList(audit') /\ Len(log) \in Nat /\ DOMAIN log = 1..Len(log)
        /\ DOMAIN audit' = 1..(Len(log) + 1)
        /\ \A i \in 1..Len(log) : audit'[i] = log[i]
        /\ audit'[Len(log) + 1] = rec
    BY <1>8, AppendToList DEF Shape
  <2>2. Shape(audit', happened')
    BY <2>1, <1>2, <1>5 DEF Shape
  <2>3. \A i \in 1..Len(log) : log[i].n \in 1..Len(happened)
    BY <2>1 DEF Tells
  <2>4. Ordered(audit')
    <3> SUFFICES ASSUME NEW i \in DOMAIN audit', NEW j \in DOMAIN audit', i < j
                 PROVE  audit'[i].n < audit'[j].n
      BY DEF Ordered
    <3>1. i \in 1..Len(log)
      BY <2>1
    <3>2. CASE j \in 1..Len(log)
      BY <2>1, <3>1, <3>2 DEF Ordered
    <3>3. CASE j = Len(log) + 1
      BY <2>1, <2>3, <3>1, <3>3, <1>3, <1>4
    <3>4. QED
      BY <2>1, <3>2, <3>3
  <2>5. Tells(audit', happened')
    <3> SUFFICES ASSUME NEW i \in DOMAIN audit'
                 PROVE  /\ audit'[i].n \in 1..Len(happened')
                        /\ audit'[i].event = happened'[audit'[i].n].event
                        /\ audit'[i].target = happened'[audit'[i].n].target
      BY DEF Tells
    <3>1. CASE i \in 1..Len(log)
      BY <2>1, <3>1, <1>6 DEF Tells
    <3>2. CASE i = Len(log) + 1
      BY <2>1, <3>2, <1>3, <1>4
    <3>3. QED
      BY <2>1, <3>1, <3>2
  <2>6. Missing(audit', happened') = Missing(log, happened)
    <3>1. ASSUME NEW k
          PROVE  k \in Missing(audit', happened') <=> k \in Missing(log, happened)
      <4>1. k \in {audit'[i].n : i \in DOMAIN audit'} <=>
               k = Len(happened) + 1 \/ k \in {log[i].n : i \in DOMAIN log}
        BY <2>1, <1>3
      <4>2. k \in {log[i].n : i \in DOMAIN log} => k # Len(happened) + 1
        BY <2>1, <2>3, <1>4
      <4>3. k \in DOMAIN happened' <=> k \in DOMAIN happened \/ k = Len(happened) + 1
        BY <1>4
      <4>4. k \in DOMAIN happened => k # Len(happened) + 1 /\ happened'[k] = happened[k]
        BY <1>4
      <4>5. QED
        BY <4>1, <4>2, <4>3, <4>4 DEF Missing
    <3>2. QED
      BY <3>1
  <2>7. Counted(audit', happened', faults')
    BY <2>6, <1>8 DEF Counted
  <2>8. QED
    BY <2>2, <2>4, <2>5, <2>7 DEF Shape, Ordered, Tells, Counted, Missing
<1>9. QED
  BY <1>e, <1>7, <1>8
-----------------------------------------------------------------------------
(* The invariant.                                                          *)

\* Who did something is still known, and named where he is still there,
LEMMA NamesKept ==
  ASSUME PepInv, PepInv', Known(happened, accounts), StatusKept(Users),
         Attributed(audit, happened, accounts), Tells(audit, happened), Shape(audit, happened)
  PROVE  Attributed(audit, happened, accounts') /\ Known(happened, accounts')
<1>1. DOMAIN accounts = Users /\ DOMAIN accounts' = Users
  BY DEF PepInv, TypeOK, AccountsOK
<1>2. \A w \in Users : accounts[w].status # "unborn" => accounts'[w].status = accounts[w].status
  BY DEF StatusKept
<1>3. Known(happened, accounts')
  BY <1>2 DEF Known
<1>4. DOMAIN happened = 1..Len(happened)
  BY AppendToList DEF Shape
<1>5. \A k \in DOMAIN happened : happened[k].by \in Present(accounts) <=>
                                 happened[k].by \in Present(accounts')
  BY <1>1, <1>2 DEF Known, Present
<1>6. Attributed(audit, happened, accounts')
  BY <1>4, <1>5 DEF Attributed, Tells
<1>7. QED
  BY <1>3, <1>6

\* but for the one who is deleted, whose name SET NULL takes out.
LEMMA NameTakenOut ==
  ASSUME PepInv, PepInv', Known(happened, accounts), NEW u \in Users,
         StatusKept(Users \ {u}), accounts'[u].status = "deleted",
         Attributed(audit, happened, accounts), Tells(audit, happened), Shape(audit, happened)
  PROVE  Attributed(WithoutActor(u), happened, accounts') /\ Known(happened, accounts')
<1> DEFINE log == WithoutActor(u)
<1>1. DOMAIN accounts = Users /\ DOMAIN accounts' = Users /\ Unset \notin Users
  BY PepAssumption DEF PepInv, TypeOK, AccountsOK
<1>2. \A w \in Users \ {u} :
         accounts[w].status # "unborn" => accounts'[w].status = accounts[w].status
  BY DEF StatusKept
<1>3. Known(happened, accounts')
  BY <1>2 DEF Known
<1>4. DOMAIN happened = 1..Len(happened)
  BY AppendToList DEF Shape
<1>5. \A k \in DOMAIN happened :
         /\ happened[k].by # u => (happened[k].by \in Present(accounts) <=>
                                   happened[k].by \in Present(accounts'))
         /\ happened[k].by = u => happened[k].by \notin Present(accounts')
  BY <1>1, <1>2 DEF Known, Present
<1>6. /\ DOMAIN log = DOMAIN audit
      /\ \A i \in DOMAIN audit :
            /\ log[i].n = audit[i].n
            /\ log[i].actor = (IF audit[i].actor = u THEN Unset ELSE audit[i].actor)
  <2>1. /\ OnlyActorsDiffer(log, audit)
        /\ \A i \in DOMAIN audit : log[i].actor =
                                     (IF audit[i].actor = u THEN Unset ELSE audit[i].actor)
    BY WithoutActorFacts
  <2>2. QED
    BY <2>1 DEF OnlyActorsDiffer
<1> HIDE DEF log
<1>7. ASSUME NEW i \in DOMAIN log
      PROVE  log[i].actor = (IF happened[log[i].n].by \in Present(accounts')
                             THEN happened[log[i].n].by ELSE Unset)
  <2> DEFINE k == audit[i].n
             by == happened[k].by
  <2>1. log[i].n = k /\ k \in DOMAIN happened /\ i \in DOMAIN audit
    BY <1>4, <1>6, <1>7 DEF Tells
  <2>2. audit[i].actor = (IF by \in Present(accounts) THEN by ELSE Unset)
    BY <2>1 DEF Attributed
  <2>3. log[i].actor = (IF audit[i].actor = u THEN Unset ELSE audit[i].actor)
    BY <2>1, <1>6
  <2>4. /\ by # u => (by \in Present(accounts) <=> by \in Present(accounts'))
        /\ by = u => by \notin Present(accounts')
    BY <2>1, <1>5
  <2> HIDE DEF k, by
  <2>5. log[i].actor = (IF by \in Present(accounts') THEN by ELSE Unset)
    BY <2>2, <2>3, <2>4, <1>1
  <2>6. QED
    BY <2>1, <2>5 DEF by, k
<1>8. QED
  BY <1>3, <1>7 DEF Attributed, log

\* Who does the event told is there and named.
LEMMA ToldByName ==
  ASSUME NEW log, Shape(log, happened), Tells(log, happened),
         NEW by, NEW event, NEW target, NEW code, EventTold(log, by, event, target, code),
         Attributed(log, happened, accounts'), Known(happened, accounts'),
         by \in Users, by \in Present(accounts')
  PROVE  Attributed(audit, happened, accounts)' /\ Known(happened, accounts)'
<1> DEFINE e == [by |-> by, event |-> event, target |-> target, code |-> code]
           rec == [n |-> Len(happened) + 1, actor |-> by, event |-> event, target |-> target]
<1>1. happened' = Append(happened, e) /\ (audit' = log \/ audit' = Append(log, rec))
  BY DEF EventTold
<1>2. e.by = by /\ rec.n = Len(happened) + 1 /\ rec.actor = by
  OBVIOUS
<1> HIDE DEF e, rec
<1>3. /\ Len(happened) \in Nat /\ DOMAIN happened = 1..Len(happened)
      /\ DOMAIN happened' = 1..(Len(happened) + 1)
      /\ \A i \in 1..Len(happened) : happened'[i] = happened[i]
      /\ happened'[Len(happened) + 1] = e
  BY <1>1, AppendToList DEF Shape
<1>4. accounts'[by].status # "unborn"
  BY DEF Present
<1>5. Known(happened', accounts')
  BY <1>2, <1>3, <1>4 DEF Known
<1>6. Attributed(log, happened', accounts')
  BY <1>3 DEF Attributed, Tells
<1>7. ASSUME audit' = Append(log, rec) PROVE Attributed(audit', happened', accounts')
  <2>1. /\ Len(log) \in Nat /\ DOMAIN log = 1..Len(log)
        /\ DOMAIN audit' = 1..(Len(log) + 1)
        /\ \A i \in 1..Len(log) : audit'[i] = log[i]
        /\ audit'[Len(log) + 1] = rec
    BY <1>7, AppendToList DEF Shape
  <2>2. ASSUME NEW i \in DOMAIN audit'
        PROVE  audit'[i].actor = (IF happened'[audit'[i].n].by \in Present(accounts')
                                  THEN happened'[audit'[i].n].by ELSE Unset)
    <3>1. CASE i \in 1..Len(log)
      BY <2>1, <3>1, <1>6 DEF Attributed
    <3>2. CASE i = Len(log) + 1
      BY <2>1, <3>2, <1>2, <1>3
    <3>3. QED
      BY <2>1, <2>2, <3>1, <3>2
  <2>3. QED
    BY <2>2 DEF Attributed
<1>8. Attributed(audit', happened', accounts')
  BY <1>1, <1>6, <1>7
<1>9. QED
  BY <1>5, <1>8 DEF Attributed, Known, Present

\* The invariant holds at first,
LEMMA InitAuditInv == AuditInit => AuditInv
<1> SUFFICES ASSUME AuditInit PROVE AuditInv
  OBVIOUS
<1>1. PepInv
  BY InitPepInv DEF AuditInit
<1>2. audit = <<>> /\ happened = <<>> /\ faults = 0
  BY DEF AuditInit
<1>3. DOMAIN audit = {} /\ DOMAIN happened = {} /\ IsList(audit) /\ IsList(happened)
  <2>1. <<>> \in Seq({}) /\ DOMAIN <<>> = {}
    OBVIOUS
  <2>2. QED
    BY <2>1, <1>2 DEF IsList
<1>4. Missing(audit, happened) = {}
  BY <1>3 DEF Missing
<1>5. Counted(audit, happened, faults)
  BY <1>2, <1>4, FS_EmptySet DEF Counted
<1>6. QED
  BY <1>1, <1>3, <1>5 DEF AuditInv, Shape, Ordered, Tells, Attributed, Known

\* and every step keeps it.
LEMMA NextAuditInv == AuditInv /\ [AuditNext]_auditVars => AuditInv'
<1> SUFFICES ASSUME AuditInv, [AuditNext]_auditVars PROVE AuditInv'
  OBVIOUS
<1>1. CASE UNCHANGED auditVars
  <2>1. PepInv'
    BY <1>1, NextPepInv DEF AuditInv, auditVars, vars
  <2>2. UNCHANGED <<audit, happened, faults, accounts>>
    BY <1>1 DEF auditVars
  <2>3. QED
    BY <2>1, <2>2 DEF AuditInv, Shape, Ordered, Tells, Attributed, Known, Counted, Missing,
                      Present
<1>2. CASE AuditNext
  <2> USE DEF AuditInv
  <2>1. PepInv'
    BY <1>2, AuditStep, NextPepInv
  <2> HIDE DEF AuditInv
  <2>2. /\ PepInv /\ Shape(audit, happened) /\ Ordered(audit) /\ Tells(audit, happened)
        /\ Attributed(audit, happened, accounts) /\ Known(happened, accounts)
        /\ Counted(audit, happened, faults)
    BY DEF AuditInv
  <2>3. DOMAIN accounts = Users /\ DOMAIN accounts' = Users
    BY <2>1, <2>2 DEF PepInv, TypeOK, AccountsOK
  <2>4. CASE Quiet
    <3>1. Attributed(audit, happened, accounts') /\ Known(happened, accounts')
      BY <2>1, <2>2, <2>4, NamesKept DEF Quiet
    <3>2. UNCHANGED <<audit, happened, faults>>
      BY <2>4 DEF Quiet
    <3>3. Shape(audit, happened)' /\ Ordered(audit)' /\ Tells(audit, happened)'
          /\ Counted(audit, happened, faults)'
      BY <2>2, <3>2 DEF Shape, Ordered, Tells, Counted, Missing
    <3>4. Attributed(audit, happened, accounts)' /\ Known(happened, accounts)'
      BY <3>1, <3>2 DEF Attributed, Known, Present
    <3>5. QED
      BY <2>1, <3>3, <3>4 DEF AuditInv
  <2>5. CASE Adds
    <3>1. PICK by, event, target, code : EventTold(audit, by, event, target, code)
      BY <2>5 DEF Adds
    <3>2. by \in Users /\ by \in Present(accounts)
      BY <3>1 DEF EventTold
    <3>3. by \in Present(accounts')
      BY <2>3, <2>5, <3>2 DEF Adds, StatusKept, Present
    <3>4. Attributed(audit, happened, accounts') /\ Known(happened, accounts')
      BY <2>1, <2>2, <2>5, NamesKept DEF Adds
    <3>5. Attributed(audit, happened, accounts)' /\ Known(happened, accounts)'
      BY <2>2, <3>1, <3>2, <3>3, <3>4, ToldByName
    <3>6. Shape(audit, happened)' /\ Ordered(audit)' /\ Tells(audit, happened)'
          /\ Counted(audit, happened, faults)'
      BY <2>2, <3>1, ToldInOrder
    <3>7. QED
      BY <2>1, <3>5, <3>6 DEF AuditInv
  <2>6. ASSUME NEW u \in Users, Removes(u) PROVE AuditInv'
    <3> DEFINE log == WithoutActor(u)
    <3>1. PICK by, event, target, code :
             by # u /\ EventTold(log, by, event, target, code)
      BY <2>6 DEF Removes
    <3>2. by \in Users /\ by \in Present(accounts)
      BY <3>1 DEF EventTold
    <3>3. StatusKept(Users \ {u}) /\ accounts'[u].status = "deleted"
      BY <2>6 DEF Removes
    <3>4. by \in Present(accounts')
      BY <2>3, <3>1, <3>2, <3>3 DEF StatusKept, Present
    <3>5. Attributed(log, happened, accounts') /\ Known(happened, accounts')
      BY <2>1, <2>2, <3>3, NameTakenOut
    <3>6. /\ Shape(log, happened) /\ DOMAIN log = DOMAIN audit
          /\ \A i \in DOMAIN audit : /\ log[i].n = audit[i].n
                                     /\ log[i].event = audit[i].event
                                     /\ log[i].target = audit[i].target
      <4>1. Shape(log, happened) /\ OnlyActorsDiffer(log, audit)
        BY <2>2, WithoutActorFacts
      <4>2. QED
        BY <4>1 DEF OnlyActorsDiffer
    <3> HIDE DEF log
    <3>7. Ordered(log) /\ Tells(log, happened) /\ Counted(log, happened, faults)
      <4>1. {log[i].n : i \in DOMAIN log} = {audit[i].n : i \in DOMAIN audit}
        BY <3>6
      <4>2. Missing(log, happened) = Missing(audit, happened)
        BY <4>1 DEF Missing
      <4>3. QED
        BY <2>2, <3>6, <4>2 DEF Ordered, Tells, Counted
    <3>8. Attributed(audit, happened, accounts)' /\ Known(happened, accounts)'
      BY <3>1, <3>2, <3>4, <3>5, <3>6, <3>7, ToldByName
    <3>9. Shape(audit, happened)' /\ Ordered(audit)' /\ Tells(audit, happened)'
          /\ Counted(audit, happened, faults)'
      BY <3>1, <3>6, <3>7, ToldInOrder
    <3>10. QED
      BY <2>1, <3>8, <3>9 DEF AuditInv
  <2>7. QED
    BY <1>2, <2>2, <2>4, <2>5, <2>6, AuditStep
<1>3. QED
  BY <1>1, <1>2

\* Nobody's record is missing without a fault, and what the records say is so.
THEOREM TheJournalIsTrue == AuditSpec => []JournalIsTrue
<1>1. AuditInv => JournalIsTrue
  <2> SUFFICES ASSUME AuditInv PROVE JournalIsTrue
    OBVIOUS
  <2>1. Missing(audit, happened) = {n \in DOMAIN happened :
                      /\ happened[n].event \in ChangeEvents \cup {"AUTH_SUCCESS"}
                      /\ happened[n].code = "OK"
                      /\ n \notin Recorded}
    BY DEF Missing, Calls, Recorded
  <2>2. Cardinality({n \in DOMAIN happened :
                      /\ happened[n].event \in ChangeEvents \cup {"AUTH_SUCCESS"}
                      /\ happened[n].code = "OK"
                      /\ n \notin Recorded}) <= faults
    BY <2>1 DEF AuditInv, Counted
  <2>3. QED
    BY <2>2 DEF AuditInv, Ordered, Tells, Attributed, JournalIsTrue
<1>2. QED
  BY <1>1, InitAuditInv, NextAuditInv, PTL DEF AuditSpec

\* A record, once written, loses its actor's name at most.
THEOREM TheJournalGrows == AuditSpec => JournalOnlyGrows
<1> DEFINE Grows == /\ Len(audit) <= Len(audit')
                    /\ \A i \in DOMAIN audit :
                          \/ audit'[i] = audit[i]
                          \/ /\ audit'[i] = [audit[i] EXCEPT !.actor = Unset]
                             /\ audit[i].actor \notin Present(accounts')
<1>1. ASSUME AuditInv, AuditNext PROVE Grows
  <2>1. PepInv /\ Shape(audit, happened) /\ Len(audit) \in Nat /\ DOMAIN audit = 1..Len(audit)
    BY <1>1, AppendToList DEF AuditInv, Shape
  <2>2. ASSUME NEW log, IsList(log), DOMAIN log = DOMAIN audit, Len(log) = Len(audit),
               NEW by, NEW e, NEW t, NEW c, EventTold(log, by, e, t, c)
        PROVE  Len(audit) <= Len(audit') /\ \A i \in DOMAIN audit : audit'[i] = log[i]
    BY <2>1, <2>2, AppendToList DEF EventTold
  <2>3. CASE Quiet
    BY <2>1, <2>3 DEF Quiet
  <2>4. CASE Adds
    BY <2>1, <2>2, <2>4 DEF Adds, Shape
  <2>5. ASSUME NEW u \in Users, Removes(u) PROVE Grows
    <3> DEFINE log == WithoutActor(u)
    <3>1. /\ IsList(log) /\ DOMAIN log = DOMAIN audit /\ Len(log) = Len(audit)
          /\ \A i \in DOMAIN audit :
               /\ log[i] = [audit[i] EXCEPT !.actor = log[i].actor]
               /\ log[i].actor = IF audit[i].actor = u THEN Unset ELSE audit[i].actor
               /\ audit[i].actor # u => log[i] = audit[i]
      BY <2>1, WithoutActorFacts DEF Shape, OnlyActorsDiffer
    <3>2. \E by, e, t, c : EventTold(log, by, e, t, c)
      BY <2>5 DEF Removes
    <3>3. u \notin Present(accounts')
      BY <2>5 DEF Removes, Present
    <3> HIDE DEF log
    <3>4. Len(audit) <= Len(audit') /\ \A i \in DOMAIN audit : audit'[i] = log[i]
      BY <3>1, <3>2, <2>2
    <3>5. QED
      BY <3>1, <3>3, <3>4
  <2>6. QED
    BY <1>1, <2>1, <2>3, <2>4, <2>5, AuditStep
<1>2. AuditInv /\ [AuditNext]_auditVars => [Grows]_auditVars
  BY <1>1
<1>3. AuditInv /\ [AuditNext]_auditVars =>
        [/\ Len(audit) <= Len(audit')
         /\ \A i \in DOMAIN audit :
               \/ audit'[i] = audit[i]
               \/ /\ audit'[i] = [audit[i] EXCEPT !.actor = Unset]
                  /\ audit[i].actor \notin Present(accounts')]_auditVars
  BY <1>2
<1>4. QED
  BY <1>3, InitAuditInv, NextAuditInv, PTL DEF AuditSpec, JournalOnlyGrows
=============================================================================
