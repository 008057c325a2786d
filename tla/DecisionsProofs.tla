-------------------------- MODULE DecisionsProofs --------------------------
(***************************************************************************)
(* The two evaluators of rules decide alike, and priorities settle what    *)
(* they decide: proofs about Decisions, for every set of rules, subjects,  *)
(* resources and actions, and any number of rows.                          *)
(***************************************************************************)
EXTENDS Decisions, PdpProofs

LEMMA NewRow ==
  ASSUME NEW rule \in Rules, NEW n
  PROVE  Stored(Numbered(rule, n))
<1> DEFINE p == Numbered(rule, n)
<1>1. Columns \ {"key"} \subseteq DOMAIN rule /\ rule.priority \in Int /\ Conditions(rule)
  BY DecisionsAssumption
<1>2. DOMAIN p = {"key"} \cup DOMAIN rule
  BY DEF Numbered
<1>3. \A c \in Columns \ {"key"} : p[c] = rule[c]
  BY <1>1 DEF Numbered, Columns
<1> HIDE DEF p
<1>4. /\ p.priority = rule.priority /\ p.role = rule.role /\ p.department = rule.department
      /\ p.rtype = rule.rtype /\ p.clearance = rule.clearance
      /\ p.subject = rule.subject /\ p.resource = rule.resource
  BY <1>3 DEF Columns
<1>5. Columns \subseteq DOMAIN p
  BY <1>1, <1>2
<1>6. Stored(p)
  BY <1>1, <1>4, <1>5 DEF Stored, Conditions
<1>7. QED
  BY <1>6 DEF p

\* The rows of a finite table are as createPolicy() leaves them.
TableOK == Table(table) /\ subject \in Subjects

LEMMA TableInvariant == Spec => []TableOK
<1>1. Init => TableOK
  BY FS_EmptySet DEF Init, TableOK, Table
<1>2. TableOK /\ [Next]_vars => TableOK'
  <2> SUFFICES ASSUME TableOK, [Next]_vars PROVE TableOK'
    OBVIOUS
  <2>1. ASSUME NEW rule \in Rules, Create(rule) PROVE TableOK'
    <3> DEFINE p == Numbered(rule, Cardinality(table) + 1)
    <3>1. Stored(p)
      BY NewRow
    <3>2. table' = table \cup {p} /\ subject' = subject
      BY <2>1 DEF Create
    <3> HIDE DEF p
    <3>3. IsFiniteSet(table')
      BY <3>2, FS_AddElement DEF TableOK, Table
    <3>4. QED
      BY <3>1, <3>2, <3>3 DEF TableOK, Table
  <2>2. CASE UNCHANGED vars
    BY <2>2 DEF TableOK, vars
  <2>3. QED
    BY <2>1, <2>2 DEF Next
<1>3. QED
  BY <1>1, <1>2, PTL DEF Spec

(* What the unit tests show of evaluate_policy() holds of PDP::evaluate(), *)
(* for every table and every request of a subject with attributes who is   *)
(* not locked out.                                                         *)
THEOREM EvaluatorsDecideAlike == Spec => []EvaluatorsAgree
<1>1. TableOK => EvaluatorsAgree
  <2> SUFFICES ASSUME TableOK, subject.attrs, ~subject.locked
               PROVE  ServerDecisions(subject, resource, action, table) = DomainDecisions
    BY DEF EvaluatorsAgree
  <2>1. subject.clearance \in Nat
    BY DecisionsAssumption DEF TableOK
  <2>2. QED
    BY <2>1, EvaluatedAlike DEF TableOK, DomainDecisions
<1>2. QED
  BY <1>1, TableInvariant, PTL

(* However PostgreSQL orders rows of equal priority, the answer is yes     *)
(* exactly if the account may be used and an enabled rule grants the       *)
(* request, and the reason is a rule of the highest priority.              *)
THEOREM PrioritySettles == Spec => []DecisionIsSettled
<1>1. TableOK => DecisionIsSettled
  <2> SUFFICES ASSUME TableOK, NEW d \in ServerDecisions(subject, resource, action, table)
               PROVE  /\ d.allowed <=> Allowed(subject, resource, action, table)
                      /\ d.allowed => d.policy \in {p.key : p \in Applicable}
    BY DEF DecisionIsSettled
  <2>1. /\ subject.active \in BOOLEAN /\ subject.locked \in BOOLEAN
        /\ subject.attrs \in BOOLEAN /\ subject.clearance \in Nat
    BY DecisionsAssumption DEF TableOK
  <2>2. /\ d.allowed <=> Allowed(subject, resource, action, table)
        /\ d.allowed => \E p \in Highest(Granting(subject, resource, action, table)) :
                           d.policy = p.key
    BY <2>1, ServerPermits DEF TableOK
  <2>3. Highest(Granting(subject, resource, action, table)) = Applicable
    BY DEF Applicable, Highest, Granting
  <2>4. QED
    BY <2>2, <2>3
<1>2. QED
  BY <1>1, TableInvariant, PTL
=============================================================================
