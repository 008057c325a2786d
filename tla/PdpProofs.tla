----------------------------- MODULE PdpProofs -----------------------------
(***************************************************************************)
(* What the two evaluators of rules decide, for tables of any size: proofs *)
(* about Pdp.                                                              *)
(*                                                                         *)
(* The loops are recursive functions, so the proofs are by induction.  It  *)
(* is taken from the fact that < is well-founded on Nat, as a set of       *)
(* numbers that holds 0 and every successor.                               *)
(***************************************************************************)
EXTENDS Pdp, WellFoundedInduction, FunctionTheorems, FiniteSetTheorems, TLAPS

\* The order of Nat as a relation.
LEMMA LessWellFounded ==
  \E R : IsWellFoundedOn(R, Nat) /\ \A x, y \in Nat : x < y => <<x, y>> \in R
<1>1. \A x, y \in Nat : x < y => <<x, y>> \in OpToRel(<, Nat)
  BY DEF OpToRel
<1>2. QED
  BY <1>1, NatLessThanWellFounded, Zenon

\* Induction over Nat, for sets of numbers.
LEMMA Induction ==
  ASSUME NEW T \in SUBSET Nat, 0 \in T, \A n \in T : n + 1 \in T
  PROVE  T = Nat
<1>1. SUFFICES ASSUME Nat \ T # {} PROVE FALSE
  OBVIOUS
<1>2. PICK R : IsWellFoundedOn(R, Nat) /\ \A x, y \in Nat : x < y => <<x, y>> \in R
  BY LessWellFounded
<1>3. PICK x \in Nat \ T : \A y \in Nat \ T : ~(<<y, x>> \in R)
  BY <1>1, <1>2, WFMin
<1>4. x # 0
  BY <1>3
<1>5. PICK y \in Nat : x = y + 1
  <2>1. x - 1 \in Nat /\ x = (x - 1) + 1
    BY <1>3, <1>4
  <2>2. QED
    BY <2>1
<1>6. y < x
  BY <1>3, <1>5
<1>7. y \in T
  BY <1>2, <1>3, <1>5, <1>6
<1>8. QED
  BY <1>3, <1>5, <1>7

-----------------------------------------------------------------------------
(* The loop over the policies.                                             *)

\* b is what the loop computes over the first n policies.
IsLoop(b, ps, matching, n) ==
    b = [i \in 0..n |-> IF i = 0 THEN <<>> ELSE Turn(b[i - 1], ps[i], matching)]

\* The loop can be run over any number of policies.
LEMMA LoopRuns ==
  ASSUME NEW ps, NEW matching, NEW n \in Nat
  PROVE  \E b : IsLoop(b, ps, matching, n)
<1> DEFINE Is(b, m) == IsLoop(b, ps, matching, m)
           T == {m \in Nat : \E b : Is(b, m)}
<1>1. 0 \in T
  <2> DEFINE b == [i \in 0..0 |-> <<>>]
  <2>1. Is(b, 0)
    BY DEF IsLoop
  <2>2. QED
    BY <2>1
<1>2. ASSUME NEW m \in T PROVE m + 1 \in T
  <2>1. PICK b : Is(b, m)
    OBVIOUS
  <2> DEFINE c == [i \in 0..(m + 1) |-> IF i <= m THEN b[i] ELSE Turn(b[m], ps[m + 1], matching)]
             d == [i \in 0..(m + 1) |-> IF i = 0 THEN <<>> ELSE Turn(c[i - 1], ps[i], matching)]
  <2>2. ASSUME NEW i \in 0..(m + 1) PROVE c[i] = d[i]
    <3>1. CASE i = 0
      BY <2>1, <3>1 DEF IsLoop
    <3>2. CASE i \in 1..m
      <4>1. c[i] = b[i] /\ c[i - 1] = b[i - 1]
        BY <3>2
      <4>2. b[i] = Turn(b[i - 1], ps[i], matching)
        BY <2>1, <3>2 DEF IsLoop
      <4>3. d[i] = Turn(c[i - 1], ps[i], matching)
        BY <3>2
      <4>4. QED
        BY <4>1, <4>2, <4>3
    <3>3. CASE i = m + 1
      <4>1. c[i] = Turn(b[m], ps[m + 1], matching)
        BY <3>3
      <4>2. c[m] = b[m] /\ i - 1 = m /\ i # 0
        BY <3>3
      <4>3. d[i] = Turn(c[m], ps[m + 1], matching)
        BY <3>3, <4>2
      <4>4. QED
        BY <4>1, <4>2, <4>3
    <3>4. QED
      BY <3>1, <3>2, <3>3
  <2>3. c = d
    BY <2>2
  <2>4. Is(c, m + 1)
    BY <2>3 DEF IsLoop
  <2> HIDE DEF Is, c, d
  <2>5. m + 1 \in Nat
    OBVIOUS
  <2>6. \E x : Is(x, m + 1)
    BY <2>4
  <2>7. QED
    BY <2>5, <2>6
<1>3. T = Nat
  <2> HIDE DEF T
  <2>1. T \subseteq Nat
    BY DEF T
  <2>2. QED
    BY <1>1, <1>2, <2>1, Induction
<1>4. QED
  BY <1>3

\* So Best() is what its loop has computed at the end.
LEMMA BestIsLoop ==
  ASSUME NEW ps, NEW matching, Len(ps) \in Nat
  PROVE  \E b : /\ b[0] = <<>>
                /\ \A i \in 1..Len(ps) : b[i] = Turn(b[i - 1], ps[i], matching)
                /\ Best(ps, matching) = b[Len(ps)]
<1> DEFINE b == CHOOSE x : IsLoop(x, ps, matching, Len(ps))
<1>1. \E x : IsLoop(x, ps, matching, Len(ps))
  BY LoopRuns
<1>2. IsLoop(b, ps, matching, Len(ps))
  BY <1>1, Zenon
<1>3. Best(ps, matching) = b[Len(ps)]
  BY Zenon DEF Best, IsLoop
<1> HIDE DEF b
<1>4. b[0] = <<>>
  BY <1>2 DEF IsLoop
<1>5. ASSUME NEW i \in 1..Len(ps) PROVE b[i] = Turn(b[i - 1], ps[i], matching)
  <2>1. i \in 0..Len(ps) /\ i # 0
    OBVIOUS
  <2>2. QED
    BY <1>2, <2>1, Zenon DEF IsLoop
<1>6. QED
  BY <1>3, <1>4, <1>5

\* r is what the loop must have after m policies: the first of the highest priority.
Settled(r, ps, matching, m) ==
    \/ /\ \A i \in 1..m : ps[i] \notin matching
       /\ r = <<>>
    \/ \E k \in 1..m :
          /\ ps[k] \in matching /\ r = <<ps[k]>>
          /\ \A j \in 1..m : ps[j] \in matching => ps[j].priority <= ps[k].priority
          /\ \A j \in 1..(k - 1) : ps[j] \in matching => ps[j].priority < ps[k].priority

\* One more policy.
LEMMA TurnSettles ==
  ASSUME NEW ps, NEW matching, NEW m \in Nat, NEW r, Settled(r, ps, matching, m),
         \A i \in 1..(m + 1) : ps[i].priority \in Int
  PROVE  Settled(Turn(r, ps[m + 1], matching), ps, matching, m + 1)
<1> DEFINE p == ps[m + 1]
           t == Turn(r, p, matching)
<1>0. m + 1 \in 1..(m + 1)
  OBVIOUS
<1>1. CASE p \notin matching
  <2>1. t = r
    BY <1>1 DEF Turn
  <2>2. CASE r = <<>> /\ \A i \in 1..m : ps[i] \notin matching
    <3>1. \A i \in 1..(m + 1) : ps[i] \notin matching
      BY <1>1, <2>2
    <3>2. QED
      BY <2>1, <2>2, <3>1 DEF Settled
  <2>3. ASSUME NEW k \in 1..m, ps[k] \in matching, r = <<ps[k]>>,
               \A j \in 1..m : ps[j] \in matching => ps[j].priority <= ps[k].priority,
               \A j \in 1..(k - 1) : ps[j] \in matching => ps[j].priority < ps[k].priority
        PROVE  Settled(t, ps, matching, m + 1)
    <3>1. \A j \in 1..(m + 1) : ps[j] \in matching => ps[j].priority <= ps[k].priority
      BY <1>1, <2>3
    <3>2. k \in 1..(m + 1)
      OBVIOUS
    <3>3. QED
      BY <2>1, <2>3, <3>1, <3>2 DEF Settled
  <2>4. QED
    BY <2>2, <2>3 DEF Settled
<1>2. CASE p \in matching
  <2>1. CASE r = <<>> /\ \A i \in 1..m : ps[i] \notin matching
    <3>1. t = <<p>>
      BY <1>2, <2>1 DEF Turn
    <3>2. \A j \in 1..(m + 1) : ps[j] \in matching => ps[j].priority <= p.priority
      BY <1>0, <2>1
    <3>3. \A j \in 1..((m + 1) - 1) : ps[j] \in matching => ps[j].priority < p.priority
      BY <2>1
    <3>4. QED
      BY <1>0, <1>2, <3>1, <3>2, <3>3 DEF Settled
  <2>2. ASSUME NEW k \in 1..m, ps[k] \in matching, r = <<ps[k]>>,
               \A j \in 1..m : ps[j] \in matching => ps[j].priority <= ps[k].priority,
               \A j \in 1..(k - 1) : ps[j] \in matching => ps[j].priority < ps[k].priority
        PROVE  Settled(t, ps, matching, m + 1)
    <3>0. k \in 1..(m + 1) /\ r # <<>> /\ r[1] = ps[k]
      BY <2>2
    <3>i. ps[k].priority \in Int /\ p.priority \in Int
      BY <1>0, <3>0
    <3>1. CASE p.priority > ps[k].priority
      <4>1. t = <<p>>
        BY <1>2, <3>0, <3>1 DEF Turn
      <4>2. \A j \in 1..((m + 1) - 1) : ps[j] \in matching => ps[j].priority < p.priority
        <5> TAKE j \in 1..((m + 1) - 1)
        <5>1. j \in 1..m /\ j \in 1..(m + 1)
          OBVIOUS
        <5>2. ps[j].priority \in Int
          BY <5>1
        <5>3. QED
          BY <2>2, <3>1, <3>i, <5>1, <5>2
      <4>3. \A j \in 1..(m + 1) : ps[j] \in matching => ps[j].priority <= p.priority
        <5> TAKE j \in 1..(m + 1)
        <5>1. CASE j = m + 1
          BY <3>i, <5>1
        <5>2. CASE j \in 1..m
          <6>1. ps[j].priority \in Int /\ j \in 1..((m + 1) - 1)
            BY <5>2
          <6>2. QED
            BY <3>i, <4>2, <6>1
        <5>3. QED
          BY <5>1, <5>2
      <4>4. QED
        BY <1>0, <1>2, <4>1, <4>2, <4>3 DEF Settled
    <3>2. CASE ~(p.priority > ps[k].priority)
      <4>1. t = r
        BY <3>0, <3>2 DEF Turn
      <4>2. \A j \in 1..(m + 1) : ps[j] \in matching => ps[j].priority <= ps[k].priority
        <5> TAKE j \in 1..(m + 1)
        <5>1. CASE j = m + 1
          BY <3>i, <3>2, <5>1
        <5>2. CASE j \in 1..m
          BY <2>2, <5>2
        <5>3. QED
          BY <5>1, <5>2
      <4>3. QED
        BY <2>2, <3>0, <4>1, <4>2 DEF Settled
    <3>3. QED
      BY <3>1, <3>2
  <2>3. QED
    BY <2>1, <2>2 DEF Settled
<1>3. QED
  BY <1>1, <1>2

(* However many policies there are, the loop of an evaluator ends with the *)
(* first of the highest priority among those that match, or with none.     *)
THEOREM BestPicks ==
  ASSUME NEW ps, NEW matching, Len(ps) \in Nat,
         \A i \in 1..Len(ps) : ps[i].priority \in Int
  PROVE  Settled(Best(ps, matching), ps, matching, Len(ps))
<1>1. PICK b : /\ b[0] = <<>>
               /\ \A i \in 1..Len(ps) : b[i] = Turn(b[i - 1], ps[i], matching)
               /\ Best(ps, matching) = b[Len(ps)]
  BY BestIsLoop
<1> DEFINE T == {m \in Nat : m <= Len(ps) => Settled(b[m], ps, matching, m)}
<1>2. 0 \in T
  BY <1>1 DEF Settled
<1>3. ASSUME NEW m \in T PROVE m + 1 \in T
  <2>1. m \in Nat /\ m + 1 \in Nat
    OBVIOUS
  <2>2. CASE m + 1 <= Len(ps)
    <3>1. m <= Len(ps) /\ m + 1 \in 1..Len(ps) /\ (m + 1) - 1 = m
      BY <2>1, <2>2
    <3>2. Settled(b[m], ps, matching, m)
      BY <3>1
    <3>3. \A i \in 1..(m + 1) : ps[i].priority \in Int
      BY <2>1, <2>2
    <3>4. b[m + 1] = Turn(b[m], ps[m + 1], matching)
      BY <1>1, <3>1
    <3>5. Settled(Turn(b[m], ps[m + 1], matching), ps, matching, m + 1)
      BY <2>1, <3>2, <3>3, TurnSettles
    <3>6. QED
      BY <2>1, <3>4, <3>5
  <2>3. QED
    BY <2>1, <2>2
<1>4. T = Nat
  <2>1. T \subseteq Nat
    OBVIOUS
  <2> HIDE DEF T
  <2>2. QED
    BY <1>2, <1>3, <2>1, Induction
<1>5. QED
  BY <1>1, <1>4

-----------------------------------------------------------------------------
(* Orderings of a finite set of rows.                                      *)

\* An ordering of S has every element of S once.
LEMMA OrderingHasAll ==
  ASSUME NEW S, IsFiniteSet(S), NEW o \in SetToSeqs(S)
  PROVE  /\ o \in [1..Cardinality(S) -> S] /\ Len(o) = Cardinality(S) /\ Len(o) \in Nat
         /\ \A i, j \in 1..Len(o) : o[i] = o[j] => i = j
         /\ \A x \in S : \E i \in 1..Len(o) : o[i] = x
         /\ ToSet(o) = S
<1> DEFINE n == Cardinality(S)
<1>1. n \in Nat
  BY FS_CardinalityType
<1>2. o \in [1..n -> S] /\ \A i, j \in 1..n : i # j => o[i] # o[j]
  BY DEF SetToSeqs
<1>3. Len(o) = n
  BY <1>1, <1>2
<1> HIDE DEF n
<1>4. o \in Injection(1..n, S)
  <2>1. o \in [1..n -> S] /\ \A i, j \in 1..n : o[i] = o[j] => i = j
    BY <1>2
  <2>2. QED
    BY <2>1, Fun_IsInj
<1>5. Cardinality(1..n) = n
  BY <1>1, FS_Interval
<1>6. o \in Surjection(1..n, S)
  <2>1. Cardinality(1..n) = Cardinality(S) <=> o \in Surjection(1..n, S)
    BY <1>4, FS_Injection
  <2>2. QED
    BY <1>5, <2>1 DEF n
<1>7. \A x \in S : \E i \in 1..n : o[i] = x
  BY <1>6 DEF Surjection
<1>8. ToSet(o) = S
  BY <1>2, <1>7 DEF ToSet
<1>9. \A i, j \in 1..Len(o) : o[i] = o[j] => i = j
  BY <1>2, <1>3
<1>10. QED
  BY <1>1, <1>2, <1>3, <1>7, <1>8, <1>9 DEF n

\* A finite set has an element of least weight.
LEMMA LeastExists ==
  ASSUME NEW S, IsFiniteSet(S), S # {}, NEW w, \A x \in S : w[x] \in Int
  PROVE  \E m \in S : \A x \in S : w[m] <= w[x]
<1> DEFINE Least(U) == \E m \in U : \A x \in U : w[m] <= w[x]
           T == {n \in Nat : \A U \in SUBSET S : Cardinality(U) = n + 1 => Least(U)}
<1>1. \A U \in SUBSET S : IsFiniteSet(U)
  BY FS_Subset
<1>2. 0 \in T
  <2>1. ASSUME NEW U \in SUBSET S, Cardinality(U) = 1 PROVE Least(U)
    <3>1. PICK x : U = {x}
      BY <1>1, <2>1, FS_Singleton
    <3>2. w[x] \in Int
      BY <3>1
    <3>3. QED
      BY <3>1, <3>2
  <2>2. QED
    BY <2>1
<1>3. ASSUME NEW n \in T PROVE n + 1 \in T
  <2>0. n \in Nat /\ n + 1 \in Nat
    OBVIOUS
  <2>1. ASSUME NEW U \in SUBSET S, Cardinality(U) = (n + 1) + 1 PROVE Least(U)
    <3>1. PICK x : x \in U
      BY <1>1, <2>0, <2>1, FS_EmptySet
    <3>2. Cardinality(U \ {x}) = n + 1
      <4>1. Cardinality(U \ {x}) = Cardinality(U) - 1
        BY <1>1, <3>1, FS_RemoveElement
      <4>2. QED
        BY <2>0, <2>1, <4>1
    <3>3. Least(U \ {x})
      BY <3>2
    <3>4. PICK m \in U \ {x} : \A y \in U \ {x} : w[m] <= w[y]
      BY <3>3
    <3>5. w[m] \in Int /\ w[x] \in Int /\ \A y \in U : w[y] \in Int
      BY <3>1, <3>4
    <3>6. CASE w[m] <= w[x]
      <4>1. \A y \in U : w[m] <= w[y]
        BY <3>4, <3>6
      <4>2. QED
        BY <4>1
    <3>7. CASE w[x] < w[m]
      <4>1. \A y \in U : w[x] <= w[y]
        <5> TAKE y \in U
        <5>1. CASE y = x
          BY <3>5, <5>1
        <5>2. CASE y # x
          BY <3>4, <3>5, <3>7, <5>2
        <5>3. QED
          BY <5>1, <5>2
      <4>2. QED
        BY <3>1, <4>1
    <3>8. QED
      BY <3>5, <3>6, <3>7
  <2>2. QED
    BY <2>0, <2>1
<1>4. T = Nat
  <2>1. T \subseteq Nat
    OBVIOUS
  <2> HIDE DEF T
  <2>2. QED
    BY <1>2, <1>3, <2>1, Induction
<1>5. PICK n \in Nat : Cardinality(S) = n + 1
  <2>1. Cardinality(S) \in Nat /\ Cardinality(S) # 0
    BY FS_CardinalityType, FS_EmptySet
  <2>2. Cardinality(S) - 1 \in Nat /\ Cardinality(S) = (Cardinality(S) - 1) + 1
    BY <2>1
  <2>3. QED
    BY <2>2
<1>6. QED
  BY <1>4, <1>5

\* o has the heaviest first.
Descending(o, w) == \A i, j \in DOMAIN o : i < j => w[o[i]] >= w[o[j]]

\* Whatever the rows weigh, PostgreSQL can sort them.
LEMMA OrderingExists ==
  ASSUME NEW S, IsFiniteSet(S), NEW w, \A x \in S : w[x] \in Int
  PROVE  \E o \in SetToSeqs(S) : Descending(o, w)
<1> DEFINE Sorts(U) == \E o \in SetToSeqs(U) : Descending(o, w)
           T == {n \in Nat : \A U \in SUBSET S : Cardinality(U) = n => Sorts(U)}
<1>1. \A U \in SUBSET S : IsFiniteSet(U)
  BY FS_Subset
<1>2. 0 \in T
  <2>1. ASSUME NEW U \in SUBSET S, Cardinality(U) = 0 PROVE Sorts(U)
    <3> DEFINE o == [i \in 1..0 |-> 0]
    <3>1. o \in SetToSeqs(U)
      BY <2>1 DEF SetToSeqs
    <3>2. Descending(o, w)
      BY DEF Descending
    <3>3. QED
      BY <3>1, <3>2
  <2>2. QED
    BY <2>1
<1>3. ASSUME NEW n \in T PROVE n + 1 \in T
  <2>0. n \in Nat /\ n + 1 \in Nat
    OBVIOUS
  <2>1. ASSUME NEW U \in SUBSET S, Cardinality(U) = n + 1 PROVE Sorts(U)
    <3>0. IsFiniteSet(U) /\ U # {}
      BY <1>1, <2>0, <2>1, FS_EmptySet
    <3>1. PICK m \in U : \A x \in U : w[m] <= w[x]
      BY <3>0, LeastExists
    <3>2. Cardinality(U \ {m}) = n
      <4>1. Cardinality(U \ {m}) = Cardinality(U) - 1
        BY <3>0, <3>1, FS_RemoveElement
      <4>2. QED
        BY <2>0, <2>1, <4>1
    <3>3. PICK o \in SetToSeqs(U \ {m}) : Descending(o, w)
      BY <3>2
    <3>4. o \in [1..n -> U \ {m}] /\ \A i, j \in 1..n : i # j => o[i] # o[j]
      BY <3>2 DEF SetToSeqs
    <3> DEFINE q == [i \in 1..(n + 1) |-> IF i = n + 1 THEN m ELSE o[i]]
    <3>5. /\ q \in [1..(n + 1) -> U]
          /\ q[n + 1] = m /\ \A i \in 1..n : q[i] = o[i]
      BY <2>0, <3>4
    <3> HIDE DEF q
    <3>6. ASSUME NEW i \in 1..(n + 1), NEW j \in 1..(n + 1), i # j PROVE q[i] # q[j]
      <4>1. CASE i \in 1..n /\ j \in 1..n
        BY <3>4, <3>5, <3>6, <4>1
      <4>2. CASE i = n + 1 /\ j \in 1..n
        BY <3>4, <3>5, <4>2
      <4>3. CASE i \in 1..n /\ j = n + 1
        BY <3>4, <3>5, <4>3
      <4>4. QED
        BY <2>0, <3>6, <4>1, <4>2, <4>3
    <3>7. ASSUME NEW i \in 1..(n + 1), NEW j \in 1..(n + 1), i < j PROVE w[q[i]] >= w[q[j]]
      <4>0. i \in 1..n
        BY <2>0, <3>7
      <4>1. CASE j \in 1..n
        BY <3>3, <3>4, <3>5, <3>7, <4>0, <4>1 DEF Descending
      <4>2. CASE j = n + 1
        <5>1. q[i] \in U /\ q[j] = m
          BY <3>5, <4>2
        <5>2. w[q[i]] \in Int /\ w[m] \in Int /\ w[m] <= w[q[i]]
          BY <3>1, <5>1
        <5>3. QED
          BY <5>1, <5>2
      <4>3. QED
        BY <2>0, <4>1, <4>2
    <3>8. q \in SetToSeqs(U)
      BY <2>1, <3>5, <3>6 DEF SetToSeqs
    <3>9. Descending(q, w)
      BY <3>5, <3>7 DEF Descending
    <3>10. QED
      BY <3>8, <3>9
  <2>2. QED
    BY <2>0, <2>1
<1>4. T = Nat
  <2>1. T \subseteq Nat
    OBVIOUS
  <2> HIDE DEF T
  <2>2. QED
    BY <1>2, <1>3, <2>1, Induction
<1>5. Cardinality(S) \in Nat
  BY FS_CardinalityType
<1>6. QED
  BY <1>4, <1>5

-----------------------------------------------------------------------------
(* What an evaluator decides, when it is given rows in some order.         *)

Highest(G) == {p \in G : \A q \in G : q.priority <= p.priority}

Decided(G) == IF G = {} THEN {Deny("no_matching_policy")} ELSE {Permit(p) : p \in Highest(G)}

\* ps are the rows S in the order o, in the form in which the evaluator has them, and
\* those of G match.
Gives(ps, M, o, S, G) ==
    /\ o \in SetToSeqs(S) /\ Len(ps) = Len(o)
    /\ \A i \in 1..Len(o) : /\ ps[i].priority = o[i].priority /\ ps[i].key = o[i].key
                            /\ ps[i] \in M <=> o[i] \in G

Rated(S) == IsFiniteSet(S) /\ \A p \in S : p.priority \in Int

\* In any order one of the rows of highest priority is the reason.
LEMMA VerdictDecided ==
  ASSUME NEW S, Rated(S), NEW G \in SUBSET S, NEW ps, NEW M, NEW o, Gives(ps, M, o, S, G)
  PROVE  /\ Verdict(ps, M) \in Decided(G)
         /\ G # {} => \E k \in 1..Len(o) :
               /\ o[k] \in Highest(G) /\ Verdict(ps, M) = Permit(o[k])
               /\ \A j \in 1..(k - 1) : o[j] \in G => o[j].priority < o[k].priority
<1>1. /\ o \in SetToSeqs(S) /\ Len(ps) = Len(o)
      /\ \A i \in 1..Len(o) : /\ ps[i].priority = o[i].priority /\ ps[i].key = o[i].key
                              /\ ps[i] \in M <=> o[i] \in G
  BY DEF Gives
<1>2. /\ Len(o) \in Nat /\ \A x \in S : \E i \in 1..Len(o) : o[i] = x
      /\ \A i \in 1..Len(o) : o[i] \in S
  BY <1>1, OrderingHasAll DEF Rated
<1>3. \A i \in 1..Len(ps) : ps[i].priority \in Int
  BY <1>1, <1>2 DEF Rated
<1>4. Settled(Best(ps, M), ps, M, Len(ps))
  BY <1>1, <1>2, <1>3, BestPicks
<1>5. CASE G = {}
  <2>1. Best(ps, M) = <<>>
    BY <1>1, <1>4, <1>5 DEF Settled
  <2>2. QED
    BY <1>5, <2>1 DEF Verdict, Decided
<1>6. CASE G # {}
  <2>1. PICK c \in 1..Len(o) : o[c] \in G
    BY <1>2, <1>6
  <2>2. PICK k \in 1..Len(ps) :
          /\ ps[k] \in M /\ Best(ps, M) = <<ps[k]>>
          /\ \A j \in 1..Len(ps) : ps[j] \in M => ps[j].priority <= ps[k].priority
          /\ \A j \in 1..(k - 1) : ps[j] \in M => ps[j].priority < ps[k].priority
    BY <1>1, <1>4, <2>1 DEF Settled
  <2>3. k \in 1..Len(o) /\ o[k] \in G /\ o[k].key = ps[k].key /\ o[k].priority = ps[k].priority
    BY <1>1, <2>2
  <2>4. ASSUME NEW q \in G PROVE q.priority <= o[k].priority
    <3>1. PICK j \in 1..Len(o) : o[j] = q
      BY <1>2
    <3>2. ps[j].priority <= ps[k].priority
      BY <1>1, <2>2, <3>1
    <3>3. QED
      BY <1>1, <2>3, <3>1, <3>2
  <2>5. o[k] \in Highest(G)
    BY <2>3, <2>4 DEF Highest
  <2>6. Verdict(ps, M) = Permit(o[k])
    <3>1. Best(ps, M) # <<>> /\ Best(ps, M)[1] = ps[k]
      BY <2>2
    <3>2. QED
      BY <2>3, <3>1 DEF Verdict, Permit
  <2>7. ASSUME NEW j \in 1..(k - 1), o[j] \in G PROVE o[j].priority < o[k].priority
    <3>1. j \in 1..Len(o)
      BY <1>2, <2>3
    <3>2. ps[j] \in M /\ ps[j].priority = o[j].priority
      BY <1>1, <2>7, <3>1
    <3>3. QED
      BY <2>2, <2>3, <3>2
  <2>8. Verdict(ps, M) \in Decided(G)
    BY <1>6, <2>5, <2>6 DEF Decided
  <2>9. QED
    BY <2>3, <2>5, <2>6, <2>7, <2>8
<1>7. QED
  BY <1>5, <1>6

\* Rows by descending priority, q before all others of its own.
Weight(S, q) == [p \in S |-> 2 * p.priority + (IF p = q THEN 1 ELSE 0)]

\* Each row of highest priority is the reason in one of the orders that ORDER BY allows.
LEMMA VerdictOfFirst ==
  ASSUME NEW S, Rated(S), NEW G \in SUBSET S, NEW ps, NEW M, NEW o, Gives(ps, M, o, S, G),
         NEW q \in Highest(G), Descending(o, Weight(S, q))
  PROVE  Verdict(ps, M) = Permit(q)
<1>1. G # {} /\ q \in G /\ q \in S /\ \A p \in G : p.priority <= q.priority
  BY DEF Highest
<1>2. PICK k \in 1..Len(o) :
        /\ o[k] \in Highest(G) /\ Verdict(ps, M) = Permit(o[k])
        /\ \A j \in 1..(k - 1) : o[j] \in G => o[j].priority < o[k].priority
  BY <1>1, VerdictDecided
<1>3. o \in SetToSeqs(S)
  BY DEF Gives
<1>4. /\ o \in [1..Cardinality(S) -> S] /\ Len(o) = Cardinality(S) /\ Len(o) \in Nat
      /\ \A i, j \in 1..Len(o) : o[i] = o[j] => i = j
      /\ \A x \in S : \E i \in 1..Len(o) : o[i] = x
  BY <1>3, OrderingHasAll DEF Rated
<1>5. PICK c \in 1..Len(o) : o[c] = q
  BY <1>1, <1>4
<1>6. o[k] \in S /\ o[k] \in G /\ o[k].priority \in Int /\ q.priority \in Int
      /\ o[k].priority <= q.priority
  BY <1>1, <1>2, <1>4 DEF Rated, Highest
<1>7. ~(c < k)
  <2>1. SUFFICES ASSUME c < k PROVE FALSE
    OBVIOUS
  <2>2. c \in 1..(k - 1)
    BY <1>4, <2>1
  <2>3. q.priority < o[k].priority
    BY <1>1, <1>2, <1>5, <2>2
  <2>4. QED
    BY <1>6, <2>3
<1>8. ~(k < c)
  <2>1. SUFFICES ASSUME k < c PROVE FALSE
    OBVIOUS
  <2>2. o[k] # q
    BY <1>4, <1>5, <2>1
  <2>3. Weight(S, q)[o[k]] >= Weight(S, q)[o[c]]
    BY <1>4, <2>1 DEF Descending
  <2>4. Weight(S, q)[o[k]] = 2 * o[k].priority + 0
    BY <1>6, <2>2 DEF Weight
  <2>5. Weight(S, q)[o[c]] = 2 * q.priority + 1
    BY <1>1, <1>5 DEF Weight
  <2>6. QED
    BY <1>6, <2>3, <2>4, <2>5
<1>9. k = c
  BY <1>4, <1>7, <1>8
<1>10. QED
  BY <1>2, <1>5, <1>9

\* There is an order for every such row, and one that ORDER BY priority DESC allows.
LEMMA OrderFor ==
  ASSUME NEW S, Rated(S), NEW q
  PROVE  \E o \in SetToSeqs(S) :
            /\ Descending(o, Weight(S, q))
            /\ \A i, j \in DOMAIN o : i < j => o[i].priority >= o[j].priority
<1>1. \A p \in S : Weight(S, q)[p] = 2 * p.priority + (IF p = q THEN 1 ELSE 0)
  BY DEF Weight
<1>2. \A p \in S : p.priority \in Int
  BY DEF Rated
<1>3. \A p \in S : Weight(S, q)[p] \in Int
  BY <1>1, <1>2
<1>4. PICK o \in SetToSeqs(S) : Descending(o, Weight(S, q))
  BY <1>3, OrderingExists DEF Rated
<1>5. ASSUME NEW i \in DOMAIN o, NEW j \in DOMAIN o, i < j
      PROVE  o[i].priority >= o[j].priority
  <2>1. o[i] \in S /\ o[j] \in S
    BY <1>4, OrderingHasAll DEF Rated
  <2>2. Weight(S, q)[o[i]] >= Weight(S, q)[o[j]]
    BY <1>4, <1>5 DEF Descending
  <2>3. o[i].priority \in Int /\ o[j].priority \in Int
    BY <1>2, <2>1
  <2>4. 2 * o[i].priority + 1 >= 2 * o[j].priority
    BY <1>1, <2>1, <2>2, <2>3
  <2>5. QED
    BY <2>3, <2>4
<1>6. QED
  BY <1>4, <1>5

-----------------------------------------------------------------------------
(* The rows as records.                                                    *)

\* The columns of the record.
LEMMA LoadedColumns ==
  ASSUME NEW p, {"role", "department", "clearance", "rtype", "subject", "resource"}
                  \subseteq DOMAIN p
  PROVE  /\ Loaded(p).role = (IF p.role = Unset THEN "" ELSE p.role)
         /\ Loaded(p).department = (IF p.department = Unset THEN "" ELSE p.department)
         /\ Loaded(p).clearance = (IF p.clearance = Unset THEN -1 ELSE p.clearance)
         /\ Loaded(p).rtype = (IF p.rtype = Unset THEN "" ELSE p.rtype)
         /\ Loaded(p).subject = (IF p.subject = Unset THEN 0 ELSE p.subject)
         /\ Loaded(p).resource = (IF p.resource = Unset THEN 0 ELSE p.resource)
<1>1. /\ Loaded(p).role = (IF p.role = Unset THEN "" ELSE p.role)
      /\ Loaded(p).department = (IF p.department = Unset THEN "" ELSE p.department)
      /\ Loaded(p).rtype = (IF p.rtype = Unset THEN "" ELSE p.rtype)
  BY Zenon DEF Loaded
<1>2. /\ Loaded(p).subject = (IF p.subject = Unset THEN 0 ELSE p.subject)
      /\ Loaded(p).resource = (IF p.resource = Unset THEN 0 ELSE p.resource)
  BY Zenon DEF Loaded
<1>3. Loaded(p).clearance = (IF p.clearance = Unset THEN -1 ELSE p.clearance)
  BY Zenon DEF Loaded
<1>4. QED
  BY <1>1, <1>2, <1>3

(* The "", -1 and 0 that stand for NULL in pip::PolicyRecord can be told   *)
(* from every condition, so PDP::evaluate() applies each rule that is      *)
(* loaded as policy_matches() applies its row (pip.cpp 624-640).           *)
THEOREM LoadingLosesNothing ==
  ASSUME NEW p, NEW s, NEW r, Stored(p), s.clearance \in Nat
  PROVE  RecordMatches(s, r, Loaded(p)) <=> PolicyMatches(s, r, p)
<1> DEFINE pol == Loaded(p)
<1>s. /\ Columns \subseteq DOMAIN p
      /\ Text(p.role) /\ Text(p.department) /\ Text(p.rtype)
      /\ Level(p.clearance) /\ Id(p.subject) /\ Id(p.resource)
  BY DEF Stored, Conditions
<1>d. {"role", "department", "clearance", "rtype", "subject", "resource"} \subseteq DOMAIN p
  BY <1>s DEF Columns
<1>1. /\ pol.role = (IF p.role = Unset THEN "" ELSE p.role)
      /\ pol.department = (IF p.department = Unset THEN "" ELSE p.department)
      /\ pol.rtype = (IF p.rtype = Unset THEN "" ELSE p.rtype)
      /\ pol.subject = (IF p.subject = Unset THEN 0 ELSE p.subject)
      /\ pol.resource = (IF p.resource = Unset THEN 0 ELSE p.resource)
  BY <1>d, LoadedColumns, Zenon
<1>c. pol.clearance = (IF p.clearance = Unset THEN -1 ELSE p.clearance)
  BY <1>d, LoadedColumns, Zenon
<1> HIDE DEF pol
<1>2. pol.role \in {"", s.role} <=> p.role \in {Unset, s.role}
  BY <1>s, <1>1 DEF Text
<1>3. pol.department \in {"", s.department} <=> p.department \in {Unset, s.department}
  BY <1>s, <1>1 DEF Text
<1>4. (pol.clearance >= 0 => s.clearance >= pol.clearance) <=>
        (p.clearance = Unset \/ s.clearance >= p.clearance)
  <2>1. CASE p.clearance = Unset
    <3>1. pol.clearance = -1
      BY <1>c, <2>1
    <3>2. ~(pol.clearance >= 0)
      BY <3>1
    <3>3. QED
      BY <2>1, <3>2
  <2>2. CASE p.clearance # Unset
    <3>1. pol.clearance = p.clearance /\ p.clearance \in Nat
      BY <1>s, <1>c, <2>2 DEF Level
    <3>2. pol.clearance >= 0
      BY <3>1
    <3>3. QED
      BY <2>2, <3>1, <3>2
  <2>3. QED
    BY <2>1, <2>2
<1>5. pol.rtype \in {"", r.rtype} <=> p.rtype \in {Unset, r.rtype}
  BY <1>s, <1>1 DEF Text
<1>6. pol.subject \in {0, s.id} <=> p.subject \in {Unset, s.id}
  BY <1>s, <1>1 DEF Id
<1>7. pol.resource \in {0, r.id} <=> p.resource \in {Unset, r.id}
  BY <1>s, <1>1 DEF Id
<1>8. QED
  BY <1>2, <1>3, <1>4, <1>5, <1>6, <1>7 DEF RecordMatches, PolicyMatches, pol

-----------------------------------------------------------------------------
(* What the evaluators decide over a table.                                *)

Table(T) == IsFiniteSet(T) /\ \A p \in T : Stored(p)

\* The rules that grant the request.
Granting(s, r, a, T) == {p \in T : Grants(p, s, r, a)}

\* domain::evaluate_policy() on the rows.
LEMMA DomainDecides ==
  ASSUME NEW T, Table(T), NEW s, NEW r, NEW a, s.active
  PROVE  {EvaluatePolicy(s, r, a, o) : o \in SetToSeqs(T)} = Decided(Granting(s, r, a, T))
<1> DEFINE granting == Granting(s, r, a, T)
           M(o) == {p \in ToSet(o) : Grants(p, s, r, a)}
<1>1. Rated(T) /\ granting \subseteq T
  BY DEF Table, Stored, Rated, Granting
<1>2. ASSUME NEW o \in SetToSeqs(T)
      PROVE  /\ EvaluatePolicy(s, r, a, o) = Verdict(o, M(o))
             /\ Gives(o, M(o), o, T, granting)
  <2>1. ToSet(o) = T /\ \A i \in 1..Len(o) : o[i] \in T
    BY <1>1, OrderingHasAll DEF Rated
  <2>2. M(o) = granting
    BY <2>1 DEF Granting
  <2>3. Gives(o, granting, o, T, granting)
    BY DEF Gives
  <2>4. EvaluatePolicy(s, r, a, o) = Verdict(o, M(o))
    BY Zenon DEF EvaluatePolicy
  <2>5. QED
    BY <2>2, <2>3, <2>4
<1> HIDE DEF M, granting
<1>3. ASSUME NEW o \in SetToSeqs(T)
      PROVE  EvaluatePolicy(s, r, a, o) \in Decided(granting)
  BY <1>1, <1>2, VerdictDecided
<1>4. ASSUME NEW d \in Decided(granting)
      PROVE  \E o \in SetToSeqs(T) : d = EvaluatePolicy(s, r, a, o)
  <2>1. CASE granting = {}
    <3>1. PICK o \in SetToSeqs(T) : TRUE
      BY <1>1, OrderFor
    <3>2. EvaluatePolicy(s, r, a, o) \in Decided(granting)
      BY <1>3
    <3>3. QED
      BY <2>1, <3>2 DEF Decided
  <2>2. CASE granting # {}
    <3>1. PICK q \in Highest(granting) : d = Permit(q)
      BY <2>2 DEF Decided
    <3>2. PICK o \in SetToSeqs(T) : Descending(o, Weight(T, q))
      BY <1>1, OrderFor
    <3>3. Verdict(o, M(o)) = Permit(q)
      BY <1>1, <1>2, <3>2, VerdictOfFirst
    <3>4. QED
      BY <1>2, <3>1, <3>3
  <2>3. QED
    BY <2>1, <2>2
<1>5. {EvaluatePolicy(s, r, a, o) : o \in SetToSeqs(T)} = Decided(granting)
  BY <1>3, <1>4
<1>6. QED
  BY <1>5 DEF granting

\* pdp::PDP::evaluate() on the records of the rules that the query selects.
LEMMA ServerDecides ==
  ASSUME NEW T, Table(T), NEW s, s.clearance \in Nat, NEW r, NEW a, MayUse(s)
  PROVE  ServerDecisions(s, r, a, T) = Decided(Granting(s, r, a, T))
<1> DEFINE granting == Granting(s, r, a, T)
           S == Selected(T, a)
           records(o) == [i \in DOMAIN o |-> Loaded(o[i])]
           M(ps) == {p \in ToSet(ps) : RecordMatches(s, r, p)}
           ordered == {o \in SetToSeqs(S) :
                         \A i, j \in DOMAIN o : i < j => o[i].priority >= o[j].priority}
<1>0. \A p \in T : Stored(p)
  BY DEF Table
<1>1. S \subseteq T
  BY DEF Selected
<1>2. Rated(S)
  <2>1. IsFiniteSet(S)
    BY <1>1, FS_Subset DEF Table
  <2>2. QED
    BY <1>0, <1>1, <2>1 DEF Stored, Rated
<1>3. \A p \in S : p \in granting <=> PolicyMatches(s, r, p)
  BY DEF Selected, Granting, Grants
<1>4. granting \subseteq S
  BY DEF Selected, Granting, Grants
<1>5. \A p \in S : RecordMatches(s, r, Loaded(p)) <=> p \in granting
  <2> TAKE p \in S
  <2>1. Stored(p)
    BY <1>0, <1>1
  <2>2. RecordMatches(s, r, Loaded(p)) <=> PolicyMatches(s, r, p)
    BY <1>0, <2>1, LoadingLosesNothing
  <2>3. QED
    BY <1>3, <2>2
<1>6. \A p \in S : Loaded(p).priority = p.priority /\ Loaded(p).key = p.key
  <2> TAKE p \in S
  <2>1. "priority" \in DOMAIN p /\ "key" \in DOMAIN p
    BY <1>0, <1>1 DEF Stored, Columns
  <2>2. Loaded(p).priority = p.priority
    BY <2>1, Zenon DEF Loaded
  <2>3. Loaded(p).key = p.key
    BY <2>1, Zenon DEF Loaded
  <2>4. QED
    BY <2>2, <2>3
<1> HIDE DEF S, granting
<1>7. ASSUME NEW o \in SetToSeqs(S)
      PROVE  Gives(records(o), M(records(o)), o, S, granting)
  <2>1. /\ o \in [1..Cardinality(S) -> S] /\ Len(o) = Cardinality(S) /\ Len(o) \in Nat
    BY <1>2, OrderingHasAll DEF Rated
  <2>2. DOMAIN records(o) = 1..Len(o) /\ Len(records(o)) = Len(o)
    BY <2>1
  <2>3. ASSUME NEW i \in 1..Len(o)
        PROVE  /\ records(o)[i] = Loaded(o[i]) /\ o[i] \in S
               /\ records(o)[i] \in ToSet(records(o))
    BY <2>1, <2>2 DEF ToSet
  <2> HIDE DEF records
  <2>4. ASSUME NEW i \in 1..Len(o)
        PROVE  /\ records(o)[i].priority = o[i].priority /\ records(o)[i].key = o[i].key
               /\ records(o)[i] \in M(records(o)) <=> o[i] \in granting
    <3>1. /\ records(o)[i].priority = o[i].priority /\ records(o)[i].key = o[i].key
      BY <1>6, <2>3
    <3>2. records(o)[i] \in M(records(o)) <=> RecordMatches(s, r, Loaded(o[i]))
      BY <2>3
    <3>3. RecordMatches(s, r, Loaded(o[i])) <=> o[i] \in granting
      BY <1>5, <2>3
    <3>4. QED
      BY <3>1, <3>2, <3>3
  <2>5. QED
    BY <2>2, <2>4 DEF Gives
<1>8. \A ps : Evaluate(s, r, a, ps) = Verdict(ps, M(ps))
  BY Zenon DEF Evaluate, MayUse
<1>9. ServerDecisions(s, r, a, T) = {Verdict(records(o), M(records(o))) : o \in ordered}
  <2>1. FindEnabledPolicies(T, a) = {records(o) : o \in ordered}
    BY Zenon DEF FindEnabledPolicies, S
  <2> HIDE DEF records, ordered
  <2>2. ServerDecisions(s, r, a, T) = {Verdict(ps, M(ps)) : ps \in FindEnabledPolicies(T, a)}
    BY <1>8 DEF ServerDecisions
  <2> HIDE DEF M
  <2>3. QED
    BY <2>1, <2>2
<1> HIDE DEF records, M
<1>10. ASSUME NEW o \in ordered
       PROVE  Verdict(records(o), M(records(o))) \in Decided(granting)
  BY <1>2, <1>4, <1>7, VerdictDecided
<1>11. ASSUME NEW d \in Decided(granting)
       PROVE  \E o \in ordered : d = Verdict(records(o), M(records(o)))
  <2>1. CASE granting = {}
    <3>1. PICK o \in SetToSeqs(S) : \A i, j \in DOMAIN o : i < j => o[i].priority >= o[j].priority
      BY <1>2, OrderFor
    <3>2. Verdict(records(o), M(records(o))) \in Decided(granting)
      BY <1>10, <3>1
    <3>3. QED
      BY <2>1, <3>1, <3>2 DEF Decided
  <2>2. CASE granting # {}
    <3>1. PICK q \in Highest(granting) : d = Permit(q)
      BY <2>2 DEF Decided
    <3>2. PICK o \in SetToSeqs(S) :
             /\ Descending(o, Weight(S, q))
             /\ \A i, j \in DOMAIN o : i < j => o[i].priority >= o[j].priority
      BY <1>2, OrderFor
    <3>3. Verdict(records(o), M(records(o))) = Permit(q)
      BY <1>2, <1>4, <1>7, <3>2, VerdictOfFirst
    <3>4. QED
      BY <3>1, <3>2, <3>3
  <2>3. QED
    BY <2>1, <2>2
<1>12. ServerDecisions(s, r, a, T) = Decided(granting)
  BY <1>9, <1>10, <1>11
<1>13. QED
  BY <1>12 DEF granting

\* It always returns something.
LEMMA ServerAnswers ==
  ASSUME NEW T, Table(T), NEW s, NEW r, NEW a
  PROVE  ServerDecisions(s, r, a, T) # {}
<1>1. Selected(T, a) \subseteq T
  BY DEF Selected
<1>2. Rated(Selected(T, a))
  BY <1>1, FS_Subset DEF Rated, Table, Stored
<1>3. PICK o \in SetToSeqs(Selected(T, a)) :
              \A i, j \in DOMAIN o : i < j => o[i].priority >= o[j].priority
  BY <1>2, OrderFor
<1>4. [i \in DOMAIN o |-> Loaded(o[i])] \in FindEnabledPolicies(T, a)
  BY <1>3, Zenon DEF FindEnabledPolicies
<1>5. QED
  BY <1>4 DEF ServerDecisions

(* PDP::evaluate() decides as evaluate_policy() does over the same rows,   *)
(* in whatever orders each has them, for a subject with attributes who is  *)
(* not locked out.                                                         *)
THEOREM EvaluatedAlike ==
  ASSUME NEW T, Table(T), NEW s, s.attrs, ~s.locked, s.clearance \in Nat, NEW r, NEW a
  PROVE  ServerDecisions(s, r, a, T) = {EvaluatePolicy(s, r, a, o) : o \in SetToSeqs(T)}
<1>1. CASE s.active
  BY <1>1, DomainDecides, ServerDecides DEF MayUse
<1>2. CASE ~s.active
  <2>1. \A o : EvaluatePolicy(s, r, a, o) = Deny("account_inactive")
    BY <1>2, Zenon DEF EvaluatePolicy
  <2>2. \A ps : Evaluate(s, r, a, ps) = Deny("account_inactive")
    BY <1>2, Zenon DEF Evaluate
  <2>3. \E o : o \in SetToSeqs(T)
    BY OrderFor DEF Rated, Table, Stored
  <2>4. ServerDecisions(s, r, a, T) = {Deny("account_inactive")}
    BY <2>2, ServerAnswers DEF ServerDecisions
  <2>5. QED
    BY <2>1, <2>3, <2>4
<1>3. QED
  BY <1>1, <1>2

(* However PostgreSQL orders rows of equal priority, PDP::evaluate() says  *)
(* yes exactly if the account may be used and an enabled rule grants the   *)
(* request, and then the reason is a rule of the highest priority.         *)
THEOREM ServerPermits ==
  ASSUME NEW T, Table(T), NEW s, s.active \in BOOLEAN, s.locked \in BOOLEAN,
         s.attrs \in BOOLEAN, s.clearance \in Nat, NEW r, NEW a,
         NEW d \in ServerDecisions(s, r, a, T)
  PROVE  /\ d.allowed <=> Allowed(s, r, a, T)
         /\ d.allowed => \E p \in Highest(Granting(s, r, a, T)) : d.policy = p.key
<1>1. CASE MayUse(s)
  <2>1. d \in Decided(Granting(s, r, a, T))
    BY <1>1, ServerDecides
  <2>2. Allowed(s, r, a, T) <=> Granting(s, r, a, T) # {}
    BY <1>1 DEF Allowed, Granting
  <2>3. CASE Granting(s, r, a, T) = {}
    <3>1. ~d.allowed
      BY <2>1, <2>3 DEF Decided, Deny
    <3>2. QED
      BY <2>2, <2>3, <3>1
  <2>4. CASE Granting(s, r, a, T) # {}
    <3>1. PICK p \in Highest(Granting(s, r, a, T)) : d = Permit(p)
      BY <2>1, <2>4 DEF Decided
    <3>2. d.allowed /\ d.policy = p.key
      BY <3>1 DEF Permit
    <3>3. QED
      BY <2>2, <2>4, <3>2
  <2>5. QED
    BY <2>3, <2>4
<1>2. CASE ~MayUse(s)
  <2>1. \A ps : ~Evaluate(s, r, a, ps).allowed
    <3> TAKE ps
    <3>1. CASE ~s.active
      BY <3>1 DEF Evaluate, Deny
    <3>2. CASE s.active /\ s.locked
      BY <3>2 DEF Evaluate, Deny
    <3>3. CASE s.active /\ ~s.locked /\ ~s.attrs
      BY <3>3 DEF Evaluate, Deny
    <3>4. QED
      BY <1>2, <3>1, <3>2, <3>3 DEF MayUse
  <2>2. ~d.allowed
    BY <2>1 DEF ServerDecisions
  <2>3. QED
    BY <1>2, <2>2 DEF Allowed
<1>3. QED
  BY <1>1, <1>2
=============================================================================
