--------------------------- MODULE ListingProofs ---------------------------
(***************************************************************************)
(* Reading a list page by page while it changes: proofs about Listing, for *)
(* any number of rows, changes and pages of any size.                      *)
(*                                                                         *)
(* Where a row stands in a list is its rank: how many ids stand before it. *)
(* A page holds the rows of the ranks from its offset on, and a change     *)
(* moves a rank one way only as long as no row leaves its place, or none   *)
(* comes in before others.                                                 *)
(***************************************************************************)
EXTENDS Listing, SequenceTheorems, FunctionTheorems, FiniteSetTheorems, TLAPS

-----------------------------------------------------------------------------
(* The rows.                                                               *)

\* Rows with ids up to n.
RowsOK(T, n) == /\ T \subseteq [key : 1..n, rank : RanksOf, kind : KindsOf]
                /\ \A x, y \in T : x.key = y.key => x = y

Shape == TypeOK /\ size \in 1..MaxSize /\ serial \in 0..MaxRows

\* What the rows of T may be after a change, and the rights.
Kept(T, may) == /\ RowsOK(T, serial')
                /\ \A x \in T : (\E y \in rows : y.key = x.key) \/ x.key = serial + 1
                /\ may \subseteq 1..MaxRows
                /\ serial' \in {serial, serial + 1} /\ serial' \in 0..MaxRows

LEMMA RanksAreNumbers == RanksOf \subseteq Int
  BY ListingAssumption DEF RanksOf

\* The answer to a request: a page of the list, without what the reader may not see.
Reads(items, total) ==
    /\ \E s \in Pages(Before(rows), Listed(rows)) :
          ToSet(items) = {x \in ToSet(s) : Visible(x, role, permitted)}
    /\ items \in Seq(rows)
    /\ \A i, j \in 1..Len(items) : items[i] = items[j] => i = j
    /\ total = Cardinality(Listed(rows))

LEMMA MinOfTwo ==
  ASSUME NEW a \in Int, NEW b \in Int
  PROVE  Min({a, b}) = IF a <= b THEN a ELSE b
<1>1. \E x \in {a, b} : \A y \in {a, b} : x <= y
  OBVIOUS
<1> DEFINE m == CHOOSE x \in {a, b} : \A y \in {a, b} : x <= y
<1>2. m \in {a, b} /\ \A y \in {a, b} : m <= y
  BY <1>1, Zenon
<1>3. Min({a, b}) = m
  BY DEF Min
<1> HIDE DEF m
<1>4. QED
  BY <1>2, <1>3

\* The offset of a page and the one after it.
LEMMA Offsets ==
  ASSUME NEW pg \in Nat, NEW sz \in Nat
  PROVE  /\ (pg - 1) * sz \in Int /\ pg * sz \in Nat
         /\ pg * sz = (pg - 1) * sz + sz
         /\ pg >= 1 => (pg - 1) * sz \in Nat
         /\ pg < 1 => pg * sz = 0 /\ (pg - 1) * sz = -sz
<1>1. CASE pg = 0
  BY <1>1
<1>2. CASE pg >= 1
  <2>1. PICK k \in Nat : pg = k + 1
    <3>1. pg - 1 \in Nat /\ pg = (pg - 1) + 1
      BY <1>2
    <3>2. QED
      BY <3>1
  <2>2. pg - 1 = k
    BY <2>1
  <2>3. k * sz \in Nat /\ (k + 1) * sz = k * sz + sz
    OBVIOUS
  <2>4. QED
    BY <1>2, <2>1, <2>2, <2>3
<1>3. QED
  BY <1>1, <1>2

\* What LIMIT and OFFSET leave of a list.
LEMMA CutIs ==
  ASSUME NEW T, NEW s \in Seq(T), page \in Nat, size \in Nat
  PROVE  LET lo == (page - 1) * size
         IN  /\ Cut(s) \in Seq(T)
             /\ page < 1 => Len(Cut(s)) = 0
             /\ page >= 1 =>
                  /\ \A i \in 1..Len(Cut(s)) :
                        lo + i \in 1..Len(s) /\ i <= size /\ Cut(s)[i] = s[lo + i]
                  /\ \A k \in 1..Len(s) :
                        lo < k /\ k <= lo + size => k - lo \in 1..Len(Cut(s))
<1> DEFINE lo == (page - 1) * size
           n == Len(s)
<1>1. n \in Nat /\ lo \in Int
  BY LenProperties, Offsets
<1>2. CASE page < 1
  <2>1. Cut(s) = <<>>
    BY <1>2 DEF Cut
  <2>2. <<>> \in Seq(T) /\ Len(<<>>) = 0
    BY EmptySeq
  <2>3. ~(page >= 1)
    BY <1>2
  <2>4. QED
    BY <2>1, <2>2, <2>3
<1>3. CASE page >= 1
  <2> DEFINE hi == Min({page * size, n})
  <2>1. lo \in Nat /\ page * size = lo + size /\ lo + size \in Nat
    BY <1>3, Offsets
  <2>2. hi = IF lo + size <= n THEN lo + size ELSE n
    BY <1>1, <2>1, MinOfTwo
  <2> HIDE DEF hi, n, lo
  <2>3. hi \in Nat /\ hi <= n /\ hi <= lo + size /\ (hi = n \/ hi = lo + size)
    BY <1>1, <2>1, <2>2
  <2>4. Cut(s) = SubSeq(s, lo + 1, hi)
    <3>1. ~(page < 1)
      BY <1>3
    <3>2. QED
      BY <3>1 DEF Cut, hi, lo, n
  <2>5. \A i \in (lo + 1)..hi : s[i] \in T
    <3> TAKE i \in (lo + 1)..hi
    <3>1. i \in 1..Len(s)
      BY <1>1, <2>1, <2>3 DEF n
    <3>2. QED
      BY <3>1, ElementOfSeq
  <2>6. lo + 1 \in Int /\ hi \in Int
    BY <2>1, <2>3
  <2>7. /\ Cut(s) \in Seq(T)
        /\ Len(Cut(s)) = (IF lo + 1 <= hi THEN hi - (lo + 1) + 1 ELSE 0)
        /\ \A i \in 1..(hi - (lo + 1) + 1) : Cut(s)[i] = s[(lo + 1) + i - 1]
    BY <2>4, <2>5, <2>6, SubSeqProperties
  <2>8. Len(Cut(s)) = IF lo < hi THEN hi - lo ELSE 0
    BY <2>1, <2>3, <2>7
  <2>9. ASSUME NEW i \in 1..Len(Cut(s))
        PROVE  lo + i \in 1..n /\ i <= size /\ Cut(s)[i] = s[lo + i]
    <3>1. lo < hi /\ i \in 1..(hi - lo)
      BY <2>1, <2>3, <2>8
    <3>2. i \in 1..(hi - (lo + 1) + 1) /\ (lo + 1) + i - 1 = lo + i
      BY <2>1, <2>3, <3>1
    <3>3. Cut(s)[i] = s[lo + i]
      BY <2>7, <3>2
    <3>4. QED
      BY <1>1, <2>1, <2>3, <3>1, <3>3
  <2>10. ASSUME NEW k \in 1..n, lo < k, k <= lo + size PROVE k - lo \in 1..Len(Cut(s))
    <3>1. k <= hi
      BY <1>1, <2>1, <2>3, <2>10
    <3>2. QED
      BY <1>1, <2>1, <2>3, <2>8, <2>10, <3>1
  <2>11. ~(page < 1)
    BY <1>3
  <2>12. QED
    BY <2>7, <2>9, <2>10, <2>11 DEF n, lo
<1>4. QED
  BY <1>2, <1>3

\* A set of rows with different ids has no more elements than ids.
LEMMA RowsFinite ==
  ASSUME NEW n \in Nat, NEW T, RowsOK(T, n)
  PROVE  IsFiniteSet(T)
<1> DEFINE f == [x \in T |-> x.key]
<1>1. f \in [T -> 1..n]
  BY DEF RowsOK
<1>2. \A x, y \in T : f[x] = f[y] => x = y
  BY DEF RowsOK
<1> HIDE DEF f
<1>3. f \in Injection(T, 1..n)
  BY <1>1, <1>2, Fun_IsInj
<1>4. IsFiniteSet(1..n)
  BY FS_Interval
<1>5. QED
  BY <1>3, <1>4, FS_Injection

LEMMA ListedRows ==
  ASSUME NEW n \in Nat, NEW T, RowsOK(T, n)
  PROVE  /\ Listed(T) \subseteq T /\ IsFiniteSet(Listed(T))
         /\ Cardinality(Listed(T)) \in Nat
         /\ \A x \in Listed(T) : x.key \in 1..n /\ x.rank \in Int
<1>1. Listed(T) \subseteq T
  BY DEF Listed, Fitting
<1>2. IsFiniteSet(T)
  BY RowsFinite
<1>3. IsFiniteSet(Listed(T))
  BY <1>1, <1>2, FS_Subset
<1>4. \A x \in T : x.key \in 1..n /\ x.rank \in Int
  BY RanksAreNumbers DEF RowsOK
<1>5. QED
  BY <1>1, <1>3, <1>4, FS_CardinalityType

\* An ordering of S has every element of S once.
LEMMA OrderingHasAll ==
  ASSUME NEW S, IsFiniteSet(S), NEW o \in SetToSeqs(S)
  PROVE  /\ o \in Seq(S) /\ Len(o) = Cardinality(S) /\ Len(o) \in Nat
         /\ DOMAIN o = 1..Len(o)
         /\ \A i, j \in 1..Len(o) : o[i] = o[j] => i = j
         /\ \A x \in S : \E i \in 1..Len(o) : o[i] = x
         /\ ToSet(o) = S
<1> DEFINE n == Cardinality(S)
<1>1. n \in Nat
  BY FS_CardinalityType
<1>2. o \in [1..n -> S] /\ \A i, j \in 1..n : i # j => o[i] # o[j]
  BY DEF SetToSeqs
<1>3. Len(o) = n /\ o \in Seq(S)
  BY <1>1, <1>2
<1> HIDE DEF n
<1>4. o \in Injection(1..n, S)
  <2>1. o \in [1..n -> S] /\ \A i, j \in 1..n : o[i] = o[j] => i = j
    BY <1>2
  <2>2. QED
    BY <2>1, Fun_IsInj
<1>5. Cardinality(1..n) = n
  BY <1>1, FS_Interval
<1>6. o \in Surjection(1..n, S)
  <2>1. Cardinality(1..n) = Cardinality(S) <=> o \in Surjection(1..n, S)
    BY <1>4, FS_Injection
  <2>2. QED
    BY <1>5, <2>1 DEF n
<1>7. \A x \in S : \E i \in 1..n : o[i] = x
  BY <1>6 DEF Surjection
<1>8. ToSet(o) = S
  BY <1>2, <1>7 DEF ToSet
<1>9. \A i, j \in 1..Len(o) : o[i] = o[j] => i = j
  BY <1>2, <1>3
<1>10. QED
  BY <1>1, <1>2, <1>3, <1>7, <1>8, <1>9 DEF n

-----------------------------------------------------------------------------
(* The order of a list, and ranks.                                         *)

\* ORDER BY puts x before y.
Ahead(x, y) == CASE list = "policies" -> x.rank > y.rank \/ (x.rank = y.rank /\ x.key < y.key)
                 [] list = "journal"  -> x.rank > y.rank
                 [] OTHER             -> x.key < y.key

LEMMA BeforeIsAhead ==
  ASSUME NEW T, NEW x \in T, NEW y \in T
  PROVE  <<x, y>> \in Before(T) <=> Ahead(x, y)
<1>1. CASE list = "policies"
  BY <1>1 DEF Before, Ahead, ByPriority
<1>2. CASE list = "journal"
  BY <1>2 DEF Before, Ahead, ByTime
<1>3. CASE list \notin {"policies", "journal"}
  BY <1>3 DEF Before, Ahead, ById
<1>4. QED
  BY <1>1, <1>2, <1>3

LEMMA AheadIsStrict ==
  ASSUME NEW x, NEW y, x.key \in Int, x.rank \in Int, y.key \in Int, y.rank \in Int
  PROVE  ~Ahead(x, x) /\ ~(Ahead(x, y) /\ Ahead(y, x))
  BY DEF Ahead

LEMMA AheadByPlace ==
  ASSUME NEW x, NEW y, NEW u, NEW v, Place(x) = Place(u), Place(y) = Place(v)
  PROVE  Ahead(x, y) <=> Ahead(u, v)
<1>1. x.key = u.key /\ x.rank = u.rank /\ y.key = v.key /\ y.rank = v.rank
  BY DEF Place
<1>2. QED
  BY <1>1 DEF Ahead

\* The ids of the listed rows before x, and how many they are.
Preceding(T, x) == {y.key : y \in {z \in Listed(T) : Ahead(z, x)}}
Rank(T, x) == Cardinality(Preceding(T, x))

LEMMA RankType ==
  ASSUME NEW n \in Nat, NEW T, RowsOK(T, n), NEW x
  PROVE  /\ Preceding(T, x) \subseteq 1..n /\ IsFiniteSet(Preceding(T, x))
         /\ Rank(T, x) \in Nat
<1>1. Preceding(T, x) \subseteq 1..n
  BY ListedRows DEF Preceding
<1>2. IsFiniteSet(1..n)
  BY FS_Interval
<1>3. IsFiniteSet(Preceding(T, x))
  BY <1>1, <1>2, FS_Subset
<1>4. QED
  BY <1>1, <1>3, FS_CardinalityType DEF Rank

(* In a list without ties the query returns each row at its rank.          *)
LEMMA RankIsPosition ==
  ASSUME NEW n \in Nat, NEW T, RowsOK(T, n), ~Tied(T),
         NEW s \in Sorted(Before(T), Listed(T)), NEW i \in 1..Len(s)
  PROVE  Rank(T, s[i]) = i - 1
<1> DEFINE L == Listed(T)
<1>1. /\ s \in Seq(L) /\ Len(s) \in Nat /\ DOMAIN s = 1..Len(s)
      /\ \A j, k \in 1..Len(s) : s[j] = s[k] => j = k
      /\ \A x \in L : \E j \in 1..Len(s) : s[j] = x
  BY ListedRows, OrderingHasAll DEF Sorted
<1>2. \A j, k \in 1..Len(s) : j < k => <<s[k], s[j]>> \notin Before(T)
  BY <1>1 DEF Sorted
<1>3. \A j \in 1..Len(s) : s[j] \in L /\ s[j] \in T /\ s[j].key \in 1..n /\ s[j].rank \in Int
  <2> TAKE j \in 1..Len(s)
  <2>1. s[j] \in L
    BY <1>1, ElementOfSeq
  <2>2. QED
    BY <2>1, ListedRows
<1>4. \A x, y \in L : x # y => <<x, y>> \in Before(T) \/ <<y, x>> \in Before(T)
  BY DEF Tied
<1>5. ASSUME NEW j \in 1..Len(s), NEW k \in 1..Len(s), j < k
      PROVE  Ahead(s[j], s[k]) /\ ~Ahead(s[k], s[j])
  <2>1. s[j] # s[k]
    BY <1>1, <1>5
  <2>2. <<s[k], s[j]>> \notin Before(T)
    BY <1>2, <1>5
  <2>3. <<s[j], s[k]>> \in Before(T)
    BY <1>3, <1>4, <2>1, <2>2
  <2>4. QED
    BY <1>3, <2>2, <2>3, BeforeIsAhead
<1> DEFINE P == Preceding(T, s[i])
           f == [j \in 1..(i - 1) |-> s[j].key]
<1>6. \A j \in 1..(i - 1) : j \in 1..Len(s) /\ j < i
  BY <1>1
<1>7. f \in [1..(i - 1) -> P]
  BY <1>3, <1>5, <1>6 DEF Preceding
<1>8. \A j, k \in 1..(i - 1) : f[j] = f[k] => j = k
  <2> TAKE j, k \in 1..(i - 1)
  <2>1. s[j].key = s[k].key => s[j] = s[k]
    BY <1>3, <1>6 DEF RowsOK
  <2>2. QED
    BY <1>1, <1>6, <2>1
<1>9. \A q \in P : \E j \in 1..(i - 1) : f[j] = q
  <2> TAKE q \in P
  <2>1. PICK y \in L : Ahead(y, s[i]) /\ q = y.key
    BY DEF Preceding
  <2>2. PICK j \in 1..Len(s) : s[j] = y
    BY <1>1
  <2>3. j # i
    BY <1>3, <2>1, <2>2, AheadIsStrict
  <2>4. ~(i < j)
    BY <1>5, <2>1, <2>2
  <2>5. j \in 1..(i - 1)
    BY <1>1, <2>3, <2>4
  <2>6. QED
    BY <2>1, <2>2, <2>5
<1> HIDE DEF f, P
<1>10. f \in Bijection(1..(i - 1), P)
  BY <1>7, <1>8, <1>9, Fun_IsBij
<1>11. ExistsBijection(1..(i - 1), P)
  BY <1>10, Fun_ExistsBij
<1>12. i - 1 \in Nat
  OBVIOUS
<1>13. Cardinality(P) = i - 1
  BY <1>11, <1>12, FS_CountingElements
<1>14. QED
  BY <1>13 DEF P, Rank

\* The last rank of a list is below the number of its rows.
LEMMA RankBelowCount ==
  ASSUME NEW n \in Nat, NEW T, RowsOK(T, n), NEW x \in Listed(T)
  PROVE  Rank(T, x) < Cardinality(Listed(T))
<1> DEFINE L == Listed(T)
           U == {z \in L : Ahead(z, x)}
           f == [z \in U |-> z.key]
<1>1. U \subseteq L \ {x}
  <2>1. ~Ahead(x, x)
    BY ListedRows, AheadIsStrict
  <2>2. QED
    BY <2>1
<1>2. IsFiniteSet(L) /\ IsFiniteSet(L \ {x}) /\ Cardinality(L) \in Nat
      /\ Cardinality(L \ {x}) = Cardinality(L) - 1
  <2>1. IsFiniteSet(L) /\ Cardinality(L) \in Nat
    BY ListedRows
  <2>2. QED
    BY <2>1, FS_RemoveElement
<1>3. IsFiniteSet(U) /\ Cardinality(U) <= Cardinality(L) - 1 /\ Cardinality(U) \in Nat
  <2>1. IsFiniteSet(U) /\ Cardinality(U) <= Cardinality(L \ {x})
    BY <1>1, <1>2, FS_Subset
  <2>2. QED
    BY <1>2, <2>1, FS_CardinalityType
<1>4. f \in [U -> Preceding(T, x)] /\ \A k \in Preceding(T, x) : \E z \in U : f[z] = k
  BY DEF Preceding
<1> HIDE DEF f, U, L
<1>5. f \in Surjection(U, Preceding(T, x))
  BY <1>4, Fun_IsSurj
<1>6. Cardinality(Preceding(T, x)) <= Cardinality(U)
  BY <1>3, <1>5, FS_Surjection
<1>7. Rank(T, x) \in Nat
  BY RankType
<1>8. QED
  BY <1>2, <1>3, <1>6, <1>7 DEF Rank, L

-----------------------------------------------------------------------------
(* What a step does.                                                       *)

\* A page of the list has its rows in their order, each of them once.
LEMMA PageRows ==
  ASSUME NEW n \in Nat, NEW T, RowsOK(T, n), page \in Nat, size \in Nat,
         NEW s \in Pages(Before(T), Listed(T))
  PROVE  /\ s \in Seq(Listed(T)) /\ ToSet(s) \subseteq Listed(T) /\ IsFiniteSet(ToSet(s))
         /\ \A i, j \in 1..Len(s) : s[i] = s[j] => i = j
<1>1. PICK p \in Sorted(Before(T), Listed(T)) : s = Cut(p)
  BY DEF Pages
<1>2. /\ p \in Seq(Listed(T)) /\ Len(p) \in Nat
      /\ \A j, k \in 1..Len(p) : p[j] = p[k] => j = k
  BY ListedRows, OrderingHasAll DEF Sorted
<1>3. /\ s \in Seq(Listed(T))
      /\ page < 1 => Len(s) = 0
      /\ page >= 1 => \A i \in 1..Len(s) : /\ (page - 1) * size + i \in 1..Len(p)
                                           /\ s[i] = p[(page - 1) * size + i]
  BY <1>1, <1>2, CutIs, Zenon
<1>4. Len(s) \in Nat /\ DOMAIN s = 1..Len(s) /\ \A i \in 1..Len(s) : s[i] \in Listed(T)
  BY <1>3, LenProperties
<1>5. ToSet(s) \subseteq Listed(T)
  BY <1>4 DEF ToSet
<1>6. IsFiniteSet(ToSet(s))
  <2>1. IsFiniteSet(Listed(T))
    BY ListedRows
  <2>2. QED
    BY <1>5, <2>1, FS_Subset
<1>7. \A i, j \in 1..Len(s) : s[i] = s[j] => i = j
  <2>1. CASE page < 1
    BY <1>3, <2>1
  <2>2. CASE page >= 1
    <3> DEFINE lo == (page - 1) * size
    <3>1. lo \in Int
      BY Offsets
    <3>2. \A i \in 1..Len(s) : lo + i \in 1..Len(p) /\ s[i] = p[lo + i]
      BY <1>3, <2>2
    <3> HIDE DEF lo
    <3>3. QED
      BY <1>2, <3>1, <3>2
  <2>3. QED
    BY <2>1, <2>2
<1>8. QED
  BY <1>3, <1>5, <1>6, <1>7

\* Each request reads a page of the list.
LEMMA RequestReads ==
  ASSUME Shape, ResourceList \/ UserList \/ PolicyList \/ AuditQuery
  PROVE  \E items, total : Reads(items, total) /\ Receive(items, total)
<1>0. /\ RowsOK(rows, serial) /\ serial \in Nat /\ page \in Nat /\ size \in Nat
  BY ListingAssumption DEF Shape, TypeOK, RowsOK
<1>1. ASSUME list # "resources", NEW s \in Pages(Before(rows), Listed(rows)),
             Receive(s, Cardinality(Listed(rows)))
      PROVE  \E items, total : Reads(items, total) /\ Receive(items, total)
  <2>1. /\ s \in Seq(Listed(rows)) /\ \A i, j \in 1..Len(s) : s[i] = s[j] => i = j
    BY <1>0, PageRows
  <2>2. s \in Seq(rows)
    <3>1. Listed(rows) \subseteq rows
      BY <1>0, ListedRows
    <3>2. QED
      BY <2>1, <3>1, SeqMonotonic
  <2>3. \A x : Visible(x, role, permitted)
    BY <1>1 DEF Visible
  <2>4. ToSet(s) = {x \in ToSet(s) : Visible(x, role, permitted)}
    BY <2>3
  <2>5. Reads(s, Cardinality(Listed(rows)))
    BY <2>1, <2>2, <2>4 DEF Reads
  <2>6. QED
    BY <1>1, <2>5
<1>2. CASE ResourceList
  <2>1. list = "resources" /\ Before(rows) = ById(rows) /\ Listed(rows) = Fitting(rows)
    BY <1>2 DEF ResourceList, Before, Listed
  <2>2. PICK s \in Pages(Before(rows), Listed(rows)) :
        \E items \in Sorted(ById(rows), {x \in ToSet(s) : Visible(x, role, permitted)}) :
           Receive(items, Cardinality(Listed(rows)))
    BY <1>2, <2>1 DEF ResourceList, ListResources, CountResources
  <2> DEFINE V == {x \in ToSet(s) : Visible(x, role, permitted)}
  <2>3. PICK items \in Sorted(ById(rows), V) : Receive(items, Cardinality(Listed(rows)))
    BY <2>2
  <2>4. ToSet(s) \subseteq Listed(rows) /\ IsFiniteSet(ToSet(s)) /\ Listed(rows) \subseteq rows
    BY <1>0, PageRows, ListedRows
  <2>5. V \subseteq rows /\ IsFiniteSet(V)
    BY <2>4, FS_Subset
  <2> HIDE DEF V
  <2>6. /\ items \in Seq(V) /\ ToSet(items) = V
        /\ \A i, j \in 1..Len(items) : items[i] = items[j] => i = j
    BY <2>5, OrderingHasAll DEF Sorted
  <2>7. items \in Seq(rows)
    BY <2>5, <2>6, SeqMonotonic
  <2>8. Reads(items, Cardinality(Listed(rows)))
    BY <2>6, <2>7 DEF Reads, V
  <2>9. QED
    BY <2>3, <2>8
<1>3. CASE UserList
  <2>1. /\ list # "resources" /\ Before(rows) = ById(rows) /\ Listed(rows) = rows
    BY <1>3 DEF UserList, Before, Listed
  <2>2. QED
    BY <1>1, <1>3, <2>1 DEF UserList, ListUsers, CountUsers
<1>4. CASE PolicyList
  <2>1. /\ list # "resources" /\ Before(rows) = ByPriority(rows) /\ Listed(rows) = rows
    BY <1>4 DEF PolicyList, Before, Listed
  <2>2. QED
    BY <1>1, <1>4, <2>1 DEF PolicyList, ListPolicies, CountPolicies
<1>5. CASE AuditQuery
  <2>1. /\ list # "resources" /\ Before(rows) = ByTime(rows) /\ Listed(rows) = Fitting(rows)
    BY <1>5 DEF AuditQuery, Before, Listed
  <2>2. QED
    BY <1>1, <1>5, <2>1 DEF AuditQuery, QueryAuditLog, CountAuditLog
<1>6. QED
  BY <1>2, <1>3, <1>4, <1>5

\* Each other request keeps the rows in shape and gives a new one the next id.
LEMMA ChangeKeeps ==
  ASSUME Shape,
         \/ \E rank \in RanksOf, k \in KindsOf : Insert(rank, k)
         \/ \E x \in rows : \/ Delete(x)
                            \/ \E k \in KindsOf : Retype(x, k)
                            \/ \E rank \in RanksOf : Reprioritise(x, rank)
         \/ \E ro \in {"admin", "auditor", "user"} \ {role} : RightsChange(ro, permitted)
         \/ \E x \in rows : /\ list = "resources"
                            /\ \/ RightsChange(role, permitted \ {x.key})
                               \/ RightsChange(role, permitted \cup {x.key})
  PROVE  \E T, ro, may : Change(T, ro, may) /\ Kept(T, may)
<1>0. /\ rows \subseteq [key : 1..serial, rank : RanksOf, kind : KindsOf]
      /\ \A x, y \in rows : x.key = y.key => x = y
      /\ permitted \subseteq 1..MaxRows /\ serial \in Nat /\ serial <= MaxRows /\ MaxRows \in Nat
  BY ListingAssumption DEF Shape, TypeOK
<1>1. ASSUME serial' = serial, NEW T, NEW ro, NEW may, Change(T, ro, may),
             T \subseteq [key : 1..serial, rank : RanksOf, kind : KindsOf],
             \A x, y \in T : x.key = y.key => x = y,
             \A x \in T : \E y \in rows : y.key = x.key, may \subseteq 1..MaxRows
      PROVE  Change(T, ro, may) /\ Kept(T, may)
  BY <1>0, <1>1 DEF Kept, RowsOK
<1>2. ASSUME NEW rank \in RanksOf, NEW k \in KindsOf, Insert(rank, k)
      PROVE  \E T, ro, may : Change(T, ro, may) /\ Kept(T, may)
  <2> DEFINE r == [key |-> serial + 1, rank |-> rank, kind |-> k]
             T == rows \cup {r}
  <2>1. Change(T, role, permitted) /\ serial < MaxRows /\ serial' = serial + 1
    BY <1>2 DEF Insert
  <2>2. r \in [key : 1..serial', rank : RanksOf, kind : KindsOf] /\ r.key = serial + 1
    BY <1>0, <2>1
  <2> HIDE DEF r
  <2>3. \A x \in rows : /\ x.key \in 1..serial /\ x.key # serial + 1
                        /\ x \in [key : 1..serial', rank : RanksOf, kind : KindsOf]
    <3> TAKE x \in rows
    <3>1. x \in [key : 1..serial, rank : RanksOf, kind : KindsOf]
      BY <1>0
    <3>2. x.key \in 1..serial /\ x.key # serial + 1
      BY <1>0, <3>1
    <3>3. 1..serial \subseteq 1..serial'
      BY <1>0, <2>1
    <3>4. QED
      BY <3>1, <3>2, <3>3
  <2>4. RowsOK(T, serial')
    BY <1>0, <2>2, <2>3 DEF RowsOK
  <2>5. \A x \in T : (\E y \in rows : y.key = x.key) \/ x.key = serial + 1
    BY <2>2
  <2>6. serial' \in 0..MaxRows
    BY <1>0, <2>1
  <2>7. Kept(T, permitted)
    BY <1>0, <2>1, <2>4, <2>5, <2>6 DEF Kept
  <2>8. QED
    BY <2>1, <2>7
<1>3. ASSUME NEW x \in rows, Delete(x)
      PROVE  \E T, ro, may : Change(T, ro, may) /\ Kept(T, may)
  <2>1. Change(rows \ {x}, role, permitted) /\ serial' = serial
    BY <1>3 DEF Delete
  <2>2. Kept(rows \ {x}, permitted)
    BY <1>0, <1>1, <2>1
  <2>3. QED
    BY <2>1, <2>2
<1>4. ASSUME NEW x \in rows, NEW y, serial' = serial,
             y \in [key : 1..serial, rank : RanksOf, kind : KindsOf], y.key = x.key,
             Change((rows \ {x}) \cup {y}, role, permitted)
      PROVE  \E T, ro, may : Change(T, ro, may) /\ Kept(T, may)
  <2> DEFINE T == (rows \ {x}) \cup {y}
  <2>1. T \subseteq [key : 1..serial, rank : RanksOf, kind : KindsOf]
    BY <1>0, <1>4
  <2>2. \A u, v \in T : u.key = v.key => u = v
    BY <1>0, <1>4
  <2>3. \A u \in T : \E z \in rows : z.key = u.key
    BY <1>4
  <2> HIDE DEF T
  <2>4. Change(T, role, permitted)
    BY <1>4 DEF T
  <2>5. Kept(T, permitted)
    BY <1>0, <1>1, <1>4, <2>1, <2>2, <2>3, <2>4
  <2>6. QED
    BY <2>4, <2>5
<1>5. ASSUME NEW x \in rows, NEW k \in KindsOf, Retype(x, k)
      PROVE  \E T, ro, may : Change(T, ro, may) /\ Kept(T, may)
  <2> DEFINE y == [x EXCEPT !.kind = k]
  <2>1. x \in [key : 1..serial, rank : RanksOf, kind : KindsOf]
    BY <1>0
  <2>2. y \in [key : 1..serial, rank : RanksOf, kind : KindsOf] /\ y.key = x.key
    BY <2>1
  <2>3. Change((rows \ {x}) \cup {y}, role, permitted) /\ serial' = serial
    BY <1>5 DEF Retype
  <2> HIDE DEF y
  <2>4. QED
    BY <1>4, <2>2, <2>3
<1>6. ASSUME NEW x \in rows, NEW rank \in RanksOf, Reprioritise(x, rank)
      PROVE  \E T, ro, may : Change(T, ro, may) /\ Kept(T, may)
  <2> DEFINE y == [x EXCEPT !.rank = rank]
  <2>1. x \in [key : 1..serial, rank : RanksOf, kind : KindsOf]
    BY <1>0
  <2>2. y \in [key : 1..serial, rank : RanksOf, kind : KindsOf] /\ y.key = x.key
    BY <2>1
  <2>3. Change((rows \ {x}) \cup {y}, role, permitted) /\ serial' = serial
    BY <1>6 DEF Reprioritise
  <2> HIDE DEF y
  <2>4. QED
    BY <1>4, <2>2, <2>3
<1>7. ASSUME NEW ro, NEW may, RightsChange(ro, may), may \subseteq 1..MaxRows
      PROVE  \E T, r, m : Change(T, r, m) /\ Kept(T, m)
  <2>1. Change(rows, ro, may) /\ serial' = serial
    BY <1>7 DEF RightsChange
  <2>2. Kept(rows, may)
    BY <1>0, <1>1, <1>7, <2>1
  <2>3. QED
    BY <2>1, <2>2
<1>8. ASSUME NEW x \in rows, \/ RightsChange(role, permitted \ {x.key})
                             \/ RightsChange(role, permitted \cup {x.key})
      PROVE  \E T, ro, may : Change(T, ro, may) /\ Kept(T, may)
  <2>1. x.key \in 1..serial
    BY <1>0
  <2>2. x.key \in 1..MaxRows
    BY <1>0, <2>1
  <2>3. permitted \ {x.key} \subseteq 1..MaxRows /\ permitted \cup {x.key} \subseteq 1..MaxRows
    BY <1>0, <2>2
  <2>4. QED
    BY <1>7, <1>8, <2>3
<1>9. QED
  BY <1>0, <1>2, <1>3, <1>5, <1>6, <1>7, <1>8

-----------------------------------------------------------------------------
(* Type correctness.                                                       *)

\* The ids of an answer are put behind those shown before.
LEMMA ShownNext ==
  ASSUME Shape, NEW items \in Seq(rows),
         shown' = shown \o [i \in DOMAIN items |-> items[i].key]
  PROVE  /\ shown' \in Seq(1..serial) /\ Len(shown) \in Nat /\ Len(items) \in Nat
         /\ Len(shown') = Len(shown) + Len(items)
         /\ \A i \in 1..Len(shown) : shown'[i] = shown[i]
         /\ \A i \in 1..Len(items) : shown'[Len(shown) + i] = items[i].key
<1> DEFINE ks == [i \in DOMAIN items |-> items[i].key]
<1>1. Len(items) \in Nat /\ DOMAIN items = 1..Len(items)
  BY LenProperties
<1>2. \A i \in 1..Len(items) : items[i] \in rows /\ items[i].key \in 1..serial
  <2> TAKE i \in 1..Len(items)
  <2>1. items[i] \in rows
    BY ElementOfSeq
  <2>2. QED
    BY <2>1 DEF Shape, TypeOK
<1>3. ks \in [1..Len(items) -> 1..serial] /\ \A i \in 1..Len(items) : ks[i] = items[i].key
  BY <1>1, <1>2
<1> HIDE DEF ks
<1>4. ks \in Seq(1..serial) /\ Len(ks) = Len(items)
  <2> DEFINE m == Len(items)
             S == 1..serial
  <2>1. m \in Nat /\ ks \in [1..m -> S]
    BY <1>1, <1>3
  <2> HIDE DEF m, S
  <2>2. ks \in Seq(S) /\ Len(ks) = m
    BY <2>1
  <2>3. QED
    BY <2>2 DEF m, S
<1>5. shown \in Seq(1..serial)
  BY DEF Shape, TypeOK
<1>6. shown' = shown \o ks
  BY DEF ks
<1>7. Len(shown) \in Nat
  BY <1>5, LenProperties
<1>8. /\ shown' \in Seq(1..serial) /\ Len(shown') = Len(shown) + Len(items)
      /\ \A i \in 1..(Len(shown) + Len(items)) :
            shown'[i] = IF i <= Len(shown) THEN shown[i] ELSE ks[i - Len(shown)]
  <2> DEFINE S == 1..serial
  <2>1. ks \in Seq(S) /\ shown \in Seq(S)
    BY <1>4, <1>5
  <2> HIDE DEF S
  <2>2. /\ shown \o ks \in Seq(S) /\ Len(shown \o ks) = Len(shown) + Len(ks)
        /\ \A i \in 1..(Len(shown) + Len(ks)) :
              (shown \o ks)[i] = IF i <= Len(shown) THEN shown[i] ELSE ks[i - Len(shown)]
    BY <2>1, ConcatProperties
  <2>3. QED
    BY <1>4, <1>6, <2>2 DEF S
<1>9. \A i \in 1..Len(shown) : shown'[i] = shown[i]
  BY <1>1, <1>7, <1>8
<1>10. \A i \in 1..Len(items) : shown'[Len(shown) + i] = items[i].key
  <2> TAKE i \in 1..Len(items)
  <2>1. /\ Len(shown) + i \in 1..(Len(shown) + Len(items)) /\ ~(Len(shown) + i <= Len(shown))
        /\ (Len(shown) + i) - Len(shown) = i
    BY <1>1, <1>7
  <2>2. QED
    BY <1>3, <1>8, <2>1
<1>11. QED
  BY <1>1, <1>7, <1>8, <1>9, <1>10

LEMMA ShapeInvariant == Spec => []Shape
<1>1. Init => Shape
  <2> SUFFICES ASSUME Init PROVE Shape
    OBVIOUS
  <2>1. PICK rank \in [1..serial -> RanksOf], k \in [1..serial -> KindsOf] :
           rows = {[key |-> i, rank |-> rank[i], kind |-> k[i]] : i \in 1..serial}
    BY DEF Init
  <2>2. /\ rows \subseteq [key : 1..serial, rank : RanksOf, kind : KindsOf]
        /\ \A x, y \in rows : x.key = y.key => x = y
    BY <2>1
  <2>3. serial \in 0..MaxRows /\ size \in 1..MaxSize /\ page \in Nat /\ done \in BOOLEAN
    <3>1. serial \in 0..MaxRows /\ size \in 1..MaxSize
      BY DEF Init
    <3>2. page \in {0, 1}
      BY DEF Init
    <3>3. page \in Nat
      BY <3>2
    <3>4. done \in BOOLEAN
      BY Zenon DEF Init
    <3>5. QED
      BY <3>1, <3>3, <3>4
  <2>4. permitted \subseteq 1..MaxRows
    <3>1. permitted \subseteq 1..serial
      BY DEF Init
    <3>2. QED
      BY <2>3, <3>1, ListingAssumption
  <2>5. shown \in Seq(1..serial)
    BY EmptySeq DEF Init
  <2>6. steady \subseteq {x.key : x \in rows}
    BY DEF Init, VisibleIds, Listed, Fitting
  <2>7. upset \subseteq {"leaves", "enters", "ties"}
    BY DEF Init
  <2>8. changes \in 0..MaxChanges
    <3>1. changes = 0
      BY DEF Init
    <3>2. QED
      BY <3>1, ListingAssumption
  <2>9. QED
    BY <2>2, <2>3, <2>4, <2>5, <2>6, <2>7, <2>8 DEF Shape, TypeOK
<1>2. Shape /\ [Next]_vars => Shape'
  <2> SUFFICES ASSUME Shape, [Next]_vars PROVE Shape'
    OBVIOUS
  <2>1. ASSUME NEW items, NEW total, Reads(items, total), Receive(items, total) PROVE Shape'
    <3>1. /\ shown' = shown \o [i \in DOMAIN items |-> items[i].key]
          /\ done' = (page * size >= total) /\ page' = page + 1
          /\ UNCHANGED <<list, kind, size, role, permitted, rows, serial, steady, upset, changes>>
      BY <2>1 DEF Receive, request
    <3>2. shown' \in Seq(1..serial)
      BY <2>1, <3>1, ShownNext DEF Reads
    <3>3. page' \in Nat /\ done' \in BOOLEAN
      BY <3>1 DEF Shape, TypeOK
    <3>4. RanksOf' = RanksOf /\ KindsOf' = KindsOf
      BY <3>1 DEF RanksOf, KindsOf
    <3>5. QED
      BY <3>1, <3>2, <3>3, <3>4 DEF Shape, TypeOK
  <2>2. ASSUME NEW T, NEW ro, NEW may, Change(T, ro, may), Kept(T, may) PROVE Shape'
    <3>1. /\ rows' = T /\ permitted' = may /\ steady' = steady \cap VisibleIds(T, ro, may)
          /\ upset' = upset \cup Happened(rows, T)
          /\ changes < MaxChanges /\ changes' = changes + 1
          /\ UNCHANGED <<list, kind, size, page, done, shown>>
      BY <2>2 DEF Change, request, reader
    <3>2. RanksOf' = RanksOf /\ KindsOf' = KindsOf
      BY <3>1 DEF RanksOf, KindsOf
    <3>3. /\ T \subseteq [key : 1..serial', rank : RanksOf, kind : KindsOf]
          /\ \A x, y \in T : x.key = y.key => x = y
          /\ may \subseteq 1..MaxRows
          /\ serial' \in {serial, serial + 1} /\ serial' \in 0..MaxRows
      BY <2>2 DEF Kept, RowsOK
    <3>4. shown' \in Seq(1..serial')
      <4>1. 1..serial \subseteq 1..serial'
        BY <3>3, ListingAssumption DEF Shape
      <4>2. QED
        BY <3>1, <4>1, SeqMonotonic DEF Shape, TypeOK
    <3>5. steady' \subseteq {x.key : x \in T}
      BY <3>1 DEF VisibleIds, Listed, Fitting
    <3>6. upset' \subseteq {"leaves", "enters", "ties"}
      <4>1. Happened(rows, T) \subseteq {"leaves", "enters", "ties"}
        BY DEF Happened
      <4>2. QED
        BY <3>1, <4>1 DEF Shape, TypeOK
    <3>7. changes' \in 0..MaxChanges
      BY <3>1, ListingAssumption DEF Shape, TypeOK
    <3>8. QED
      BY <3>1, <3>2, <3>3, <3>4, <3>5, <3>6, <3>7 DEF Shape, TypeOK
  <2>3. CASE UNCHANGED vars
    <3>1. UNCHANGED <<list, kind, size, role, permitted, rows, serial, page, done, shown, steady,
                      upset, changes>>
      BY <2>3 DEF vars
    <3>2. RanksOf' = RanksOf /\ KindsOf' = KindsOf
      BY <3>1 DEF RanksOf, KindsOf
    <3>3. QED
      BY <3>1, <3>2 DEF Shape, TypeOK
  <2>4. ASSUME Next PROVE Shape'
    <3>1. \/ ResourceList \/ UserList \/ PolicyList \/ AuditQuery
          \/ \E T, ro, may : Change(T, ro, may) /\ Kept(T, may)
      BY <2>4, ChangeKeeps DEF Next
    <3>2. QED
      BY <2>1, <2>2, <3>1, RequestReads
  <2>5. QED
    BY <2>3, <2>4
<1>3. QED
  BY <1>1, <1>2, PTL DEF Spec

(* Rows keep ids of their own, and only ids that were given are shown.     *)
THEOREM RowsStayTyped == Spec => []TypeOK
<1>1. Shape => TypeOK
  BY DEF Shape
<1>2. QED
  BY <1>1, ShapeInvariant, PTL

-----------------------------------------------------------------------------
(* The scan.                                                               *)

\* The rank at which the next page starts.
Offset == (page - 1) * size

TiesNoted == "ties" \notin upset => ~Tied(rows)

DoneAtEnd == done => Offset >= Cardinality(Listed(rows))

SteadyVisible == steady \subseteq VisibleIds(rows, role, permitted)

\* What stands before the offset and was the reader's to see has been shown.
Covered ==
    upset \cap {"leaves", "ties"} = {} =>
       \A x \in Listed(rows) :
          x.key \in steady /\ Rank(rows, x) < Offset => x.key \in ToSet(shown)

\* What has been shown once stands before the offset.
Behind ==
    upset \cap {"enters", "ties"} = {} =>
       /\ IsInjective(shown)
       /\ \A x \in Listed(rows) : x.key \in ToSet(shown) => Rank(rows, x) < Offset

Scan == TiesNoted /\ DoneAtEnd /\ SteadyVisible /\ Covered /\ Behind

\* As long as the same list is asked for, a step changes its rows only.
LEMMA SameList ==
  ASSUME list' = list, kind' = kind
  PROVE  /\ Listed(rows)' = Listed(rows')
         /\ Tied(rows)' <=> Tied(rows')
         /\ \A x : Rank(rows, x)' = Rank(rows', x)
         /\ VisibleIds(rows, role, permitted)' = VisibleIds(rows', role', permitted')
<1>1. Listed(rows)' = Listed(rows')
  BY DEF Listed, Fitting
<1>2. Before(rows)' = Before(rows')
  BY DEF Before, ById, ByPriority, ByTime
<1>3. Tied(rows)' <=> Tied(rows')
  BY <1>1, <1>2 DEF Tied
<1>4. ASSUME NEW x PROVE Rank(rows, x)' = Rank(rows', x)
  <2>1. \A z : Ahead(z, x)' <=> Ahead(z, x)
    BY DEF Ahead
  <2>2. Preceding(rows, x)' = Preceding(rows', x)
    BY <1>1, <2>1 DEF Preceding
  <2>3. QED
    BY <2>2 DEF Rank
<1>5. VisibleIds(rows, role, permitted)' = VisibleIds(rows', role', permitted')
  <2>1. \A x, ro, may : Visible(x, ro, may)' <=> Visible(x, ro, may)
    BY DEF Visible
  <2>2. QED
    BY <1>1 DEF VisibleIds, Visible
<1>6. QED
  BY <1>1, <1>3, <1>4, <1>5

\* In a list without ties a page holds the rows of the ranks it is asked for.
LEMMA PageRanks ==
  ASSUME NEW n \in Nat, NEW T, RowsOK(T, n), ~Tied(T), page \in Nat, size \in Nat,
         NEW s \in Pages(Before(T), Listed(T)), NEW x \in Listed(T)
  PROVE  x \in ToSet(s) <=> Offset <= Rank(T, x) /\ Rank(T, x) < page * size
<1>1. PICK p \in Sorted(Before(T), Listed(T)) : s = Cut(p)
  BY DEF Pages
<1>2. /\ p \in Seq(Listed(T)) /\ Len(p) \in Nat
      /\ \A j, k \in 1..Len(p) : p[j] = p[k] => j = k
      /\ \A y \in Listed(T) : \E j \in 1..Len(p) : p[j] = y
  BY ListedRows, OrderingHasAll DEF Sorted
<1>3. /\ s \in Seq(Listed(T))
      /\ page < 1 => Len(s) = 0
      /\ page >= 1 =>
           /\ \A i \in 1..Len(s) : /\ Offset + i \in 1..Len(p) /\ i <= size
                                   /\ s[i] = p[Offset + i]
           /\ \A k \in 1..Len(p) :
                 Offset < k /\ k <= Offset + size => k - Offset \in 1..Len(s)
  BY <1>1, <1>2, CutIs, Zenon DEF Offset
<1>4. PICK i \in 1..Len(p) : p[i] = x
  BY <1>2
<1>5. Rank(T, x) = i - 1
  BY <1>4, RankIsPosition
<1>6. Len(s) \in Nat /\ DOMAIN s = 1..Len(s)
  BY <1>3, LenProperties
<1>7. Offset \in Int /\ page * size = Offset + size /\ (page < 1 => page * size = 0)
  BY Offsets DEF Offset
<1>8. CASE page < 1
  <2>1. ToSet(s) = {}
    BY <1>3, <1>6, <1>8 DEF ToSet
  <2>2. ~(Rank(T, x) < page * size)
    BY <1>5, <1>7, <1>8
  <2>3. QED
    BY <2>1, <2>2
<1>9. CASE page >= 1
  <2>1. ASSUME x \in ToSet(s) PROVE Offset <= Rank(T, x) /\ Rank(T, x) < page * size
    <3>1. PICK j \in 1..Len(s) : s[j] = x
      BY <1>6, <2>1 DEF ToSet
    <3>2. Offset + j \in 1..Len(p) /\ j <= size /\ p[Offset + j] = x
      BY <1>3, <1>9, <3>1
    <3>3. Offset + j = i
      BY <1>2, <1>4, <3>2
    <3>4. j \in Int /\ j >= 1 /\ j <= size
      BY <1>6, <3>2
    <3> DEFINE hi == page * size
    <3>5. Offset \in Int /\ hi = Offset + size
      BY <1>7
    <3> HIDE DEF hi
    <3>6. Offset <= i - 1 /\ i - 1 < hi
      BY <3>3, <3>4, <3>5
    <3>7. QED
      BY <1>5, <3>6 DEF hi
  <2>2. ASSUME Offset <= Rank(T, x), Rank(T, x) < page * size PROVE x \in ToSet(s)
    <3>1. Offset < i /\ i <= Offset + size
      BY <1>5, <1>7, <2>2
    <3>2. i - Offset \in 1..Len(s)
      BY <1>3, <1>9, <3>1
    <3>3. s[i - Offset] = p[Offset + (i - Offset)]
      BY <1>3, <1>9, <3>2
    <3>4. Offset + (i - Offset) = i
      BY <1>7
    <3>5. QED
      BY <1>4, <1>6, <3>2, <3>3, <3>4 DEF ToSet
  <2>3. QED
    BY <2>1, <2>2
<1>10. QED
  BY <1>8, <1>9

\* Rows are told apart by their ids.
LEMMA VisibleByKey ==
  ASSUME NEW n \in Nat, NEW T, RowsOK(T, n), NEW ro, NEW may, NEW x \in Listed(T),
         x.key \in VisibleIds(T, ro, may)
  PROVE  Visible(x, ro, may)
<1>1. PICK y \in Listed(T) : Visible(y, ro, may) /\ y.key = x.key
  BY DEF VisibleIds
<1>2. x \in T /\ y \in T
  BY ListedRows
<1>3. x = y
  BY <1>1, <1>2 DEF RowsOK
<1>4. QED
  BY <1>1, <1>3

\* A page more.
LEMMA ScanReceives ==
  ASSUME Shape, Scan, NEW items, NEW total, Reads(items, total), Receive(items, total)
  PROVE  Scan'
<1>1. /\ RowsOK(rows, serial) /\ serial \in Nat /\ page \in Nat /\ size \in Nat
  BY ListingAssumption DEF Shape, TypeOK, RowsOK
<1>2. /\ shown' = shown \o [i \in DOMAIN items |-> items[i].key]
      /\ done' = (page * size >= total) /\ page' = page + 1
      /\ list' = list /\ kind' = kind /\ size' = size /\ role' = role
      /\ permitted' = permitted /\ rows' = rows /\ steady' = steady /\ upset' = upset
  BY DEF Receive, request
<1>3. Offset' = page * size /\ Offset \in Int /\ page * size = Offset + size
  <2>1. (page + 1) - 1 = page
    BY <1>1
  <2>2. QED
    BY <1>1, <1>2, <2>1, Offsets DEF Offset
<1>4. /\ Listed(rows)' = Listed(rows) /\ (Tied(rows)' <=> Tied(rows))
      /\ \A x : Rank(rows, x)' = Rank(rows, x)
      /\ VisibleIds(rows, role, permitted)' = VisibleIds(rows, role, permitted)
  <2>1. /\ Listed(rows)' = Listed(rows')
        /\ Tied(rows)' <=> Tied(rows')
        /\ \A x : Rank(rows, x)' = Rank(rows', x)
        /\ VisibleIds(rows, role, permitted)' = VisibleIds(rows', role', permitted')
    BY <1>2, SameList
  <2>2. QED
    BY <1>2, <2>1
<1>5. PICK s \in Pages(Before(rows), Listed(rows)) :
         ToSet(items) = {x \in ToSet(s) : Visible(x, role, permitted)}
  BY DEF Reads
<1>6. /\ items \in Seq(rows) /\ \A i, j \in 1..Len(items) : items[i] = items[j] => i = j
      /\ total = Cardinality(Listed(rows))
  BY DEF Reads
<1>7. /\ Len(shown) \in Nat /\ Len(items) \in Nat
      /\ Len(shown') = Len(shown) + Len(items)
      /\ \A i \in 1..Len(shown) : shown'[i] = shown[i]
      /\ \A i \in 1..Len(items) : shown'[Len(shown) + i] = items[i].key
      /\ DOMAIN shown = 1..Len(shown) /\ DOMAIN shown' = 1..Len(shown')
      /\ DOMAIN items = 1..Len(items)
  <2>1. /\ shown' \in Seq(1..serial) /\ Len(shown) \in Nat /\ Len(items) \in Nat
        /\ Len(shown') = Len(shown) + Len(items)
        /\ \A i \in 1..Len(shown) : shown'[i] = shown[i]
        /\ \A i \in 1..Len(items) : shown'[Len(shown) + i] = items[i].key
    BY <1>2, <1>6, ShownNext
  <2>2. shown \in Seq(1..serial)
    BY DEF Shape, TypeOK
  <2>3. QED
    BY <1>6, <2>1, <2>2, LenProperties
<1>8. ASSUME NEW i \in 1..Len(shown')
      PROVE  \/ i \in 1..Len(shown)
             \/ \E j \in 1..Len(items) : i = Len(shown) + j
  <2>1. CASE i <= Len(shown)
    BY <1>7, <2>1
  <2>2. CASE ~(i <= Len(shown))
    <3>1. i - Len(shown) \in 1..Len(items) /\ i = Len(shown) + (i - Len(shown))
      BY <1>7, <2>2
    <3>2. QED
      BY <3>1
  <2>3. QED
    BY <2>1, <2>2
<1>9. \A k : k \in ToSet(shown') <=> k \in ToSet(shown) \/ \E x \in ToSet(items) : k = x.key
  <2>1. ASSUME NEW k \in ToSet(shown')
        PROVE  k \in ToSet(shown) \/ \E x \in ToSet(items) : k = x.key
    <3>1. PICK i \in 1..Len(shown') : shown'[i] = k
      BY <1>7 DEF ToSet
    <3>2. CASE i \in 1..Len(shown)
      BY <1>7, <3>1, <3>2 DEF ToSet
    <3>3. CASE \E j \in 1..Len(items) : i = Len(shown) + j
      <4>1. PICK j \in 1..Len(items) : i = Len(shown) + j
        BY <3>3
      <4>2. k = items[j].key /\ items[j] \in ToSet(items)
        BY <1>7, <3>1, <4>1 DEF ToSet
      <4>3. QED
        BY <4>2
    <3>4. QED
      BY <1>8, <3>2, <3>3
  <2>2. ASSUME NEW k \in ToSet(shown) PROVE k \in ToSet(shown')
    <3>1. PICK i \in 1..Len(shown) : shown[i] = k
      BY <1>7 DEF ToSet
    <3>2. i \in 1..Len(shown') /\ shown'[i] = k
      BY <1>7, <3>1
    <3>3. QED
      BY <1>7, <3>2 DEF ToSet
  <2>3. ASSUME NEW x \in ToSet(items) PROVE x.key \in ToSet(shown')
    <3>1. PICK j \in 1..Len(items) : items[j] = x
      BY <1>7 DEF ToSet
    <3>2. Len(shown) + j \in 1..Len(shown') /\ shown'[Len(shown) + j] = x.key
      BY <1>7, <3>1
    <3>3. QED
      BY <1>7, <3>2 DEF ToSet
  <2>4. QED
    BY <2>1, <2>2, <2>3
<1>10. ToSet(items) \subseteq ToSet(s) /\ ToSet(s) \subseteq Listed(rows) /\ Listed(rows) \subseteq rows
  BY <1>1, <1>5, PageRows, ListedRows
<1>11. TiesNoted'
  BY <1>2, <1>4 DEF TiesNoted, Scan
<1>12. DoneAtEnd'
  BY <1>2, <1>3, <1>4, <1>6 DEF DoneAtEnd
<1>13. SteadyVisible'
  BY <1>2, <1>4 DEF SteadyVisible, Scan
<1>14. ASSUME upset \cap {"leaves", "ties"} = {}, NEW x \in Listed(rows), x.key \in steady,
              Rank(rows, x) < page * size
       PROVE  x.key \in ToSet(shown')
  <2>1. CASE Rank(rows, x) < Offset
    BY <1>9, <1>14, <2>1 DEF Scan, Covered
  <2>2. CASE ~(Rank(rows, x) < Offset)
    <3>1. ~Tied(rows) /\ Rank(rows, x) \in Nat
      BY <1>1, <1>14, RankType DEF Scan, TiesNoted
    <3>2. Offset <= Rank(rows, x)
      BY <1>3, <2>2, <3>1
    <3>3. x \in ToSet(s)
      BY <1>1, <1>14, <3>1, <3>2, PageRanks
    <3>4. Visible(x, role, permitted)
      BY <1>1, <1>14, VisibleByKey DEF Scan, SteadyVisible
    <3>5. x \in ToSet(items)
      BY <1>5, <3>3, <3>4
    <3>6. QED
      BY <1>9, <3>5
  <2>3. QED
    BY <2>1, <2>2
<1>15. Covered'
  BY <1>2, <1>3, <1>4, <1>14 DEF Covered
<1>16. ASSUME upset \cap {"enters", "ties"} = {}
       PROVE  /\ IsInjective(shown')
              /\ \A x \in Listed(rows) : x.key \in ToSet(shown') => Rank(rows, x) < page * size
  <2>0. ~Tied(rows) /\ \A x \in rows : Rank(rows, x) \in Nat
    BY <1>1, <1>16, RankType DEF Scan, TiesNoted
  <2>1. \A x \in ToSet(items) : Offset <= Rank(rows, x) /\ Rank(rows, x) < page * size
    BY <1>1, <1>10, <2>0, PageRanks
  <2>2. /\ \A i, j \in 1..Len(shown) : shown[i] = shown[j] => i = j
        /\ \A x \in Listed(rows) : x.key \in ToSet(shown) => Rank(rows, x) < Offset
    BY <1>7, <1>16 DEF Scan, Behind, IsInjective
  <2>3. \A i \in 1..Len(items) : items[i] \in ToSet(items) /\ items[i] \in Listed(rows)
                                /\ items[i] \in rows
    BY <1>7, <1>10 DEF ToSet
  <2>4. ASSUME NEW i \in 1..Len(shown), NEW j \in 1..Len(items) PROVE shown[i] # items[j].key
    <3>1. shown[i] \in ToSet(shown)
      BY <1>7 DEF ToSet
    <3>2. Offset <= Rank(rows, items[j]) /\ Rank(rows, items[j]) \in Nat
      BY <2>0, <2>1, <2>3
    <3>3. items[j].key \notin ToSet(shown)
      BY <1>3, <2>2, <2>3, <3>2
    <3>4. QED
      BY <3>1, <3>3
  <2>5. ASSUME NEW i \in 1..Len(items), NEW j \in 1..Len(items), items[i].key = items[j].key
        PROVE  i = j
    BY <1>1, <1>6, <2>3, <2>5 DEF RowsOK
  <2>6. ASSUME NEW i \in 1..Len(shown'), NEW j \in 1..Len(shown'), shown'[i] = shown'[j]
        PROVE  i = j
    <3>1. CASE i \in 1..Len(shown) /\ j \in 1..Len(shown)
      BY <1>7, <2>2, <2>6, <3>1
    <3>2. CASE i \in 1..Len(shown) /\ \E k \in 1..Len(items) : j = Len(shown) + k
      BY <1>7, <2>4, <2>6, <3>2
    <3>3. CASE j \in 1..Len(shown) /\ \E k \in 1..Len(items) : i = Len(shown) + k
      BY <1>7, <2>4, <2>6, <3>3
    <3>4. ASSUME NEW k \in 1..Len(items), NEW l \in 1..Len(items),
                 i = Len(shown) + k, j = Len(shown) + l
          PROVE  i = j
      <4>1. items[k].key = items[l].key
        BY <1>7, <2>6, <3>4
      <4>2. k = l
        BY <2>5, <4>1
      <4>3. QED
        BY <3>4, <4>2
    <3>5. QED
      BY <1>8, <3>1, <3>2, <3>3, <3>4
  <2>7. IsInjective(shown')
    BY <1>7, <2>6 DEF IsInjective
  <2>8. ASSUME NEW x \in Listed(rows), x.key \in ToSet(shown')
        PROVE  Rank(rows, x) < page * size
    <3>1. CASE x.key \in ToSet(shown)
      <4>1. Rank(rows, x) < Offset /\ Rank(rows, x) \in Nat
        BY <1>10, <2>0, <2>2, <3>1
      <4>2. QED
        BY <1>1, <1>3, <4>1
    <3>2. CASE \E y \in ToSet(items) : x.key = y.key
      <4>1. PICK y \in ToSet(items) : x.key = y.key
        BY <3>2
      <4>2. x = y
        BY <1>1, <1>10, <4>1 DEF RowsOK
      <4>3. QED
        BY <2>1, <4>1, <4>2
    <3>3. QED
      BY <1>9, <2>8, <3>1, <3>2
  <2>9. QED
    BY <2>7, <2>8
<1>17. Behind'
  BY <1>2, <1>3, <1>4, <1>16 DEF Behind
<1>18. QED
  BY <1>11, <1>12, <1>13, <1>15, <1>17 DEF Scan

\* What it means that nothing has happened to a list.
LEMMA NothingHappened ==
  ASSUME NEW T, NEW U
  PROVE  /\ "leaves" \notin Happened(T, U) =>
               \A y \in Listed(T) : \E x \in Listed(U) : Place(x) = Place(y)
         /\ "enters" \notin Happened(T, U) =>
               \A x \in Listed(U) :
                  \/ \E y \in Listed(T) : Place(x) = Place(y)
                  \/ /\ \A y \in T : y.key # x.key
                     /\ \A z \in Listed(U) :
                           (\E y \in Listed(T) : Place(z) = Place(y)) => <<z, x>> \in Before(U)
         /\ "ties" \notin Happened(T, U) => ~Tied(U)
<1> DEFINE stay  == {x \in Listed(U) : \E y \in Listed(T) : Place(x) = Place(y)}
           fresh == Listed(U) \ stay
           old   == {x \in fresh : \E y \in T : y.key = x.key}
<1>1. ASSUME "leaves" \notin Happened(T, U), NEW y \in Listed(T)
      PROVE  \E x \in Listed(U) : Place(x) = Place(y)
  <2>1. ~\E w \in Listed(T) : \A x \in stay : Place(x) # Place(w)
    BY <1>1, Zenon DEF Happened
  <2>2. PICK x \in stay : Place(x) = Place(y)
    BY <2>1
  <2>3. QED
    BY <2>2
<1>2. ASSUME "enters" \notin Happened(T, U), NEW x \in Listed(U)
      PROVE  \/ \E y \in Listed(T) : Place(x) = Place(y)
             \/ /\ \A y \in T : y.key # x.key
                /\ \A z \in Listed(U) :
                      (\E y \in Listed(T) : Place(z) = Place(y)) => <<z, x>> \in Before(U)
  <2>1. ~(old # {} \/ \E u \in fresh, y \in stay : <<y, u>> \notin Before(U))
    BY <1>2, Zenon DEF Happened
  <2>2. CASE x \in stay
    BY <2>2
  <2>3. CASE x \in fresh
    <3>1. x \notin old
      BY <2>1
    <3>2. \A y \in T : y.key # x.key
      BY <2>3, <3>1
    <3>3. \A z \in stay : <<z, x>> \in Before(U)
      BY <2>1, <2>3
    <3>4. QED
      BY <3>2, <3>3
  <2>4. QED
    BY <2>2, <2>3
<1>3. ASSUME "ties" \notin Happened(T, U) PROVE ~Tied(U)
  BY <1>3, Zenon DEF Happened
<1>4. QED
  BY <1>1, <1>2, <1>3

\* A change of the list, or of the reader's rights, between two pages.
LEMMA ScanChanges ==
  ASSUME Shape, Scan, NEW T, NEW ro, NEW may, Change(T, ro, may), Kept(T, may)
  PROVE  Scan'
<1>1. /\ RowsOK(rows, serial) /\ serial \in Nat /\ page \in Nat /\ size \in Nat
  BY ListingAssumption DEF Shape, TypeOK, RowsOK
<1>2. /\ ~done /\ rows' = T /\ role' = ro /\ permitted' = may
      /\ steady' = steady \cap VisibleIds(T, ro, may)
      /\ upset' = upset \cup Happened(rows, T)
      /\ list' = list /\ kind' = kind /\ size' = size
      /\ page' = page /\ done' = done /\ shown' = shown
  BY DEF Change, request, reader
<1>3. /\ Listed(rows)' = Listed(T)
      /\ Tied(rows)' <=> Tied(T)
      /\ \A x : Rank(rows, x)' = Rank(T, x)
      /\ VisibleIds(rows, role, permitted)' = VisibleIds(T, ro, may)
  <2>1. /\ Listed(rows)' = Listed(rows')
        /\ Tied(rows)' <=> Tied(rows')
        /\ \A x : Rank(rows, x)' = Rank(rows', x)
        /\ VisibleIds(rows, role, permitted)' = VisibleIds(rows', role', permitted')
    BY <1>2, SameList
  <2>2. QED
    BY <1>2, <2>1
<1>4. Offset' = Offset /\ Offset \in Int /\ ToSet(shown') = ToSet(shown)
  BY <1>1, <1>2, Offsets DEF Offset
<1>5. /\ serial' \in Nat /\ RowsOK(T, serial')
      /\ \A x \in T : (\E y \in rows : y.key = x.key) \/ x.key = serial + 1
  BY <1>1 DEF Kept
<1>6. /\ Listed(rows) \subseteq rows /\ Listed(T) \subseteq T
      /\ \A x \in Listed(rows) : x.key \in Int /\ x.rank \in Int
      /\ \A x \in Listed(T) : x.key \in Int /\ x.rank \in Int
  <2>1. Listed(rows) \subseteq rows /\ \A x \in Listed(rows) : x.key \in Int /\ x.rank \in Int
    BY <1>1, ListedRows
  <2>2. Listed(T) \subseteq T /\ \A x \in Listed(T) : x.key \in Int /\ x.rank \in Int
    BY <1>5, ListedRows
  <2>3. QED
    BY <2>1, <2>2
<1>7. TiesNoted'
  BY <1>2, <1>3, NothingHappened DEF TiesNoted
<1>8. DoneAtEnd'
  BY <1>2 DEF DoneAtEnd
<1>9. SteadyVisible'
  BY <1>2, <1>3 DEF SteadyVisible
<1>10. ASSUME upset' \cap {"leaves", "ties"} = {}, NEW x \in Listed(T), x.key \in steady,
              Rank(T, x) < Offset
       PROVE  x.key \in ToSet(shown)
  <2>1. \A y \in Listed(rows) : \E z \in Listed(T) : Place(z) = Place(y)
    BY <1>2, <1>10, NothingHappened
  <2>2. PICK y \in Listed(rows) : y.key = x.key
    BY <1>10 DEF Scan, SteadyVisible, VisibleIds
  <2>3. Place(x) = Place(y)
    <3>1. PICK z \in Listed(T) : Place(z) = Place(y)
      BY <2>1
    <3>2. z.key = x.key
      BY <2>2, <3>1 DEF Place
    <3>3. z = x
      BY <1>5, <1>6, <3>2 DEF RowsOK
    <3>4. QED
      BY <3>1, <3>3
  <2>4. ASSUME NEW k \in Preceding(rows, y) PROVE k \in Preceding(T, x)
    <3>1. PICK u \in Listed(rows) : Ahead(u, y) /\ k = u.key
      BY DEF Preceding
    <3>2. PICK v \in Listed(T) : Place(v) = Place(u)
      BY <2>1
    <3>3. Ahead(v, x)
      BY <2>3, <3>1, <3>2, AheadByPlace
    <3>4. k = v.key
      BY <3>1, <3>2 DEF Place
    <3>5. QED
      BY <3>3, <3>4 DEF Preceding
  <2>5. Rank(rows, y) <= Rank(T, x)
    <3>1. Preceding(rows, y) \subseteq Preceding(T, x) /\ IsFiniteSet(Preceding(T, x))
      BY <1>5, <2>4, RankType
    <3>2. QED
      BY <3>1, FS_Subset DEF Rank
  <2>6. Rank(rows, y) < Offset
    <3>1. Rank(rows, y) \in Nat /\ Rank(T, x) \in Nat
      BY <1>1, <1>5, RankType
    <3>2. QED
      BY <1>4, <1>10, <2>5, <3>1
  <2>7. upset \cap {"leaves", "ties"} = {}
    BY <1>2, <1>10
  <2>8. QED
    BY <1>10, <2>2, <2>6, <2>7 DEF Scan, Covered
<1>11. Covered'
  BY <1>2, <1>3, <1>4, <1>10 DEF Covered
<1>12. ASSUME upset' \cap {"enters", "ties"} = {}
       PROVE  /\ IsInjective(shown)
              /\ \A x \in Listed(T) : x.key \in ToSet(shown) => Rank(T, x) < Offset
  <2>1. upset \cap {"enters", "ties"} = {} /\ "enters" \notin Happened(rows, T)
    BY <1>2, <1>12
  <2>2. /\ IsInjective(shown)
        /\ \A x \in Listed(rows) : x.key \in ToSet(shown) => Rank(rows, x) < Offset
    BY <2>1 DEF Scan, Behind
  <2>3. \A x \in Listed(T) :
           \/ \E y \in Listed(rows) : Place(x) = Place(y)
           \/ /\ \A y \in rows : y.key # x.key
              /\ \A z \in Listed(T) :
                    (\E y \in Listed(rows) : Place(z) = Place(y)) => <<z, x>> \in Before(T)
    BY <2>1, NothingHappened
  <2>4. ASSUME NEW x \in Listed(T), x.key \in ToSet(shown) PROVE Rank(T, x) < Offset
    <3>1. x.key # serial + 1
      <4>1. shown \in Seq(1..serial)
        BY DEF Shape, TypeOK
      <4>2. DOMAIN shown = 1..Len(shown) /\ \A i \in 1..Len(shown) : shown[i] \in 1..serial
        BY <4>1, LenProperties, ElementOfSeq
      <4>3. x.key \in 1..serial
        BY <2>4, <4>2 DEF ToSet
      <4>4. QED
        BY <1>1, <4>3
    <3>2. PICK y \in Listed(rows) : Place(x) = Place(y)
      BY <1>5, <1>6, <2>3, <3>1
    <3>3. x.key = y.key
      BY <3>2 DEF Place
    <3>4. Rank(rows, y) < Offset
      BY <2>2, <2>4, <3>3
    <3>5. ASSUME NEW k \in Preceding(T, x) PROVE k \in Preceding(rows, y)
      <4>1. PICK v \in Listed(T) : Ahead(v, x) /\ k = v.key
        BY DEF Preceding
      <4>2. ~Ahead(x, v)
        BY <1>6, <4>1, AheadIsStrict
      <4>3. <<x, v>> \notin Before(T)
        BY <1>6, <4>2, BeforeIsAhead
      <4>4. PICK u \in Listed(rows) : Place(v) = Place(u)
        BY <2>3, <3>2, <4>3
      <4>5. Ahead(u, y)
        BY <3>2, <4>1, <4>4, AheadByPlace
      <4>6. k = u.key
        BY <4>1, <4>4 DEF Place
      <4>7. QED
        BY <4>5, <4>6 DEF Preceding
    <3>6. Rank(T, x) <= Rank(rows, y)
      <4>1. Preceding(T, x) \subseteq Preceding(rows, y) /\ IsFiniteSet(Preceding(rows, y))
        BY <1>1, <3>5, RankType
      <4>2. QED
        BY <4>1, FS_Subset DEF Rank
    <3>7. Rank(rows, y) \in Nat /\ Rank(T, x) \in Nat
      BY <1>1, <1>5, RankType
    <3>8. QED
      BY <1>4, <3>4, <3>6, <3>7
  <2>5. QED
    BY <2>2, <2>4
<1>13. Behind'
  BY <1>2, <1>3, <1>4, <1>12 DEF Behind
<1>14. QED
  BY <1>7, <1>8, <1>9, <1>11, <1>13 DEF Scan

LEMMA ScanStarts ==
  ASSUME Init, Shape
  PROVE  Scan
<1>1. /\ RowsOK(rows, serial) /\ serial \in Nat /\ page \in Nat /\ size \in Nat
  BY ListingAssumption DEF Shape, TypeOK, RowsOK
<1>2. /\ shown = <<>> /\ ~done /\ page \in {0, 1}
      /\ steady = VisibleIds(rows, role, permitted)
      /\ upset = IF Tied(rows) THEN {"ties"} ELSE {}
  BY DEF Init
<1>3. ToSet(shown) = {} /\ IsInjective(shown)
  BY <1>2 DEF ToSet, IsInjective
<1>4. Offset \in Int /\ Offset <= 0
  <2>1. CASE page = 0
    BY <1>1, <2>1 DEF Offset
  <2>2. CASE page = 1
    BY <1>1, <2>2 DEF Offset
  <2>3. QED
    BY <1>2, <2>1, <2>2
<1>5. \A x \in Listed(rows) : ~(Rank(rows, x) < Offset)
  <2> TAKE x \in Listed(rows)
  <2>1. Rank(rows, x) \in Nat
    BY <1>1, RankType
  <2>2. QED
    BY <1>4, <2>1
<1>6. TiesNoted /\ DoneAtEnd /\ SteadyVisible
  BY <1>2 DEF TiesNoted, DoneAtEnd, SteadyVisible
<1>7. Covered /\ Behind
  BY <1>3, <1>5 DEF Covered, Behind
<1>8. QED
  BY <1>6, <1>7 DEF Scan

LEMMA ScanInvariant == Spec => [](Shape /\ Scan)
<1>1. Init /\ Shape => Scan
  BY ScanStarts
<1>2. Shape /\ Scan /\ [Next]_vars => Scan'
  <2> SUFFICES ASSUME Shape, Scan, [Next]_vars PROVE Scan'
    OBVIOUS
  <2>1. CASE Next
    <3>1. \/ ResourceList \/ UserList \/ PolicyList \/ AuditQuery
          \/ \E T, ro, may : Change(T, ro, may) /\ Kept(T, may)
      BY <2>1, ChangeKeeps DEF Next
    <3>2. QED
      BY <3>1, RequestReads, ScanReceives, ScanChanges
  <2>2. CASE UNCHANGED vars
    <3>1. UNCHANGED <<list, kind, size, role, permitted, rows, page, done, shown, steady, upset>>
      BY <2>2 DEF vars
    <3>2. /\ Listed(rows)' = Listed(rows)
          /\ Tied(rows)' <=> Tied(rows)
          /\ \A x : Rank(rows, x)' = Rank(rows, x)
          /\ VisibleIds(rows, role, permitted)' = VisibleIds(rows, role, permitted)
      <4>1. /\ Listed(rows)' = Listed(rows')
            /\ Tied(rows)' <=> Tied(rows')
            /\ \A x : Rank(rows, x)' = Rank(rows', x)
            /\ VisibleIds(rows, role, permitted)' = VisibleIds(rows', role', permitted')
        BY <3>1, SameList
      <4>2. QED
        BY <3>1, <4>1
    <3>3. Offset' = Offset
      BY <3>1 DEF Offset
    <3>4. TiesNoted' /\ DoneAtEnd' /\ SteadyVisible'
      BY <3>1, <3>2, <3>3 DEF Scan, TiesNoted, DoneAtEnd, SteadyVisible
    <3>5. Covered'
      BY <3>1, <3>2, <3>3 DEF Scan, Covered
    <3>6. Behind'
      BY <3>1, <3>2, <3>3 DEF Scan, Behind
    <3>7. QED
      BY <3>4, <3>5, <3>6 DEF Scan
  <2>3. QED
    BY <2>1, <2>2
<1>3. QED
  BY <1>1, <1>2, ShapeInvariant, PTL DEF Spec

(* Whoever reads to the end has seen every row that was his to see all the *)
(* time, unless a row left its place or two records had the same time.     *)
THEOREM ScanIsComplete == Spec => []ScanMissesNothing
<1>1. Shape /\ Scan => ScanMissesNothing
  <2> SUFFICES ASSUME Shape, Scan, done, upset \cap {"leaves", "ties"} = {}, NEW k \in steady
               PROVE  k \in ToSet(shown)
    BY DEF ScanMissesNothing
  <2>1. /\ RowsOK(rows, serial) /\ serial \in Nat /\ page \in Nat /\ size \in Nat
    BY ListingAssumption DEF Shape, TypeOK, RowsOK
  <2>2. PICK x \in Listed(rows) : x.key = k
    BY DEF Scan, SteadyVisible, VisibleIds
  <2>3. /\ Rank(rows, x) < Cardinality(Listed(rows)) /\ Rank(rows, x) \in Nat
        /\ Cardinality(Listed(rows)) \in Nat
    BY <2>1, RankBelowCount, RankType, ListedRows
  <2>4. Offset >= Cardinality(Listed(rows)) /\ Offset \in Int
    BY <2>1, Offsets DEF Scan, DoneAtEnd, Offset
  <2>5. Rank(rows, x) < Offset
    BY <2>3, <2>4
  <2>6. QED
    BY <2>2, <2>5 DEF Scan, Covered
<1>2. QED
  BY <1>1, ScanInvariant, PTL

(* No row is shown twice, unless one came in before others or two records  *)
(* had the same time.                                                      *)
THEOREM ScanRepeatsNothing == Spec => []NothingTwice
<1>1. Shape /\ Scan => NothingTwice
  BY DEF Scan, Behind, NothingTwice
<1>2. QED
  BY <1>1, ScanInvariant, PTL
=============================================================================
