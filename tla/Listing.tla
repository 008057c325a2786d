------------------------------- MODULE Listing -------------------------------
(***************************************************************************)
(* The listing requests of pep::PEP: RESOURCE_LIST, USER_LIST, POLICY_LIST *)
(* and AUDIT_QUERY, each a SELECT with LIMIT and OFFSET and a count, over  *)
(* tables that other requests change between one page and the next.        *)
(*                                                                         *)
(* A reader asks for page after page of one list until the pages asked for *)
(* hold `total' rows.  A handler runs its two statements with no other     *)
(* request in between.                                                     *)
(***************************************************************************)
EXTENDS Integers, SequencesExt

CONSTANTS Kinds,             \* what WHERE tells rows apart by: resource_type, actor, action
          Ranks,             \* priorities of rules, times of records
          MaxRows,           \* bound of rows ever inserted
          MaxChanges,        \* bound of changes during a scan
          MaxSize            \* bound of page_size

ASSUME ListingAssumption == /\ Ranks \subseteq Int /\ 0 \in Ranks
                            /\ MaxRows \in Nat /\ MaxChanges \in Nat /\ MaxSize \in Nat

VARIABLES list,              \* which list is read
          kind, size,        \* what the reader asks for: filter ("": none), page_size
          role,              \* the reader's, in subject_attrs
          permitted,         \* ids of resources he may read (PDP)
          rows, serial,      \* the table and its sequence
          page, done,        \* the page to ask for next; the last one was asked for
          shown,             \* ids received so far, in order
          steady,            \* history: ids listed, and his to see, since the start
          upset,             \* history: what happened to the list since the start
          changes            \* changes so far

request == <<list, kind, size>>
reader  == <<page, done, shown>>
vars    == <<list, kind, size, role, permitted, rows, serial, page, done, shown, steady,
             upset, changes>>

-----------------------------------------------------------------------------
(* The queries.                                                            *)

\* The pairs of T that ORDER BY puts in this order.
ById(T) == {p \in T \X T : p[1].key < p[2].key}
ByPriority(T) == {p \in T \X T : \/ p[1].rank > p[2].rank
                                 \/ p[1].rank = p[2].rank /\ p[1].key < p[2].key}
ByTime(T) == {p \in T \X T : p[1].rank > p[2].rank}

Fitting(T) == {x \in T : kind = "" \/ x.kind = kind}

\* LIMIT and OFFSET; a negative one is an error, and a query that failed has no rows.
Cut(s) == IF page < 1 THEN <<>>
          ELSE SubSeq(s, (page - 1) * size + 1, Min({page * size, Len(s)}))

\* The rows of T in an order that ORDER BY allows.
Sorted(before, T) == {s \in SetToSeqs(T) :
                        \A i, j \in DOMAIN s : i < j => <<s[j], s[i]>> \notin before}

\* The results that SELECT ... ORDER BY may have for this page of T.
Pages(before, T) == {Cut(s) : s \in Sorted(before, T)}

\* Bug: no ORDER BY.
ListUsers_Unordered == Pages({}, rows)

ListUsers == Pages(ById(rows), rows)

CountUsers == Cardinality(rows)

\* Bug: what the reader may not read is taken out before the cut.
ListResources_ReadableOnly ==
    Pages(ById(rows), {x \in Fitting(rows) : role # "user" \/ x.key \in permitted})

ListResources == Pages(ById(rows), Fitting(rows))

CountResources == Cardinality(Fitting(rows))

ListPolicies == Pages(ByPriority(rows), rows)

CountPolicies == Cardinality(rows)

QueryAuditLog == Pages(ByTime(rows), Fitting(rows))

CountAuditLog == Cardinality(Fitting(rows))

-----------------------------------------------------------------------------
(* What the list looks like to the reader, and what has happened to it.    *)

Listed(T) == IF list \in {"resources", "journal"} THEN Fitting(T) ELSE T

Before(T) == CASE list = "policies" -> ByPriority(T)
               [] list = "journal"  -> ByTime(T)
               [] OTHER             -> ById(T)

Place(x) == <<x.key, x.rank>>

Tied(T) == \E x, y \in Listed(T) : x # y /\ {<<x, y>>, <<y, x>>} \cap Before(T) = {}

Visible(x, ro, may) == list = "resources" /\ ro = "user" => x.key \in may

VisibleIds(T, ro, may) == {x.key : x \in {y \in Listed(T) : Visible(y, ro, may)}}

\* From T to U a row leaves its place; an old row takes another place, or a new one
\* a place that is not behind all others.
Happened(T, U) ==
    LET stay  == {x \in Listed(U) : \E y \in Listed(T) : Place(x) = Place(y)}
        fresh == Listed(U) \ stay
        old   == {x \in fresh : \E y \in T : y.key = x.key}
    IN {c \in {"leaves", "enters", "ties"} :
          \/ c = "leaves" /\ \E y \in Listed(T) : \A x \in stay : Place(x) # Place(y)
          \/ c = "enters" /\ (old # {} \/ \E x \in fresh, y \in stay : <<y, x>> \notin Before(U))
          \/ c = "ties"   /\ Tied(U)}

-----------------------------------------------------------------------------
\* What WHERE and ORDER BY look at, by list.
KindsOf == IF list \in {"resources", "journal"} THEN Kinds ELSE {""}
RanksOf == IF list \in {"policies", "journal"} THEN Ranks ELSE {0}

Init ==
    /\ list \in {"resources", "users", "policies", "journal"}
    /\ kind \in KindsOf \cup {""}
    /\ size \in 1..MaxSize
    /\ role \in {"admin", "auditor", "user"}
    /\ serial \in 0..MaxRows
    /\ permitted \in SUBSET IF list = "resources" THEN 1..serial ELSE {}
    /\ \E rank \in [1..serial -> RanksOf], k \in [1..serial -> KindsOf] :
          rows = {[key |-> i, rank |-> rank[i], kind |-> k[i]] : i \in 1..serial}
    /\ page \in {0, 1} /\ done = FALSE /\ shown = <<>>
    /\ steady = VisibleIds(rows, role, permitted)
    /\ upset = IF Tied(rows) THEN {"ties"} ELSE {}
    /\ changes = 0

\* The reader has the answer to one more page.
Receive(items, total) ==
    /\ ~done
    /\ shown' = shown \o [i \in DOMAIN items |-> items[i].key]
    /\ done' = (page * size >= total)
    /\ page' = page + 1
    /\ UNCHANGED <<request, role, permitted, rows, serial, steady, upset, changes>>

\* The PDP is asked about each row of the page if the reader is a user; the rows that
\* are left keep their order.
ResourceList ==
    /\ list = "resources"
    /\ \E s \in ListResources :
       \E items \in Sorted(ById(rows), {x \in ToSet(s) : Visible(x, role, permitted)}) :
          Receive(items, CountResources)

UserList == /\ list = "users" /\ role = "admin"
            /\ \E s \in ListUsers : Receive(s, CountUsers)

PolicyList == /\ list = "policies" /\ role \in {"admin", "auditor"}
              /\ \E s \in ListPolicies : Receive(s, CountPolicies)

AuditQuery == /\ list = "journal" /\ role \in {"admin", "auditor"}
              /\ \E s \in QueryAuditLog : Receive(s, CountAuditLog)

\* Another request leaves these rows, this role and these rights behind.
Change(T, ro, may) ==
    /\ ~done /\ changes < MaxChanges
    /\ rows' = T /\ role' = ro /\ permitted' = may
    /\ steady' = steady \cap VisibleIds(T, ro, may)
    /\ upset' = upset \cup Happened(rows, T)
    /\ changes' = changes + 1
    /\ UNCHANGED <<request, reader>>

\* Bug: the id is the number of rows plus one.
Insert_CountsRows(rank, k) ==
    /\ serial < MaxRows
    /\ serial' = serial + 1
    /\ Change(rows \cup {[key |-> Cardinality(rows) + 1, rank |-> rank, kind |-> k]},
              role, permitted)

\* RESOURCE_CREATE and the like; a record of any request, whatever the clock says.
Insert(rank, k) ==
    /\ serial < MaxRows
    /\ serial' = serial + 1
    /\ Change(rows \cup {[key |-> serial + 1, rank |-> rank, kind |-> k]}, role, permitted)

\* Of the journal nothing is deleted.
Delete(x) == /\ list # "journal"
             /\ Change(rows \ {x}, role, permitted)
             /\ UNCHANGED serial

\* RESOURCE_UPDATE; the actor of a record may be deleted.
Retype(x, k) == /\ k # x.kind
                /\ Change((rows \ {x}) \cup {[x EXCEPT !.kind = k]}, role, permitted)
                /\ UNCHANGED serial

\* POLICY_UPDATE
Reprioritise(x, rank) == /\ list = "policies" /\ rank # x.rank
                         /\ Change((rows \ {x}) \cup {[x EXCEPT !.rank = rank]}, role, permitted)
                         /\ UNCHANGED serial

\* USER_UPDATE of the reader, or any change of rules, accounts or resources.
RightsChange(ro, may) == Change(rows, ro, may) /\ UNCHANGED serial

Next ==
    \/ ResourceList \/ UserList \/ PolicyList \/ AuditQuery
    \/ \E rank \in RanksOf, k \in KindsOf : Insert(rank, k)
    \/ \E x \in rows : \/ Delete(x)
                       \/ \E k \in KindsOf : Retype(x, k)
                       \/ \E rank \in RanksOf : Reprioritise(x, rank)
    \/ \E ro \in {"admin", "auditor", "user"} \ {role} : RightsChange(ro, permitted)
    \/ \E x \in rows : /\ list = "resources"
                       /\ \/ RightsChange(role, permitted \ {x.key})
                          \/ RightsChange(role, permitted \cup {x.key})

Spec == Init /\ [][Next]_vars

-----------------------------------------------------------------------------
(* Rows have ids of their own, and only what was inserted is ever shown.   *)
TypeOK ==
    /\ rows \subseteq [key : 1..serial, rank : RanksOf, kind : KindsOf]
    /\ \A x, y \in rows : x.key = y.key => x = y
    /\ shown \in Seq(1..serial)
    /\ permitted \subseteq 1..MaxRows /\ steady \subseteq {x.key : x \in rows}
    /\ upset \subseteq {"leaves", "enters", "ties"}
    /\ page \in Nat /\ done \in BOOLEAN /\ changes \in 0..MaxChanges

(* Whoever reads to the end has seen every row that was his to see all the *)
(* time, whatever came in before or behind him and whatever rights were    *)
(* given or taken meanwhile: the PDP filters after the cut and `total'     *)
(* counts what it hides (pep.cpp 242-255).  Only a row that leaves its     *)
(* place, or two records of the same time, can make him miss one.          *)
ScanMissesNothing ==
    done /\ upset \cap {"leaves", "ties"} = {} => steady \subseteq ToSet(shown)

(* Nothing is shown twice unless a row comes in before others: in the      *)
(* lists ordered by id new rows come last, so that deletions and rights    *)
(* that come and go never repeat a row.                                    *)
NothingTwice == upset \cap {"enters", "ties"} = {} => IsInjective(shown)
=============================================================================
