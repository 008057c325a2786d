-------------------------- MODULE BootstrapProofs --------------------------
(***************************************************************************)
(* What the start of the server does to databases, however often it is     *)
(* started, killed or cut off: proofs for Bootstrap.                       *)
(***************************************************************************)
EXTENDS Bootstrap, TLAPS

\* Rows come with the seed, and the seed after the tables.
SeededInv == \A d \in Databases : /\ d \in seeded => db[d].tables
                                  /\ db[d].rows # {} => d \in seeded

\* A script starts at its first statement; a transaction is open only inside one.
PlaceInv == /\ stage = "opening" => pos = 1
            /\ stage \in Scripts => pos \in 1..Len(Script(stage))
            /\ txn = "open" => stage \in Scripts \cap readable /\ pos >= 2

\* V001 works on what is committed, and gets past CREATE TABLE once only.
SchemaInv == stage = "V001" /\ txn = "open" =>
                /\ pos = 2 => work = db[target]
                /\ pos = 3 => ~db[target].tables /\ work = [tables |-> TRUE, rows |-> {}]

\* V002 runs on tables without a row, or in an aborted transaction.
FreshInv == stage = "V002" /\ linked /\ txn # "aborted" =>
                target \notin seeded /\ db[target] = [tables |-> TRUE, rows |-> {}]

\* V002 adds up its rows one statement after the other.
SeedInv == stage = "V002" /\ txn = "open" =>
              /\ work.tables
              /\ pos = 2 => work.rows = {}
              /\ pos = 3 => work.rows = {"admin"}
              /\ pos = 4 => work.rows = {"admin", "attrs"}
              /\ pos = 5 => work.rows = SeedRows

\* UsableMeansSeeded, from the end of the scripts on.
ReadyInv == stage \in {"listening", "serving"} /\ Usable /\ readable = Scripts
               => target \in seeded

\* The inductive invariant: types, and what is known of scripts, seed and listener.
BootInv == TypeOK /\ SeededInv /\ PlaceInv /\ SchemaInv /\ FreshInv /\ SeedInv /\ ReadyInv

-----------------------------------------------------------------------------
\* The statements of the two scripts by their position.
LEMMA ScriptFacts ==
  /\ Len(Script("V001")) = 3 /\ Len(Script("V002")) = 5
  /\ Script("V001")[1] = "BEGIN" /\ Script("V001")[2] = "tables" /\ Script("V001")[3] = "COMMIT"
  /\ Script("V002")[1] = "BEGIN" /\ Script("V002")[2] = "admin" /\ Script("V002")[3] = "attrs"
  /\ Script("V002")[4] = "rules" /\ Script("V002")[5] = "COMMIT"
<1>1. Script("V001") = <<"BEGIN", "tables", "COMMIT">>
  BY DEF Script
<1>2. Script("V002") = <<"BEGIN", "admin", "attrs", "rules", "COMMIT">>
  BY DEF Script
<1>3. QED
  BY <1>1, <1>2

\* Nothing but an empty image is held without a transaction.
LEMMA EmptyImage == Empty \in Image /\ Empty.rows = {}
  BY DEF Empty, Image

\* Nothing is set up at first.
LEMMA InitBootInv == Init => BootInv
<1> SUFFICES ASSUME Init PROVE BootInv
  OBVIOUS
<1>1. db \in [Databases -> Image] /\ work \in Image /\ \A d \in Databases : db[d].rows = {}
  BY EmptyImage DEF Init
<1>2. /\ stage = "down" /\ target \in Databases /\ readable = {} /\ linked = FALSE
      /\ txn = "none" /\ pos = 1 /\ starts = 0 /\ disturbed = FALSE /\ seeded = {}
  BY DEF Init, Databases
<1>3. TypeOK
  BY <1>1, <1>2, BootstrapAssumption DEF TypeOK, DataOK, ControlOK
<1>4. SeededInv /\ PlaceInv /\ SchemaInv /\ FreshInv /\ SeedInv /\ ReadyInv
  BY <1>1, <1>2 DEF SeededInv, PlaceInv, SchemaInv, FreshInv, SeedInv, ReadyInv, Scripts
<1>5. QED
  BY <1>3, <1>4 DEF BootInv

\* A step that leaves the databases alone and closes or aborts the transaction.
LEMMA QuietStep ==
  ASSUME BootInv, UNCHANGED <<db, seeded>>, TypeOK', txn' # "open",
         stage' = "opening" => pos' = 1,
         stage' \in Scripts => pos' \in 1..Len(Script(stage')),
         stage' = "V002" => ~linked' \/ txn' = "aborted"
                            \/ (stage = "V002" /\ linked /\ txn # "aborted" /\ target' = target),
         stage' \in {"listening", "serving"} /\ linked' /\ txn' = "none" /\ readable' = Scripts
            => /\ stage \in {"listening", "serving"} /\ linked /\ txn = "none"
               /\ readable = Scripts /\ target' = target
  PROVE  BootInv'
<1>1. SeededInv'
  BY DEF BootInv, SeededInv
<1>2. PlaceInv' /\ SchemaInv' /\ SeedInv'
  BY DEF PlaceInv, SchemaInv, SeedInv
<1>3. FreshInv'
  BY DEF BootInv, FreshInv
<1>4. ReadyInv'
  BY DEF BootInv, ReadyInv, Usable
<1>5. QED
  BY <1>1, <1>2, <1>3, <1>4 DEF BootInv

\* An error inside a script.
LEMMA ErrorStep ==
  ASSUME BootInv, StatementError, stage \in Scripts, linked, disturbed' \in BOOLEAN
  PROVE  BootInv'
<1>1. /\ UNCHANGED <<db, target, readable, linked, starts, seeded>>
      /\ txn' = "aborted" /\ work' = Empty /\ pos' = 1 /\ stage' \in {"V002", "listening"}
  BY DEF StatementError, ScriptEnds
<1>2. TypeOK'
  BY <1>1, EmptyImage DEF BootInv, TypeOK, DataOK, ControlOK, Scripts
<1>3. stage' \in Scripts => pos' \in 1..Len(Script(stage'))
  BY <1>1, ScriptFacts DEF Scripts
<1>4. QED
  BY <1>1, <1>2, <1>3, QuietStep

\* The process is started, killed or cut off, and what it does outside the scripts.
LEMMA OutsideStep ==
  ASSUME BootInv,
         \/ \E d \in Databases, found \in SUBSET Scripts : Start(d, found)
         \/ Open \/ ScriptSkipped \/ Listen \/ DatabaseGone \/ Stop
  PROVE  BootInv'
<1> USE DEF connection
<1>1. DataOK /\ ControlOK /\ PlaceInv
  BY DEF BootInv, TypeOK
<1>2. UNCHANGED <<db, seeded>> /\ (work' = work \/ work' = Empty)
  BY DEF Start, Open, ScriptSkipped, Listen, DatabaseGone, Stop
<1>3. DataOK'
  BY <1>1, <1>2, EmptyImage DEF DataOK
<1>4. ASSUME NEW d \in Databases, NEW found \in SUBSET Scripts, Start(d, found) PROVE BootInv'
  <2>1. /\ stage = "down" /\ stage' = "opening" /\ target' \in Databases
        /\ readable' \in SUBSET Scripts /\ pos' = 1 /\ disturbed' \in BOOLEAN
        /\ linked' = linked /\ txn' = txn
    BY <1>4 DEF Start
  <2>2. starts' \in Nat
    BY <1>1, <1>4 DEF Start, ControlOK
  <2>3. ~linked /\ txn = "none"
    BY <1>1, <2>1 DEF ControlOK
  <2>4. ControlOK'
    BY <1>1, <1>2, <2>1, <2>2, <2>3 DEF ControlOK
  <2>5. QED
    BY <1>2, <1>3, <2>1, <2>3, <2>4, QuietStep DEF TypeOK, Scripts
<1>5. CASE Open
  <2>1. /\ stage = "opening" /\ stage' \in {"V001", "down"}
        /\ UNCHANGED <<target, readable, txn, pos, starts, disturbed>>
        /\ stage' = "down" => linked' = linked
        /\ stage' = "V001" => linked' = TRUE
    BY <1>5 DEF Open
  <2>2. linked = FALSE /\ txn = "none" /\ pos = 1
    BY <1>1, <2>1 DEF ControlOK, PlaceInv
  <2>3. stage' \in {"down", "opening", "listening", "serving"} \cup Scripts
    BY <2>1 DEF Scripts
  <2>4. ControlOK'
    <3>1. linked' \in BOOLEAN /\ (stage' = "down" => ~linked') /\ stage' # "opening"
      BY <2>1, <2>2
    <3>2. QED
      BY <1>1, <1>2, <2>1, <2>2, <2>3, <3>1 DEF ControlOK
  <2>5. stage' \in Scripts => pos' \in 1..Len(Script(stage'))
    BY <2>1, <2>2, ScriptFacts DEF Scripts
  <2>6. QED
    BY <1>2, <1>3, <2>1, <2>2, <2>4, <2>5, QuietStep DEF TypeOK
<1>6. CASE ScriptSkipped
  <2>1. /\ stage \in Scripts /\ (stage \notin readable \/ ~linked)
        /\ stage' = "listening" /\ pos' = 1
        /\ UNCHANGED <<target, readable, linked, txn, starts, disturbed>>
    BY <1>6 DEF ScriptSkipped, ScriptEnds
  <2>2. ControlOK'
    BY <1>1, <1>2, <2>1 DEF ControlOK
  <2>3. ~(linked' /\ readable' = Scripts)
    BY <2>1
  <2>4. txn' # "open"
    BY <1>1, <2>1 DEF ControlOK, PlaceInv
  <2>5. QED
    BY <1>2, <1>3, <2>1, <2>2, <2>3, <2>4, QuietStep DEF TypeOK, Scripts
<1>7. CASE Listen
  <2>1. /\ stage = "listening" /\ stage' \in {"serving", "down"}
        /\ UNCHANGED <<target, readable, pos, starts, disturbed>>
        /\ stage' = "serving" => linked' = linked /\ txn' = txn
        /\ stage' = "down" => linked' = FALSE /\ txn' = "none"
    BY <1>7 DEF Listen
  <2>2. ControlOK'
    <3>1. CASE stage' = "serving"
      BY <1>1, <1>2, <2>1, <3>1 DEF ControlOK
    <3>2. CASE stage' = "down"
      BY <1>1, <1>2, <2>1, <3>2 DEF ControlOK
    <3>3. QED
      BY <2>1, <3>1, <3>2
  <2>3. txn' # "open"
    BY <1>1, <2>1 DEF PlaceInv, Scripts
  <2>4. QED
    BY <1>2, <1>3, <2>1, <2>2, <2>3, QuietStep DEF TypeOK, Scripts
<1>8. CASE DatabaseGone
  <2>1. /\ linked' = FALSE /\ txn' = "none" /\ disturbed' = TRUE
        /\ UNCHANGED <<stage, target, readable, pos, starts>>
    BY <1>8 DEF DatabaseGone
  <2>2. ControlOK'
    BY <1>1, <1>2, <2>1 DEF ControlOK
  <2>3. QED
    BY <1>1, <1>2, <1>3, <2>1, <2>2, QuietStep DEF TypeOK, PlaceInv
<1>9. CASE Stop
  <2>1. /\ stage' = "down" /\ linked' = FALSE /\ txn' = "none"
        /\ UNCHANGED <<target, readable, pos, starts, disturbed>>
    BY <1>9 DEF Stop
  <2>2. ControlOK'
    BY <1>1, <1>2, <2>1 DEF ControlOK
  <2>3. QED
    BY <1>2, <1>3, <2>1, <2>2, QuietStep DEF TypeOK, Scripts
<1>10. QED
  BY <1>4, <1>5, <1>6, <1>7, <1>8, <1>9

\* The statements of the scripts before their COMMIT.
LEMMA BeginStep == ASSUME BootInv, Begin PROVE BootInv'
<1>1. DataOK /\ ControlOK /\ PlaceInv /\ SeededInv /\ FreshInv
  BY DEF BootInv, TypeOK
<1>2. /\ stage \in Scripts /\ stage \in readable /\ linked /\ pos \in 1..Len(Script(stage))
      /\ Script(stage)[pos] = "BEGIN"
  BY <1>1 DEF Begin, Running, PlaceInv
<1>3. pos = 1
  BY <1>2, ScriptFacts DEF Scripts
<1>4. CASE txn = "aborted"
  BY <1>1, <1>2, <1>4, ErrorStep DEF Begin, ControlOK
<1>5. CASE txn = "none"
  <2>1. /\ txn' = "open" /\ work' = db[target] /\ pos' = 2
        /\ UNCHANGED <<db, stage, target, readable, linked, starts, disturbed, seeded>>
    BY <1>3, <1>5 DEF Begin
  <2>2. work' \in Image
    BY <1>1, <2>1 DEF DataOK, ControlOK
  <2>3. DataOK' /\ ControlOK'
    BY <1>1, <1>2, <2>1, <2>2 DEF DataOK, ControlOK
  <2>4. SeededInv' /\ FreshInv'
    BY <1>1, <1>5, <2>1 DEF SeededInv, FreshInv
  <2>5. PlaceInv'
    BY <1>2, <2>1, ScriptFacts DEF PlaceInv, Scripts
  <2>6. SchemaInv'
    BY <2>1 DEF SchemaInv
  <2>7. SeedInv'
    BY <1>1, <1>2, <1>5, <2>1 DEF SeedInv, FreshInv
  <2>8. ReadyInv'
    BY <1>2, <2>1 DEF ReadyInv, Scripts
  <2>9. QED
    BY <2>3, <2>4, <2>5, <2>6, <2>7, <2>8 DEF BootInv, TypeOK
<1>6. QED
  BY <1>4, <1>5 DEF Begin

\* What a statement that fits adds to the transaction.
LEMMA EffectFacts ==
  ASSUME NEW v \in Image, NEW stmt \in {"tables"} \cup SeedRows
  PROVE  /\ Effect(stmt, v) \in Image
         /\ stmt = "tables" => Effect(stmt, v) = [tables |-> TRUE, rows |-> {}]
         /\ stmt # "tables" => /\ Effect(stmt, v).tables = v.tables
                               /\ Effect(stmt, v).rows = v.rows \cup {stmt}
  BY DEF Effect, Image, SeedRows

\* Executing a statement of a script, in the transaction of the whole script.
LEMMA ExecuteStep ==
  ASSUME BootInv, NEW stmt \in {"tables"} \cup SeedRows, Execute(stmt)
  PROVE  BootInv'
<1>1. DataOK /\ ControlOK /\ PlaceInv /\ SeededInv /\ SchemaInv /\ FreshInv /\ SeedInv
  BY DEF BootInv, TypeOK
<1>2. /\ stage \in Scripts /\ stage \in readable /\ linked /\ txn = "open"
      /\ pos \in 1..Len(Script(stage)) /\ Script(stage)[pos] = stmt
  BY <1>1 DEF Execute, Running, PlaceInv
<1>3. \/ stage = "V001" /\ pos = 2 /\ stmt = "tables"
      \/ stage = "V002" /\ pos = 2 /\ stmt = "admin"
      \/ stage = "V002" /\ pos = 3 /\ stmt = "attrs"
      \/ stage = "V002" /\ pos = 4 /\ stmt = "rules"
  BY <1>2, ScriptFacts DEF Scripts, SeedRows
<1>4. CASE ~Fits(stmt, work)
  BY <1>1, <1>2, <1>4, ErrorStep DEF Execute, ControlOK
<1>5. CASE Fits(stmt, work)
  <2>1. /\ work' = Effect(stmt, work) /\ pos' = pos + 1
        /\ UNCHANGED <<db, stage, target, readable, linked, txn, starts, disturbed, seeded>>
    BY <1>5 DEF Execute
  <2>2. work \in Image
    BY <1>1 DEF DataOK
  <2>3. work' \in Image
    BY <2>1, <2>2, EffectFacts
  <2>4. DataOK'
    BY <1>1, <2>1, <2>3 DEF DataOK
  <2>5. ControlOK'
    BY <1>1, <2>1 DEF ControlOK
  <2>6. SeededInv' /\ FreshInv'
    BY <1>1, <2>1 DEF SeededInv, FreshInv
  <2>7. PlaceInv'
    BY <1>2, <1>3, <2>1, ScriptFacts DEF PlaceInv
  <2>8. SchemaInv'
    BY <1>1, <1>2, <1>3, <1>5, <2>1, <2>2, EffectFacts DEF SchemaInv, Fits
  <2>9. SeedInv'
    BY <1>1, <1>2, <1>3, <2>1, <2>2, EffectFacts DEF SeedInv, SeedRows
  <2>10. ReadyInv'
    BY <1>2, <2>1 DEF ReadyInv, Scripts
  <2>11. QED
    BY <2>4, <2>5, <2>6, <2>7, <2>8, <2>9, <2>10 DEF BootInv, TypeOK
<1>6. QED
  BY <1>4, <1>5

\* What COMMIT makes of the database: tables for an empty one, or the seed.
LEMMA CommitFacts ==
  ASSUME BootInv, Commit
  PROVE  /\ target \in Databases /\ target \notin seeded /\ linked
         /\ db' = [db EXCEPT ![target] = work]
         /\ txn' = "none" /\ work' = Empty /\ pos' = 1
         /\ UNCHANGED <<target, readable, linked, starts, disturbed>>
         /\ \/ /\ stage = "V001" /\ stage' = "V002" /\ seeded' = seeded
               /\ ~db[target].tables /\ work = [tables |-> TRUE, rows |-> {}]
            \/ /\ stage = "V002" /\ stage' = "listening" /\ seeded' = seeded \cup {target}
               /\ db[target] = [tables |-> TRUE, rows |-> {}]
               /\ work.tables /\ work.rows = SeedRows
<1>1. DataOK /\ ControlOK /\ PlaceInv /\ SeededInv /\ SchemaInv /\ FreshInv /\ SeedInv
  BY DEF BootInv, TypeOK
<1>2. /\ stage \in Scripts /\ linked /\ txn = "open" /\ target \in Databases
      /\ pos \in 1..Len(Script(stage)) /\ Script(stage)[pos] = "COMMIT"
  BY <1>1 DEF Commit, Running, PlaceInv, ControlOK
<1>3. pos = Len(Script(stage)) /\ ((stage = "V001" /\ pos = 3) \/ (stage = "V002" /\ pos = 5))
  <2>1. CASE stage = "V001"
    <3>1. Len(Script(stage)) = 3 /\ pos \in {1, 2, 3}
      BY <1>2, <2>1, ScriptFacts
    <3>2. pos # 1 /\ pos # 2
      BY <1>2, <2>1, ScriptFacts
    <3>3. QED
      BY <2>1, <3>1, <3>2
  <2>2. CASE stage = "V002"
    <3>1. Len(Script(stage)) = 5 /\ pos \in {1, 2, 3, 4, 5}
      BY <1>2, <2>2, ScriptFacts
    <3>2. pos # 1 /\ pos # 2 /\ pos # 3 /\ pos # 4
      BY <1>2, <2>2, ScriptFacts
    <3>3. QED
      BY <2>2, <3>1, <3>2
  <2>3. QED
    BY <1>2, <2>1, <2>2 DEF Scripts
<1>4. /\ db' = [db EXCEPT ![target] = work]
      /\ txn' = "none" /\ work' = Empty /\ pos' = 1
      /\ UNCHANGED <<target, readable, linked, starts, disturbed>>
      /\ stage' = IF stage = "V001" THEN "V002" ELSE "listening"
      /\ seeded' = IF stage = "V002" THEN seeded \cup {target} ELSE seeded
  BY <1>3 DEF Commit, ScriptEnds
<1>5. CASE stage = "V001" /\ pos = 3
  BY <1>1, <1>2, <1>4, <1>5 DEF SchemaInv, SeededInv
<1>6. CASE stage = "V002" /\ pos = 5
  BY <1>1, <1>2, <1>4, <1>6 DEF SeedInv, FreshInv
<1>7. QED
  BY <1>3, <1>5, <1>6

\* COMMIT of one of the scripts.
LEMMA CommitStep == ASSUME BootInv, Commit PROVE BootInv'
<1>1. DataOK /\ ControlOK /\ SeededInv
  BY DEF BootInv, TypeOK
<1>2. work \in Image
  BY <1>1 DEF DataOK
<1>3. /\ db'[target] = work /\ target \in Databases
      /\ \A d \in Databases : d # target => db'[d] = db[d]
  BY <1>1, CommitFacts DEF DataOK
<1>4. work.tables
  BY CommitFacts
<1>5. DataOK'
  <2>1. db' \in [Databases -> Image]
    BY <1>1, <1>2, CommitFacts DEF DataOK
  <2>2. \A d \in Databases : db'[d].rows # {} => db'[d].tables
    BY <1>1, <1>3, <1>4 DEF DataOK
  <2>3. QED
    BY <2>1, <2>2, CommitFacts, EmptyImage DEF DataOK
<1>6. stage' \in {"V002", "listening"} /\ pos' = 1 /\ txn' = "none" /\ linked' = linked /\ linked
  BY CommitFacts
<1>7. seeded' \in SUBSET Databases
  BY <1>1, CommitFacts DEF ControlOK
<1>8. ControlOK'
  <2>1. stage' \in {"down", "opening", "listening", "serving"} \cup Scripts
    BY <1>6 DEF Scripts
  <2>2. UNCHANGED <<target, readable, linked, starts, disturbed>>
    BY CommitFacts
  <2>3. QED
    BY <1>1, <1>6, <1>7, <2>1, <2>2 DEF ControlOK
<1>9. SeededInv'
  <2>1. CASE stage = "V001"
    <3>1. seeded' = seeded /\ target \notin seeded /\ work.rows = {}
      BY <2>1, CommitFacts
    <3>2. QED
      BY <1>1, <1>3, <3>1 DEF SeededInv
  <2>2. CASE stage = "V002"
    <3>1. seeded' = seeded \cup {target}
      BY <2>2, CommitFacts
    <3>2. QED
      BY <1>1, <1>3, <1>4, <3>1 DEF SeededInv
  <2>3. QED
    BY <2>1, <2>2, CommitFacts
<1>10. PlaceInv' /\ SchemaInv' /\ SeedInv'
  BY <1>6, ScriptFacts DEF PlaceInv, SchemaInv, SeedInv, Scripts
<1>11. FreshInv'
  <2>1. stage' = "V002" => target \notin seeded' /\ work = [tables |-> TRUE, rows |-> {}]
    BY CommitFacts
  <2>2. target' = target
    BY CommitFacts
  <2>3. QED
    BY <1>3, <2>1, <2>2 DEF FreshInv
<1>12. ReadyInv'
  BY CommitFacts DEF ReadyInv
<1>13. QED
  BY <1>5, <1>8, <1>9, <1>10, <1>11, <1>12 DEF BootInv, TypeOK

\* What a request does: rows of a seeded database, and only those.
LEMMA ServeFacts ==
  ASSUME BootInv, NEW R \in SUBSET (SeedRows \cup ServedRows), Serve(R)
  PROVE  /\ target \in seeded /\ target \in Databases /\ stage = "serving"
         /\ db[target].tables /\ db' \in [Databases -> Image]
         /\ db'[target].tables = db[target].tables /\ db'[target].rows = R
         /\ \A d \in Databases : d # target => db'[d] = db[d]
         /\ UNCHANGED <<stage, target, readable, linked, txn, work, pos, starts, disturbed, seeded>>
<1>1. DataOK /\ ControlOK /\ SeededInv
  BY DEF BootInv, TypeOK
<1>2. /\ db' = [db EXCEPT ![target].rows = R] /\ Administered(db[target]) /\ stage = "serving"
      /\ UNCHANGED <<stage, target, readable, linked, txn, work, pos, starts, disturbed, seeded>>
  BY DEF Serve, connection
<1>3. target \in Databases /\ db \in [Databases -> Image] /\ db[target] \in Image
  BY <1>1 DEF ControlOK, DataOK
<1>4. db[target].rows # {}
  BY <1>2 DEF Administered
<1>5. target \in seeded /\ db[target].tables
  BY <1>1, <1>3, <1>4 DEF SeededInv
<1>6. /\ [db[target] EXCEPT !.rows = R] \in Image
      /\ [db[target] EXCEPT !.rows = R].tables = db[target].tables
      /\ [db[target] EXCEPT !.rows = R].rows = R
  BY <1>3 DEF Image
<1>7. db' = [db EXCEPT ![target] = [db[target] EXCEPT !.rows = R]]
  BY <1>2
<1>8. db'[target] = [db[target] EXCEPT !.rows = R] /\ \A d \in Databases : d # target => db'[d] = db[d]
  BY <1>3, <1>7
<1>9. db' \in [Databases -> Image]
  BY <1>3, <1>6, <1>7
<1>10. QED
  BY <1>2, <1>3, <1>5, <1>6, <1>8, <1>9

\* A request that the listening server executes on the one connection.
LEMMA ServeStep ==
  ASSUME BootInv, NEW R \in SUBSET (SeedRows \cup ServedRows), Serve(R)
  PROVE  BootInv'
<1>1. DataOK /\ ControlOK /\ SeededInv /\ PlaceInv /\ ReadyInv
  BY DEF BootInv, TypeOK
<1>2. DataOK'
  BY <1>1, ServeFacts DEF DataOK
<1>3. ControlOK'
  BY <1>1, ServeFacts DEF ControlOK
<1>4. SeededInv'
  BY <1>1, ServeFacts DEF SeededInv
<1>5. PlaceInv' /\ ReadyInv'
  BY <1>1, ServeFacts DEF PlaceInv, ReadyInv, Usable
<1>6. SchemaInv' /\ FreshInv' /\ SeedInv'
  BY ServeFacts DEF SchemaInv, FreshInv, SeedInv
<1>7. QED
  BY <1>2, <1>3, <1>4, <1>5, <1>6 DEF BootInv, TypeOK

\* The two kinds of requests.
LEMMA ServeCases ==
  ASSUME BootInv, ServeInsert \/ ServeDelete
  PROVE  \E R \in SUBSET (SeedRows \cup ServedRows) : Serve(R)
<1>1. db[target].rows \in SUBSET (SeedRows \cup ServedRows)
  BY DEF BootInv, TypeOK, DataOK, ControlOK, Image
<1>2. CASE ServeInsert
  BY <1>1, <1>2 DEF ServeInsert
<1>3. CASE ServeDelete
  BY <1>1, <1>3 DEF ServeDelete
<1>4. QED
  BY <1>2, <1>3

\* BootInv is inductive.
LEMMA NextBootInv == BootInv /\ [Next]_vars => BootInv'
<1> SUFFICES ASSUME BootInv, [Next]_vars PROVE BootInv'
  OBVIOUS
<1>1. CASE StatementFails
  <2>1. StatementError /\ stage \in Scripts /\ linked /\ disturbed' = TRUE
    BY <1>1 DEF StatementFails
  <2>2. QED
    BY <2>1, ErrorStep
<1>2. CASE ServeInsert \/ ServeDelete
  BY <1>2, ServeCases, ServeStep
<1>3. CASE UNCHANGED vars
  BY <1>3 DEF vars, connection, BootInv, TypeOK, DataOK, ControlOK, SeededInv, PlaceInv,
              SchemaInv, FreshInv, SeedInv, ReadyInv, Usable
<1>4. CASE Progress
  BY <1>4, OutsideStep, BeginStep, ExecuteStep, CommitStep DEF Progress
<1>5. QED
  BY <1>1, <1>2, <1>3, <1>4, OutsideStep DEF Next

\* Every start, killed or cut off anywhere, keeps the invariant.
LEMMA Booting == Spec => []BootInv
  BY InitBootInv, NextBootInv, PTL DEF Spec

-----------------------------------------------------------------------------
(* Rows are in tables, and a transaction is of a live connection.          *)
THEOREM BootTypeCorrect == Spec => []TypeOK
<1>1. BootInv => TypeOK
  BY DEF BootInv
<1>2. QED
  BY <1>1, Booting, PTL

(* A server that found its scripts and can execute a statement serves a    *)
(* seeded database: one that was cut off between the scripts is never      *)
(* served, because V001 leaves the transaction aborted.                    *)
THEOREM ServedDatabaseIsWhole == Spec => []UsableMeansSeeded
<1>1. BootInv => UsableMeansSeeded
  BY DEF BootInv, ReadyInv, UsableMeansSeeded
<1>2. QED
  BY <1>1, Booting, PTL

\* Scripts never touch a database that is seeded.
LEMMA DataSteps ==
  ASSUME BootInv, [Next]_vars
  PROVE  \/ UNCHANGED <<db, seeded>>
         \/ Commit
         \/ \E R \in SUBSET (SeedRows \cup ServedRows) : Serve(R)
<1>1. CASE ServeInsert \/ ServeDelete
  BY <1>1, ServeCases
<1>2. CASE Commit
  BY <1>2
<1>3. CASE \/ Open \/ ScriptSkipped \/ Begin \/ Listen \/ StatementFails \/ DatabaseGone \/ Stop
           \/ \E stmt \in {"tables"} \cup SeedRows : Execute(stmt)
           \/ \E d \in Databases, found \in SUBSET Scripts : Start(d, found)
           \/ UNCHANGED vars
  BY <1>3 DEF Open, ScriptSkipped, Begin, Listen, StatementFails, DatabaseGone, Stop, Execute,
              Start, StatementError, vars
<1>4. QED
  BY <1>1, <1>2, <1>3 DEF Next, Progress

(* Whatever a later start runs into, a seeded database is changed by       *)
(* requests only.                                                          *)
THEOREM LaterStartsKeepData == Spec => StartsKeepData
<1>1. BootInv /\ [Next]_vars =>
        [\A d \in Databases : d \in seeded /\ db'[d] # db[d] => stage = "serving"]_vars
  <2> SUFFICES ASSUME BootInv, [Next]_vars, NEW d \in Databases, d \in seeded, db'[d] # db[d]
               PROVE  stage = "serving"
    OBVIOUS
  <2>1. CASE Commit
    <3>1. target # d /\ db' = [db EXCEPT ![target] = work] /\ db \in [Databases -> Image]
      BY <2>1, CommitFacts DEF BootInv, TypeOK, DataOK
    <3>2. QED
      BY <3>1
  <2>2. CASE \E R \in SUBSET (SeedRows \cup ServedRows) : Serve(R)
    BY <2>2, ServeFacts
  <2>3. QED
    BY <2>1, <2>2, DataSteps
<1>2. QED
  BY <1>1, Booting, PTL DEF Spec, StartsKeepData

-----------------------------------------------------------------------------
\* At first there is nothing anywhere.
LEMMA InitMaps == Init => Promise!Init
<1> SUFFICES ASSUME Init PROVE Promise!Init
  OBVIOUS
<1>1. \A d \in Databases : ~db[d].tables /\ db[d].rows = {}
  BY DEF Init, Empty
<1>2. phaseMap = [d \in Databases |-> "empty"]
  BY <1>1 DEF phaseMap, PhaseOf
<1>3. rowsMap = [d \in Databases |-> {}]
  BY <1>1 DEF rowsMap
<1>4. QED
  BY <1>2, <1>3 DEF Promise!Init

\* COMMIT of V001 creates the schema, COMMIT of V002 seeds it.
LEMMA CommitMaps == ASSUME BootInv, Commit PROVE Promise!Next
<1>1. PICK c \in Databases : c = target
  BY CommitFacts
<1>2. /\ c \notin seeded /\ db'[c] = work /\ \A d \in Databases : d # c => db'[d] = db[d]
  BY <1>1, CommitFacts DEF BootInv, TypeOK, DataOK
<1>3. \A d \in Databases : phaseMap[d] = PhaseOf(d) /\ rowsMap[d] = db[d].rows
  BY DEF phaseMap, rowsMap
<1>4. \A d \in Databases : d # c => (d \in seeded' <=> d \in seeded)
  BY <1>1, CommitFacts
<1>5. \A d \in Databases : d # c => PhaseOf(d)' = phaseMap[d] /\ db'[d].rows = rowsMap[d]
  BY <1>2, <1>3, <1>4 DEF PhaseOf
<1>6. CASE stage = "V001"
  <2>1. /\ ~db[c].tables /\ work = [tables |-> TRUE, rows |-> {}] /\ seeded' = seeded
        /\ db[c].rows = {}
    BY <1>1, <1>2, <1>6, CommitFacts DEF BootInv, SeededInv
  <2>2. phaseMap[c] = "empty" /\ PhaseOf(c)' = "schema"
    BY <1>2, <1>3, <2>1 DEF PhaseOf
  <2>3. phaseMap' = [phaseMap EXCEPT ![c] = "schema"]
    BY <1>5, <2>2 DEF phaseMap
  <2>4. rowsMap' = rowsMap
    <3>1. db'[c].rows = {} /\ rowsMap[c] = {}
      BY <1>2, <1>3, <2>1
    <3>2. \A d \in Databases : db'[d].rows = rowsMap[d]
      BY <1>5, <3>1
    <3>3. QED
      BY <3>2 DEF rowsMap
  <2>5. Promise!CreateSchema(c)
    BY <2>2, <2>3, <2>4 DEF Promise!CreateSchema
  <2>6. QED
    BY <2>5 DEF Promise!Next
<1>7. CASE stage = "V002"
  <2>1. /\ db[c] = [tables |-> TRUE, rows |-> {}] /\ work.tables /\ work.rows = SeedRows
        /\ c \in seeded'
    BY <1>1, <1>7, CommitFacts
  <2>2. phaseMap[c] = "schema" /\ PhaseOf(c)' = "seeded"
    BY <1>2, <1>3, <2>1 DEF PhaseOf
  <2>3. phaseMap' = [phaseMap EXCEPT ![c] = "seeded"]
    BY <1>5, <2>2 DEF phaseMap
  <2>4. rowsMap' = [rowsMap EXCEPT ![c] = SeedRows]
    BY <1>2, <1>5, <2>1 DEF rowsMap
  <2>5. Promise!Seed(c)
    BY <2>2, <2>3, <2>4 DEF Promise!Seed
  <2>6. QED
    BY <2>5 DEF Promise!Next
<1>8. QED
  BY <1>6, <1>7, CommitFacts

\* A request changes the rows of a seeded database.
LEMMA ServeMaps ==
  ASSUME BootInv, NEW R \in SUBSET (SeedRows \cup ServedRows), Serve(R)
  PROVE  Promise!Next
<1>1. \A d \in Databases : phaseMap[d] = PhaseOf(d) /\ rowsMap[d] = db[d].rows
  BY DEF phaseMap, rowsMap
<1>2. \A d \in Databases : PhaseOf(d)' = phaseMap[d]
  <2>1. ASSUME NEW d \in Databases PROVE PhaseOf(d)' = PhaseOf(d)
    <3>1. CASE d = target
      BY <3>1, ServeFacts DEF PhaseOf
    <3>2. CASE d # target
      BY <3>2, ServeFacts DEF PhaseOf
    <3>3. QED
      BY <3>1, <3>2
  <2>2. QED
    BY <1>1, <2>1
<1>3. phaseMap' = phaseMap
  BY <1>2 DEF phaseMap
<1>4. rowsMap' = [rowsMap EXCEPT ![target] = R]
  BY ServeFacts DEF rowsMap
<1>5. target \in Databases /\ phaseMap[target] = "seeded"
  BY <1>1, ServeFacts DEF PhaseOf
<1>6. Promise!Serve(target, R)
  BY <1>3, <1>4, <1>5 DEF Promise!Serve
<1>7. QED
  BY <1>5, <1>6 DEF Promise!Next

(* Each database goes from empty over its schema to the whole seed, once,  *)
(* and then changes by requests only, however often the server is started, *)
(* killed in the middle of a script or cut off from PostgreSQL.            *)
THEOREM StartImplementsInstallation == Spec => RefinesInstallation
<1>1. BootInv /\ [Next]_vars => [Promise!Next]_<<phaseMap, rowsMap>>
  <2> SUFFICES ASSUME BootInv, [Next]_vars PROVE [Promise!Next]_<<phaseMap, rowsMap>>
    OBVIOUS
  <2>1. CASE UNCHANGED <<db, seeded>>
    BY <2>1 DEF phaseMap, rowsMap, PhaseOf
  <2>2. QED
    BY <2>1, DataSteps, CommitMaps, ServeMaps
<1>2. QED
  BY <1>1, InitMaps, Booting, PTL DEF Spec, RefinesInstallation, Promise!Spec
=============================================================================
