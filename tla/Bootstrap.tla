------------------------------ MODULE Bootstrap ------------------------------
(***************************************************************************)
(* The start of the server (src/src/server/main.cpp): configuration,       *)
(* connection to PostgreSQL, the two scripts of sql/ on every start, the   *)
(* listener, and then requests, all over the one connection of pip::PIP.   *)
(*                                                                         *)
(* Each script is one string, BEGIN; ... COMMIT;, that PostgreSQL runs     *)
(* statement by statement while the process waits: an error skips the rest *)
(* of the string and leaves the transaction of the connection aborted, and *)
(* nobody sends ROLLBACK.  The end of the process or of the connection     *)
(* rolls an open transaction back.                                         *)
(***************************************************************************)
EXTENDS Naturals, Sequences

CONSTANTS Given, Default,    \* databases: of the configuration file, built in
          ServedRows,        \* rows that requests may add
          MaxStarts          \* bound of starts

Databases == {Given, Default}

\* What V002 inserts: the administrator, his attributes, the base rules.
SeedRows == {"admin", "attrs", "rules"}

ASSUME BootstrapAssumption == /\ MaxStarts \in Nat
                              /\ ServedRows \cap SeedRows = {}

VARIABLES db,                \* what is committed, by database
          stage,             \* what the process is doing
          target,            \* the database it has been told to open
          readable,          \* scripts that exist under its working directory
          linked,            \* the connection to PostgreSQL is up
          txn, work,         \* transaction of the connection, what it sees
          pos,               \* the statement to run next of the script
          starts,            \* starts so far
          disturbed,         \* history: this start met a failure from outside
          seeded             \* history: databases V002 has been committed to

connection == <<linked, txn, work>>
vars == <<db, stage, target, readable, linked, txn, work, pos, starts, disturbed, seeded>>

-----------------------------------------------------------------------------
Empty == [tables |-> FALSE, rows |-> {}]

Scripts == {"V001", "V002"}

\* Bug: the administrator is committed before his attributes.
Script_TwoTransactions(name) ==
    IF name = "V001" THEN <<"BEGIN", "tables", "COMMIT">>
    ELSE <<"BEGIN", "admin", "COMMIT", "BEGIN", "attrs", "rules", "COMMIT">>

Script(name) == IF name = "V001" THEN <<"BEGIN", "tables", "COMMIT">>
                ELSE <<"BEGIN", "admin", "attrs", "rules", "COMMIT">>

\* Bug: the script begins with DROP TABLE IF EXISTS.
Fits_DropsTables(stmt, v) ==
    \/ stmt = "tables"
    \/ stmt = "admin" /\ v.tables /\ "admin" \notin v.rows
    \/ stmt \in {"attrs", "rules"} /\ "admin" \in v.rows /\ stmt \notin v.rows

\* PostgreSQL can execute stmt: CREATE TABLE without IF NOT EXISTS; unique names;
\* attributes and rules refer to the administrator.
Fits(stmt, v) ==
    \/ stmt = "tables" /\ ~v.tables
    \/ stmt = "admin" /\ v.tables /\ "admin" \notin v.rows
    \/ stmt \in {"attrs", "rules"} /\ "admin" \in v.rows /\ stmt \notin v.rows

Effect(stmt, v) == IF stmt = "tables" THEN [tables |-> TRUE, rows |-> {}]
                                      ELSE [v EXCEPT !.rows = @ \cup {stmt}]

-----------------------------------------------------------------------------
Init == /\ db = [d \in Databases |-> Empty]
        /\ stage = "down" /\ target = Default /\ readable = {}
        /\ linked = FALSE /\ txn = "none" /\ work = Empty
        /\ pos = 1 /\ starts = 0
        /\ disturbed = FALSE /\ seeded = {}

\* loadConfig(): a file that cannot be read or parsed gives the defaults.
Start(d, found) ==
    /\ stage = "down" /\ starts < MaxStarts
    /\ stage' = "opening" /\ target' = d /\ readable' = found
    /\ pos' = 1 /\ starts' = starts + 1 /\ disturbed' = FALSE
    /\ UNCHANGED <<db, connection, seeded>>

\* PIP::open(); without a connection main() returns 1.
Open ==
    /\ stage = "opening"
    /\ \/ stage' = "V001" /\ linked' = TRUE
       \/ stage' = "down" /\ UNCHANGED linked
    /\ UNCHANGED <<db, target, readable, txn, work, pos, starts, disturbed, seeded>>

\* Bug: a schema that could be created is taken for a failure.
ScriptEnds_Inverted(ok) ==
    /\ stage' = IF stage = "V001" /\ ~ok THEN "V002" ELSE "listening"
    /\ pos' = 1

\* applyMigrations() goes on if exec() was true; main() warns and goes on anyway.
ScriptEnds(ok) ==
    /\ stage' = IF stage = "V001" /\ ok THEN "V002" ELSE "listening"
    /\ pos' = 1

\* runSqlFile() finds no file, or has no connection.
ScriptSkipped ==
    /\ stage \in Scripts
    /\ stage \notin readable \/ ~linked
    /\ ScriptEnds(FALSE)
    /\ UNCHANGED <<db, target, readable, connection, starts, disturbed, seeded>>

Running(stmt) == /\ stage \in readable \cap Scripts /\ linked
                 /\ stmt = Script(stage)[pos]

\* Bug: a script that fails is rolled back, and that is all.
StatementError_RollsBack ==
    /\ txn' = "none" /\ work' = Empty
    /\ \E ok \in IF pos = 1 THEN {FALSE} ELSE BOOLEAN : ScriptEnds(ok)
    /\ UNCHANGED <<db, target, readable, linked, starts, seeded>>

\* An error: exec() may report it or the success of BEGIN, its first result.
StatementError ==
    /\ txn' = "aborted" /\ work' = Empty
    /\ \E ok \in IF pos = 1 THEN {FALSE} ELSE BOOLEAN : ScriptEnds(ok)
    /\ UNCHANGED <<db, target, readable, linked, starts, seeded>>

Begin ==
    /\ Running("BEGIN")
    /\ \/ /\ txn = "none"
          /\ txn' = "open" /\ work' = db[target] /\ pos' = pos + 1
          /\ UNCHANGED <<db, stage, target, readable, linked, starts, disturbed, seeded>>
       \/ /\ txn = "aborted" /\ StatementError
          /\ UNCHANGED disturbed

Execute(stmt) ==
    /\ Running(stmt) /\ txn = "open"
    /\ \/ /\ Fits(stmt, work)
          /\ work' = Effect(stmt, work) /\ pos' = pos + 1
          /\ UNCHANGED <<db, stage, target, readable, linked, txn, starts, disturbed, seeded>>
       \/ /\ ~Fits(stmt, work) /\ StatementError
          /\ UNCHANGED disturbed

\* The statement fails for a reason of its own: no space, a lock not granted.
StatementFails ==
    /\ stage \in readable \cap Scripts /\ linked /\ txn = "open"
    /\ StatementError
    /\ disturbed' = TRUE

Commit ==
    /\ Running("COMMIT") /\ txn = "open"
    /\ db' = [db EXCEPT ![target] = work]
    /\ seeded' = IF stage = "V002" THEN seeded \cup {target} ELSE seeded
    /\ txn' = "none" /\ work' = Empty
    /\ IF pos = Len(Script(stage)) THEN ScriptEnds(TRUE)
                                   ELSE pos' = pos + 1 /\ UNCHANGED stage
    /\ UNCHANGED <<target, readable, linked, starts, disturbed>>

\* Bug: main() returns and the connection of PIP is not closed.
Listen_KeepsLink ==
    /\ stage = "listening"
    /\ stage' \in {"serving", "down"}
    /\ UNCHANGED <<db, target, readable, connection, pos, starts, disturbed, seeded>>

\* Listener::start(); without certificate, key or port main() returns 1.
Listen ==
    /\ stage = "listening"
    /\ \/ stage' = "serving" /\ UNCHANGED connection
       \/ stage' = "down" /\ linked' = FALSE /\ txn' = "none" /\ work' = Empty
    /\ UNCHANGED <<db, target, readable, pos, starts, disturbed, seeded>>

\* The connection can execute a statement.
Usable == linked /\ txn = "none"

\* Somebody may administer: a row that requests added can be another administrator.
Administered(v) == {"admin", "attrs"} \subseteq v.rows \/ v.rows \cap ServedRows # {}

\* A handler of an administrator's request (Pep) replaces the rows of the tables.
Serve(rows) ==
    /\ stage = "serving" /\ Usable /\ Administered(db[target])
    /\ db' = [db EXCEPT ![target].rows = rows]
    /\ Administered(db'[target])
    /\ UNCHANGED <<stage, target, readable, connection, pos, starts, disturbed, seeded>>

ServeInsert == \E x \in ServedRows : Serve(db[target].rows \cup {x})

\* Rows of requests, base rules, or the administrator with his attributes.
ServeDelete == \E gone \in {{x} : x \in ServedRows \cup {"rules"}} \cup {{"admin", "attrs"}} :
                  Serve(db[target].rows \ gone)

\* PostgreSQL closes the connection; nothing in the server opens another.
DatabaseGone ==
    /\ linked
    /\ linked' = FALSE /\ txn' = "none" /\ work' = Empty
    /\ disturbed' = TRUE
    /\ UNCHANGED <<db, stage, target, readable, pos, starts, seeded>>

\* The process is stopped or killed.
Stop ==
    /\ stage # "down"
    /\ stage' = "down"
    /\ linked' = FALSE /\ txn' = "none" /\ work' = Empty
    /\ UNCHANGED <<db, target, readable, pos, starts, disturbed, seeded>>

\* What the process does by itself after it is started.
Progress == \/ Open \/ ScriptSkipped \/ Begin \/ Commit \/ Listen
            \/ \E stmt \in {"tables"} \cup SeedRows : Execute(stmt)

Next == \/ Progress \/ StatementFails \/ DatabaseGone \/ Stop
        \/ \E d \in Databases, found \in SUBSET Scripts : Start(d, found)
        \/ ServeInsert \/ ServeDelete

\* main() runs on until it is killed.
Spec == Init /\ [][Next]_vars /\ WF_vars(Progress)

-----------------------------------------------------------------------------
Image == [tables : BOOLEAN, rows : SUBSET (SeedRows \cup ServedRows)]

DataOK == /\ db \in [Databases -> Image] /\ work \in Image
          /\ \A d \in Databases : db[d].rows # {} => db[d].tables

ControlOK ==
    /\ stage \in {"down", "opening", "listening", "serving"} \cup Scripts
    /\ target \in Databases /\ readable \in SUBSET Scripts
    /\ linked \in BOOLEAN /\ txn \in {"none", "open", "aborted"}
    /\ pos \in Nat /\ starts \in Nat
    /\ disturbed \in BOOLEAN /\ seeded \in SUBSET Databases
    /\ txn # "none" => linked
    /\ stage \in {"down", "opening"} => ~linked

(* Rows are in tables, a transaction needs a connection, and the process   *)
(* has one from PIP::open() until it ends.                                 *)
TypeOK == DataOK /\ ControlOK

\* The databases as Installation tells them.
PhaseOf(d) == IF ~db[d].tables THEN "empty"
              ELSE IF d \in seeded \/ db[d].rows # {} THEN "seeded" ELSE "schema"

phaseMap == [d \in Databases |-> PhaseOf(d)]
rowsMap  == [d \in Databases |-> db[d].rows]

Promise == INSTANCE Installation WITH phase <- phaseMap, rows <- rowsMap

(* However often the server is started, killed inside a script or cut off  *)
(* from PostgreSQL: a database is set up once, the seed goes in whole or   *)
(* not at all, and never a second time (V001, V002 in one transaction each *)
(* and run at every start).                                                *)
RefinesInstallation == Promise!Spec

(* A later start never undoes or repeats anything: once a database has     *)
(* been seeded only requests change it, also where the scripts run again.  *)
StartsKeepData ==
    [][\A d \in Databases : d \in seeded /\ db'[d] # db[d] => stage = "serving"]_vars

(* A server that found its scripts and whose connection works has a whole  *)
(* installation: the database is never served with tables and no           *)
(* administrator after a start that was cut off between the two scripts.   *)
UsableMeansSeeded ==
    stage = "serving" /\ Usable /\ readable = Scripts => target \in seeded

(* A start that finds an empty database and both scripts, and meets no     *)
(* failure from outside, sets it up.                                       *)
EmptyIsInstalled ==
    \A d \in Databases :
        stage = "V001" /\ target = d /\ db[d] = Empty /\ readable = Scripts /\ ~disturbed
            ~> d \in seeded \/ disturbed \/ stage = "down"

-----------------------------------------------------------------------------
(* What the documents promise and the code does not do.                    *)

(* Migrations are applied at every start and failing because the tables    *)
(* exist is no more than a warning (main.cpp 38-42, docs/database.md       *)
(* 205-206): a server that is up, connected, and met no failure from       *)
(* outside can execute statements.                                         *)
RestartedServerWorks == stage = "serving" /\ linked /\ ~disturbed => Usable
=============================================================================
