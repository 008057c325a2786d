# Formal model of netaccess

netaccess is a server and a Qt client for attribute-based access control (ABAC)
over network resources. The server keeps users, sessions, resources, rules and an
audit log in PostgreSQL; the client talks to it in length-prefixed JSON frames
over TLS. This directory holds TLA+ modules translated from the C++, QML and SQL
sources, TLC configurations that check them on small instances, and proofs of the
main results for instances of any size. Paths below are relative to the
repository root.

    tlc -workers 2 -config MCPep_access.cfg MCPep     # one of the runs
    tlapm PepProofs.tla                               # the proofs of a module

## 1. The system

| Component | Source | State | Operations | Correct when |
|---|---|---|---|---|
| Authenticator | `src/server/authenticator.cpp` | `users.failed_attempts`, `locked_until`, table `sessions` | AUTH, verifyToken, LOGOUT | passwords cannot be guessed faster than the lockout allows; ended sessions stay ended; a lockout touches no open session |
| PDP, domain policies | `pdp.cpp`, `common/netaccess/domain.h` | none (reads `policies`) | evaluate | both evaluators decide alike, and priorities settle the decision |
| PEP | `pep.cpp` | none of its own | one handler per request | only an administrator changes tables; access follows the rules; a list read to its end is complete |
| PIP | `pip.cpp`, `sql/V001__schema.sql` | all tables, the one connection to PostgreSQL | one statement per method, each committing by itself | rows satisfy their constraints; references exist |
| Audit log | `pip.cpp` 648-663, `pep.cpp` | table `audit_log` | writeAuditLog, AUDIT_QUERY | true, in order, append-only |
| Listener, protocol, ApiClient | `listener.cpp`, `protocol.cpp`, `client/api_client.cpp` | socket buffers, `m_busy` | readyRead slots, sendRequest, connection lost | frames are found again however bytes are cut; one reply per request, in order |
| Start-up | `main.cpp`, `pip.cpp` 15-100, `sql/*.sql` | the database, the transaction of the connection | open, applyMigrations, start | databases are set up whole and once; a restart leaves the server usable |
| Client session and pages | `client/session_state.cpp`, `client/qml` | token, request ids of the pages | connect, sign-in, lists, sign-out | an answer reaches the page that asked; the session on screen is the one asked for |
| SessionManager, PAP | `session_manager.cpp`, `pap.cpp` | none | nothing calls them | - |

How they interact: `ApiClient` writes a frame; TCP delivers it in arbitrary
pieces; Qt's event loop calls `Listener::onReadyRead`, which reads at most one
frame and calls `PEP::handle` synchronously; the handler asks the `Authenticator`
who sent the token, reads and writes through `PIP` (and `PDP` for a decision),
records the change in `audit_log` and returns the response, which the listener
frames and writes. At the client every response goes to the page that is open,
which compares its `req_id` with the ids it remembers. The server is a single
thread, so handlers do not interleave with each other. What is hard lies
elsewhere:

- every SQL statement commits by itself, and most results are ignored: a failure
  or a crash between two statements leaves the first one's effect;
- the scripts run as one string each at every start, over the connection that then
  serves requests, and nobody rolls a failed transaction back;
- rows refer to rows that may be deleted (`ON DELETE SET NULL`), and for a rule
  NULL means "no condition";
- sessions outlive the deactivation of their account, and the lock of it;
- bytes arrive cut in any way, and both ends read one frame per signal;
- pages share one socket, reuse request ids and come and go with the session;
- lists are cut by OFFSET while the tables change, and the PDP filters afterwards;
- the same decision is written twice, over `std::optional` and over records in
  which NULL has become `""`, `-1` or `0`.

## 2. Modules

| Module | Models | Extends |
|---|---|---|
| `Auth` | `Authenticator` over `users`, `subject_attrs`, `sessions`, statement by statement | - |
| `SessionLifecycle` | abstract: what a session token may go through | - |
| `Sessions` | the refinement mapping from `Auth` to `SessionLifecycle` | `Auth` |
| `Transport` | one connection between `ApiClient` and `Listener` | - |
| `RequestReply` | abstract: replies in order, one per request | - |
| `Bootstrap` | `main()`, the two scripts and the connection they share with requests | - |
| `Installation` | abstract: empty, then a schema, then all of the seed, then requests | - |
| `Wire` | `Request` and `Response` and their JSON objects | - |
| `Client` | login page, main page and its tabs over one socket, and the server as far as tokens go | `Wire` |
| `Policy` | `policy_matches` and the reference meaning of a set of rules | - |
| `Pdp` | `domain::evaluate_policy` and `PDP::evaluate` with its query | `Policy` |
| `Decisions` | a table of rules that administrators fill and a request put to both evaluators | `Pdp` |
| `Pep` | administration requests over `users`, `subject_attrs`, `resources`, `policies`, and the access that results | `Policy` |
| `Enforcement` | ACCESS_CHECK over the tables of `Pep`, answered by the server's evaluator | `Pep`, `Pdp` |
| `Audit` | the requests of `Pep` with what they leave in `audit_log` | `Pep` |
| `Listing` | the four listing requests, page by page, while tables and rights change | - |
| `MC*` | instances for TLC | the module they are named after (`MCAuth`: `Sessions`; `MCPdp`: `Decisions`; `MCPep`: `Enforcement`) |
| `*Proofs` | theorems and proofs | the module they are named after, but for `AuthProofs` (extends `Sessions`) and `PepProofs` (extends `Audit`, `Enforcement` and `PdpProofs`) |

An operator `X_Something` with the comment `Bug:` stands before the definition `X`
it varies: it is what a plausible mistake in the code would make of `X`, and the
properties have been seen to fail with it in place of `X` (`mutants` in
`PROJECT.json`). No specification uses these operators. `map` in `PROJECT.json`
gives the source lines of each definition.

### Auth
`pc` and `who` are the statement `authenticate()` is about to run and for whom;
`users` and `sessions` are the tables; `now` is the clock that moves between any
two statements. `WrongPassword`/`RightPassword` stand for lookup, checks and
comparison; then come `IncrementFailed` and `LockIfExhausted`, or `ResetFailed` and
`CreateSession`, each one statement. `StatementFails` skips the pending statement as
the code does (only `createSession()`'s result is looked at) and `Crash` ends the
request; the table keeps what was committed. `last_login_at` has no reader and is
left out. `CreateUser`, `SetActive`, `DeleteUser` are what `PEP` does to these tables.
`guesses`, `faults` and `loggedOut` are history variables.

### Transport
A frame is two units, header and payload. `toServer`/`toClient` are bytes in flight,
`serverBuf`/`clientBuf` the sockets' buffers. An action moves any non-empty prefix
of the units in flight to the buffer and runs the slot once: `readyRead` is emitted
once per arrival, and the slot calls `readFrame()` once. Four kinds of message:
well-formed requests, JSON that is no `Request`, payloads that are no JSON object,
frames longer than `kMaxPayloadSize`. Splitting a header or a payload adds nothing:
`readFrame()` peeks until both are complete. `window` is how many requests this
client leaves unanswered at a time, chosen once: the login page waits for its answer,
a main page does not.

### Bootstrap
`db` is what is committed in each of the two databases a start may open (the one of
the configuration file, and the one of the built-in defaults when the file cannot be
read). A script is a sequence of statements; `pos` is the next of them, `txn` and
`work` the transaction of the connection and what it sees. A failed statement skips
the rest of the string and leaves the transaction aborted (`StatementError`); whether
`exec()` then reports failure or the success of `BEGIN`, its first result, depends on
the driver and is left open. `Stop` ends the process between any two statements,
`DatabaseGone` the connection; both roll back. Once it serves, `Serve` replaces rows
as a request of an administrator does (`Pep` says how). Other modules describe a
server whose connection is clean, as after its first start.

### Wire, Client
`Wire` has `toJson()` and `fromJson()` of both messages with the members they leave
out when they are empty. In `Client`, `link` is the socket (`down`, `dialing`, `tls`,
`up`), `session` the `SessionState`, and the page that is open follows from it as in
`Main.qml`. `slots` are the ids that the tabs remember; opening a main page sends eight requests
at once (`Opening`). `Handled` is `PEP::handle` reduced to what depends on the token.
Streams carry whole messages in order, as `RequestReply` promises; that the eighth
frame of a burst may wait is the subject of `Transport`. `era` counts main pages, and
each message carries the one it belongs to. Ids drawn at random from overlapping
ranges of ten thousand are taken as different (see below).

### Policy, Pdp, Decisions
A rule is a row of `policies`, NULL being the model value `Unset`. `Loaded` turns a row
into a `PolicyRecord` as `PIP` does. `FindEnabledPolicies` is the set of all results
the query may return: PostgreSQL orders by priority only. `Best` is the loop that both
evaluators have, a recursive function of how many rules were looked at, and `Turn` one
pass through its body. `Decisions` adds rows one by one and compares, in every table
reached, what the server may answer with what the unit-tested function answers over the
same rows in any order; `Text`, `Level` and `Id` are what `createPolicy()` makes of empty
conditions.

### Pep
One action per handler that writes. `Admin(by)` is the guard shared by the handlers
(token answered by `verifyToken()`, role `admin`; the lock is not consulted).
`UserCreate` and `UserUpdate` are two statements: attributes that the `CHECK`
constraints refuse leave the first one's effect. `ResourceDelete` and `UserDelete`
include what `ON DELETE` does. A refused request stutters. Rows that exist but are
not present are ids not yet given out or deleted for good (`BIGSERIAL`). The initial
state has the seeded administrator; the base rules are taken as deleted, and
`Drafts` lets `POLICY_CREATE` bring back those an instance needs.

### Enforcement
`Can` and `Access` in `Pep` say what the rules mean (`Allowed` in `Policy`), and the properties of
administration are stated with them. `AccessCheck` is the handler: token, resource, then
the query, the loading of records and the loop of `PDP::evaluate`. `AccessIsSettled` says
that the two are the same in every state that administration reaches.

### Audit
`happened` is the history of events with their answer; `audit` the table. `Write`
appends or, at a fault, loses the record. Events that the code does not record
(`Unlogged`: refused sign-ins, sign-outs, refused requests, a `USER_CREATE` whose
second `INSERT` failed) are steps too, so that the journal is compared with all that
happened. Deleting what is not there is an event that is recorded.

### Listing
A reader asks for page after page of one list until the pages asked for hold `total`
rows. Between two pages other requests insert, delete, move or refit rows, or change
the reader's role or what the PDP lets him read. `Sorted` is the set of orders
that `ORDER BY` allows and `Pages` the set of results that
`SELECT ... ORDER BY ... LIMIT ... OFFSET` may have; `ORDER BY ts DESC` leaves the
order of records of one time open. `upset` is the history of what happened to the
list: a row left its place, a row came in before others, two rows tied. The
repository's own client asks for page 1 only; the protocol offers the rest.

## 3. Runs

Passing runs:

| Run | Shows | Bounds, and why they are enough |
|---|---|---|
| `MCAuth` | `TypeOK`, `BruteForceBound`, `LockoutInv`, `LockIsEarned`, `LogoutEndsSessionUnlessFault`, `GuessingEndsNoSession`, `RefinesLifecycle` | two accounts, two tokens (sessions of one account and of two), limit 2, lockout 2 of 3 ticks, one fault at any statement: a lock is earned, kept, outlived and followed by further guesses while another session is open. Accounts, and tokens, are interchangeable (`SYMMETRY`): no property or action names one, and all properties are safety |
| `MCTransport` | `TypeOK`, `InStep`, `RefinesRequestReply`, `BusyWhileAwaiting`, `EveryRequestAnswered` (liveness) | three messages of all kinds, up to three unanswered at a time, two lost connections: a frame before and after the odd one, and a connection that is lost again |
| `MCBootstrap` | `TypeOK`, `UsableMeansSeeded`, `RefinesInstallation`, `StartsKeepData`, `EmptyIsInstalled` (liveness) | three starts over two databases: one that is cut off, one that completes, one that comes too late, in any order |
| `MCClient` | `TypeOK`, `NoAnswerCrossesSessions`, `SessionIsOfLastAttempt`, `AttemptIsSettled` (liveness) | two users, two tokens, three connections, one click: two sign-ins with a lost connection before, between or after them, each main page with its eight requests |
| `MCPdp_agree` | `EvaluatorsAgree`, `DecisionIsSettled` | two rules, 14 sets of conditions, two priorities, three actions: a decision compares rules pairwise |
| `MCPep_access` | `TypeOK`, `RulesInOrder`, `AccessIsSettled`, `RevokeNeverWidens`, `GrantIsScoped`, `DeletionKeepsAnAdmin` | two users, two resources, two rules ever created, attributes good and bad: a rule for one and a rule for all, of one priority or of two, a second resource that must not gain |
| `MCAudit_journal` | `JournalIsTrue`, `JournalOnlyGrows` | two users, four events, one lost record: create, act, delete, act |
| `MCListing` | `TypeOK`, `ScanMissesNothing`, `NothingTwice` | three rows, pages of one and two, three changes anywhere between pages: a row before, at and behind the cut can move |

`CHECK_DEADLOCK FALSE` is set throughout: bounds on ids, events, clock, starts and
faults let every instance run out of steps.

Fairness is weak and assumed only where the scheduling justifies it. `Transport`:
delivery and the two slots, as TCP delivers while a connection lives and Qt's event
loop runs the slot of every `readyRead`. `Bootstrap`: `main()` runs on until it is
killed (`Progress`; not requests, failures or the next start). `Client`: only for an AUTH
or its answer, which is alone on its connection and therefore read as soon as it is
there; nothing is assumed of the eight requests of a main page, of users, or of the
dialing of connections. Nothing is ever assumed about clients sending more or
connections being lost. `Auth`, `Pep`, `Audit`, `Listing` assume no fairness.

Runs that show the code doing other than a document or comment says:

| Run | What happens |
|---|---|
| `MCTransport_burst` | two requests arrive in one chunk; the second stays in the buffer with no `readyRead` to come. A main page writes eight requests at once, so its lists can stay empty until more bytes arrive |
| `MCPep_deletion` | a grant to a user on a resource; the user (or resource) is deleted; `SET NULL` leaves a rule for everybody (everything) |
| `MCBootstrap_restart` | on the second start `CREATE TABLE` fails inside `BEGIN`; the server listens with an aborted transaction and can execute no statement |
| `MCClient_token` | no page passes the token to `sendRequest()`: whatever a signed-in user asks for is answered TOKEN_INVALID |

`PROJECT.json` quotes the lines these contradict. Further differences met while
reading need no run, one look at the code settles them.

Of the server:
- `max_sessions` is never enforced (`session_manager.cpp` 10); unused sessions last their
  full lifetime, although `docs/architecture.md` 157-158 limits them to 30 minutes.
- LOGOUT is answered ok when its `UPDATE` fails (`pep.cpp` 180).
- RESOURCE_GET asks the PDP nothing (`pep.cpp` 280); RESOURCE_LIST asks about `read` only
  (`pep.cpp` 249), and its `total` counts rows the user may not see.
- Granting again what was switched off fails on the `UNIQUE` name (`pep.cpp` 936), where
  `docs/protocol.md` 71 says that GRANT_ACCESS creates or enables a rule.
- A USER_UPDATE whose attributes are refused is answered OK (`pep.cpp` 802); a USER_CREATE
  whose attributes are refused leaves an account, an error and no record (`pip.cpp` 143).
- Refused sign-ins, sign-outs and refusals are not recorded (`pep.cpp` 139-184), against
  `docs/architecture.md` 144-145; `actor_name` holds the role (`pep.cpp` 349), so that records
  of deleted users cannot be told apart, though `V001__schema.sql` 86 calls it a snapshot of
  the name; deleting an absent row is answered OK and recorded (`pep.cpp` 430).
- A lost connection to PostgreSQL is never opened again (`docs/architecture.md` 153-155).
- The seeded administrator's hash is SHA-256 of "password", its comment says PBKDF2 of
  "admin" (`V002__seed.sql` 6-12), and verification computes PBKDF2: neither password fits.

Of the protocol and the client:
- Frames that are not JSON or too long are not answered (`protocol.cpp` 301-320, against
  `docs/protocol.md` 235-242); one that is too long is not even taken out of the buffer, so
  that nothing after it is read on that connection. A request that does not parse, an unknown
  `op` among them, is answered VALIDATION_ERROR with op AUTH and req_id 0 (`listener.cpp` 159).
- Nothing reconnects (`docs/architecture.md` 156); `connectionError` is declared and never
  emitted (`api_client.h` 50), so a connection that fails is shown by nobody.
- On a live connection the login button does nothing: after sign-out, or after a refused
  AUTH, signing in has to wait until the connection is lost (`api_client.cpp` 29-38).
- LOGOUT is sent without a token, too, and ends no session of the server.
- Request ids of the tabs are drawn from overlapping ranges (9500 to 10999 lies in all of
  them): with two equal ids a tab would take another's answer.

## 4. Proofs

TLAPS proves for every value of the constants that satisfies the `ASSUME`s of the
modules (`AuthAssumption`: positive limits, `None` is no account; `PepAssumption`: the
seed is a user, `Unset` and 0 are no ids (`BIGSERIAL` starts at 1), no resource type is empty,
departments and drafts are of their types;
`DecisionsAssumption`: rules hold no empty text, negative level or id 0, as `createPolicy()`
and `updatePolicy()` write NULL for these; `ListingAssumption`: ranks and bounds are numbers;
`AuditAssumption`, `TransportAssumption`, `BootstrapAssumption`, `ClientAssumption`: bounds are
numbers, special values are not ordinary ones):

| Theorem | States | By |
|---|---|---|
| `AuthProofs!TypeCorrect` | `Spec => []TypeOK` | inductive itself |
| `AuthProofs!LockoutSafe` | `Spec => []LockoutInv` | `LockoutInv` with `TypeOK` |
| `AuthProofs!BruteForceBounded` | `Spec => []BruteForceBound` | `LockoutInv` |
| `AuthProofs!LocksAreEarned` | `Spec => []LockIsEarned` | `EarnedInv` |
| `AuthProofs!LogoutEndsSessions` | `Spec => []LogoutEndsSessionUnlessFault` | `LogoutInv` |
| `AuthProofs!GuessingIsHarmless` | `Spec => GuessingEndsNoSession` | `TypeOK` |
| `AuthProofs!SessionsFollowLifecycle` | `Spec => RefinesLifecycle` | `TypeOK`, `LogoutInv` |
| `PepProofs!PepTypeCorrect`, `RulesStayInOrder` | `Spec => [](TypeOK /\ RulesInOrder)` | `PepInv` |
| `PepProofs!AccessIsAsRuled` | `Spec => []AccessIsSettled` (`Enforcement`) | `PepInv`, `PdpProofs!ServerPermits` |
| `PepProofs!RevocationIsMonotone` | `Spec => RevokeNeverWidens` | `PepInv` |
| `PepProofs!GrantsAreScoped` | `Spec => GrantIsScoped` | `PepInv` |
| `PepProofs!AnAdminSurvives` | `Spec => DeletionKeepsAnAdmin` | `PepInv` |
| `PepProofs!TheJournalIsTrue` | `AuditSpec => []JournalIsTrue` | `AuditInv` |
| `PepProofs!TheJournalGrows` | `AuditSpec => JournalOnlyGrows` | `AuditInv` |
| `BootstrapProofs!BootTypeCorrect` | `Spec => []TypeOK` | `BootInv` |
| `BootstrapProofs!ServedDatabaseIsWhole` | `Spec => []UsableMeansSeeded` | `BootInv` |
| `BootstrapProofs!LaterStartsKeepData` | `Spec => StartsKeepData` | `BootInv` |
| `BootstrapProofs!StartImplementsInstallation` | `Spec => RefinesInstallation` | `BootInv` |
| `TransportProofs!TransportTypeCorrect` | `Spec => []TypeOK` | `StreamInv` |
| `TransportProofs!FramesStayInStep` | `Spec => []InStep` | `StreamInv` |
| `TransportProofs!BusyMeansAwaiting` | `Spec => []BusyWhileAwaiting` | `StreamInv`, `OneInv` |
| `TransportProofs!ConnectionKeepsPromise` | `Spec => RefinesRequestReply` | `StreamInv` |
| `ClientProofs!RequestSurvivesWire`, `ResponseSurvivesWire` | `fromJson()` undoes `toJson()` | the definitions of `Wire` |
| `ClientProofs!ClientTypeCorrect` | `Spec => []TypeOK` | `ClientInv` |
| `ClientProofs!AnswersStayInTheirSession` | `Spec => []NoAnswerCrossesSessions` | `ClientInv` |
| `ClientProofs!SessionIsWhoAskedLast` | `Spec => []SessionIsOfLastAttempt` | `ClientInv` |
| `PdpProofs!LoadingLosesNothing` | a loaded rule matches exactly when its row does | the definitions of `Pdp`, `Policy` |
| `PdpProofs!BestPicks` | what the loop returns, for any sequence of rules | induction over its turns |
| `PdpProofs!EvaluatedAlike`, `ServerPermits` | what both evaluators return, for any finite table of stored rules | `BestPicks`, `LoadingLosesNothing` |
| `DecisionsProofs!EvaluatorsDecideAlike` | `Spec => []EvaluatorsAgree` | `TableOK`, `EvaluatedAlike` |
| `DecisionsProofs!PrioritySettles` | `Spec => []DecisionIsSettled` | `TableOK`, `ServerPermits` |
| `ListingProofs!RowsStayTyped` | `Spec => []TypeOK` | `Shape` |
| `ListingProofs!ScanIsComplete` | `Spec => []ScanMissesNothing` | `Shape`, `Scan` |
| `ListingProofs!ScanRepeatsNothing` | `Spec => []NothingTwice` | `Shape`, `Scan` |

The inductive invariants, and why each is needed:

- `BruteForceBound` says nothing of the counter and the lock that enforce it.
  `LockoutInv` adds that the counter misses no wrong password but those lost to faults
  (`CounterInv`), that each wrong password past the allowance is paid for by a lock that
  ends a full period later (`LockInv`), what is known between two statements of a request
  (`HandlerInv`), and that an id never given out was never guessed (`UnbornInv`). The
  arithmetic of lockout periods is a lemma of its own, as the period is a symbol.
  `EarnedInv` follows counter and guesses through a request in the same way.
- `LogoutInv`: tokens in the table were issued, and a signed-out one has its row revoked
  or gone. It gives the life cycle, too: an ended token has no way back.
- `PepInv`, which is `TypeOK` and `RulesInOrder`: ids are new because the sequence is ahead
  of them. `RevokeNeverWidens` follows because decisions are monotone in the set of enabled
  rules; `GrantIsScoped` because a rule with both ids set matches no other pair, which needs
  that each row carries its own id and that `Unset` is none; `DeletionKeepsAnAdmin` because
  the caller is not the deleted one.
- `AuditInv` adds to `PepInv` that records point to events (`Shape`, `Ordered`, `Tells`), that
  the actor is the one of the event while he exists (`Attributed`, which needs that whoever
  acted was once present and ids do not come back, `Known`), and that the unrecorded
  events are no more than the faults (`Counted`, by cardinality of finite sets).
- `BootInv`: V001 gets past `CREATE TABLE` on an empty database only (`SchemaInv`), so V002
  runs on tables without a row or in an aborted transaction (`FreshInv`); its transaction
  sees exactly the seed rows of the statements behind `pos` (`SeedInv`), and from the end of
  the scripts on a connection that is usable, with both scripts found, has a seeded database
  (`ReadyInv`). The aborted transaction is what keeps a half-run script from being committed.
- `StreamInv`: what is in a buffer and what is in flight behind it, put together, is a
  sequence of whole frames, and there is none without a connection. Each action is one of six kinds of step (`Sends`,
  `Takes`, `Replied`, `Waits`, `Discards`, `Loses`), and the proofs go by kind. `OneInv` says that with
  one request at a time there is at most one frame between the two ends.
- `ClientInv`: a message of an AUTH is alone on its connection and asks for, or admits, the
  user of the last attempt (`LoneInv`, `AttemptInv`); all messages are of the main page that is
  open (`FlightInv`); only a live connection carries anything (`LinkInv`).

- `TableOK`: the table is finite and its rows have the columns `createPolicy()` writes. The
  rest is about the two evaluators as functions. `TurnSettles` and `BestPicks` show by
  induction over the turns of the loop that it ends with the first of the highest priority
  among the rules that match, or with none exactly if none matches; `OrderingExists` that
  any finite table has an order by falling priority in which a given rule comes first among
  its equals (each rule weighs twice its priority, the chosen one one more, and the heaviest
  is taken away until none is left). So both evaluators return the decisions of exactly the
  applicable rules (`DomainDecides`, `ServerDecides`), and the two sets are equal. `PepInv`
  gives the same of the table that administration keeps (`RulesAreTable`), so that revocation,
  grants and deletions are proved of what ACCESS_CHECK answers (`AccessIsAsRuled`). The
  induction theorems of the library take an operator; here induction is a lemma about sets of
  numbers, which follows from `<` being well-founded on `Nat`.
- `Scan`: neither property of a list says where its rows are. The rank of a row is how
  many listed ids come before it; in a list without ties it is the row's position in the
  one order that `ORDER BY` allows (`RankIsPosition`), so a page holds exactly the rows of the
  ranks from its offset on (`PageRanks`). While no row leaves its place ranks only grow: what
  is before the offset, and was the reader's to see all the time, has been shown (`Covered`).
  While none comes in before others ranks only fall and new rows are behind all others:
  what was shown stays before the offset (`Behind`). `TiesNoted`, `DoneAtEnd` and
  `SteadyVisible` tie the history variables to the table: a list with ties is known to have
  them, a finished scan stands behind the last row, and a row counts as the reader's only as
  long as he may see it.

Each refinement maps the initial states and then every step to a step of the abstract
specification or a stutter.

Model-checked only: the liveness properties `EveryRequestAnswered`, `EmptyIsInstalled` and
`AttemptIsSettled` (fairness and ENABLED are out of the prover's reach). Every other
property of a passing run is proved.

## 5. Not modelled

- Password hashing and token generation: a password is right or wrong; a token is
  one not issued before.
- The TLS handshake but for its two outcomes at the client; certificates.
- ME and RESOURCE_GET (they read one row), searches, filters of AUDIT_QUERY but for one
  column, descriptive columns, `last_login_at`, the wording of responses.
- Dialogs, layout and translations of the client; equal random ids (above).
- `(page - 1) * pageSize` beyond the range of `int`: the bounds of `MCListing` do not
  reach it (page 0, hence a negative OFFSET, is included).
- `SessionManager`, `PAP` and `saveConfig()`: no code calls them.
- A test suite of the client does not exist; the server's unit tests (`test_abac.cpp`) call
  `domain.h` and `protocol.h` only and are read as statements of intent.

## 6. Plan

Done, in this order: `Auth` and its lockout; `Sessions` over `SessionLifecycle`;
`Transport` over `RequestReply`; `Policy` and `Pdp`; `Pep`; `Audit`; the proofs of
`Auth` and `Pep`; `Bootstrap` over `Installation`; `Wire` and `Client`; `Listing`; the
proofs of sessions, start-up, client, journal, transport and of single rules; the proofs of
both evaluators and of the lists; `Enforcement`.

What would come next: `Client` over `Transport` instead of over whole messages, to follow a main
page whose burst of requests is stuck; equal request ids with the content of responses.
