------------------------------- MODULE Client -------------------------------
(***************************************************************************)
(* A client at work: ApiClient and SessionState under the pages of qml/,   *)
(* and PEP::handle() as far as tokens go (client/*.cpp, qml/*.qml,         *)
(* pep.cpp 72-184).  The pages share one socket; a response goes to the    *)
(* page that is open, which compares its req_id with the ids it remembers. *)
(*                                                                         *)
(* The streams carry whole objects in order (RequestReply).  Handlers of   *)
(* Qt run to their end.  Request ids are drawn at random from overlapping  *)
(* ranges of ten thousand: the model takes them as all different.          *)
(***************************************************************************)
EXTENDS Wire, Integers, Sequences, SequencesExt

CONSTANTS Users,             \* who may type a name and a password
          Tokens,            \* what generateToken() can return
          MaxDials,          \* bound of connections tried
          MaxClicks          \* bound of clicks on the main page

ASSUME ClientAssumption == /\ NoToken \notin Tokens
                           /\ MaxDials \in Nat /\ MaxClicks \in Nat

\* Where the main page and its tabs remember ids: lists, and one per other operation.
Lists == {"resources", "accessList", "users", "grantUsers", "grantResources",
          "grantPolicies", "policies", "audit"}

Slots == Lists \cup (Ops \ {"AUTH", "LOGOUT"})

NoUser == NoData
NoSession == [token |-> NoToken, user |-> NoUser]

VARIABLES link,              \* "down", "dialing", "tls", "up"
          toServer, toClient,   \* objects on their way, with the main page they are of
          busy,              \* ApiClient::m_busy
          session,           \* SessionState
          loginReqId,        \* of the login page; 0 until it has sent AUTH
          slots,             \* ids the main page remembers; 0: none
          issued, alive,     \* the server: tokens given out, tokens of sessions
          attempt,           \* history: who the last AUTH was for
          told,              \* history: the login page has shown a refusal of it
          era,               \* history: main pages opened so far
          asked, dials, clicks  \* ids drawn, connections tried, clicks

streams == <<toServer, toClient>>
server  == <<issued, alive>>
bounds  == <<dials, clicks>>
pages   == <<session, loginReqId, slots, attempt, told, era>>
vars    == <<link, toServer, toClient, busy, session, loginReqId, slots, issued, alive,
             attempt, told, era, asked, dials, clicks>>

-----------------------------------------------------------------------------
\* The Loader of Main.qml.
Page == IF session.token = NoToken THEN "login" ELSE "main"

\* No page passes a token to sendRequest().
AsksWith(op, id, data) == [op |-> op, req_id |-> id, token |-> NoToken, data |-> data]

\* ApiClient::sendRequest() of each request in turn, for the e-th main page.
SendAll(reqs, e) ==
    IF link \in {"tls", "up"} /\ reqs # <<>>
    THEN /\ toServer' = toServer \o [i \in DOMAIN reqs |->
                                       [json |-> RequestToJson(reqs[i]), era |-> e]]
         /\ busy' = TRUE
    ELSE UNCHANGED <<toServer, busy>>

\* What the tabs ask for when they are loaded, one after the other.
Opening == <<"resources", "accessList", "users", "grantUsers", "grantResources",
             "grantPolicies", "policies", "audit">>

OpOf(slot) == CASE slot \in {"resources", "accessList", "grantResources"} -> "RESOURCE_LIST"
                [] slot \in {"users", "grantUsers"} -> "USER_LIST"
                [] slot \in {"policies", "grantPolicies"} -> "POLICY_LIST"
                [] slot = "audit" -> "AUDIT_QUERY"
                [] OTHER -> slot

\* The list that is asked for again when an operation has succeeded.
ListAfter(slot) ==
    CASE slot \in {"RESOURCE_CREATE", "RESOURCE_UPDATE", "RESOURCE_DELETE"} -> {"resources"}
      [] slot \in {"USER_CREATE", "USER_UPDATE", "USER_DELETE"} -> {"users"}
      [] slot \in {"POLICY_CREATE", "POLICY_UPDATE", "POLICY_DELETE"} -> {"policies"}
      [] slot \in {"GRANT_ACCESS", "REVOKE_ACCESS"} -> {"grantPolicies"}
      [] OTHER -> {}

\* The slots of a sequence are asked for with new ids; old are the slots before.
AskFor(names, old, e) ==
    /\ slots' = [s \in Slots |-> IF \E i \in DOMAIN names : names[i] = s
                                 THEN 100 + asked + (CHOOSE i \in DOMAIN names : names[i] = s)
                                 ELSE old[s]]
    /\ asked' = asked + Len(names)
    /\ SendAll([i \in DOMAIN names |-> AsksWith(OpOf(names[i]), 100 + asked + i, NoData)], e)

Forgotten == [s \in Slots |-> 0]

-----------------------------------------------------------------------------
Init == /\ link = "down" /\ toServer = <<>> /\ toClient = <<>> /\ busy = FALSE
        /\ session = NoSession /\ loginReqId = 0 /\ slots = Forgotten
        /\ issued = {} /\ alive = {}
        /\ attempt = NoUser /\ told = FALSE /\ era = 0
        /\ asked = 0 /\ dials = 0 /\ clicks = 0

\* LoginPage's handler of connectedToServer: the AUTH it sends always has id 1.
SendAuth(u) ==
    /\ loginReqId' = 1 /\ attempt' = u /\ told' = FALSE
    /\ SendAll(<<AsksWith("AUTH", 1, u)>>, era)

\* Bug: on a live connection AUTH is sent at once.
ClickLogin_Reuses ==
    /\ Page = "login" /\ ~busy
    /\ \/ /\ link = "down" /\ dials < MaxDials
          /\ link' = "dialing" /\ dials' = dials + 1
          /\ UNCHANGED <<streams, busy, pages, server, asked, clicks>>
       \/ /\ link = "up" /\ \E u \in Users : SendAuth(u)
          /\ UNCHANGED <<link, toClient, session, slots, server, era, asked, bounds>>

\* The login button; connectToServer() does nothing on a live connection.
ClickLogin ==
    /\ Page = "login" /\ ~busy
    /\ link = "down" /\ dials < MaxDials
    /\ link' = "dialing" /\ dials' = dials + 1
    /\ UNCHANGED <<streams, busy, pages, server, asked, clicks>>

\* onConnected() starts TLS; a failure is shown by nobody.
Dialed == /\ link = "dialing"
          /\ link' \in {"tls", "down"}
          /\ UNCHANGED <<streams, busy, pages, server, asked, bounds>>

\* The handshake ends without a signal that leads to connectedToServer.
EncryptedSilently ==
    /\ link = "tls" /\ link' = "up"
    /\ UNCHANGED <<streams, busy, pages, server, asked, bounds>>

\* onSslErrors() finds the socket encrypted and emits connectedToServer.
EncryptedAnnounced(u) ==
    /\ link = "tls" /\ link' = "up"
    /\ Page = "login" /\ SendAuth(u)
    /\ UNCHANGED <<toClient, session, slots, server, era, asked, bounds>>

\* Bug: the client stays busy.
Disconnected_StaysBusy ==
    /\ link \in {"tls", "up"} /\ link' = "down"
    /\ toServer' = <<>> /\ toClient' = <<>>
    /\ UNCHANGED <<busy, pages, server, asked, bounds>>

\* Bug: responses to the lost connection are still delivered.
Disconnected_KeepsReplies ==
    /\ link \in {"tls", "up"} /\ link' = "down"
    /\ toServer' = <<>> /\ busy' = FALSE
    /\ UNCHANGED <<toClient, pages, server, asked, bounds>>

\* onDisconnected(); whichever page is open stays open, and nobody dials again.
Disconnected ==
    /\ link \in {"tls", "up"} /\ link' = "down"
    /\ toServer' = <<>> /\ toClient' = <<>> /\ busy' = FALSE
    /\ UNCHANGED <<pages, server, asked, bounds>>

-----------------------------------------------------------------------------
(* The server.                                                             *)

\* processRequest() answers the object in hand.
Answers(resp) ==
    /\ toServer' = Tail(toServer)
    /\ toClient' = Append(toClient, [json |-> ResponseToJson(resp), era |-> Head(toServer).era])
    /\ UNCHANGED <<link, busy, pages, asked, bounds>>

Received == IF toServer = <<>> THEN {} ELSE RequestFromJson(Head(toServer).json)

\* handleAuth()
AuthAccepted(t) ==
    \E req \in Received :
       /\ req.op = "AUTH" /\ t \notin issued
       /\ issued' = issued \cup {t} /\ alive' = alive \cup {t}
       /\ Answers(OkResponse(req, [token |-> t, user |-> req.data]))

AuthRefused(code) ==
    \E req \in Received :
       /\ req.op = "AUTH"
       /\ Answers(ErrorResponse(req, code)) /\ UNCHANGED server

\* Every other request needs a token; nothing but LOGOUT matters to sessions.
Handled ==
    /\ toServer # <<>> /\ \A req \in Received : req.op # "AUTH"
    /\ Answers(IF Received = {} THEN Malformed
               ELSE LET req == CHOOSE req \in Received : TRUE
                    IN IF req.token \in alive THEN OkResponse(req, NoData)
                                              ELSE ErrorResponse(req, "TOKEN_INVALID"))
    /\ alive' = alive \ {req.token : req \in {r \in Received : r.op = "LOGOUT"}}
    /\ UNCHANGED issued

\* A session expires, or its user is deactivated or deleted (Auth).
SessionEnds(t) == /\ t \in alive
                  /\ alive' = alive \ {t}
                  /\ UNCHANGED <<link, streams, busy, pages, issued, asked, bounds>>

-----------------------------------------------------------------------------
(* processResponse() and the page that is open.                            *)

\* The response in hand, if it can be parsed.
Incoming == IF toClient = <<>> THEN {} ELSE ResponseFromJson(Head(toClient).json)

\* LoginPage: setAuth() opens the main page, whose tabs load their lists.
SignIn == \E resp \in Incoming :
    /\ Page = "login" /\ resp.req_id = loginReqId /\ resp.status = "ok"
    /\ session' = resp.data
    /\ era' = era + 1
    /\ AskFor(Opening, Forgotten, era + 1)
    /\ loginReqId' = 0
    /\ toClient' = Tail(toClient)
    /\ UNCHANGED <<link, attempt, told, server, bounds>>

\* LoginPage shows why not, or takes no notice of a response with another id.
NoSignIn == \E resp \in Incoming :
    /\ Page = "login" /\ (resp.req_id # loginReqId \/ resp.status # "ok")
    /\ told' = (told \/ resp.req_id = loginReqId)
    /\ toClient' = Tail(toClient) /\ busy' = FALSE
    /\ UNCHANGED <<link, toServer, session, loginReqId, slots, attempt, era, server, asked, bounds>>

\* MainPage: the profile keeps its response to itself, the tabs see all others.
Dispatch == \E resp \in Incoming :
    /\ Page = "main"
    /\ LET asking == {s \in Slots : slots[s] = resp.req_id}
           reloads == IF resp.status = "ok" /\ "ME" \notin asking
                      THEN UNION {ListAfter(s) : s \in asking} ELSE {}
       IN IF reloads # {}
          THEN AskFor(SetToSeq(reloads), slots, era)
          ELSE busy' = FALSE /\ UNCHANGED <<toServer, slots, asked>>
    /\ toClient' = Tail(toClient)
    /\ UNCHANGED <<link, session, loginReqId, attempt, told, era, server, bounds>>

\* A button of the main page: a list again, or another operation.
Click(slot) ==
    /\ Page = "main" /\ clicks < MaxClicks
    /\ AskFor(<<slot>>, slots, era)
    /\ clicks' = clicks + 1
    /\ UNCHANGED <<link, toClient, session, loginReqId, attempt, told, era, server, dials>>

\* LOGOUT, then SessionState::clear(): a new login page opens.
ClickLogout ==
    /\ Page = "main"
    /\ SendAll(<<AsksWith("LOGOUT", 100, NoData)>>, era)
    /\ session' = NoSession /\ loginReqId' = 0 /\ slots' = Forgotten
    /\ UNCHANGED <<link, toClient, attempt, told, era, server, asked, bounds>>

AuthCodes == {"AUTH_DENIED", "ACCOUNT_LOCKED"}

ServerStep == \/ \E t \in Tokens : AuthAccepted(t)
              \/ \E code \in AuthCodes : AuthRefused(code)
              \/ Handled

ClientStep == SignIn \/ NoSignIn \/ Dispatch

Next == \/ ClickLogin \/ Dialed \/ EncryptedSilently \/ Disconnected
        \/ \E u \in Users : EncryptedAnnounced(u)
        \/ ServerStep \/ ClientStep
        \/ \E t \in Tokens : SessionEnds(t)
        \/ \E slot \in Slots : Click(slot)
        \/ ClickLogout

IsAuth(stream) == stream # <<>> /\ Head(stream).json["op"] = "AUTH"

\* An AUTH is alone on its connection, and such a request is answered (Transport).
Fairness == /\ WF_vars(IsAuth(toServer) /\ ServerStep)
            /\ WF_vars(IsAuth(toClient) /\ ClientStep)

Spec == Init /\ [][Next]_vars /\ Fairness

-----------------------------------------------------------------------------
Flying == {toServer[i] : i \in DOMAIN toServer} \cup {toClient[i] : i \in DOMAIN toClient}

(* Sessions hold tokens that were given out, a closed connection holds     *)
(* nothing and makes nobody wait, and a main page never has a login        *)
(* pending.                                                                *)
TypeOK ==
    /\ link \in {"down", "dialing", "tls", "up"}
    /\ \A m \in Flying : /\ {"op", "req_id"} \subseteq DOMAIN m.json
                         /\ m.json["op"] \in Ops /\ m.era \in 0..era
    /\ session = NoSession \/ session \in [token : issued, user : Users]
    /\ slots \in [Slots -> Nat]
    /\ issued \subseteq Tokens /\ alive \subseteq issued
    /\ attempt \in Users \cup {NoUser} /\ told \in BOOLEAN
    /\ asked \in Nat /\ dials \in Nat /\ clicks \in Nat
    /\ link \in {"down", "dialing"} => Flying = {} /\ ~busy
    /\ loginReqId \in IF Page = "main" THEN {0} ELSE {0, 1}

(* A main page only ever gets answers to what it asked itself: requests of *)
(* an earlier main page, which another user may have left in flight when   *)
(* he signed out, die with the connection before anybody else signs in     *)
(* (api_client.cpp 29-38: no second AUTH on a live connection).            *)
NoAnswerCrossesSessions == Page = "main" => \A m \in Flying : m.era = era

(* The session on screen is the one that was asked for last: although each *)
(* AUTH has req_id 1 (LoginPage.qml 83), the answer to an earlier attempt  *)
(* is never taken for the answer to a later one.                           *)
SessionIsOfLastAttempt == Page = "main" => session.user = attempt

(* Whoever has sent AUTH gets in, is told why not, or loses the connection *)
(* (toJson() leaves the empty token out and fromJson() does without it).   *)
AttemptIsSettled ==
    (\E m \in Flying : m.json["op"] = "AUTH") ~> Page = "main" \/ told \/ link = "down"

-----------------------------------------------------------------------------
(* What the documents promise and the code does not do.                    *)

(* Every request but AUTH carries the token of the session                 *)
(* (docs/protocol.md:36): while the session lives, no request of the main  *)
(* page is refused for want of a valid token.                              *)
SignedInIsServed ==
    Page = "main" /\ session.token \in alive =>
        \A i \in DOMAIN toClient : toClient[i].json["code"] # "TOKEN_INVALID"
=============================================================================
