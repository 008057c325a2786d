---------------------------- MODULE ClientProofs ----------------------------
(***************************************************************************)
(* Requests and responses survive their way through JSON, and a client     *)
(* mistakes no answer for another's: proofs for Wire and Client.           *)
(***************************************************************************)
EXTENDS Client, FiniteSetTheorems, SequenceTheorems, TLAPS

(* Request::fromJson() restores what toJson() wrote, whatever the token:   *)
(* the empty one, which is not written, included.                          *)
THEOREM RequestSurvivesWire ==
  ASSUME NEW op \in Ops, NEW id, NEW token, NEW data
  PROVE  LET req == [op |-> op, req_id |-> id, token |-> token, data |-> data]
         IN  RequestFromJson(RequestToJson(req)) = {req}
<1> DEFINE req == [op |-> op, req_id |-> id, token |-> token, data |-> data]
           obj == RequestToJson(req)
<1>1. /\ req["op"] = op /\ req["req_id"] = id /\ req["token"] = token /\ req["data"] = data
      /\ req.token = token
  OBVIOUS
<1>2. /\ DOMAIN obj = {"op", "req_id", "data"} \cup (IF token = NoToken THEN {} ELSE {"token"})
      /\ obj["op"] = op /\ obj["req_id"] = id /\ obj["data"] = data
      /\ token # NoToken => obj["token"] = token
  <2> HIDE DEF req
  <2>1. QED
    BY <1>1 DEF RequestToJson
<1> HIDE DEF obj
<1>3. OpFromString(obj["op"]) = {op} /\ {"op", "req_id"} \subseteq DOMAIN obj
  BY <1>2 DEF OpFromString
<1>4. ValueOf(obj, "token", NoToken) = token /\ ValueOf(obj, "data", NoData) = data
  BY <1>2 DEF ValueOf
<1>5. RequestFromJson(obj) = {req}
  BY <1>2, <1>3, <1>4 DEF RequestFromJson
<1>6. QED
  BY <1>5 DEF obj

(* Response::fromJson() restores what toJson() wrote.                      *)
THEOREM ResponseSurvivesWire ==
  ASSUME NEW op \in Ops, NEW id, NEW status \in Statuses, NEW code \in ResultCodes, NEW data
  PROVE  LET resp == [op |-> op, req_id |-> id, status |-> status, code |-> code, data |-> data]
         IN  ResponseFromJson(ResponseToJson(resp)) = {resp}
<1> DEFINE resp == [op |-> op, req_id |-> id, status |-> status, code |-> code, data |-> data]
           obj == ResponseToJson(resp)
<1>1. /\ resp["op"] = op /\ resp["req_id"] = id /\ resp["status"] = status
      /\ resp["code"] = code /\ resp["data"] = data
  OBVIOUS
<1>2. /\ DOMAIN obj = {"op", "req_id", "status", "code", "data"}
      /\ obj["op"] = op /\ obj["req_id"] = id /\ obj["status"] = status
      /\ obj["code"] = code /\ obj["data"] = data
  <2> HIDE DEF resp
  <2>1. QED
    BY <1>1 DEF ResponseToJson
<1> HIDE DEF obj
<1>3. /\ OpFromString(obj["op"]) = {op} /\ StatusFromString(obj["status"]) = {status}
      /\ ResultCodeFromString(obj["code"]) = {code}
      /\ {"op", "status", "code"} \subseteq DOMAIN obj
  BY <1>2 DEF OpFromString, StatusFromString, ResultCodeFromString
<1>4. ValueOf(obj, "req_id", 0) = id /\ ValueOf(obj, "data", NoData) = data
  BY <1>2 DEF ValueOf
<1>5. ResponseFromJson(obj) = {resp}
  BY <1>3, <1>4 DEF ResponseFromJson
<1>6. QED
  BY <1>5 DEF obj

-----------------------------------------------------------------------------
(* Messages, and sequences of them.                                        *)

\* What the client writes, and what the server writes.
Request == [op : Ops, req_id : Nat, token : {NoToken}, data : Users \cup {NoData}]
Reply == [op : Ops, req_id : Nat, status : Statuses, code : ResultCodes,
          data : {NoData} \cup [token : Tokens, user : Users \cup {NoData}]]

\* What the two directions of the connection carry: frames of requests, of responses.
ReqMsg == {[json |-> RequestToJson(req), era |-> e] : req \in Request, e \in Nat}
RspMsg == {[json |-> ResponseToJson(resp), era |-> e] : resp \in Reply, e \in Nat}

\* The messages in a queue.
In(s) == {s[i] : i \in DOMAIN s}

\* What is known of a message of the client.
LEMMA ReqFacts ==
  ASSUME NEW m \in ReqMsg
  PROVE  \E req \in Request :
            /\ RequestFromJson(m.json) = {req}
            /\ DOMAIN m.json = {"op", "req_id", "data"} /\ m.era \in Nat
            /\ m.json["op"] = req.op /\ m.json["req_id"] = req.req_id
            /\ m.json["data"] = req.data
<1>1. PICK req \in Request, e \in Nat : m = [json |-> RequestToJson(req), era |-> e]
  BY DEF ReqMsg
<1>2. m.json = RequestToJson(req) /\ m.era = e
  BY <1>1
<1>3. /\ req = [op |-> req.op, req_id |-> req.req_id, token |-> NoToken, data |-> req.data]
      /\ req.op \in Ops /\ req.token = NoToken
  BY DEF Request
<1>4. RequestFromJson(m.json) = {req}
  BY <1>2, <1>3, RequestSurvivesWire
<1>5. RequestToJson(req) = [key \in {"op", "req_id", "data"} |-> req[key]]
  BY <1>3 DEF RequestToJson
<1>6. req["op"] = req.op /\ req["req_id"] = req.req_id /\ req["data"] = req.data
  BY <1>3
<1>7. QED
  BY <1>2, <1>4, <1>5, <1>6

\* What is known of a message of the server.
LEMMA RspFacts ==
  ASSUME NEW m \in RspMsg
  PROVE  \E resp \in Reply :
            /\ ResponseFromJson(m.json) = {resp}
            /\ DOMAIN m.json = {"op", "req_id", "status", "code", "data"} /\ m.era \in Nat
            /\ m.json["op"] = resp.op /\ m.json["req_id"] = resp.req_id
            /\ m.json["status"] = resp.status /\ m.json["data"] = resp.data
<1>1. PICK resp \in Reply, e \in Nat : m = [json |-> ResponseToJson(resp), era |-> e]
  BY DEF RspMsg
<1>2. m.json = ResponseToJson(resp) /\ m.era = e
  BY <1>1
<1>3. /\ resp = [op |-> resp.op, req_id |-> resp.req_id, status |-> resp.status,
                 code |-> resp.code, data |-> resp.data]
      /\ resp.op \in Ops /\ resp.status \in Statuses /\ resp.code \in ResultCodes
  BY DEF Reply
<1>4. ResponseFromJson(m.json) = {resp}
  BY <1>2, <1>3, ResponseSurvivesWire
<1>5. /\ resp["op"] = resp.op /\ resp["req_id"] = resp.req_id /\ resp["status"] = resp.status
      /\ resp["data"] = resp.data
  BY <1>3
<1>6. QED
  BY <1>2, <1>4, <1>5 DEF ResponseToJson

\* Taking the first element.
LEMMA TailFacts ==
  ASSUME NEW S, NEW s \in Seq(S), s # <<>>
  PROVE  /\ Tail(s) \in Seq(S) /\ Head(s) \in S /\ Head(s) \in In(s)
         /\ In(Tail(s)) \subseteq In(s) /\ Len(Tail(s)) = Len(s) - 1 /\ Len(s) > 0
  BY DEF In

\* Adding elements at the end.
LEMMA AppendFacts ==
  ASSUME NEW S, NEW s \in Seq(S), NEW x \in S
  PROVE  /\ Append(s, x) \in Seq(S) /\ In(Append(s, x)) \subseteq In(s) \cup {x}
         /\ Len(Append(s, x)) = Len(s) + 1
  BY DEF In

\* A queue with others appended holds nothing else.
LEMMA ConcatFacts ==
  ASSUME NEW S, NEW s \in Seq(S), NEW t \in Seq(S)
  PROVE  /\ s \o t \in Seq(S) /\ In(s \o t) \subseteq In(s) \cup In(t)
         /\ Len(s \o t) = Len(s) + Len(t)
  BY DEF In

-----------------------------------------------------------------------------
(* What sendRequest() adds to the stream.                                  *)

\* Requests of the pages go out as they are, or not at all.
LEMMA SendFacts ==
  ASSUME NEW reqs \in Seq(Request), NEW e \in Nat, SendAll(reqs, e), toServer \in Seq(ReqMsg)
  PROVE  /\ toServer' \in Seq(ReqMsg)
         /\ \A m \in In(toServer') :
               \/ m \in In(toServer)
               \/ \E i \in DOMAIN reqs : /\ m.json["op"] = reqs[i].op
                                         /\ m.json["req_id"] = reqs[i].req_id
                                         /\ m.json["data"] = reqs[i].data
                                         /\ m.era = e
         /\ Len(toServer') <= Len(toServer) + Len(reqs)
         /\ link \notin {"tls", "up"} => toServer' = toServer /\ busy' = busy
<1>1. CASE UNCHANGED <<toServer, busy>>
  BY <1>1
<1>2. CASE ~UNCHANGED <<toServer, busy>>
  <2> DEFINE added == [i \in DOMAIN reqs |-> [json |-> RequestToJson(reqs[i]), era |-> e]]
  <2>1. link \in {"tls", "up"} /\ toServer' = toServer \o added
    BY <1>2 DEF SendAll
  <2>2. \A i \in DOMAIN reqs : reqs[i] \in Request
    OBVIOUS
  <2>3. \A i \in DOMAIN reqs : [json |-> RequestToJson(reqs[i]), era |-> e] \in ReqMsg
    BY <2>2 DEF ReqMsg
  <2>4. added \in Seq(ReqMsg) /\ DOMAIN added = DOMAIN reqs /\ Len(added) = Len(reqs)
    BY <2>3
  <2>5. ASSUME NEW i \in DOMAIN reqs
        PROVE  /\ added[i].json["op"] = reqs[i].op /\ added[i].json["req_id"] = reqs[i].req_id
               /\ added[i].json["data"] = reqs[i].data /\ added[i].era = e
    <3>1. added[i].json = RequestToJson(reqs[i]) /\ added[i].era = e
      OBVIOUS
    <3>2. reqs[i] = [op |-> reqs[i].op, req_id |-> reqs[i].req_id, token |-> NoToken,
                     data |-> reqs[i].data]
      BY <2>2 DEF Request
    <3>3. RequestToJson(reqs[i]) = [key \in {"op", "req_id", "data"} |-> reqs[i][key]]
      BY <3>2 DEF RequestToJson
    <3>4. /\ reqs[i]["op"] = reqs[i].op /\ reqs[i]["req_id"] = reqs[i].req_id
          /\ reqs[i]["data"] = reqs[i].data
      BY <3>2
    <3>5. QED
      BY <3>1, <3>3, <3>4
  <2> HIDE DEF added
  <2>6. /\ toServer' \in Seq(ReqMsg) /\ In(toServer') \subseteq In(toServer) \cup In(added)
        /\ Len(toServer') = Len(toServer) + Len(reqs)
    <3>1. /\ toServer \o added \in Seq(ReqMsg)
          /\ In(toServer \o added) \subseteq In(toServer) \cup In(added)
          /\ Len(toServer \o added) = Len(toServer) + Len(added)
      BY <2>4, ConcatFacts
    <3>2. QED
      BY <2>1, <2>4, <3>1
  <2>7. ASSUME NEW m \in In(toServer'), m \notin In(toServer)
        PROVE  \E i \in DOMAIN reqs : /\ m.json["op"] = reqs[i].op
                                      /\ m.json["req_id"] = reqs[i].req_id
                                      /\ m.json["data"] = reqs[i].data
                                      /\ m.era = e
    <3>1. m \in In(added)
      BY <2>6, <2>7
    <3>2. PICK i \in DOMAIN reqs : m = added[i]
      BY <2>4, <3>1 DEF In
    <3>3. QED
      BY <2>5, <3>2
  <2>8. QED
    BY <2>1, <2>6, <2>7
<1>3. QED
  BY <1>1, <1>2

\* Slots are asked for with requests that are no AUTH.
LEMMA OpOfSlot == ASSUME NEW slot \in Slots PROVE OpOf(slot) \in Ops \ {"AUTH"}
<1>1. CASE slot \in Lists
  BY <1>1 DEF Lists, OpOf, Ops
<1>2. CASE slot \notin Lists
  <2>1. slot \in Ops \ {"AUTH", "LOGOUT"}
    BY <1>2 DEF Slots
  <2>2. OpOf(slot) = slot
    BY <1>2 DEF Lists, OpOf
  <2>3. QED
    BY <2>1, <2>2
<1>3. QED
  BY <1>1, <1>2

\* What asking for slots changes.
LEMMA AskFacts ==
  ASSUME NEW names \in Seq(Slots), NEW old \in [Slots -> Nat], NEW e \in Nat,
         AskFor(names, old, e), asked \in Nat, toServer \in Seq(ReqMsg)
  PROVE  /\ slots' \in [Slots -> Nat] /\ asked' \in Nat
         /\ toServer' \in Seq(ReqMsg)
         /\ \A m \in In(toServer') :
               \/ m \in In(toServer)
               \/ m.json["op"] # "AUTH" /\ m.json["req_id"] >= 100 /\ m.era = e
         /\ link \notin {"tls", "up"} => toServer' = toServer /\ busy' = busy
<1> DEFINE reqs == [i \in DOMAIN names |-> AsksWith(OpOf(names[i]), 100 + asked + i, NoData)]
<1>1. \A i \in DOMAIN names : names[i] \in Slots /\ i \in Nat
  OBVIOUS
<1>2. ASSUME NEW i \in DOMAIN names
      PROVE  /\ AsksWith(OpOf(names[i]), 100 + asked + i, NoData) \in Request
             /\ reqs[i].op # "AUTH" /\ reqs[i].req_id >= 100
  <2>1. OpOf(names[i]) \in Ops \ {"AUTH"} /\ 100 + asked + i \in Nat /\ 100 + asked + i >= 100
    BY <1>1, OpOfSlot
  <2>2. AsksWith(OpOf(names[i]), 100 + asked + i, NoData) \in Request
    BY <2>1 DEF AsksWith, Request
  <2>3. QED
    BY <2>1, <2>2 DEF AsksWith
<1>3. reqs \in Seq(Request) /\ DOMAIN reqs = DOMAIN names
  <2>1. DOMAIN names = 1..Len(names) /\ Len(names) \in Nat
    OBVIOUS
  <2>2. \A i \in 1..Len(names) : AsksWith(OpOf(names[i]), 100 + asked + i, NoData) \in Request
    BY <1>2, <2>1
  <2>3. reqs = [i \in 1..Len(names) |-> AsksWith(OpOf(names[i]), 100 + asked + i, NoData)]
    BY <2>1
  <2>4. reqs \in [1..Len(names) -> Request]
    BY <2>2, <2>3
  <2>5. reqs \in Seq(Request)
    BY <2>1, <2>4
  <2>6. QED
    BY <2>3, <2>1, <2>5
<1>4. SendAll(reqs, e)
  BY DEF AskFor
<1>5. \A s \in Slots : (\E i \in DOMAIN names : names[i] = s) =>
                          (CHOOSE i \in DOMAIN names : names[i] = s) \in DOMAIN names
  OBVIOUS
<1>6. slots' \in [Slots -> Nat]
  BY <1>1, <1>5 DEF AskFor
<1>7. asked' \in Nat
  BY DEF AskFor
<1> HIDE DEF reqs
<1>8. /\ toServer' \in Seq(ReqMsg)
      /\ link \notin {"tls", "up"} => toServer' = toServer /\ busy' = busy
  BY <1>3, <1>4, SendFacts
<1>9. ASSUME NEW m \in In(toServer'), m \notin In(toServer)
      PROVE  m.json["op"] # "AUTH" /\ m.json["req_id"] >= 100 /\ m.era = e
  <2>1. PICK i \in DOMAIN reqs : /\ m.json["op"] = reqs[i].op
                                 /\ m.json["req_id"] = reqs[i].req_id
                                 /\ m.era = e
    BY <1>3, <1>4, <1>9, SendFacts
  <2>2. QED
    BY <1>2, <1>3, <2>1
<1>10. QED
  BY <1>6, <1>7, <1>8, <1>9

\* A set of lists as a sequence.
LEMMA ListsInOrder ==
  ASSUME NEW S \in SUBSET Slots, IsFiniteSet(S)
  PROVE  SetToSeq(S) \in Seq(Slots)
<1>1. Cardinality(S) \in Nat /\ ExistsBijection(1..Cardinality(S), S)
  BY FS_CardinalityType
<1>2. \E f \in [1..Cardinality(S) -> S] : IsInjective(f)
  BY <1>1 DEF ExistsBijection, Bijection, Injection
<1>3. SetToSeq(S) \in [1..Cardinality(S) -> S]
  BY <1>2 DEF SetToSeq
<1>4. QED
  BY <1>1, <1>3

-----------------------------------------------------------------------------
(* The inductive invariant.                                                *)

\* Everything in flight was written by toJson().
ShapeInv == toServer \in Seq(ReqMsg) /\ toClient \in Seq(RspMsg)

\* Only a connection that is up carries anything; one is opened by a login page.
LinkInv == /\ link \in {"down", "dialing", "tls", "up"}
           /\ link # "up" => toServer = <<>> /\ toClient = <<>>
           /\ link \in {"dialing", "tls"} => Page = "login"
           /\ link \in {"down", "dialing"} => ~busy

\* AUTH is told from everything else by its id, and is of a login page.
MsgOK(m) == /\ m.json["op"] = "AUTH" \/ m.json["req_id"] >= 100
            /\ m.json["op"] = "AUTH" => Page = "login" /\ attempt \in Users
            /\ m.era <= era /\ (Page = "main" => m.era = era)

\* What is known of a message holds in both directions.
FlightInv == \A m \in In(toServer) \cup In(toClient) : MsgOK(m)

\* AUTH is alone on its connection.
LoneInv == \A m \in In(toServer) \cup In(toClient) :
              m.json["op"] = "AUTH" => Len(toServer) + Len(toClient) = 1

\* An AUTH asks for, and its answer admits, who was asked for last.
AttemptInv ==
    /\ \A m \in In(toServer) : m.json["op"] = "AUTH" => m.json["data"] = attempt
    /\ \A m \in In(toClient) : m.json["op"] = "AUTH" /\ m.json["status"] = "ok" =>
                                  m.json["data"] \in [token : issued, user : {attempt}]

\* The session on screen is one the server issued to the user of the last attempt.
SessionInv == /\ issued \subseteq Tokens /\ alive \subseteq issued
              /\ session = NoSession \/ session \in [token : issued, user : Users]
              /\ attempt \in Users \cup {NoUser}
              /\ loginReqId \in {0, 1}
              /\ Page = "main" => session.user = attempt /\ loginReqId = 0

\* The request ids of the pages and the counters keep their types.
CountInv == /\ slots \in [Slots -> Nat] /\ told \in BOOLEAN /\ era \in Nat
            /\ asked \in Nat /\ dials \in Nat /\ clicks \in Nat

\* The whole invariant.
ClientInv == ShapeInv /\ LinkInv /\ FlightInv /\ LoneInv /\ AttemptInv /\ SessionInv /\ CountInv

\* The page that is open says whether there is a session.
LEMMA PageFacts ==
  ASSUME SessionInv
  PROVE  (Page = "login" <=> session = NoSession) /\ Page \in {"login", "main"}
<1>1. session \in [token : issued, user : Users] => session.token # NoToken
  BY ClientAssumption DEF SessionInv
<1>2. QED
  BY <1>1 DEF Page, SessionInv, NoSession

\* Nothing is on its way at first.
LEMMA InitClientInv == Init => ClientInv
<1> SUFFICES ASSUME Init PROVE ClientInv
  OBVIOUS
<1>1. /\ link = "down" /\ toServer = <<>> /\ toClient = <<>> /\ busy = FALSE
      /\ session = NoSession /\ loginReqId = 0 /\ slots = Forgotten
      /\ issued = {} /\ alive = {} /\ attempt = NoUser /\ told = FALSE /\ era = 0
      /\ asked = 0 /\ dials = 0 /\ clicks = 0
  BY DEF Init
<1>2. In(toServer) = {} /\ In(toClient) = {}
  BY <1>1 DEF In
<1>3. Page = "login"
  BY <1>1 DEF Page, NoSession
<1>4. ShapeInv /\ LinkInv
  BY <1>1, <1>3 DEF ShapeInv, LinkInv
<1>5. FlightInv /\ LoneInv /\ AttemptInv
  BY <1>2 DEF FlightInv, LoneInv, AttemptInv
<1>6. SessionInv
  BY <1>1, <1>3 DEF SessionInv
<1>7. CountInv
  BY <1>1 DEF CountInv, Forgotten
<1>8. QED
  BY <1>4, <1>5, <1>6, <1>7 DEF ClientInv

\* Steps that send nothing and leave the pages alone.
LEMMA QuietStep ==
  ASSUME ClientInv,
         UNCHANGED <<session, loginReqId, slots, attempt, told, era, issued, asked, clicks>>,
         alive' \subseteq issued, dials' \in Nat,
         \/ UNCHANGED streams
         \/ toServer' = <<>> /\ toClient' = <<>>,
         LinkInv'
  PROVE  ClientInv'
<1>1. ShapeInv'
  <2>1. toServer \in Seq(ReqMsg) /\ toClient \in Seq(RspMsg)
    BY DEF ClientInv, ShapeInv
  <2>2. toServer' \in Seq(ReqMsg) /\ toClient' \in Seq(RspMsg)
    <3>1. CASE UNCHANGED streams
      BY <2>1, <3>1 DEF streams
    <3>2. CASE toServer' = <<>> /\ toClient' = <<>>
      BY <3>2
    <3>3. QED
      BY <3>1, <3>2
  <2>3. QED
    BY <2>2 DEF ShapeInv
<1>2. \/ In(toServer') = In(toServer) /\ In(toClient') = In(toClient) /\ UNCHANGED streams
      \/ In(toServer') = {} /\ In(toClient') = {}
  BY DEF In, streams
<1>3. Page' = Page
  BY DEF Page
<1>4. FlightInv'
  BY <1>2, <1>3 DEF ClientInv, FlightInv, MsgOK
<1>5. LoneInv' /\ AttemptInv'
  BY <1>2 DEF ClientInv, LoneInv, AttemptInv, streams
<1>6. SessionInv'
  BY <1>3 DEF ClientInv, SessionInv
<1>7. CountInv'
  BY DEF ClientInv, CountInv
<1>8. QED
  BY <1>1, <1>4, <1>5, <1>6, <1>7 DEF ClientInv

\* Connecting, losing the connection, and sessions that end.
LEMMA ConnectionStep ==
  ASSUME ClientInv,
         \/ ClickLogin \/ Dialed \/ EncryptedSilently \/ Disconnected
         \/ \E t \in Tokens : SessionEnds(t)
  PROVE  ClientInv'
<1> USE DEF streams, pages, server, bounds
<1>1. LinkInv /\ CountInv /\ SessionInv
  BY DEF ClientInv
<1>2. CASE ClickLogin
  <2>1. LinkInv'
    BY <1>1, <1>2 DEF ClickLogin, LinkInv, Page
  <2>2. QED
    BY <1>1, <1>2, <2>1, QuietStep DEF ClickLogin, CountInv, SessionInv
<1>3. CASE Dialed
  <2>1. LinkInv'
    BY <1>1, <1>3 DEF Dialed, LinkInv, Page
  <2>2. QED
    BY <1>1, <1>3, <2>1, QuietStep DEF Dialed, CountInv, SessionInv
<1>4. CASE EncryptedSilently
  <2>1. LinkInv'
    BY <1>1, <1>4 DEF EncryptedSilently, LinkInv, Page
  <2>2. toServer' = <<>> /\ toClient' = <<>>
    BY <1>1, <1>4 DEF EncryptedSilently, LinkInv
  <2>3. QED
    BY <1>1, <1>4, <2>1, <2>2, QuietStep DEF EncryptedSilently, CountInv, SessionInv
<1>5. CASE Disconnected
  <2>1. LinkInv'
    BY <1>1, <1>5 DEF Disconnected, LinkInv, Page
  <2>2. QED
    BY <1>1, <1>5, <2>1, QuietStep DEF Disconnected, CountInv, SessionInv
<1>6. ASSUME NEW t \in Tokens, SessionEnds(t) PROVE ClientInv'
  <2>1. LinkInv'
    BY <1>1, <1>6 DEF SessionEnds, LinkInv, Page
  <2>2. QED
    BY <1>1, <1>6, <2>1, QuietStep DEF SessionEnds, CountInv, SessionInv
<1>7. QED
  BY <1>2, <1>3, <1>4, <1>5, <1>6

\* The login page sends AUTH, alone, on a connection just encrypted.
LEMMA AuthStep == ASSUME ClientInv, NEW u \in Users, EncryptedAnnounced(u) PROVE ClientInv'
<1> DEFINE req == AsksWith("AUTH", 1, u)
<1>1. ShapeInv /\ LinkInv /\ SessionInv /\ CountInv
  BY DEF ClientInv
<1>2. /\ link = "tls" /\ link' = "up" /\ Page = "login"
      /\ loginReqId' = 1 /\ attempt' = u /\ told' = FALSE /\ SendAll(<<req>>, era)
      /\ UNCHANGED <<toClient, session, slots, issued, alive, era, asked, dials, clicks>>
  BY DEF EncryptedAnnounced, SendAuth, server, bounds
<1>3. toServer = <<>> /\ toClient = <<>> /\ Len(toServer) = 0 /\ Len(toClient') = 0
  BY <1>1, <1>2 DEF LinkInv
<1>4. In(toServer) = {} /\ In(toClient') = {}
  BY <1>2, <1>3 DEF In
<1>5. req \in Request /\ req.op = "AUTH" /\ req.req_id = 1 /\ req.data = u
  <2>1. "AUTH" \in Ops
    BY DEF Ops
  <2>2. QED
    BY <2>1 DEF AsksWith, Request
<1> HIDE DEF req
<1>6. <<req>> \in Seq(Request) /\ DOMAIN <<req>> = {1} /\ <<req>>[1] = req /\ Len(<<req>>) = 1
  BY <1>5
<1>7. era \in Nat /\ toServer \in Seq(ReqMsg) /\ toClient \in Seq(RspMsg)
  BY <1>1 DEF CountInv, ShapeInv
<1>8. toServer' \in Seq(ReqMsg) /\ Len(toServer') <= 1
  <2>1. toServer' \in Seq(ReqMsg) /\ Len(toServer') <= Len(toServer) + Len(<<req>>)
    BY <1>2, <1>6, <1>7, SendFacts
  <2>2. Len(toServer) + Len(<<req>>) = 1 /\ Len(toServer') \in Nat
    BY <1>3, <1>6, <2>1
  <2>3. QED
    BY <2>1, <2>2
<1>9. \A m \in In(toServer') : m.json["op"] = "AUTH" /\ m.json["data"] = u /\ m.era = era
  <2>1. ASSUME NEW m \in In(toServer')
        PROVE  \E i \in DOMAIN <<req>> : /\ m.json["op"] = <<req>>[i].op
                                         /\ m.json["data"] = <<req>>[i].data
                                         /\ m.era = era
    BY <1>2, <1>4, <1>6, <1>7, SendFacts
  <2>2. QED
    BY <1>5, <1>6, <2>1
<1>10. Page' = Page
  BY <1>2 DEF Page
<1>11. ShapeInv'
  BY <1>2, <1>7, <1>8 DEF ShapeInv
<1>12. LinkInv'
  BY <1>2 DEF LinkInv
<1>13. FlightInv'
  BY <1>2, <1>4, <1>7, <1>9, <1>10 DEF FlightInv, MsgOK
<1>14. LoneInv'
  <2>1. ASSUME NEW m \in In(toServer') PROVE Len(toServer') = 1
    <3>1. PICK i \in DOMAIN toServer' : m = toServer'[i]
      BY <2>1 DEF In
    <3>2. DOMAIN toServer' = 1..Len(toServer') /\ Len(toServer') \in Nat
      BY <1>8
    <3>3. QED
      BY <1>8, <3>1, <3>2
  <2>2. QED
    BY <1>3, <1>4, <2>1 DEF LoneInv
<1>15. AttemptInv'
  BY <1>2, <1>4, <1>9 DEF AttemptInv
<1>16. SessionInv'
  BY <1>1, <1>2, <1>10 DEF SessionInv
<1>17. CountInv'
  BY <1>1, <1>2 DEF CountInv
<1>18. QED
  BY <1>11, <1>12, <1>13, <1>14, <1>15, <1>16, <1>17 DEF ClientInv

\* What is received, and what an answer to it does to the streams.
LEMMA ReceivedFacts ==
  ASSUME ClientInv, NEW req \in Received
  PROVE  /\ toServer # <<>> /\ Received = {req} /\ req \in Request
         /\ Head(toServer) \in In(toServer) /\ Head(toServer).era \in Nat
         /\ Head(toServer).json["op"] = req.op /\ Head(toServer).json["req_id"] = req.req_id
         /\ Head(toServer).json["data"] = req.data
<1>1. toServer # <<>> /\ req \in RequestFromJson(Head(toServer).json)
      /\ Received = RequestFromJson(Head(toServer).json)
  BY DEF Received
<1>2. toServer \in Seq(ReqMsg)
  BY DEF ClientInv, ShapeInv
<1>3. Head(toServer) \in ReqMsg /\ Head(toServer) \in In(toServer)
  BY <1>1, <1>2, TailFacts
<1>4. QED
  BY <1>1, <1>3, ReqFacts

\* An answer takes the place of the request it is for.
LEMMA AnswerFacts ==
  ASSUME ClientInv, NEW req \in Received, NEW resp \in Reply, Answers(resp),
         resp.op = req.op, resp.req_id = req.req_id
  PROVE  /\ UNCHANGED <<link, busy, session, loginReqId, slots, attempt, told, era,
                        asked, dials, clicks>>
         /\ ShapeInv' /\ LinkInv' /\ FlightInv' /\ LoneInv' /\ CountInv'
         /\ In(toServer') \subseteq In(toServer)
         /\ \A m \in In(toClient') :
               m \in In(toClient) \/ (m.json["op"] = req.op /\ m.json["status"] = resp.status
                                      /\ m.json["data"] = resp.data)
<1> PICK first : first = Head(toServer)
  OBVIOUS
<1> PICK msg : msg = [json |-> ResponseToJson(resp), era |-> first.era]
  OBVIOUS
<1>1. ShapeInv /\ LinkInv /\ FlightInv /\ LoneInv /\ CountInv
  BY DEF ClientInv
<1>2. /\ toServer # <<>> /\ first \in In(toServer) /\ first.era \in Nat
      /\ first.json["op"] = req.op /\ first.json["req_id"] = req.req_id
  BY ReceivedFacts
<1>3. /\ toServer' = Tail(toServer) /\ toClient' = Append(toClient, msg)
      /\ UNCHANGED <<link, busy, session, loginReqId, slots, attempt, told, era,
                     asked, dials, clicks>>
  BY DEF Answers, pages, bounds
<1>4. msg \in RspMsg /\ msg.json = ResponseToJson(resp) /\ msg.era = first.era
  BY <1>2 DEF RspMsg
<1>5. /\ msg.json["op"] = req.op /\ msg.json["req_id"] = req.req_id
      /\ msg.json["status"] = resp.status /\ msg.json["data"] = resp.data
  <2>1. resp = [op |-> resp.op, req_id |-> resp.req_id, status |-> resp.status,
                code |-> resp.code, data |-> resp.data]
    BY DEF Reply
  <2>2. /\ resp["op"] = resp.op /\ resp["req_id"] = resp.req_id
        /\ resp["status"] = resp.status /\ resp["data"] = resp.data
    BY <2>1
  <2>3. QED
    BY <1>4, <2>2 DEF ResponseToJson
<1>6. toServer \in Seq(ReqMsg) /\ toClient \in Seq(RspMsg)
  BY <1>1 DEF ShapeInv
<1>7. /\ toServer' \in Seq(ReqMsg) /\ In(toServer') \subseteq In(toServer)
      /\ Len(toServer') = Len(toServer) - 1 /\ Len(toServer) > 0
  BY <1>2, <1>3, <1>6, TailFacts
<1>8. /\ toClient' \in Seq(RspMsg) /\ In(toClient') \subseteq In(toClient) \cup {msg}
      /\ Len(toClient') = Len(toClient) + 1
  BY <1>3, <1>4, <1>6, AppendFacts
<1>9. Page' = Page
  BY <1>3 DEF Page
<1>10. ShapeInv'
  BY <1>7, <1>8 DEF ShapeInv
<1>11. LinkInv'
  BY <1>1, <1>2, <1>3, <1>9 DEF LinkInv
<1>12. FlightInv'
  <2>1. MsgOK(first)
    BY <1>1, <1>2 DEF FlightInv
  <2>2. \A m \in In(toServer) \cup In(toClient) : MsgOK(m)'
    BY <1>1, <1>3, <1>9 DEF FlightInv, MsgOK
  <2>3. MsgOK(msg)'
    BY <1>2, <1>3, <1>4, <1>5, <1>9, <2>1 DEF MsgOK
  <2>4. QED
    BY <1>7, <1>8, <2>2, <2>3 DEF FlightInv
<1>13. LoneInv'
  <2>1. Len(toServer') + Len(toClient') = Len(toServer) + Len(toClient)
    BY <1>6, <1>7, <1>8
  <2>2. QED
    BY <1>1, <1>2, <1>5, <1>7, <1>8, <2>1 DEF LoneInv
<1>14. CountInv'
  BY <1>1, <1>3 DEF CountInv
<1>15. QED
  BY <1>3, <1>5, <1>7, <1>8, <1>10, <1>11, <1>12, <1>13, <1>14

\* handleAuth() admits who asked, or refuses; all other requests change no page.
LEMMA ServerKeepsInv == ASSUME ClientInv, ServerStep PROVE ClientInv'
<1>1. SessionInv /\ AttemptInv /\ FlightInv
  BY DEF ClientInv
<1>2. ASSUME NEW t \in Tokens, NEW req \in Received, req.op = "AUTH",
             issued' = issued \cup {t}, alive' = alive \cup {t},
             Answers(OkResponse(req, [token |-> t, user |-> req.data]))
      PROVE  ClientInv'
  <2> DEFINE reply == [token |-> t, user |-> req.data]
             resp == OkResponse(req, reply)
  <2>1. req \in Request /\ Head(toServer) \in In(toServer) /\ Head(toServer).json["op"] = "AUTH"
        /\ Head(toServer).json["data"] = req.data
    BY <1>2, ReceivedFacts
  <2>2. req.data = attempt /\ attempt \in Users
    BY <1>1, <2>1 DEF AttemptInv, FlightInv, MsgOK
  <2>3. reply \in [token : Tokens, user : Users \cup {NoData}]
        /\ reply \in [token : issued', user : {attempt}]
    BY <1>2, <2>2
  <2>4. resp \in Reply /\ resp.op = req.op /\ resp.req_id = req.req_id /\ resp.data = reply
    <3> HIDE DEF reply
    <3>1. "ok" \in Statuses /\ "OK" \in ResultCodes
      BY DEF Statuses, ResultCodes
    <3>2. req.op \in Ops /\ req.req_id \in Nat
      BY <2>1 DEF Request
    <3>3. QED
      BY <2>3, <3>1, <3>2 DEF OkResponse, Reply
  <2> HIDE DEF reply, resp
  <2>5. Answers(resp)
    BY <1>2 DEF resp, reply
  <2>6. /\ UNCHANGED <<link, busy, session, loginReqId, slots, attempt, told, era,
                       asked, dials, clicks>>
        /\ ShapeInv' /\ LinkInv' /\ FlightInv' /\ LoneInv' /\ CountInv'
        /\ In(toServer') \subseteq In(toServer)
        /\ \A m \in In(toClient') : m \in In(toClient) \/ m.json["data"] = resp.data
    BY <2>4, <2>5, AnswerFacts
  <2>7. AttemptInv'
    BY <1>1, <1>2, <2>3, <2>4, <2>6 DEF AttemptInv
  <2>8. SessionInv'
    BY <1>1, <1>2, <2>6 DEF SessionInv, Page
  <2>9. QED
    BY <2>6, <2>7, <2>8 DEF ClientInv
<1>3. ASSUME NEW req \in Received, NEW resp \in Reply, Answers(resp),
             resp.op = req.op, resp.req_id = req.req_id,
             req.op = "AUTH" => resp.status = "error",
             issued' = issued, alive' \subseteq alive
      PROVE  ClientInv'
  <2>1. /\ UNCHANGED <<link, busy, session, loginReqId, slots, attempt, told, era,
                       asked, dials, clicks>>
        /\ ShapeInv' /\ LinkInv' /\ FlightInv' /\ LoneInv' /\ CountInv'
        /\ In(toServer') \subseteq In(toServer)
        /\ \A m \in In(toClient') :
              m \in In(toClient) \/ (m.json["op"] = req.op /\ m.json["status"] = resp.status)
    BY <1>3, AnswerFacts
  <2>2. AttemptInv'
    BY <1>1, <1>3, <2>1 DEF AttemptInv
  <2>3. SessionInv'
    BY <1>1, <1>3, <2>1 DEF SessionInv, Page
  <2>4. QED
    BY <2>1, <2>2, <2>3 DEF ClientInv
<1>4. \A req \in Received, code \in ResultCodes :
         /\ ErrorResponse(req, code) \in Reply /\ ErrorResponse(req, code).op = req.op
         /\ ErrorResponse(req, code).req_id = req.req_id
         /\ ErrorResponse(req, code).status = "error"
  <2>1. "error" \in Statuses
    BY DEF Statuses
  <2>2. \A req \in Received : req.op \in Ops /\ req.req_id \in Nat
    BY ReceivedFacts DEF Request
  <2>3. QED
    BY <2>1, <2>2 DEF ErrorResponse, Reply
<1>5. CASE \E t \in Tokens : AuthAccepted(t)
  BY <1>2, <1>5 DEF AuthAccepted
<1>6. CASE \E code \in AuthCodes : AuthRefused(code)
  <2>1. AuthCodes \subseteq ResultCodes
    BY DEF AuthCodes, ResultCodes
  <2>2. PICK code \in AuthCodes, req \in Received :
           req.op = "AUTH" /\ Answers(ErrorResponse(req, code)) /\ UNCHANGED server
    BY <1>6 DEF AuthRefused
  <2>3. QED
    BY <1>3, <1>4, <2>1, <2>2 DEF server
<1>7. CASE Handled
  <2>1. toServer # <<>> /\ toServer \in Seq(ReqMsg)
    BY <1>7 DEF Handled, ClientInv, ShapeInv
  <2>2. PICK req \in Received : TRUE
    BY <2>1, TailFacts, ReqFacts DEF Received
  <2>3. Received = {req} /\ req \in Request
    BY ReceivedFacts
  <2>4. (CHOOSE r \in Received : TRUE) = req
    BY <2>3
  <2>5. /\ req.op # "AUTH" /\ issued' = issued /\ alive' \subseteq alive
        /\ Answers(IF req.token \in alive THEN OkResponse(req, NoData)
                                          ELSE ErrorResponse(req, "TOKEN_INVALID"))
    BY <1>7, <2>3, <2>4 DEF Handled
  <2>6. "TOKEN_INVALID" \in ResultCodes
    BY DEF ResultCodes
  <2>7. OkResponse(req, NoData) \in Reply /\ OkResponse(req, NoData).op = req.op
        /\ OkResponse(req, NoData).req_id = req.req_id
    <3>1. "ok" \in Statuses /\ "OK" \in ResultCodes
      BY DEF Statuses, ResultCodes
    <3>2. req.op \in Ops /\ req.req_id \in Nat
      BY <2>3 DEF Request
    <3>3. QED
      BY <3>1, <3>2 DEF OkResponse, Reply
  <2>8. QED
    BY <1>3, <1>4, <2>5, <2>6, <2>7
<1>8. QED
  BY <1>5, <1>6, <1>7 DEF ServerStep

\* The response in hand.
LEMMA IncomingFacts ==
  ASSUME ClientInv, NEW resp \in Incoming
  PROVE  /\ toClient # <<>> /\ Incoming = {resp} /\ resp \in Reply
         /\ Head(toClient) \in In(toClient)
         /\ Head(toClient).json["op"] = resp.op /\ Head(toClient).json["req_id"] = resp.req_id
         /\ Head(toClient).json["status"] = resp.status
         /\ Head(toClient).json["data"] = resp.data
<1>1. toClient # <<>> /\ resp \in ResponseFromJson(Head(toClient).json)
      /\ Incoming = ResponseFromJson(Head(toClient).json)
  BY DEF Incoming
<1>2. toClient \in Seq(RspMsg)
  BY DEF ClientInv, ShapeInv
<1>3. Head(toClient) \in RspMsg /\ Head(toClient) \in In(toClient)
  BY <1>1, <1>2, TailFacts
<1>4. QED
  BY <1>1, <1>3, RspFacts

\* A sequence with no element is empty.
LEMMA NoElements ==
  ASSUME NEW S, NEW s \in Seq(S), Len(s) = 0
  PROVE  In(s) = {} /\ s = <<>>
  BY DEF In

\* A login page that gets the answer to its AUTH has nothing else on its way.
LEMMA SignInStep == ASSUME ClientInv, SignIn PROVE ClientInv'
<1>1. /\ ShapeInv /\ LinkInv /\ FlightInv /\ LoneInv /\ AttemptInv /\ SessionInv /\ CountInv
  BY DEF ClientInv
<1>2. PICK resp \in Incoming :
         /\ Page = "login" /\ resp.req_id = loginReqId /\ resp.status = "ok"
         /\ session' = resp.data /\ era' = era + 1
         /\ AskFor(Opening, Forgotten, era + 1)
         /\ loginReqId' = 0 /\ toClient' = Tail(toClient)
         /\ UNCHANGED <<link, attempt, told, issued, alive, dials, clicks>>
  BY DEF SignIn, server, bounds
<1>3. PICK m \in In(toClient) : /\ m.json["op"] = resp.op /\ m.json["req_id"] = resp.req_id
                                /\ m.json["status"] = resp.status /\ m.json["data"] = resp.data
  BY IncomingFacts
<1>4. toClient # <<>> /\ toServer \in Seq(ReqMsg) /\ toClient \in Seq(RspMsg)
  BY <1>1, IncomingFacts DEF ShapeInv
<1>5. ~(m.json["req_id"] >= 100)
  BY <1>1, <1>2, <1>3 DEF SessionInv
<1>6. m.json["op"] = "AUTH" /\ attempt \in Users
  BY <1>1, <1>5 DEF FlightInv, MsgOK
<1>7. Len(toServer) + Len(toClient) = 1
  BY <1>1, <1>6 DEF LoneInv
<1>8. session' \in [token : issued, user : {attempt}]
  BY <1>1, <1>2, <1>3, <1>6 DEF AttemptInv
<1>9. Tail(toClient) \in Seq(RspMsg) /\ Len(Tail(toClient)) = 0 /\ Len(toServer) = 0
  <2>1. Tail(toClient) \in Seq(RspMsg) /\ Len(Tail(toClient)) = Len(toClient) - 1 /\ Len(toClient) > 0
    BY <1>4, TailFacts
  <2>2. Len(toServer) \in Nat /\ Len(toClient) \in Nat
    BY <1>4
  <2>3. QED
    BY <1>7, <2>1, <2>2
<1>10. In(toServer) = {} /\ In(toClient') = {} /\ toClient' = <<>>
  BY <1>2, <1>4, <1>9, NoElements
<1>11. Opening \in Seq(Slots)
  BY DEF Opening, Slots, Lists
<1>12. Forgotten \in [Slots -> Nat] /\ era + 1 \in Nat /\ asked \in Nat
  BY <1>1 DEF Forgotten, CountInv
<1>13. /\ slots' \in [Slots -> Nat] /\ asked' \in Nat /\ toServer' \in Seq(ReqMsg)
       /\ \A n \in In(toServer') : n.json["op"] # "AUTH" /\ n.json["req_id"] >= 100
                                   /\ n.era = era + 1
       /\ link \notin {"tls", "up"} => toServer' = toServer /\ busy' = busy
  BY <1>2, <1>4, <1>10, <1>11, <1>12, AskFacts
<1>14. link = "up"
  BY <1>1, <1>4 DEF LinkInv
<1>15. ShapeInv'
  BY <1>10, <1>13 DEF ShapeInv
<1>16. LinkInv'
  BY <1>2, <1>14 DEF LinkInv
<1>17. FlightInv' /\ LoneInv' /\ AttemptInv'
  <2>1. \A n \in In(toServer') : MsgOK(n)'
    BY <1>2, <1>12, <1>13 DEF MsgOK
  <2>2. QED
    BY <1>10, <1>13, <2>1 DEF FlightInv, LoneInv, AttemptInv
<1>18. SessionInv'
  <2>1. session'.user = attempt' /\ session' \in [token : issued', user : Users]
    BY <1>2, <1>6, <1>8
  <2>2. QED
    BY <1>1, <1>2, <2>1 DEF SessionInv
<1>19. CountInv'
  BY <1>1, <1>2, <1>12, <1>13 DEF CountInv
<1>20. QED
  BY <1>15, <1>16, <1>17, <1>18, <1>19 DEF ClientInv

\* A login page that is refused, or takes no notice.
LEMMA NoSignInStep == ASSUME ClientInv, NoSignIn PROVE ClientInv'
<1>1. /\ ShapeInv /\ LinkInv /\ FlightInv /\ LoneInv /\ AttemptInv /\ SessionInv /\ CountInv
  BY DEF ClientInv
<1>2. /\ toClient # <<>> /\ toClient' = Tail(toClient) /\ busy' = FALSE /\ told' \in BOOLEAN
      /\ UNCHANGED <<link, toServer, session, loginReqId, slots, attempt, era, issued, alive,
                     asked, dials, clicks>>
  BY <1>1, IncomingFacts DEF NoSignIn, server, bounds, CountInv
<1>3. toServer \in Seq(ReqMsg) /\ toClient \in Seq(RspMsg)
  BY <1>1 DEF ShapeInv
<1>4. /\ toClient' \in Seq(RspMsg) /\ In(toClient') \subseteq In(toClient)
      /\ Len(toClient') = Len(toClient) - 1 /\ Len(toClient) > 0
  BY <1>2, <1>3, TailFacts
<1>5. Page' = Page
  BY <1>2 DEF Page
<1>6. ShapeInv'
  BY <1>2, <1>3, <1>4 DEF ShapeInv
<1>7. LinkInv'
  BY <1>1, <1>2, <1>5 DEF LinkInv
<1>8. FlightInv'
  BY <1>1, <1>2, <1>4, <1>5 DEF FlightInv, MsgOK
<1>9. LoneInv'
  <2>1. ASSUME NEW m \in In(toServer) \cup In(toClient'), m.json["op"] = "AUTH" PROVE FALSE
    <3>1. Len(toServer) + Len(toClient) = 1
      BY <1>1, <1>4, <2>1 DEF LoneInv
    <3>2. Len(toServer) \in Nat /\ Len(toClient) \in Nat /\ Len(toClient') = Len(toClient) - 1
      BY <1>3, <1>4
    <3>3. Len(toServer) = 0 /\ Len(toClient') = 0
      BY <1>4, <3>1, <3>2
    <3>4. QED
      BY <1>3, <1>4, <2>1, <3>3, NoElements
  <2>2. QED
    BY <1>2, <2>1 DEF LoneInv
<1>10. AttemptInv'
  BY <1>1, <1>2, <1>4 DEF AttemptInv
<1>11. SessionInv' /\ CountInv'
  BY <1>1, <1>2, <1>5 DEF SessionInv, CountInv
<1>12. QED
  BY <1>6, <1>7, <1>8, <1>9, <1>10, <1>11 DEF ClientInv

\* Steps of the main page: it asks, never for AUTH, and may close.
LEMMA MainStep ==
  ASSUME ClientInv, Page = "main", CountInv',
         UNCHANGED <<link, attempt, era, issued, alive>>,
         toServer' \in Seq(ReqMsg), toClient' \in Seq(RspMsg),
         \A m \in In(toServer') :
            m \in In(toServer) \/ (m.json["op"] # "AUTH" /\ m.json["req_id"] >= 100 /\ m.era = era),
         In(toClient') \subseteq In(toClient),
         toClient = <<>> => toClient' = <<>>,
         link \notin {"tls", "up"} => toServer' = toServer /\ (busy' = busy \/ ~busy'),
         loginReqId' = 0, session' = session \/ session' = NoSession
  PROVE  ClientInv'
<1>1. /\ ShapeInv /\ LinkInv /\ FlightInv /\ LoneInv /\ AttemptInv /\ SessionInv
  BY DEF ClientInv
<1>2. era \in Nat /\ link \notin {"dialing", "tls"}
  BY <1>1 DEF LinkInv, ClientInv, CountInv
<1>3. \A m \in In(toServer) \cup In(toClient) : m.json["op"] # "AUTH" /\ m.json["req_id"] >= 100
                                                /\ m.era = era
  BY <1>1 DEF FlightInv, MsgOK
<1>4. \A m \in In(toServer') \cup In(toClient') : m.json["op"] # "AUTH" /\ m.json["req_id"] >= 100
                                                  /\ m.era = era
  BY <1>3
<1>5. ShapeInv'
  BY DEF ShapeInv
<1>6. LinkInv'
  BY <1>1, <1>2 DEF LinkInv
<1>7. FlightInv' /\ LoneInv' /\ AttemptInv'
  BY <1>2, <1>4 DEF FlightInv, MsgOK, LoneInv, AttemptInv
<1>8. SessionInv'
  <2>1. CASE session' = session
    <3>1. Page' = Page
      BY <2>1 DEF Page
    <3>2. QED
      BY <1>1, <2>1, <3>1 DEF SessionInv
  <2>2. CASE session' = NoSession
    <3>1. Page' = "login"
      BY <2>2 DEF Page, NoSession
    <3>2. QED
      BY <1>1, <2>2, <3>1 DEF SessionInv
  <2>3. QED
    BY <2>1, <2>2
<1>9. QED
  BY <1>5, <1>6, <1>7, <1>8 DEF ClientInv

\* A response reaches the tabs, which may ask for a list again.
LEMMA DispatchStep == ASSUME ClientInv, Dispatch PROVE ClientInv'
<1>1. ShapeInv /\ SessionInv /\ CountInv
  BY DEF ClientInv
<1>2. PICK resp \in Incoming :
         /\ Page = "main"
         /\ LET asking == {s \in Slots : slots[s] = resp.req_id}
                reloads == IF resp.status = "ok" /\ "ME" \notin asking
                           THEN UNION {ListAfter(s) : s \in asking} ELSE {}
            IN IF reloads # {}
               THEN AskFor(SetToSeq(reloads), slots, era)
               ELSE busy' = FALSE /\ UNCHANGED <<toServer, slots, asked>>
         /\ toClient' = Tail(toClient)
         /\ UNCHANGED <<link, session, loginReqId, attempt, told, era, issued, alive, dials, clicks>>
  BY DEF Dispatch, server, bounds
<1>3. toClient # <<>> /\ toServer \in Seq(ReqMsg) /\ toClient \in Seq(RspMsg)
  BY <1>1, IncomingFacts DEF ShapeInv
<1>4. toClient' \in Seq(RspMsg) /\ In(toClient') \subseteq In(toClient)
  BY <1>2, <1>3, TailFacts
<1>5. loginReqId' = 0 /\ era \in Nat /\ asked \in Nat /\ slots \in [Slots -> Nat]
  BY <1>1, <1>2 DEF SessionInv, CountInv
<1>6. CASE busy' = FALSE /\ UNCHANGED <<toServer, slots, asked>>
  <2>1. CountInv'
    BY <1>1, <1>2, <1>6 DEF CountInv
  <2>2. QED
    BY <1>2, <1>3, <1>4, <1>5, <1>6, <2>1, MainStep
<1>7. ASSUME NEW S, S = UNION {ListAfter(s) : s \in {s \in Slots : slots[s] = resp.req_id}},
             AskFor(SetToSeq(S), slots, era)
      PROVE  ClientInv'
  <2> DEFINE lists == {"resources", "users", "policies", "grantPolicies"}
  <2>1. S \subseteq lists
    BY <1>7 DEF ListAfter
  <2>2. IsFiniteSet({}) /\ IsFiniteSet({"resources"}) /\ IsFiniteSet({"resources", "users"})
    BY FS_EmptySet, FS_AddElement, {} \cup {"resources"} = {"resources"},
       {"resources"} \cup {"users"} = {"resources", "users"}
  <2>3. IsFiniteSet({"resources", "users", "policies"})
    BY <2>2, FS_AddElement,
       {"resources", "users"} \cup {"policies"} = {"resources", "users", "policies"}
  <2>4. IsFiniteSet(lists)
    BY <2>3, FS_AddElement, {"resources", "users", "policies"} \cup {"grantPolicies"} = lists
  <2>5. lists \subseteq Slots
    BY DEF Slots, Lists
  <2>6. IsFiniteSet(S) /\ S \in SUBSET Slots
    BY <2>1, <2>4, <2>5, FS_Subset
  <2>7. SetToSeq(S) \in Seq(Slots)
    BY <2>6, ListsInOrder
  <2>8. /\ slots' \in [Slots -> Nat] /\ asked' \in Nat /\ toServer' \in Seq(ReqMsg)
        /\ \A m \in In(toServer') :
              m \in In(toServer) \/ (m.json["op"] # "AUTH" /\ m.json["req_id"] >= 100 /\ m.era = era)
        /\ link \notin {"tls", "up"} => toServer' = toServer /\ busy' = busy
    BY <1>3, <1>5, <1>7, <2>7, AskFacts
  <2>9. CountInv'
    BY <1>1, <1>2, <2>8 DEF CountInv
  <2>10. QED
    BY <1>2, <1>3, <1>4, <1>5, <2>8, <2>9, MainStep
<1>8. QED
  BY <1>2, <1>6, <1>7

\* A button, or signing out.
LEMMA MainPageStep ==
  ASSUME ClientInv, (\E slot \in Slots : Click(slot)) \/ ClickLogout
  PROVE  ClientInv'
<1>1. ShapeInv /\ SessionInv /\ CountInv
  BY DEF ClientInv
<1>2. toServer \in Seq(ReqMsg) /\ toClient \in Seq(RspMsg)
  BY <1>1 DEF ShapeInv
<1>3. era \in Nat /\ asked \in Nat /\ slots \in [Slots -> Nat] /\ clicks \in Nat
  BY <1>1 DEF CountInv
<1>4. ASSUME NEW slot \in Slots, Click(slot) PROVE ClientInv'
  <2>1. /\ Page = "main" /\ AskFor(<<slot>>, slots, era) /\ clicks' = clicks + 1
        /\ UNCHANGED <<link, toClient, session, loginReqId, attempt, told, era, issued, alive, dials>>
    BY <1>4 DEF Click, server
  <2>2. <<slot>> \in Seq(Slots)
    OBVIOUS
  <2>3. /\ slots' \in [Slots -> Nat] /\ asked' \in Nat /\ toServer' \in Seq(ReqMsg)
        /\ \A m \in In(toServer') :
              m \in In(toServer) \/ (m.json["op"] # "AUTH" /\ m.json["req_id"] >= 100 /\ m.era = era)
        /\ link \notin {"tls", "up"} => toServer' = toServer /\ busy' = busy
    BY <1>2, <1>3, <2>1, <2>2, AskFacts
  <2>4. CountInv' /\ loginReqId' = 0
    BY <1>1, <1>3, <2>1, <2>3 DEF CountInv, SessionInv
  <2>5. QED
    BY <1>2, <2>1, <2>3, <2>4, MainStep
<1>5. CASE ClickLogout
  <2> DEFINE req == AsksWith("LOGOUT", 100, NoData)
  <2>1. /\ Page = "main" /\ SendAll(<<req>>, era)
        /\ session' = NoSession /\ loginReqId' = 0 /\ slots' = Forgotten
        /\ UNCHANGED <<link, toClient, attempt, told, era, issued, alive, asked, dials, clicks>>
    BY <1>5 DEF ClickLogout, server, bounds
  <2>2. req \in Request /\ req.op # "AUTH" /\ req.req_id = 100
    <3>1. "LOGOUT" \in Ops
      BY DEF Ops
    <3>2. QED
      BY <3>1 DEF AsksWith, Request
  <2> HIDE DEF req
  <2>3. <<req>> \in Seq(Request) /\ DOMAIN <<req>> = {1} /\ <<req>>[1] = req
    BY <2>2
  <2>4. /\ toServer' \in Seq(ReqMsg)
        /\ link \notin {"tls", "up"} => toServer' = toServer /\ busy' = busy
    BY <1>2, <1>3, <2>1, <2>3, SendFacts
  <2>5. ASSUME NEW m \in In(toServer'), m \notin In(toServer)
        PROVE  m.json["op"] # "AUTH" /\ m.json["req_id"] >= 100 /\ m.era = era
    <3>1. PICK i \in DOMAIN <<req>> : /\ m.json["op"] = <<req>>[i].op
                                      /\ m.json["req_id"] = <<req>>[i].req_id
                                      /\ m.era = era
      BY <1>2, <1>3, <2>1, <2>3, <2>5, SendFacts
    <3>2. QED
      BY <2>2, <2>3, <3>1
  <2>6. CountInv'
    BY <1>1, <2>1 DEF CountInv, Forgotten
  <2>7. QED
    BY <1>2, <2>1, <2>4, <2>5, <2>6, MainStep
<1>6. QED
  BY <1>4, <1>5

\* ClientInv is inductive.
LEMMA NextClientInv == ClientInv /\ [Next]_vars => ClientInv'
<1> SUFFICES ASSUME ClientInv, [Next]_vars PROVE ClientInv'
  OBVIOUS
<1>1. CASE UNCHANGED vars
  <2>1. LinkInv'
    BY <1>1 DEF vars, ClientInv, LinkInv, Page
  <2>2. dials \in Nat /\ alive \subseteq issued
    BY DEF ClientInv, CountInv, SessionInv
  <2>3. QED
    BY <1>1, <2>1, <2>2, QuietStep DEF vars, streams
<1>2. CASE ClientStep
  BY <1>2, SignInStep, NoSignInStep, DispatchStep DEF ClientStep
<1>3. QED
  BY <1>1, <1>2, ConnectionStep, AuthStep, ServerKeepsInv, MainPageStep DEF Next

\* It holds in every state a client can reach.
LEMMA ClientKeepsInv == Spec => []ClientInv
  BY InitClientInv, NextClientInv, PTL DEF Spec

-----------------------------------------------------------------------------
(* A connection that is closed carries nothing, messages can be read, and  *)
(* the session is of a token that was given out.                           *)
THEOREM ClientTypeCorrect == Spec => []TypeOK
<1>1. ASSUME ClientInv PROVE TypeOK
  <2>1. /\ ShapeInv /\ LinkInv /\ FlightInv /\ SessionInv /\ CountInv
    BY <1>1 DEF ClientInv
  <2>2. Flying = In(toServer) \cup In(toClient)
    BY DEF Flying, In
  <2>3. ASSUME NEW m \in Flying
        PROVE  {"op", "req_id"} \subseteq DOMAIN m.json /\ m.json["op"] \in Ops /\ m.era \in 0..era
    <3>1. m \in ReqMsg \/ m \in RspMsg
      BY <2>1, <2>2, <2>3 DEF In, ShapeInv
    <3>2. {"op", "req_id"} \subseteq DOMAIN m.json /\ m.json["op"] \in Ops /\ m.era \in Nat
      BY <3>1, ReqFacts, RspFacts DEF Request, Reply
    <3>3. m.era <= era /\ era \in Nat
      BY <2>1, <2>2, <2>3 DEF FlightInv, MsgOK, CountInv
    <3>4. QED
      BY <3>2, <3>3
  <2>4. link \in {"down", "dialing"} => Flying = {} /\ ~busy
    BY <2>1, <2>2 DEF LinkInv, In
  <2>5. loginReqId \in IF Page = "main" THEN {0} ELSE {0, 1}
    BY <2>1 DEF SessionInv
  <2>6. QED
    BY <2>1, <2>3, <2>4, <2>5 DEF TypeOK, LinkInv, SessionInv, CountInv
<1>2. QED
  BY <1>1, ClientKeepsInv, PTL

(* A main page only ever gets answers to what it asked itself, however     *)
(* many users sign in and out at the client and whatever they leave in     *)
(* flight.                                                                 *)
THEOREM AnswersStayInTheirSession == Spec => []NoAnswerCrossesSessions
<1>1. ClientInv => NoAnswerCrossesSessions
  BY DEF ClientInv, FlightInv, MsgOK, NoAnswerCrossesSessions, Flying, In
<1>2. QED
  BY <1>1, ClientKeepsInv, PTL

(* Although every AUTH has the same id, the session on screen is the one   *)
(* that was asked for last.                                                *)
THEOREM SessionIsWhoAskedLast == Spec => []SessionIsOfLastAttempt
<1>1. ClientInv => SessionIsOfLastAttempt
  BY DEF ClientInv, SessionInv, SessionIsOfLastAttempt
<1>2. QED
  BY <1>1, ClientKeepsInv, PTL
=============================================================================
