------------------------------ MODULE Transport ------------------------------
(***************************************************************************)
(* One connection between client::ApiClient and server::Listener: length-  *)
(* prefixed frames over a byte stream that arrives in arbitrary chunks     *)
(* (protocol.cpp frame/readFrame, listener.cpp, api_client.cpp).           *)
(*                                                                         *)
(* A frame is two units, its header and its payload; a chunk is any number *)
(* of units.  An arriving chunk makes Qt append it to the socket's buffer  *)
(* and emit readyRead once; the slot runs to its end in the same step.     *)
(* PEP::handle() is abstracted to the reply it always returns.             *)
(***************************************************************************)
EXTENDS Integers, Sequences, FiniteSets

CONSTANTS Kinds,             \* what peers send: a subset of AllKinds
          MaxRequests,       \* bound of requests
          MaxDrops,          \* bound of connections lost
          Window             \* bound of requests unanswered at a time

\* request: parses; badop: JSON, but no Request; garbage: no JSON object;
\* oversize: longer than kMaxPayloadSize.
AllKinds == {"request", "badop", "garbage", "oversize"}

ASSUME TransportAssumption ==
    /\ Kinds \subseteq AllKinds
    /\ MaxRequests \in Nat /\ MaxDrops \in Nat /\ Window \in Nat \ {0}

VARIABLES connected,         \* the socket is in ConnectedState
          toServer, serverBuf,  \* units in flight and in the socket's buffer
          toClient, clientBuf,
          sent,              \* requests written so far, oldest first
          answered,          \* responses the client has taken off its socket
          busy,              \* ApiClient::m_busy
          drops,             \* connections lost so far
          mark,              \* requests sent before the last of them
          window             \* requests this client leaves unanswered at a time

streams == <<toServer, serverBuf, toClient, clientBuf>>
vars == <<connected, toServer, serverBuf, toClient, clientBuf, sent, answered, busy, drops, mark,
          window>>

-----------------------------------------------------------------------------
\* frame(): the header, then the payload.
Frame(msg) == <<[half |-> "header", msg |-> msg], [half |-> "payload", msg |-> msg]>>

\* Bug: `<=` for `<` where the payload's arrival is checked.
FrameReady_WaitsForMore(buf) == Len(buf) > 2 /\ buf[1].msg.kind # "oversize"

\* readFrame() finds a header it accepts and the whole payload.
FrameReady(buf) == /\ Len(buf) >= 2
                   /\ buf[1].msg.kind # "oversize"

\* Bug: the header of an oversized frame is consumed.
AfterRead_SkipsHeader(buf) == IF FrameReady(buf) THEN SubSeq(buf, 3, Len(buf))
                              ELSE IF Len(buf) >= 2 THEN Tail(buf) ELSE buf

\* Bug: the frame is peeked at and not taken.
AfterRead_Peeks(buf) == buf

\* What readFrame() leaves: an unfit or partial frame is not consumed.
AfterRead(buf) == IF FrameReady(buf) THEN SubSeq(buf, 3, Len(buf)) ELSE buf

\* What readFrame() returns: no object if nothing was read or it is no JSON.
ObjectsRead(buf) == IF FrameReady(buf) /\ buf[1].msg.kind # "garbage"
                    THEN <<buf[1].msg>> ELSE <<>>

\* processRequest(): what no Request can be made of is answered with req_id 0.
Response(msg) == [id |-> IF msg.kind = "badop" THEN 0 ELSE msg.id,
                  kind |-> "reply", to |-> msg]

Answered(i) == \E j \in DOMAIN answered : answered[j].to.id = i

Awaited == {i \in mark + 1..Len(sent) : ~Answered(i)}

Init == /\ connected = TRUE
        /\ toServer = <<>> /\ serverBuf = <<>>
        /\ toClient = <<>> /\ clientBuf = <<>>
        /\ sent = <<>> /\ answered = <<>>
        /\ busy = FALSE
        /\ drops = 0 /\ mark = 0
        /\ window \in 1..Window

\* sendRequest(); without a connection it returns and nothing is kept.
SendRequest(kind) ==
    /\ connected
    /\ Len(sent) < MaxRequests
    /\ Cardinality(Awaited) < window
    /\ LET msg == [id |-> Len(sent) + 1, kind |-> kind]
       IN /\ toServer' = toServer \o Frame(msg)
          /\ sent' = Append(sent, msg)
    /\ busy' = TRUE
    /\ UNCHANGED <<connected, serverBuf, toClient, clientBuf, answered, drops, mark, window>>

\* Listener::onReadyRead(), processRequest(): at most one frame per signal.
ServerReadyRead(n) ==
    /\ n \in 1..Len(toServer)
    /\ toServer' = SubSeq(toServer, n + 1, Len(toServer))
    /\ LET buf == serverBuf \o SubSeq(toServer, 1, n)
           got == ObjectsRead(buf)
       IN /\ serverBuf' = AfterRead(buf)
          /\ toClient' = IF got = <<>> THEN toClient
                         ELSE toClient \o Frame(Response(Head(got)))
    /\ UNCHANGED <<connected, clientBuf, sent, answered, busy, drops, mark, window>>

\* ApiClient::onReadyRead(), processResponse(): again at most one frame.
ClientReadyRead(n) ==
    /\ n \in 1..Len(toClient)
    /\ toClient' = SubSeq(toClient, n + 1, Len(toClient))
    /\ LET buf == clientBuf \o SubSeq(toClient, 1, n)
           got == ObjectsRead(buf)
       IN /\ clientBuf' = AfterRead(buf)
          /\ answered' = answered \o got
          /\ busy' = (busy /\ got = <<>>)
    /\ UNCHANGED <<connected, toServer, serverBuf, sent, drops, mark, window>>

\* Bug: the server's buffer outlives the connection.
Disconnect_KeepsBuffer ==
    /\ connected /\ drops < MaxDrops
    /\ connected' = FALSE
    /\ toServer' = <<>> /\ toClient' = <<>> /\ clientBuf' = <<>>
    /\ busy' = FALSE
    /\ drops' = drops + 1 /\ mark' = Len(sent)
    /\ UNCHANGED <<serverBuf, sent, answered, window>>

\* Bug: the client stays busy.
Disconnect_StaysBusy ==
    /\ connected /\ drops < MaxDrops
    /\ connected' = FALSE
    /\ toServer' = <<>> /\ serverBuf' = <<>>
    /\ toClient' = <<>> /\ clientBuf' = <<>>
    /\ drops' = drops + 1 /\ mark' = Len(sent)
    /\ UNCHANGED <<sent, answered, busy, window>>

\* Both onDisconnected() slots; what is in flight or buffered is gone.
Disconnect ==
    /\ connected /\ drops < MaxDrops
    /\ connected' = FALSE
    /\ toServer' = <<>> /\ serverBuf' = <<>>
    /\ toClient' = <<>> /\ clientBuf' = <<>>
    /\ busy' = FALSE
    /\ drops' = drops + 1 /\ mark' = Len(sent)
    /\ UNCHANGED <<sent, answered, window>>

\* connectToServer() does nothing on a live connection.
Connect == /\ ~connected
           /\ connected' = TRUE
           /\ UNCHANGED <<streams, sent, answered, busy, drops, mark, window>>

ServerStep == \E n \in 1..Len(toServer) : ServerReadyRead(n)
ClientStep == \E n \in 1..Len(toClient) : ClientReadyRead(n)

Next == (\E k \in Kinds : SendRequest(k)) \/ ServerStep \/ ClientStep \/ Disconnect \/ Connect

\* TCP delivers while the connection lives and Qt's event loop runs the slots.
Fairness == WF_vars(ServerStep) /\ WF_vars(ClientStep)

Spec == Init /\ [][Next]_vars

FairSpec == Spec /\ Fairness

-----------------------------------------------------------------------------
\* A stream from its reader's position on: whole frames but for the last one's rest.
Aligned(units) == \A i \in DOMAIN units :
                     /\ units[i].half = (IF i % 2 = 1 THEN "header" ELSE "payload")
                     /\ i % 2 = 0 => units[i].msg = units[i - 1].msg

Stream(dir) == IF dir = "toServer" THEN serverBuf \o toServer ELSE clientBuf \o toClient

\* The messages of a stream, in order.
FramesOf(units) == [i \in 1..Len(units) \div 2 |-> units[2 * i].msg]

Req == [id : 1..MaxRequests, kind : AllKinds]
Rsp == [id : 0..MaxRequests, kind : {"reply"}, to : Req]
Units(M) == [half : {"header", "payload"}, msg : M]

(* Streams and buffers hold units of requests one way and of responses the *)
(* other way, and nothing is in flight on a closed connection.             *)
TypeOK ==
    /\ connected \in BOOLEAN /\ busy \in BOOLEAN
    /\ toServer \in Seq(Units(Req)) /\ serverBuf \in Seq(Units(Req))
    /\ toClient \in Seq(Units(Rsp)) /\ clientBuf \in Seq(Units(Rsp))
    /\ sent \in Seq(Req) /\ answered \in Seq(Rsp)
    /\ drops \in 0..MaxDrops /\ mark \in 0..MaxRequests
    /\ window \in 1..Window
    /\ ~connected => Stream("toServer") = <<>> /\ Stream("toClient") = <<>>

(* However the bytes are cut, both ends always stand at a frame boundary:  *)
(* readFrame() takes a header only together with its payload               *)
(* (protocol.cpp 287-323), so no payload byte is ever read as a length.    *)
InStep == Aligned(Stream("toServer")) /\ Aligned(Stream("toClient"))

\* The requests not yet answered: first those whose reply is on its way.
Replies == FramesOf(Stream("toClient"))
pendingMap == [i \in DOMAIN Replies |-> Replies[i].to] \o FramesOf(Stream("toServer"))
doneMap == [j \in DOMAIN answered |-> answered[j].to]

Promise == INSTANCE RequestReply WITH Messages <- Req, pending <- pendingMap, done <- doneMap

(* One reply for each request, in the order of the requests, also when     *)
(* requests are pipelined and chunks split or join frames: nothing is      *)
(* answered twice, overtaken, or lost but with the connection.             *)
RefinesRequestReply == Promise!Spec

(* ApiClient::busy, which the login button waits for (LoginPage.qml:66):   *)
(* for a client with one request at a time it says that an answer is due.  *)
BusyWhileAwaiting == window = 1 => (busy <=> Awaited # {})

\* Request i was sent, and it and the ones before it are JSON.
Readable(i) == /\ i <= Len(sent)
               /\ \A j \in 1..i : sent[j].kind \in {"request", "badop"}

(* Every request is answered unless the connection is lost, however the    *)
(* bytes are cut (the loop of docs/protocol.md 219-226): so it is for a    *)
(* client that sends JSON frames and waits for each reply.                 *)
EveryRequestAnswered ==
    \A i \in 1..MaxRequests :
        window = 1 /\ Readable(i) ~> Answered(i) \/ i <= mark

-----------------------------------------------------------------------------
(* What the documents promise and the code does not do.                    *)

(* The loop of docs/protocol.md 219-226 for any client: every JSON request *)
(* is answered unless the connection is lost.                              *)
PipelinedAnswered ==
    \A i \in 1..MaxRequests : Readable(i) ~> Answered(i) \/ i <= mark
=============================================================================
