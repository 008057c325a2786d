-------------------------------- MODULE Wire --------------------------------
(***************************************************************************)
(* Requests and responses as JSON objects (protocol.cpp, protocol.h).  An  *)
(* object is a function from its keys to values; an optional result is a   *)
(* set of at most one element.  Enumerators are written as their wire      *)
(* codes.  The key "version" is written, and read by nobody: left out.     *)
(***************************************************************************)
CONSTANTS NoToken,           \* the empty token
          NoData             \* an empty "data" object

Ops == {"AUTH", "LOGOUT", "ME", "RESOURCE_LIST", "RESOURCE_GET", "RESOURCE_CREATE",
        "RESOURCE_UPDATE", "RESOURCE_DELETE", "POLICY_LIST", "POLICY_CREATE",
        "POLICY_UPDATE", "POLICY_DELETE", "USER_LIST", "USER_CREATE", "USER_UPDATE",
        "USER_DELETE", "ACCESS_CHECK", "GRANT_ACCESS", "REVOKE_ACCESS", "AUDIT_QUERY"}

Statuses == {"ok", "denied", "error"}

ResultCodes == {"OK", "AUTH_DENIED", "AUTH_FAILED_TOO_MANY", "ACCOUNT_LOCKED",
                "ACCOUNT_INACTIVE", "TOKEN_INVALID", "TOKEN_EXPIRED", "ACCESS_DENIED",
                "RESOURCE_NOT_FOUND", "VALIDATION_ERROR", "UNSUPPORTED_OP", "SERVER_BUSY",
                "INTERNAL_ERROR"}

\* opFromString(), statusFromString(), resultCodeFromString(): unknown codes are none.
OpFromString(s)         == {op \in Ops : op = s}
StatusFromString(s)     == {st \in Statuses : st = s}
ResultCodeFromString(s) == {rc \in ResultCodes : rc = s}

\* obj["key"], or what Qt gives for a key that is not there.
ValueOf(obj, key, default) == IF key \in DOMAIN obj THEN obj[key] ELSE default

\* Request::toJson(): an empty token is not written.
RequestToJson(req) ==
    [key \in {"op", "req_id", "data"} \cup (IF req.token = NoToken THEN {} ELSE {"token"})
        |-> req[key]]

\* Bug: a request without a token is taken for malformed.
RequestFromJson_NeedsToken(obj) ==
    {[op |-> op, req_id |-> obj["req_id"], token |-> obj["token"],
      data |-> ValueOf(obj, "data", NoData)] :
        op \in IF {"op", "req_id", "token"} \subseteq DOMAIN obj THEN OpFromString(obj["op"])
                                                                 ELSE {}}

\* Request::fromJson()
RequestFromJson(obj) ==
    {[op |-> op, req_id |-> obj["req_id"], token |-> ValueOf(obj, "token", NoToken),
      data |-> ValueOf(obj, "data", NoData)] :
        op \in IF {"op", "req_id"} \subseteq DOMAIN obj THEN OpFromString(obj["op"]) ELSE {}}

\* Response::toJson()
ResponseToJson(resp) == [key \in {"op", "req_id", "status", "code", "data"} |-> resp[key]]

\* Response::fromJson()
ResponseFromJson(obj) ==
    IF {"op", "status", "code"} \subseteq DOMAIN obj
    THEN {[op |-> op, req_id |-> ValueOf(obj, "req_id", 0), status |-> st, code |-> rc,
           data |-> ValueOf(obj, "data", NoData)] :
             op \in OpFromString(obj["op"]), st \in StatusFromString(obj["status"]),
             rc \in ResultCodeFromString(obj["code"])}
    ELSE {}

\* PEP::ok() and PEP::error()
OkResponse(req, data) == [op |-> req.op, req_id |-> req.req_id, status |-> "ok",
                          code |-> "OK", data |-> data]
ErrorResponse(req, code) == [op |-> req.op, req_id |-> req.req_id, status |-> "error",
                             code |-> code, data |-> NoData]

\* What Listener::processRequest() answers to an object that is no request.
Malformed == [op |-> "AUTH", req_id |-> 0, status |-> "error",
              code |-> "VALIDATION_ERROR", data |-> NoData]
=============================================================================
