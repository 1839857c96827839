------------------------------ MODULE Pipeline ------------------------------
(***************************************************************************)
(* One HTTP exchange from the middleware to the use case and back:         *)
(* NewRouter, the code generated from the contract, the handlers, the      *)
(* error handlers and the two logs.  What a use case does to the tables is *)
(* Service's and Reads' business; here a call of one returns one of the    *)
(* outcomes it can have for the payload, or panics.                        *)
(*                                                                         *)
(* Exchanges share nothing but the use cases, so there is one at a time.   *)
(* Parts of the request are chosen when the code reads them.               *)
(***************************************************************************)
EXTENDS Validation, Contract, Sequences, FiniteSets

VARIABLES
  stage,     \* where the exchange is
  depth,     \* how many middlewares it has entered and not left
  chain,     \* the middlewares, outermost first
  request,   \* method, path and X-Request-Id of the request
  body,      \* its decoded body
  outcome,   \* what the use case returned
  header,    \* X-Request-Id of the response
  allow,     \* Allow of the response
  wire,      \* status and bodies written to net/http
  recorded,  \* the status in statusRecorder, 0 as long as there is none
  log,       \* the lines logged
  client,    \* there, or gone, or too slow for the write timeout
  fault      \* history: something failed that no request can help

exchange == <<stage, depth, chain, request, body, outcome, header, allow, wire, recorded, log, client, fault>>

-----------------------------------------------------------------------------
(* The contract's operations.                                              *)

allowProbeMethods == {"GET", "POST", "PUT", "PATCH", "DELETE", "HEAD", "OPTIONS"}
Methods == allowProbeMethods \cup {"TRACE"}

Routes ==
  [ListGroups   |-> <<"GET", "/groups">>,        CreateGroup     |-> <<"POST", "/groups">>,
   DeleteGroup  |-> <<"DELETE", "/groups/{id}">>, GetGroup       |-> <<"GET", "/groups/{id}">>,
   UpdateGroup  |-> <<"PUT", "/groups/{id}">>,    ListGroupPeople |-> <<"GET", "/groups/{id}/people">>,
   GetHealthz   |-> <<"GET", "/healthz">>,        CreatePerson   |-> <<"POST", "/people">>,
   DeletePerson |-> <<"DELETE", "/people/{id}">>, GetPerson      |-> <<"GET", "/people/{id}">>,
   UpdatePerson |-> <<"PUT", "/people/{id}">>,    GetReadyz      |-> <<"GET", "/readyz">>]

Operations == DOMAIN Routes
Paths == {Routes[op][2] : op \in Operations} \cup {"/elsewhere"}
Routed(method, path) == {op \in Operations : Routes[op] = <<method, path>>}
op == CHOOSE o \in Operations : Routes[o] = <<request.method, request.path>>

WithId == {"DeleteGroup", "GetGroup", "UpdateGroup", "ListGroupPeople",
           "DeletePerson", "GetPerson", "UpdatePerson"}
WithQuery == {"ListGroups", "ListGroupPeople"}
GroupPayload == {"CreateGroup", "UpdateGroup"}
PersonPayload == {"CreatePerson", "UpdatePerson"}
WithBody == GroupPayload \cup PersonPayload

NoBody == [none |-> TRUE]
Bodies == IF op \in GroupPayload THEN GroupBodies ELSE PersonBodies

Success ==
  [o \in Operations |-> CASE o \in {"CreateGroup", "CreatePerson"} -> 201
                          [] o \in {"DeleteGroup", "DeletePerson"} -> 204
                          [] OTHER -> 200]

(* Fields of the payload the domain rejects. *)
Rejected ==
  CASE op \in GroupPayload -> GroupErrors(body)
    [] op \in PersonPayload -> PersonErrors(body)
    [] OTHER -> {}

HasNul ==
  CASE op \in GroupPayload -> GroupRowHasNul(StoredGroup(body))
    [] op \in PersonPayload -> PersonRowHasNul(StoredPerson(body))
    [] OTHER -> FALSE

Stores ==
  /\ ~HasNul
  /\ CASE op \in GroupPayload -> GroupRowChecked(StoredGroup(body))
       [] op \in PersonPayload -> PersonRowChecked(StoredPerson(body))
       [] OTHER -> TRUE

(* The lookups come first, then validation, then the write.  The readiness *)
(* probe turns a failed ping into a response of its own.                   *)
Returns ==
  Refusals(op) \cup {o \in {"not_ready"} : op = "GetReadyz"}
    \cup (IF Rejected # {} THEN {"invalid"} ELSE IF Stores THEN {"ok"} ELSE {"internal"})

(* A context that is over, a database that is down, a deadlock.  The       *)
(* liveness probe needs none of it and the readiness probe reports it.     *)
ContextMayEnd == client = "gone" \/ "timeout" \in {chain[i] : i \in DOMAIN chain}
Failures ==
  IF op \in {"GetHealthz", "GetReadyz"} THEN {}
  ELSE {"internal"} \cup (IF ContextMayEnd THEN {"aborted"} ELSE {})

-----------------------------------------------------------------------------
(* The chain.                                                              *)

(* Mutant: recover is registered first. *)
RecoverOutermost == <<"recover", "requestID", "logging">>

CommonChain == <<"requestID", "recover", "logging">>
Chains == {CommonChain, Append(CommonChain, "timeout")}

(* The request id in the context behind the first n middlewares, and       *)
(* whether the writer there is the recorder.                               *)
RequestIDAt(n) == IF \E i \in 1..n : chain[i] = "requestID" THEN header ELSE "none"
RecordsAt(n) == \E i \in 1..n : chain[i] = "logging"

(* What is logged behind the first n middlewares: an error line tells of   *)
(* the request only, a line of the access log also of the response.        *)
ErrorLine(message, n) == [message |-> message, id |-> RequestIDAt(n)]
AccessLine(status, n) == [message |-> "http request", status |-> status, id |-> RequestIDAt(n)]

(* Mutant: the last status is kept. *)
RecordLast(status, n) == IF RecordsAt(n) THEN status ELSE recorded

(* statusRecorder: the first status, if the writer is the recorder. *)
Record(status, n) == IF RecordsAt(n) /\ recorded = 0 THEN status ELSE recorded

(* What net/http sends: the first status, and all that is written after it. *)
Write(status, content, n) ==
  /\ wire' = [status |-> IF wire.status = 0 THEN status ELSE wire.status,
              bodies |-> wire.bodies \o content]
  /\ recorded' = Record(status, n)

ErrorCode(status) ==
  CASE status \in {400, 405} -> "bad_request"
    [] status = 404 -> "not_found"
    [] status = 409 -> "conflict"
    [] status = 422 -> "validation_error"
    [] OTHER -> "internal_error"

(* writeJSON with an errorBody; an error of the write is dropped. *)
WriteError(status, n) == Write(status, <<ErrorCode(status)>>, n)

-----------------------------------------------------------------------------
Init ==
  /\ stage = "idle" /\ depth = 0 /\ chain = CommonChain
  /\ request = [method |-> "GET", path |-> "/elsewhere", id |-> "none"]
  /\ body = NoBody /\ outcome = NoReply /\ header = "none" /\ allow = {}
  /\ wire = [status |-> 0, bodies |-> <<>>] /\ recorded = 0 /\ log = <<>>
  /\ client = "there" /\ fault = FALSE

Start ==
  /\ stage = "idle"
  /\ stage' = "enter" /\ chain' \in Chains
  /\ request' \in [method: Methods, path: Paths, id: {"none", "given"}]
  /\ UNCHANGED <<depth, body, outcome, header, allow, wire, recorded, log, client, fault>>

(* The client goes away, or the write timeout passes before it has taken   *)
(* the response.                                                           *)
ClientFails ==
  /\ stage \notin {"idle", "done"} /\ client = "there"
  /\ client' \in {"gone", "slow"}
  /\ UNCHANGED <<stage, depth, chain, request, body, outcome, header, allow, wire, recorded, log, fault>>

(* What a middleware does before the next one.  An id that is missing, or  *)
(* empty, is generated.                                                    *)
Enter ==
  /\ stage = "enter" /\ depth < Len(chain)
  /\ depth' = depth + 1
  /\ header' = IF chain[depth + 1] # "requestID" THEN header
               ELSE IF request.id = "none" THEN "generated" ELSE request.id
  /\ UNCHANGED <<stage, chain, request, body, outcome, allow, wire, recorded, log, client, fault>>

(* chi, with the handlers of NewRouter for what the contract does not know. *)
NotFound ==
  /\ Routed(request.method, request.path) = {} /\ \A m \in Methods : Routed(m, request.path) = {}
  /\ WriteError(404, depth) /\ stage' = "leave" /\ UNCHANGED allow

MethodNotAllowed ==
  /\ Routed(request.method, request.path) = {}
  /\ allow' = {m \in allowProbeMethods : Routed(m, request.path) # {}}
  /\ allow' # {}
  /\ WriteError(405, depth) /\ stage' = "leave"

Found ==
  /\ Routed(request.method, request.path) # {}
  /\ stage' = "bind" /\ UNCHANGED <<allow, wire, recorded>>

Route ==
  /\ stage = "enter" /\ depth = Len(chain)
  /\ NotFound \/ MethodNotAllowed \/ Found
  /\ UNCHANGED <<depth, chain, request, body, outcome, header, log, client, fault>>

AfterBind == IF op \in WithBody THEN "decode" ELSE "call"
BadRequest == WriteError(400, depth) /\ stage' = "leave"

(* Mutant: the return behind the error handler is missing. *)
BindGoesOn ==
  /\ stage = "bind"
  /\ \/ UNCHANGED <<wire, recorded>>
     \/ op \in WithId \cup WithQuery /\ WriteError(400, depth)
  /\ stage' = AfterBind
  /\ UNCHANGED <<depth, chain, request, body, outcome, header, allow, log, client, fault>>

(* ServerInterfaceWrapper: the id in the path and the query parameters. *)
Bind ==
  /\ stage = "bind"
  /\ \/ stage' = AfterBind /\ UNCHANGED <<wire, recorded>>
     \/ op \in WithId \cup WithQuery /\ BadRequest
  /\ UNCHANGED <<depth, chain, request, body, outcome, header, allow, log, client, fault>>

(* strictHandler: no body, or one that is not the JSON of the payload, ends *)
(* here.                                                                    *)
Decode ==
  /\ stage = "decode"
  /\ \/ body' \in Bodies /\ stage' = "call" /\ UNCHANGED <<wire, recorded>>
     \/ BadRequest /\ UNCHANGED body
  /\ UNCHANGED <<depth, chain, request, outcome, header, allow, log, client, fault>>

(* The handler calls the use case. *)
Call ==
  /\ stage = "call"
  /\ \/ outcome' \in Returns /\ UNCHANGED fault
     \/ outcome' \in Failures /\ fault' = TRUE
  /\ stage' = IF outcome' \in {"ok", "not_ready"} THEN "visit" ELSE "error"
  /\ UNCHANGED <<depth, chain, request, body, header, allow, wire, recorded, log, client>>

Panic ==
  /\ stage = "call"
  /\ stage' = "unwind" /\ fault' = TRUE
  /\ UNCHANGED <<depth, chain, request, body, outcome, header, allow, wire, recorded, log, client>>

(* The response object writes itself.  A write to a client that is gone or *)
(* too slow may fail, which strictHandler reports like an error of the use *)
(* case.                                                                   *)
Visit ==
  LET status == IF outcome = "not_ready" THEN 503 ELSE Success[op]
      content == CASE status = 204 -> <<>>
                   [] status = 503 -> <<ErrorCode(503)>>
                   [] OTHER -> <<"resource">>
  IN /\ stage = "visit"
     /\ \/ Write(status, content, depth) /\ stage' = "leave" /\ UNCHANGED <<outcome, fault>>
        \/ /\ client # "there" /\ content # <<>>
           /\ Write(status, <<>>, depth)
           /\ stage' = "error" /\ outcome' = "internal" /\ fault' = TRUE
     /\ UNCHANGED <<depth, chain, request, body, header, allow, log, client>>

(* responseErrorHandler. *)
HandleError ==
  LET status == mapError(outcome)
  IN /\ stage = "error"
     /\ log' = IF status >= 500 THEN Append(log, ErrorLine("request failed", depth)) ELSE log
     /\ WriteError(status, depth) /\ stage' = "leave"
     /\ UNCHANGED <<depth, chain, request, body, outcome, header, allow, client, fault>>

(* What a middleware does after the next one has returned. *)
Leave ==
  /\ stage = "leave" /\ depth > 0
  /\ log' = IF chain[depth] = "logging"
              THEN Append(log, AccessLine(IF recorded = 0 THEN 200 ELSE recorded, depth - 1))
              ELSE log
  /\ depth' = depth - 1
  /\ stage' = IF depth = 1 THEN "done" ELSE "leave"
  /\ UNCHANGED <<chain, request, body, outcome, header, allow, wire, recorded, client, fault>>

(* A panic skips what the middlewares do afterwards, up to the recovery. *)
Unwind ==
  /\ stage = "unwind" /\ depth > 0
  /\ depth' = depth - 1
  /\ IF chain[depth] = "recover"
       THEN /\ log' = Append(log, ErrorLine("panic recovered", depth - 1))
            /\ WriteError(500, depth - 1)
            /\ stage' = IF depth = 1 THEN "done" ELSE "leave"
       ELSE /\ stage' = IF depth = 1 THEN "done" ELSE "unwind"
            /\ UNCHANGED <<log, wire, recorded>>
  /\ UNCHANGED <<chain, request, body, outcome, header, allow, client, fault>>

(* The next exchange starts with nothing from this one. *)
Finish ==
  /\ stage = "done"
  /\ stage' = "idle" /\ depth' = 0 /\ chain' = CommonChain
  /\ request' = [method |-> "GET", path |-> "/elsewhere", id |-> "none"]
  /\ body' = NoBody /\ outcome' = NoReply /\ header' = "none" /\ allow' = {}
  /\ wire' = [status |-> 0, bodies |-> <<>>] /\ recorded' = 0 /\ log' = <<>>
  /\ client' = "there" /\ fault' = FALSE

Next ==
  \/ Start \/ ClientFails \/ Enter \/ Route \/ Bind \/ Decode \/ Call \/ Panic
  \/ Visit \/ HandleError \/ Leave \/ Unwind \/ Finish

Spec == Init /\ [][Next]_exchange

-----------------------------------------------------------------------------
(* Properties.                                                             *)

Done == stage = "done"
Lines(messages) == {i \in DOMAIN log : log[i].message \in messages}
Panicked == Lines({"panic recovered"}) # {}

(* middleware.go: every exchange leaves one line of the access log, or of  *)
(* the recovery when a panic has skipped the access log, under the id that *)
(* its X-Request-Id tells.  The access log has the status the response     *)
(* really has; a line of the recovery has none and stands for a 500.       *)
LogIsTrue ==
  Done => \E i \in DOMAIN log :
    /\ Lines({"http request", "panic recovered"}) = {i}
    /\ log[i].id = header
    /\ wire.status = IF log[i].message = "http request" THEN log[i].status ELSE 500

(* errors.go and middleware.go: whatever is answered 500 leaves exactly    *)
(* one error line, under the id the caller was told.                       *)
FaultsAreTraceable ==
  Done /\ wire.status = 500 => \E i \in DOMAIN log :
    /\ Lines({"request failed", "panic recovered"}) = {i}
    /\ log[i].id = header /\ header # "none"

(* Every way through the chain writes one response: a body where there is  *)
(* one to write, in the error format with the code of the status from 400  *)
(* on, and never two.  A 405, and nothing else, names the methods to use   *)
(* instead.  Only a client that is gone or too slow may miss its body.     *)
AnswersAreWhole ==
  Done /\ client = "there" =>
    /\ wire.bodies = CASE wire.status = 204 -> <<>>
                       [] wire.status \in {200, 201} -> <<"resource">>
                       [] OTHER -> <<ErrorCode(wire.status)>>
    /\ wire.status = 405 <=> allow # {}
    /\ request.method \notin allow

(* domain and schema: nothing a caller can send is answered 500, because   *)
(* what validation lets through, trimmed as it is written, keeps every     *)
(* CHECK.  The exception is U+0000, which no rule of the domain looks for. *)
CallersCauseNoFault == Done /\ wire.status = 500 => fault \/ HasNul

(* api/openapi.yaml: the statuses each operation lists. *)
Documented ==
  [ListGroups   |-> {200, 400, 500},      CreateGroup     |-> {201, 400, 404, 422, 500},
   DeleteGroup  |-> {204, 404, 409, 500}, GetGroup        |-> {200, 404, 500},
   UpdateGroup  |-> {200, 400, 404, 409, 422, 500}, ListGroupPeople |-> {200, 400, 404, 500},
   GetHealthz   |-> {200},                CreatePerson    |-> {201, 400, 404, 422, 500},
   DeletePerson |-> {204, 404, 500},      GetPerson       |-> {200, 404, 500},
   UpdatePerson |-> {200, 400, 404, 422, 500}, GetReadyz  |-> {200, 503}]

(* api/openapi.yaml: an operation answers with a status listed for it. *)
StatusesAreDocumented ==
  Done /\ ~Panicked /\ Routed(request.method, request.path) # {} =>
    wire.status \in Documented[op]

(* internal/domain/group.go: a name refused with the message "must be at   *)
(* most 255 characters" has more than 255 characters.                      *)
LongNamesAreLong ==
  outcome = "invalid" =>
    \A e \in Rejected :
      e[2] = "must be at most 255 characters" => CharLength(body[e[1]]) > 255
=============================================================================
