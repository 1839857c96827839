--------------------------- MODULE PipelineProofs ---------------------------
(***************************************************************************)
(* Two results about Pipeline, each with its inductive invariant.          *)
(*                                                                         *)
(* What validation lets through keeps the CHECK constraints, for texts of  *)
(* every length and padding in every encoding, and therefore nothing a     *)
(* caller sends is answered 500.                                           *)
(*                                                                         *)
(* Every exchange is answered by one whole response and logged truly,      *)
(* whichever way it takes through the chain.                               *)
(***************************************************************************)
EXTENDS Pipeline, SequenceTheorems, TLAPS

(* internal/domain against migrations/000001_init.up.sql: a name without   *)
(* an error, trimmed, passes the CHECK on char_length although the rule    *)
(* counted bytes: a character takes at least one.                          *)
LEMMA NamesPassChecks ==
  ASSUME NEW field, NEW text \in Texts, NameErrors(field, text) = {}
  PROVE  NameChecked(TrimSpace(text))
<1> DEFINE n == text.chars
           w == text.width
<1>1. n \in Nat /\ w \in Nat /\ w >= 1
  <2>1. text.chars \in Lengths /\ text.width \in Widths
    BY DEF Texts
  <2>2. text.chars \in Nat /\ text.width \in Nat \ {0}
    BY <2>1, CharactersTakeBytes, SizesAreNumbers
  <2> QED
    BY <2>2
<1>2. TrimSpace(text).pad = 0 /\ TrimSpace(text).chars = n /\ TrimSpace(text).width = w
  BY DEF TrimSpace, Texts
<1>3. n * w >= 1 /\ n * w <= 255
  <2>1. n * w \in Nat /\ Len8(TrimSpace(text)) = 0 + n * w
    BY <1>1, <1>2 DEF Len8
  <2>2. ~(Len8(TrimSpace(text)) < 1) /\ ~(Len8(TrimSpace(text)) > 255)
    BY DEF NameErrors, NameMinLen, NameMaxLen
  <2> QED
    BY <2>1, <2>2
<1>4. n * w >= n /\ (n = 0 => n * w = 0)
  BY <1>1
<1>5. n \in 1..255
  BY <1>1, <1>3, <1>4
<1> QED
  BY <1>1, <1>2, <1>5 DEF NameChecked, CharLength

(* NewGroup and Rename: what Validate accepts keeps the CHECKs of groups. *)
LEMMA GroupsPassChecks ==
  ASSUME NEW b \in GroupBodies, GroupErrors(b) = {}
  PROVE  GroupRowChecked(StoredGroup(b))
BY NamesPassChecks DEF GroupBodies, GroupErrors, GroupRowChecked, StoredGroup

(* NewPerson and Update: what Validate accepts keeps the CHECKs of people. *)
LEMMA PeoplePassChecks ==
  ASSUME NEW b \in PersonBodies, PersonErrors(b) = {}
  PROVE  PersonRowChecked(StoredPerson(b))
<1>1. /\ NameErrors("first_name", b.first_name) = {}
      /\ NameErrors("last_name", b.last_name) = {}
      /\ YearErrors(b.birth_year) = {}
  BY DEF PersonErrors
<1>2. b.first_name \in Texts /\ b.last_name \in Texts /\ b.birth_year \in Nat
  BY SizesAreNumbers DEF PersonBodies
<1>3. b.birth_year \in 1900..2100
  <2>1. ~(b.birth_year < BirthYearLo \/ b.birth_year > BirthYearHi)
    BY <1>1, Zenon DEF YearErrors
  <2> QED
    BY <1>2, <2>1 DEF BirthYearLo, BirthYearHi
<1> QED
  BY <1>1, <1>2, <1>3, NamesPassChecks DEF PersonRowChecked, StoredPerson

-----------------------------------------------------------------------------
(* The inductive invariant of the first result.                            *)

Excused == fault \/ HasNul

BeforeAnswer == stage \in {"idle", "enter", "bind", "decode", "call", "visit"} => wire.status = 0
Matched == stage \in {"bind", "decode", "call", "visit"} => Routed(request.method, request.path) # {}
Decoded == stage = "call" /\ op \in WithBody => body \in Bodies
AnswerExcused == wire.status = 500 => Excused
ErrorExcused == stage = "error" /\ mapError(outcome) = 500 => Excused
UnwindExcused == stage = "unwind" => fault

FaultInv ==
  BeforeAnswer /\ Matched /\ Decoded /\ AnswerExcused /\ ErrorExcused /\ UnwindExcused

(* A request the router has a handler for is one of an operation of the    *)
(* contract.                                                               *)
LEMMA MatchedOperation ==
  ASSUME Routed(request.method, request.path) # {} PROVE op \in Operations
<1>1. PICK o \in Operations : Routes[o] = <<request.method, request.path>>
  BY DEF Routed
<1> QED
  BY <1>1 DEF op

(* Refusals are never the caller's 500. *)
LEMMA RefusalsAreMapped ==
  ASSUME NEW o, NEW r \in Refusals(o) PROVE mapError(r) # 500
<1>1. r \in {"not_found", "unknown_parent", "unknown_group", "cyclic", "has_children", "has_people"}
  BY DEF Refusals, GroupRefusals, PersonRefusals
<1> QED
  BY <1>1 DEF mapError

(* A use case that returns an error it does not know met U+0000. *)
LEMMA UnknownErrorIsNul ==
  ASSUME Decoded, stage = "call", NEW r \in Returns, mapError(r) = 500, r # "not_ready"
  PROVE  HasNul
<1>1. mapError("invalid") # 500 /\ mapError("ok") # 500
  BY DEF mapError
<1>2. Rejected = {} /\ ~Stores
  BY <1>1, RefusalsAreMapped DEF Returns
<1>3. CASE op \in GroupPayload
  <2>0. op \notin PersonPayload
    BY <1>3 DEF GroupPayload, PersonPayload
  <2>1. body \in GroupBodies
    BY <1>3 DEF Decoded, WithBody, Bodies
  <2>2. GroupErrors(body) = {}
    BY <1>2, <1>3, <2>0 DEF Rejected
  <2>3. GroupRowChecked(StoredGroup(body))
    BY <2>1, <2>2, GroupsPassChecks
  <2> QED
    BY <1>2, <1>3, <2>0, <2>3 DEF Stores
<1>4. CASE op \in PersonPayload
  <2>0. op \notin GroupPayload
    BY <1>4 DEF GroupPayload, PersonPayload
  <2>1. body \in PersonBodies
    BY <1>4, <2>0 DEF Decoded, WithBody, Bodies
  <2>2. PersonErrors(body) = {}
    BY <1>2, <1>4, <2>0 DEF Rejected
  <2>3. PersonRowChecked(StoredPerson(body))
    BY <2>1, <2>2, PeoplePassChecks
  <2> QED
    BY <1>2, <1>4, <2>0, <2>3 DEF Stores
<1>5. CASE op \notin GroupPayload \cup PersonPayload
  BY <1>2, <1>5 DEF Stores
<1> QED
  BY <1>3, <1>4, <1>5

(* No exchange starts with a fault. *)
LEMMA FaultInit == Init => FaultInv
BY DEF Init, FaultInv, BeforeAnswer, Matched, Decoded, AnswerExcused, ErrorExcused, UnwindExcused

(* A step that keeps request and body keeps what they excuse. *)
LEMMA ExcuseStays ==
  ASSUME UNCHANGED <<request, body>>, fault => fault', Excused PROVE Excused'
BY DEF Excused, HasNul, op, Routed

(* Every step of an exchange keeps the invariant on faults. *)
LEMMA FaultStep ==
  ASSUME FaultInv, [Next]_exchange PROVE FaultInv'
<1> USE DEF FaultInv
<1>1. CASE Start \/ Finish
  BY <1>1 DEF Start, Finish, BeforeAnswer, Matched, Decoded, AnswerExcused, ErrorExcused, UnwindExcused
<1>2. CASE Decode
  <2>1. wire.status = 0
    BY <1>2 DEF Decode, BeforeAnswer
  <2> QED
    BY <1>2, <2>1 DEF Decode, BadRequest, WriteError, Write, BeforeAnswer, Matched, Decoded,
                      AnswerExcused, ErrorExcused, UnwindExcused, Bodies, op, Routed
<1>3. CASE ClientFails \/ Enter
  <2>1. UNCHANGED <<request, body, fault, outcome, stage, wire>>
    BY <1>3 DEF ClientFails, Enter
  <2> QED
    BY <2>1, ExcuseStays
      DEF BeforeAnswer, Matched, Decoded, AnswerExcused, ErrorExcused, UnwindExcused, Bodies, op
<1>11. CASE Route \/ Bind
  <2>1. UNCHANGED <<request, body, fault, outcome>> /\ wire.status = 0
    BY <1>11 DEF Route, Bind, BeforeAnswer
  <2>2. \/ stage' = "leave" /\ wire'.status # 500
        \/ UNCHANGED wire /\ Routed(request.method, request.path) # {}
             /\ stage' \in {"bind", "decode", "call"} /\ (stage' = "call" => op \notin WithBody)
    BY <1>11, <2>1
      DEF Route, NotFound, MethodNotAllowed, Found, Bind, AfterBind, BadRequest, WriteError, Write, Matched
  <2> QED
    BY <2>1, <2>2
      DEF BeforeAnswer, Matched, Decoded, AnswerExcused, ErrorExcused, UnwindExcused, op
<1>4. CASE Call
  <2>1. UNCHANGED <<request, body, wire>> /\ stage = "call" /\ wire.status = 0
    BY <1>4 DEF Call, BeforeAnswer
  <2>2. BeforeAnswer' /\ Matched' /\ Decoded' /\ AnswerExcused' /\ UnwindExcused'
    BY <1>4, <2>1 DEF Call, BeforeAnswer, Matched, Decoded, AnswerExcused, UnwindExcused, Routed, op
  <2>3. ErrorExcused'
    <3> SUFFICES ASSUME stage' = "error", mapError(outcome') = 500 PROVE Excused'
      BY DEF ErrorExcused
    <3>1. CASE outcome' \in Returns
      <4>1. outcome' # "not_ready"
        BY <1>4 DEF Call
      <4>2. HasNul
        BY <2>1, <3>1, <4>1, UnknownErrorIsNul
      <4> QED
        BY <2>1, <4>2 DEF Excused, HasNul, op
    <3>2. CASE fault'
      BY <3>2 DEF Excused
    <3> QED
      BY <1>4, <3>1, <3>2 DEF Call
  <2> QED
    BY <2>2, <2>3
<1>5. CASE Panic
  BY <1>5 DEF Panic, BeforeAnswer, Matched, Decoded, AnswerExcused, ErrorExcused, UnwindExcused, Excused
<1>6. CASE Visit
  <2>1. /\ UNCHANGED <<request, body>>
        /\ op \in Operations
        /\ wire.status = 0
    BY <1>6, MatchedOperation DEF Visit, BeforeAnswer, Matched
  <2>2. Success[op] # 500 /\ (IF outcome = "not_ready" THEN 503 ELSE Success[op]) # 500
    BY <2>1 DEF Success
  <2>3. ASSUME NEW status, NEW content, Write(status, content, depth), status # 500
        PROVE  wire'.status # 500
    BY <2>1, <2>3 DEF Write
  <2>4. wire'.status # 500
    BY ONLY <1>6, <2>2, <2>3 DEF Visit
  <2>5. stage' \in {"leave", "error"} /\ (stage' = "error" => fault')
    BY ONLY <1>6 DEF Visit
  <2> QED
    BY <2>4, <2>5 DEF BeforeAnswer, Matched, Decoded, AnswerExcused, ErrorExcused, UnwindExcused, Excused
<1>7. CASE HandleError
  <2>1. /\ UNCHANGED <<request, body, fault>>
        /\ stage = "error" /\ stage' = "leave"
        /\ wire'.status \in {wire.status, mapError(outcome)}
    BY <1>7 DEF HandleError, WriteError, Write
  <2> QED
    BY <2>1, ExcuseStays DEF BeforeAnswer, Matched, Decoded, AnswerExcused, ErrorExcused, UnwindExcused
<1>8. CASE Leave
  <2>1. UNCHANGED <<request, body, fault, wire>> /\ stage' \in {"leave", "done"}
    BY <1>8 DEF Leave
  <2> QED
    BY <2>1, ExcuseStays DEF BeforeAnswer, Matched, Decoded, AnswerExcused, ErrorExcused, UnwindExcused
<1>9. CASE Unwind
  <2>1. fault' /\ stage' \in {"leave", "done", "unwind"}
    BY <1>9 DEF Unwind, UnwindExcused
  <2> QED
    BY <2>1 DEF BeforeAnswer, Matched, Decoded, AnswerExcused, ErrorExcused, UnwindExcused, Excused
<1>10. CASE UNCHANGED exchange
  BY <1>10 DEF exchange, BeforeAnswer, Matched, Decoded, AnswerExcused, ErrorExcused, UnwindExcused,
               Excused, HasNul, Bodies, op, Routed
<1> QED
  BY <1>1, <1>2, <1>3, <1>4, <1>5, <1>6, <1>7, <1>8, <1>9, <1>10, <1>11 DEF Next

(* Nothing a caller can send, U+0000 apart, is answered 500, whatever the  *)
(* lengths, widths and paddings of the texts and the birth years are.      *)
THEOREM CallersAreSafe == Spec => []CallersCauseNoFault
<1>1. FaultInv => CallersCauseNoFault
  BY DEF FaultInv, AnswerExcused, Excused, CallersCauseNoFault
<1> QED
  BY <1>1, FaultInit, FaultStep, PTL DEF Spec

-----------------------------------------------------------------------------
(* The inductive invariant of the second result: where in the chain the    *)
(* exchange is, and what must have been written and logged there.          *)

Inside == {"bind", "decode", "call", "visit", "error"}

Placed ==
  /\ chain \in Chains
  /\ depth \in 0..Len(chain)
  /\ stage \in {"idle", "enter", "leave", "unwind", "done"} \cup Inside
  /\ stage \in Inside => depth = Len(chain)
  /\ stage \in {"idle", "done"} => depth = 0
  /\ stage = "leave" => depth >= 1
  /\ stage = "unwind" => depth >= 2

(* The id is set by the outermost middleware and stays.                    *)
Identified == (stage \notin {"idle", "enter"} \/ depth > 0) => header # "none"

(* Until a handler answers nothing is written; the error handler finds     *)
(* nothing, or a status whose body the client did not take.                *)
Unanswered ==
  stage \notin {"leave", "done"} =>
    /\ log = <<>> /\ allow = {} /\ wire.bodies = <<>> /\ recorded = wire.status
    /\ stage # "error" => wire.status = 0
    /\ wire.status # 0 => client # "there" /\ wire.status \notin {405, 500}
    /\ stage = "error" => outcome # "ok"

Body(status) ==
  CASE status = 204 -> <<>>
    [] status \in {200, 201} -> <<"resource">>
    [] OTHER -> <<ErrorCode(status)>>

Whole ==
  stage \in {"leave", "done"} =>
    /\ wire.status # 0
    /\ client = "there" => wire.bodies = Body(wire.status)
    /\ wire.status = 405 <=> allow # {}
    /\ request.method \notin allow

Failed == [message |-> "request failed", id |-> header]
Served == [message |-> "http request", status |-> wire.status, id |-> header]
Recovered == [message |-> "panic recovered", id |-> header]

(* Behind the access log a failure may have been logged already; before it *)
(* the exchange has its line too, of the access log or of the recovery.    *)
Logged ==
  /\ stage = "leave" /\ depth >= 3 =>
       /\ recorded = wire.status
       /\ \/ log = <<>> /\ wire.status # 500
          \/ log = <<Failed>>
  /\ (stage = "leave" /\ depth < 3) \/ Done =>
       \/ log = <<Served>> /\ wire.status # 500
       \/ log = <<Failed, Served>>
       \/ log = <<Recovered>> /\ wire.status = 500

AnswerInv == Placed /\ Identified /\ Unanswered /\ Whole /\ Logged

(* NewRouter: the order of the chain, with and without the timeout. *)
LEMMA ChainIsKnown ==
  ASSUME chain \in Chains
  PROVE  /\ Len(chain) \in {3, 4} /\ DOMAIN chain = 1..Len(chain)
         /\ chain[1] = "requestID" /\ chain[2] = "recover" /\ chain[3] = "logging"
         /\ Len(chain) = 4 => chain[4] = "timeout"
BY DEF Chains, CommonChain

(* Whom a middleware or a handler behind the first n writes to and logs as. *)
LEMMA IdIsKnown ==
  ASSUME chain \in Chains, NEW n \in Nat, n >= 1 PROVE RequestIDAt(n) = header
BY ChainIsKnown DEF RequestIDAt

(* Writers behind loggingMiddleware are those it records the status of. *)
LEMMA RecorderIsInside ==
  ASSUME chain \in Chains, NEW n \in 0..Len(chain) PROVE RecordsAt(n) <=> n >= 3
<1>1. ASSUME n >= 3 PROVE RecordsAt(n)
  <2>1. 3 \in 1..n /\ chain[3] = "logging"
    BY <1>1, ChainIsKnown
  <2> QED
    BY <2>1 DEF RecordsAt
<1>2. ASSUME n < 3 PROVE ~RecordsAt(n)
  BY <1>2, ChainIsKnown DEF RecordsAt
<1> QED
  BY <1>1, <1>2, ChainIsKnown

(* The first write of a status, and of a body after it. *)
LEMMA FirstWrite ==
  ASSUME NEW status, NEW content, NEW n, Write(status, content, n),
         wire.bodies = <<>>, content = <<>> \/ \E c : content = <<c>>,
         recorded = wire.status
  PROVE  /\ wire'.status = IF wire.status = 0 THEN status ELSE wire.status
         /\ wire'.bodies = content
         /\ recorded' = IF RecordsAt(n) THEN wire'.status ELSE wire.status
<1>1. <<>> \o content = content
  OBVIOUS
<1> QED
  BY <1>1 DEF Write, Record

(* Nothing is written or logged before a request comes in. *)
LEMMA AnswerInit == Init => AnswerInv
BY DEF Init, AnswerInv, Placed, Inside, Identified, Unanswered, Whole, Logged, Done, Chains, CommonChain

(* The first answer, from a place where the recorder is in front of net/http: *)
(* what is logged up to there decides what the access log will find.          *)
LEMMA FirstAnswer ==
  ASSUME AnswerInv, stage \in {"enter"} \cup Inside, depth = Len(chain), stage' = "leave",
         NEW status \in Nat \ {0}, NEW content,
         Write(status, content, depth),
         content = Body(status),
         UNCHANGED <<depth, chain, request, header>>,
         client' = client,
         status = 405 <=> allow' # {}, request.method \notin allow',
         log' = IF status = 500 THEN Append(log, Failed) ELSE log,
         wire.status = 0 \/ UNCHANGED allow
  PROVE  AnswerInv'
<1> USE DEF AnswerInv, Inside
<1>1. content = <<>> \/ \E c : content = <<c>>
  BY DEF Body
<1>2. /\ wire'.status = IF wire.status = 0 THEN status ELSE wire.status
      /\ wire'.bodies = content /\ recorded' = wire'.status
  BY <1>1, FirstWrite, RecorderIsInside, ChainIsKnown DEF Placed, Unanswered
<1>3. Placed' /\ Identified' /\ Unanswered'
  BY ChainIsKnown DEF Placed, Identified, Unanswered
<1>4. Whole'
  <2>1. wire.status # 0 => client # "there" /\ wire.status # 405 /\ allow = {}
    BY DEF Unanswered
  <2>3. wire.status = 0 => wire'.bodies = Body(wire'.status)
    BY <1>2
  <2> QED
    BY <1>2, <2>1, <2>3 DEF Whole
<1>5. Logged'
  <2>1. depth' >= 3 /\ ~Done'
    BY ChainIsKnown DEF Placed, Done
  <2>2. log = <<>> /\ Append(<<>>, Failed) = <<Failed>>
    BY DEF Unanswered
  <2>3. Failed' = Failed
    BY DEF Failed
  <2>4. wire.status # 500 /\ (wire.status # 0 => wire'.status # 500)
    BY <1>2 DEF Unanswered
  <2> QED
    BY <1>2, <2>1, <2>2, <2>3, <2>4 DEF Logged
<1> QED
  BY <1>3, <1>4, <1>5

(* The steps on the way to the handler, which write nothing. *)
LEMMA SilentStep ==
  ASSUME AnswerInv,
         Start \/ ClientFails \/ Enter \/ Call \/ Panic \/ Finish
  PROVE  AnswerInv'
<1> USE ChainIsKnown DEF AnswerInv, Inside, Placed, Identified
<1>1. CASE Start
  BY <1>1 DEF Start, Unanswered, Whole, Logged, Done, Chains, CommonChain
<1>2. CASE Finish
  BY <1>2 DEF Finish, Unanswered, Whole, Logged, Done, Chains, CommonChain
<1>3. CASE ClientFails
  <2>1. Served' = Served /\ Recovered' = Recovered /\ Failed' = Failed
    BY <1>3 DEF ClientFails, Failed, Served, Recovered
  <2>2. Logged'
    BY ONLY <1>3, <2>1, AnswerInv DEF AnswerInv, ClientFails, Logged, Done
  <2> QED
    BY <1>3, <2>2 DEF ClientFails, Unanswered, Whole
<1>4. CASE Enter
  <2>1. depth \in Nat /\ depth < Len(chain) /\ depth' = depth + 1
    BY <1>4 DEF Enter
  <2>2. header' # "none"
    <3>1. CASE depth = 0
      BY <1>4, <3>1 DEF Enter
    <3>2. CASE depth > 0
      BY <1>4, <3>2 DEF Enter
    <3>3. depth = 0 \/ depth > 0
      BY ONLY <2>1
    <3> QED
      BY ONLY <3>1, <3>2, <3>3
  <2> QED
    BY <1>4, <2>1, <2>2 DEF Enter, Unanswered, Whole, Logged, Done
<1>5. CASE Call
  BY <1>5 DEF Call, Unanswered, Whole, Logged, Done
<1>6. CASE Panic
  BY <1>6 DEF Panic, Unanswered, Whole, Logged, Done
<1> QED
  BY <1>1, <1>2, <1>3, <1>4, <1>5, <1>6

(* The router and the generated code answer what they do not pass on. *)
LEMMA RouterStep ==
  ASSUME AnswerInv, Route \/ Bind \/ Decode
  PROVE  AnswerInv'
<1>1. /\ UNCHANGED <<depth, chain, request, header, client, log>>
      /\ stage \in {"enter", "bind", "decode"} /\ depth = Len(chain)
      /\ wire.status = 0 /\ allow = {}
  BY DEF Route, Bind, Decode, AnswerInv, Placed, Inside, Unanswered
<1>2. Body(404) = <<ErrorCode(404)>> /\ Body(405) = <<ErrorCode(405)>> /\ Body(400) = <<ErrorCode(400)>>
  BY DEF Body
<1>3. CASE Route /\ NotFound
  BY <1>1, <1>2, <1>3, FirstAnswer DEF NotFound, WriteError, Inside, Route
<1>4. CASE Route /\ MethodNotAllowed
  <2>1. request.method \notin allow' /\ allow' # {}
    BY <1>4 DEF MethodNotAllowed
  <2> QED
    BY <1>1, <1>2, <1>4, <2>1, FirstAnswer DEF MethodNotAllowed, WriteError, Inside, Route
<1>5. CASE BadRequest /\ UNCHANGED allow
  BY <1>1, <1>2, <1>5, FirstAnswer DEF BadRequest, WriteError, Inside
<1>6. CASE UNCHANGED <<wire, recorded, allow>> /\ stage' \in {"bind", "decode", "call"}
  BY <1>1, <1>6, ChainIsKnown
    DEF AnswerInv, Placed, Inside, Identified, Unanswered, Whole, Logged, Done
<1> QED
  BY <1>3, <1>4, <1>5, <1>6 DEF Route, Found, Bind, AfterBind, Decode

(* The response object and the error handler. *)
LEMMA HandlerStep ==
  ASSUME AnswerInv, FaultInv, Visit \/ HandleError
  PROVE  AnswerInv'
<1>1. /\ UNCHANGED <<depth, chain, request, header, allow, client>>
      /\ stage \in {"visit", "error"} /\ depth = Len(chain)
      /\ allow = {} /\ wire.bodies = <<>> /\ recorded = wire.status
  <2>1. stage \in {"visit", "error"} /\ UNCHANGED <<depth, chain, request, header, allow, client>>
    BY DEF Visit, HandleError
  <2>2. depth = Len(chain)
    BY <2>1 DEF AnswerInv, Placed, Inside
  <2>3. allow = {} /\ wire.bodies = <<>> /\ recorded = wire.status
    BY <2>1 DEF AnswerInv, Unanswered
  <2> QED
    BY <2>1, <2>2, <2>3
<1>2. CASE HandleError
  <2> DEFINE status == mapError(outcome)
  <2>0. outcome # "ok"
    BY <1>2 DEF HandleError, AnswerInv, Unanswered
  <2>1. status \in {404, 409, 422, 500}
    BY <2>0 DEF mapError
  <2>2. Body(status) = <<ErrorCode(status)>>
    BY <2>1 DEF Body
  <2>3. Write(status, Body(status), depth) /\ stage' = "leave"
    BY <1>2, <2>2 DEF HandleError, WriteError
  <2>4. ErrorLine("request failed", depth) = Failed
    <3>1. RequestIDAt(depth) = header
      BY <1>1, IdIsKnown, ChainIsKnown DEF AnswerInv, Placed
    <3> QED
      BY <3>1 DEF ErrorLine, Failed
  <2>5. log' = IF status = 500 THEN Append(log, Failed) ELSE log
    <3>1. log' = IF status >= 500 THEN Append(log, Failed) ELSE log
      BY <1>2, <2>4 DEF HandleError
    <3>2. status >= 500 <=> status = 500
      BY <2>1
    <3> HIDE DEF status
    <3> QED
      BY ONLY <3>1, <3>2
  <2> HIDE DEF status
  <2> QED
    BY <1>1, <2>1, <2>3, <2>5, FirstAnswer DEF Inside
<1>3. CASE Visit
  <2> DEFINE status == IF outcome = "not_ready" THEN 503 ELSE Success[op]
             content == CASE status = 204 -> <<>>
                          [] status = 503 -> <<ErrorCode(503)>>
                          [] OTHER -> <<"resource">>
  <2>1. op \in Operations
    BY <1>3, MatchedOperation DEF Visit, FaultInv, Matched
  <2>2. status \in {200, 201, 204, 503}
    BY <2>1 DEF Success
  <2>3. content = Body(status)
    BY <2>2 DEF Body
  <2>4. /\ wire.status = 0 /\ UNCHANGED log
        /\ \/ Write(status, content, depth) /\ stage' = "leave"
           \/ client # "there" /\ Write(status, <<>>, depth) /\ stage' = "error" /\ outcome' = "internal"
    BY <1>3 DEF Visit, AnswerInv, Unanswered
  <2> HIDE DEF status, content
  <2>5. CASE Write(status, content, depth) /\ stage' = "leave"
    BY <1>1, <2>2, <2>3, <2>4, <2>5, FirstAnswer DEF Inside
  <2>6. CASE client # "there" /\ Write(status, <<>>, depth) /\ stage' = "error" /\ outcome' = "internal"
    <3>1. wire'.status = status /\ wire'.bodies = <<>> /\ recorded' = status
      BY <1>1, <2>4, <2>6, FirstWrite, RecorderIsInside, ChainIsKnown DEF AnswerInv, Placed
    <3> QED
      BY <1>1, <2>2, <2>4, <2>6, <3>1, ChainIsKnown
        DEF AnswerInv, Placed, Inside, Identified, Unanswered, Whole, Logged, Done
  <2> QED
    BY <2>4, <2>5, <2>6
<1> QED
  BY <1>2, <1>3

(* The depth is a place in a chain whose middlewares are known. *)
LEMMA DepthIsBounded ==
  ASSUME AnswerInv
  PROVE  /\ depth \in 0..4 /\ Len(chain) \in {3, 4} /\ depth <= Len(chain)
         /\ chain[1] = "requestID" /\ chain[2] = "recover" /\ chain[3] = "logging"
         /\ depth = 4 => chain[4] = "timeout"
<1>1. chain \in Chains /\ depth \in 0..Len(chain)
  BY DEF AnswerInv, Placed
<1> QED
  BY <1>1, ChainIsKnown

(* A log has one or two lines. *)
LEMMA OneLine ==
  ASSUME NEW a PROVE Append(<<>>, a) = <<a>> /\ DOMAIN <<a>> = {1} /\ <<a>>[1] = a
OBVIOUS

(* A log of one line and another after it. *)
LEMMA TwoLines ==
  ASSUME NEW a, NEW b
  PROVE  /\ Append(<<a>>, b) = <<a, b>> /\ DOMAIN <<a, b>> = {1, 2}
         /\ <<a, b>>[1] = a /\ <<a, b>>[2] = b
<1>1. DOMAIN <<a, b>> = 1..2
  OBVIOUS
<1>2. 1..2 = {1, 2}
  OBVIOUS
<1>3. Append(<<a>>, b) = <<a, b>>
  <2>1. <<a>> \in Seq({a, b}) /\ <<a, b>> \in Seq({a, b}) /\ Len(<<a>>) = 1 /\ Len(<<a, b>>) = 2
    OBVIOUS
  <2>2. /\ Append(<<a>>, b) \in Seq({a, b}) /\ Len(Append(<<a>>, b)) = 2
        /\ Append(<<a>>, b)[1] = a /\ Append(<<a>>, b)[2] = b
    BY <2>1, AppendProperties
  <2>3. \A i \in 1..2 : Append(<<a>>, b)[i] = <<a, b>>[i]
    BY <1>2, <2>2
  <2> QED
    BY <2>1, <2>2, <2>3, SeqEqual
<1> QED
  BY <1>1, <1>2, <1>3

(* On the way back only the access log adds anything. *)
LEMMA LeaveStep ==
  ASSUME AnswerInv, Leave
  PROVE  AnswerInv'
<1>1. /\ UNCHANGED <<chain, request, header, allow, wire, recorded, client>>
      /\ stage = "leave" /\ depth \in 1..Len(chain) /\ depth' = depth - 1
      /\ stage' = IF depth = 1 THEN "done" ELSE "leave"
  <2>1. depth > 0 /\ depth' = depth - 1
    BY DEF Leave
  <2>2. depth \in 1..Len(chain)
    BY <2>1, DepthIsBounded
  <2> QED
    BY <2>1, <2>2 DEF Leave
<1>2. Placed' /\ Identified' /\ Unanswered' /\ Whole'
  BY <1>1, ChainIsKnown DEF AnswerInv, Placed, Inside, Identified, Unanswered, Whole
<1>3. Served' = Served /\ Recovered' = Recovered /\ Failed' = Failed
  BY <1>1 DEF Served, Recovered, Failed
<1>4. Logged'
  <2>1. CASE depth = 3
    <3>1. RequestIDAt(depth - 1) = header
      BY <1>1, <2>1, IdIsKnown DEF AnswerInv, Placed
    <3>2. recorded = wire.status /\ wire.status # 0
      BY <1>1, <2>1 DEF AnswerInv, Logged, Whole
    <3>3. AccessLine(IF recorded = 0 THEN 200 ELSE recorded, depth - 1) = Served
      BY <3>1, <3>2 DEF AccessLine, Served
    <3>4. log' = Append(log, Served)
      BY <2>1, <3>3, ChainIsKnown DEF Leave, AnswerInv, Placed
    <3>5. depth' = 2 /\ stage' = "leave"
      BY <1>1, <2>1
    <3>6. CASE log = <<>> /\ wire.status # 500
      <4>1. log' = <<Served>>
        BY <3>4, <3>6
      <4> QED
        BY <1>1, <1>3, <3>5, <3>6, <4>1 DEF Logged
    <3>7. CASE log = <<Failed>>
      <4>1. log' = <<Failed, Served>>
        BY <3>4, <3>7, TwoLines
      <4> QED
        BY <1>1, <1>3, <3>5, <4>1 DEF Logged
    <3> QED
      BY <1>1, <2>1, <3>6, <3>7 DEF AnswerInv, Logged
  <2>2. CASE depth # 3
    <3>1. UNCHANGED log
      <4>1. depth \in {1, 2, 4}
        BY <1>1, <2>2, DepthIsBounded
      <4>2. chain[depth] # "logging"
        BY <4>1, DepthIsBounded
      <4> QED
        BY <4>2 DEF Leave
    <3>2. CASE depth > 3
      <4>1. depth' >= 3 /\ stage' = "leave"
        BY <1>1, <3>2
      <4> QED
        BY <1>1, <1>3, <3>1, <3>2, <4>1 DEF AnswerInv, Logged, Done
    <3>3. CASE depth < 3
      <4>1. stage' = "done" \/ (stage' = "leave" /\ depth' < 3)
        BY <1>1, <3>3
      <4> QED
        BY <1>1, <1>3, <3>1, <3>3, <4>1 DEF AnswerInv, Logged, Done
    <3> QED
      BY <1>1, <2>2, <3>2, <3>3
  <2> QED
    BY <2>1, <2>2
<1> QED
  BY <1>2, <1>4 DEF AnswerInv

(* A panic passes the access log by and ends at the recovery, which stands *)
(* inside of what sets the id.                                             *)
LEMMA UnwindStep ==
  ASSUME AnswerInv, Unwind
  PROVE  AnswerInv'
<1>1. /\ UNCHANGED <<chain, request, header, allow, client>>
      /\ stage = "unwind" /\ depth \in 2..Len(chain) /\ depth' = depth - 1
      /\ log = <<>> /\ allow = {} /\ wire.bodies = <<>> /\ wire.status = 0 /\ recorded = 0
  <2>1. stage = "unwind" /\ depth > 0 /\ depth' = depth - 1
    BY DEF Unwind
  <2>2. depth >= 2
    BY <2>1 DEF AnswerInv, Placed
  <2>3. depth \in 2..Len(chain)
    BY <2>2, DepthIsBounded
  <2>4. log = <<>> /\ allow = {} /\ wire.bodies = <<>> /\ wire.status = 0 /\ recorded = 0
    BY <2>1 DEF AnswerInv, Unanswered
  <2> QED
    BY <2>1, <2>3, <2>4 DEF Unwind
<1>2. CASE depth = 2
  <2>1. RequestIDAt(depth - 1) = header
    BY <1>1, <1>2, IdIsKnown DEF AnswerInv, Placed
  <2>2. ErrorLine("panic recovered", depth - 1) = Recovered
    BY <2>1 DEF ErrorLine, Recovered
  <2>3. log' = Append(log, Recovered) /\ WriteError(500, depth - 1) /\ stage' = "leave"
    <3>1. chain[depth] = "recover"
      BY <1>2, ChainIsKnown DEF AnswerInv, Placed
    <3>2. depth # 1
      BY <1>2
    <3>3. /\ log' = Append(log, ErrorLine("panic recovered", depth - 1))
          /\ WriteError(500, depth - 1)
          /\ stage' = IF depth = 1 THEN "done" ELSE "leave"
      BY ONLY <3>1, Unwind DEF Unwind
    <3> QED
      BY ONLY <2>2, <3>2, <3>3, Zenon
  <2>4. log' = <<Recovered>> /\ Recovered' = Recovered
    <3>1. Recovered' = Recovered
      BY <1>1 DEF Recovered
    <3>2. log = <<>> /\ log' = Append(log, Recovered)
      BY <1>1, <2>3
    <3> QED
      BY ONLY <3>1, <3>2, OneLine
  <2>5. wire'.status = 500 /\ wire'.bodies = Body(500)
    BY <1>1, <2>3, FirstWrite DEF WriteError, Body
  <2>6. Placed' /\ Identified' /\ Unanswered'
    BY <1>1, <1>2, <2>3, ChainIsKnown DEF AnswerInv, Placed, Inside, Identified, Unanswered
  <2>7. Whole' /\ Logged'
    BY <1>1, <1>2, <2>3, <2>4, <2>5 DEF Whole, Logged, Done
  <2> QED
    BY <2>6, <2>7 DEF AnswerInv
<1>3. CASE depth # 2
  <2>1. UNCHANGED <<log, wire, recorded>> /\ stage' = "unwind"
    <3>1. depth \in {3, 4} /\ chain[depth] # "recover"
      BY <1>1, <1>3, DepthIsBounded
    <3> QED
      BY <1>1, <3>1 DEF Unwind
  <2> QED
    BY <1>1, <1>3, <2>1, ChainIsKnown
      DEF AnswerInv, Placed, Inside, Identified, Unanswered, Whole, Logged, Done
<1> QED
  BY <1>2, <1>3

(* Every step of an exchange keeps the invariant on its answer and its     *)
(* logs.                                                                   *)
LEMMA AnswerStep ==
  ASSUME AnswerInv, FaultInv, [Next]_exchange PROVE AnswerInv'
<1>1. CASE UNCHANGED exchange
  <2>1. Served' = Served /\ Recovered' = Recovered /\ Failed' = Failed
    BY <1>1 DEF exchange, Served, Recovered, Failed
  <2> QED
    BY <1>1, <2>1 DEF exchange, AnswerInv, Placed, Inside, Identified, Unanswered, Whole, Body, Logged, Done
<1> QED
  BY <1>1, SilentStep, RouterStep, HandlerStep, LeaveStep, UnwindStep DEF Next

(* The invariant on answers and logs holds in every behaviour. *)
LEMMA AnswersHold == Spec => []AnswerInv
<1>1. FaultInv /\ AnswerInv /\ [Next]_exchange => FaultInv' /\ AnswerInv'
  BY FaultStep, AnswerStep
<1> QED
  BY FaultInit, AnswerInit, <1>1, PTL DEF Spec

-----------------------------------------------------------------------------
(* What the two middlewares and the error handler write into their lines.  *)
LEMMA LineFields ==
  /\ Served.message = "http request" /\ Served.status = wire.status /\ Served.id = header
  /\ Recovered.message = "panic recovered" /\ Recovered.id = header
  /\ Failed.message = "request failed" /\ Failed.id = header
BY DEF Served, Recovered, Failed

(* A finished exchange has one line, which tells its end, and before it    *)
(* there may be one of a failure, without which it is no 500.              *)
LEMMA FinishedLog ==
  ASSUME AnswerInv, Done
  PROVE  \/ /\ DOMAIN log = {1} /\ log[1].id = header
            /\ IF wire.status = 500 THEN log[1].message = "panic recovered"
                 ELSE log[1].message = "http request" /\ log[1].status = wire.status
         \/ /\ DOMAIN log = {1, 2} /\ log[1].message = "request failed" /\ log[1].id = header
            /\ log[2].message = "http request" /\ log[2].status = wire.status /\ log[2].id = header
<1>1. CASE log = <<Served>> /\ wire.status # 500
  <2>1. DOMAIN log = {1} /\ log[1] = Served
    BY <1>1, OneLine
  <2> QED
    BY ONLY <1>1, <2>1, LineFields
<1>2. CASE log = <<Recovered>> /\ wire.status = 500
  <2>1. DOMAIN log = {1} /\ log[1] = Recovered
    BY <1>2, OneLine
  <2> QED
    BY ONLY <1>2, <2>1, LineFields
<1>3. ASSUME log = <<Failed, Served>>
      PROVE  /\ DOMAIN log = {1, 2} /\ log[1].message = "request failed" /\ log[1].id = header
             /\ log[2].message = "http request" /\ log[2].status = wire.status /\ log[2].id = header
  <2>1. DOMAIN log = {1, 2}
    BY <1>3, TwoLines
  <2>2. log[1] = Failed
    BY <1>3, TwoLines
  <2>3. log[2] = Served
    BY <1>3, TwoLines
  <2>4. log[1].message = "request failed" /\ log[1].id = header
    BY ONLY <2>2, LineFields
  <2>5. log[2].message = "http request" /\ log[2].status = wire.status /\ log[2].id = header
    BY ONLY <2>3, LineFields
  <2> QED
    BY <2>1, <2>4, <2>5
<1> QED
  BY <1>1, <1>2, <1>3 DEF AnswerInv, Logged

(* One line is the line of its end. *)
LEMMA FinishedWithOne ==
  ASSUME AnswerInv, Done, DOMAIN log = {1}
  PROVE  /\ log[1].id = header
         /\ IF wire.status = 500 THEN log[1].message = "panic recovered"
              ELSE log[1].message = "http request" /\ log[1].status = wire.status
<1>1. DOMAIN log # {1, 2}
  OBVIOUS
<1> QED
  BY ONLY <1>1, AnswerInv, Done, FinishedLog

(* Of two lines the first tells the failure. *)
LEMMA FinishedWithTwo ==
  ASSUME AnswerInv, Done, DOMAIN log = {1, 2}
  PROVE  /\ log[1].message = "request failed" /\ log[1].id = header
         /\ log[2].message = "http request" /\ log[2].status = wire.status /\ log[2].id = header
<1>1. DOMAIN log # {1}
  OBVIOUS
<1> QED
  BY ONLY <1>1, AnswerInv, Done, FinishedLog

(* middleware.go: an exchange leaves one line of the access log, with the  *)
(* status its client got, or, if a panic answered it 500, of the recovery, *)
(* and either under the id the client was told.                            *)
THEOREM TheLogIsTrue == Spec => []LogIsTrue
<1>1. AnswerInv => LogIsTrue
  <2> SUFFICES ASSUME AnswerInv, Done PROVE LogIsTrue
    BY DEF LogIsTrue
  <2>1. CASE DOMAIN log = {1}
    <3>1. /\ log[1].id = header
          /\ \/ log[1].message = "http request" /\ log[1].status = wire.status
             \/ log[1].message = "panic recovered" /\ wire.status = 500
      BY <2>1, FinishedWithOne
    <3>2. Lines({"http request", "panic recovered"}) = {1}
      BY ONLY <2>1, <3>1 DEF Lines
    <3>3. wire.status = IF log[1].message = "http request" THEN log[1].status ELSE 500
      BY ONLY <3>1
    <3> QED
      BY ONLY <2>1, <3>1, <3>2, <3>3 DEF LogIsTrue
  <2>2. CASE DOMAIN log = {1, 2}
    <3>1. /\ log[1].message = "request failed"
          /\ log[2].message = "http request" /\ log[2].status = wire.status /\ log[2].id = header
      BY <2>2, FinishedWithTwo
    <3>2. Lines({"http request", "panic recovered"}) = {2}
      BY ONLY <2>2, <3>1 DEF Lines
    <3> QED
      BY ONLY <2>2, <3>1, <3>2 DEF LogIsTrue
  <2>3. DOMAIN log = {1} \/ DOMAIN log = {1, 2}
    BY ONLY AnswerInv, Done, FinishedLog
  <2> QED
    BY <2>1, <2>2, <2>3
<1> QED
  BY <1>1, AnswersHold, PTL

(* errors.go and middleware.go: a 500 leaves one error line, under the id  *)
(* the caller can quote.                                                   *)
THEOREM EveryFaultIsTraceable == Spec => []FaultsAreTraceable
<1>1. AnswerInv => FaultsAreTraceable
  <2> SUFFICES ASSUME AnswerInv, Done, wire.status = 500
               PROVE  \E i \in DOMAIN log :
                        /\ Lines({"request failed", "panic recovered"}) = {i}
                        /\ log[i].id = header /\ header # "none"
    BY DEF FaultsAreTraceable
  <2>1. header # "none"
    BY DEF AnswerInv, Identified, Done
  <2>2. CASE DOMAIN log = {1}
    <3>1. log[1].id = header /\ log[1].message = "panic recovered"
      BY <2>2, FinishedWithOne
    <3>2. Lines({"request failed", "panic recovered"}) = {1}
      BY ONLY <2>2, <3>1 DEF Lines
    <3> QED
      BY ONLY <2>1, <2>2, <3>1, <3>2
  <2>3. CASE DOMAIN log = {1, 2}
    <3>1. /\ log[1].message = "request failed" /\ log[1].id = header
          /\ log[2].message = "http request"
      BY <2>3, FinishedWithTwo
    <3>2. Lines({"request failed", "panic recovered"}) = {1}
      BY ONLY <2>3, <3>1 DEF Lines
    <3> QED
      BY ONLY <2>1, <2>3, <3>1, <3>2
  <2>4. DOMAIN log = {1} \/ DOMAIN log = {1, 2}
    BY ONLY AnswerInv, Done, FinishedLog
  <2> QED
    BY <2>2, <2>3, <2>4
<1> QED
  BY <1>1, AnswersHold, PTL

(* Every way through the chain, panics and failed writes included, ends    *)
(* with one response in the format of its status, and Allow goes with 405. *)
THEOREM EveryAnswerIsWhole == Spec => []AnswersAreWhole
<1>1. AnswerInv => AnswersAreWhole
  BY DEF AnswerInv, Whole, Body, AnswersAreWhole, Done
<1> QED
  BY <1>1, AnswersHold, PTL
=============================================================================
