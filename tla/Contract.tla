------------------------------ MODULE Contract ------------------------------
(***************************************************************************)
(* What crosses the boundary of the service: the modifying requests of     *)
(* api/openapi.yaml, the outcomes the use cases return for them, and the   *)
(* HTTP status each outcome becomes.                                       *)
(*                                                                         *)
(* Names, birth years and time stamps are abstracted to one bit: `valid`   *)
(* says whether domain validation accepts the payload.                     *)
(***************************************************************************)
EXTENDS Naturals, FiniteSets

CONSTANTS
  GroupIds,   \* group identifiers: those the database will hand out, in any order
  PersonIds,  \* person identifiers, likewise
  NULL        \* the absent parent_id, and the absent id of a create request

ASSUME NullIsNoId == NULL \notin GroupIds \cup PersonIds
(* gen_random_uuid(): an id has 128 bits. *)
ASSUME IdsAreFinite == IsFiniteSet(GroupIds) /\ IsFiniteSet(PersonIds)

(* The id a request names in its path, and the group its body refers to. *)
CreateGroupRequests ==
  [op: {"CreateGroup"}, id: {NULL}, ref: GroupIds \cup {NULL}, valid: BOOLEAN]
UpdateGroupRequests ==
  [op: {"UpdateGroup"}, id: GroupIds, ref: GroupIds \cup {NULL}, valid: BOOLEAN]
DeleteGroupRequests ==
  [op: {"DeleteGroup"}, id: GroupIds, ref: {NULL}, valid: {TRUE}]
CreatePersonRequests ==
  [op: {"CreatePerson"}, id: {NULL}, ref: GroupIds, valid: BOOLEAN]
UpdatePersonRequests ==
  [op: {"UpdatePerson"}, id: PersonIds, ref: GroupIds, valid: BOOLEAN]
DeletePersonRequests ==
  [op: {"DeletePerson"}, id: PersonIds, ref: {NULL}, valid: {TRUE}]

GroupRequests == CreateGroupRequests \cup UpdateGroupRequests \cup DeleteGroupRequests
PersonRequests == CreatePersonRequests \cup UpdatePersonRequests \cup DeletePersonRequests
Requests == GroupRequests \cup PersonRequests

NoRequest == [op |-> "none", id |-> NULL, ref |-> NULL, valid |-> TRUE]

(* What a use case returns: nil, one of the domain errors, a validation    *)
(* error on a field, an error it does not know ("internal"), or the error  *)
(* of a context that ended before the answer came ("aborted").             *)
Outcomes ==
  {"ok", "not_found", "unknown_parent", "unknown_group", "invalid", "cyclic",
   "has_children", "has_people", "internal", "aborted"}
NoReply == "none"

(* What the lookups of a use case, and the constraints behind them, object *)
(* to in a request that is well formed.                                    *)
GroupRefusals(op) ==
  CASE op = "CreateGroup" -> {"unknown_parent"}
    [] op = "UpdateGroup" -> {"not_found", "unknown_parent", "cyclic"}
    [] op = "DeleteGroup" -> {"not_found", "has_children", "has_people"}
    [] op = "GetGroup" -> {"not_found"}
    [] OTHER -> {}

PersonRefusals(op) ==
  CASE op = "CreatePerson" -> {"unknown_group"}
    [] op = "UpdatePerson" -> {"not_found", "unknown_group"}
    [] op \in {"DeletePerson", "ListGroupPeople", "GetPerson"} -> {"not_found"}
    [] OTHER -> {}

Refusals(op) == GroupRefusals(op) \cup PersonRefusals(op)

mapError(outcome) ==
  CASE outcome = "ok" -> 200
    [] outcome \in {"unknown_parent", "unknown_group", "invalid"} -> 422
    [] outcome = "not_found" -> 404
    [] outcome \in {"cyclic", "has_children", "has_people"} -> 409
    [] OTHER -> 500
=============================================================================
