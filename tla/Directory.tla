----------------------------- MODULE Directory -----------------------------
(***************************************************************************)
(* What the service promises its callers, without statements: a request is *)
(* pending, and then it takes effect at one instant, or is refused for a   *)
(* reason that holds at that instant, or its caller is told that the       *)
(* request was cut off and learns nothing.                                 *)
(*                                                                         *)
(* The one promise that takes two instants is a move below a new parent:   *)
(* the parent was outside the moved subtree at some moment while the       *)
(* request was pending, which is all the code establishes.                 *)
(***************************************************************************)
EXTENDS Store

CONSTANTS Handlers, Operations

VARIABLES
  pending,  \* the request of each handler, NoRequest when there is none
  cleared,  \* the new parent has been seen outside the moved subtree
  reply

vars == <<store, pending, cleared, reply>>

Init ==
  /\ StoreInit
  /\ pending = [h \in Handlers |-> NoRequest]
  /\ cleared = [h \in Handlers |-> FALSE]
  /\ reply = [h \in Handlers |-> NoReply]

Answer(h, outcome) ==
  /\ reply' = [reply EXCEPT ![h] = outcome]
  /\ pending' = [pending EXCEPT ![h] = NoRequest]
  /\ cleared' = [cleared EXCEPT ![h] = FALSE]

Submit(h) ==
  /\ pending[h] = NoRequest
  /\ \E r \in Requests : r.op \in Operations /\ pending' = [pending EXCEPT ![h] = r]
  /\ reply' = [reply EXCEPT ![h] = NoReply]
  /\ UNCHANGED <<store, cleared>>

(* The new parent exists or did, and does not hang below the moved group.  *)
Clear(h) ==
  LET r == pending[h]
  IN /\ r.op = "UpdateGroup" /\ r.ref # NULL
     /\ r.ref \in bornGroups /\ r.ref \notin Subtree(r.id)
     /\ cleared' = [cleared EXCEPT ![h] = TRUE]
     /\ UNCHANGED <<store, pending, reply>>

Effect(h) ==
  LET r == pending[h]
  IN \/ /\ r.op = "CreateGroup" /\ r.ref \in Groups \cup {NULL}
        /\ \E id \in GroupIds \ bornGroups : InsertGroup(id, r.ref)
     \/ /\ r.op = "UpdateGroup" /\ r.id \in Groups
        /\ r.ref = NULL \/ (r.ref \in Groups /\ cleared[h])
        /\ SetParent(r.id, r.ref)
     \/ /\ r.op = "DeleteGroup" /\ r.id \in Groups
        /\ Children(r.id) = {} /\ Members(r.id) = {}
        /\ RemoveGroup(r.id)
     \/ /\ r.op = "CreatePerson" /\ r.ref \in Groups
        /\ \E id \in PersonIds \ bornPeople : InsertPerson(id, r.ref)
     \/ /\ r.op = "UpdatePerson" /\ r.id \in People /\ r.ref \in Groups
        /\ SetMember(r.id, r.ref)
     \/ /\ r.op = "DeletePerson" /\ r.id \in People
        /\ RemovePerson(r.id)

Commit(h) ==
  /\ pending[h].valid
  /\ Effect(h)
  /\ \E outcome \in {"ok", "aborted"} : Answer(h, outcome)

(* The reasons for which a request may be refused now. *)
Reasons(r) ==
  {reason \in Outcomes :
    \/ reason = "invalid" /\ ~r.valid
    \/ /\ reason = "not_found"
       /\ \/ r.op \in {"UpdateGroup", "DeleteGroup"} /\ r.id \notin Groups
          \/ r.op \in {"UpdatePerson", "DeletePerson"} /\ r.id \notin People
    \/ /\ reason = "unknown_parent"
       /\ r.op \in {"CreateGroup", "UpdateGroup"} /\ r.ref \notin Groups \cup {NULL}
    \/ /\ reason = "unknown_group"
       /\ r.op \in {"CreatePerson", "UpdatePerson"} /\ r.ref \notin Groups
    \/ reason = "cyclic" /\ r.op = "UpdateGroup" /\ r.ref \in Subtree(r.id)
    \/ reason = "has_children" /\ r.op = "DeleteGroup" /\ Children(r.id) # {}
    \/ reason = "has_people" /\ r.op = "DeleteGroup" /\ Members(r.id) # {}
    \/ reason = "internal" /\ r.op = "DeleteGroup" /\ OnCycle(r.id)
    \/ reason = "aborted"}

Refuse(h) ==
  /\ pending[h] # NoRequest
  /\ \E reason \in Reasons(pending[h]) : Answer(h, reason)
  /\ UNCHANGED store

Next == \E h \in Handlers : Submit(h) \/ Clear(h) \/ Commit(h) \/ Refuse(h)

Spec == Init /\ [][Next]_vars
=============================================================================
