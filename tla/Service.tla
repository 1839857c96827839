------------------------------ MODULE Service ------------------------------
(***************************************************************************)
(* The modifying use cases (usecase/group.go, usecase/person.go) as        *)
(* concurrent handlers over one database.  A use case is a sequence of     *)
(* repository calls; every call is one SQL statement on a connection of    *)
(* its own, so a handler may be overtaken between any two of them.         *)
(*                                                                         *)
(* pc[h] is the statement handler h runs next.  Everything a use case does *)
(* between two statements is local to the handler and belongs to the       *)
(* action of the statement before it; validation, which precedes the       *)
(* writing statement, belongs to the action of that statement.             *)
(*                                                                         *)
(* A handler is one request on the server, from routing until its last     *)
(* statement is over.  The caller of a request that was cut off by the     *)
(* timeout may already be repeating it in another handler.                 *)
(***************************************************************************)
EXTENDS Store

CONSTANTS
  Handlers,   \* requests the server works on at the same time
  Operations  \* the operations callers use

VARIABLES
  pc,         \* the statement a handler is about to run, "idle", or "hung" in one
  arg,        \* its request
  reply,      \* the outcome of its last request
  overtaken   \* history: another reparent committed since h's cycle check

vars == <<store, pc, arg, reply, overtaken>>

Steps ==
  {"checkParent", "insertGroup", "getGroup", "checkCycle", "updateGroup", "countPeople",
   "deleteGroup", "checkGroup", "insertPerson", "getPerson", "updatePerson", "deletePerson", "hung"}

InFlight(h) == pc[h] # "idle"

Init ==
  /\ StoreInit
  /\ pc = [h \in Handlers |-> "idle"]
  /\ arg = [h \in Handlers |-> NoRequest]
  /\ reply = [h \in Handlers |-> NoReply]
  /\ overtaken = [h \in Handlers |-> FALSE]

-----------------------------------------------------------------------------
(* Control.                                                                *)

At(h, step) == pc[h] = step

Goto(h, step) ==
  /\ pc' = [pc EXCEPT ![h] = step]
  /\ UNCHANGED <<arg, reply>>

Return(h, outcome) ==
  /\ pc' = [pc EXCEPT ![h] = "idle"]
  /\ arg' = [arg EXCEPT ![h] = NoRequest]
  /\ reply' = [reply EXCEPT ![h] = outcome]

(* A statement that returned an outcome the handler does not survive, and  *)
(* one that let it go on; neither touches the tables.                      *)
Fail(h, outcome) ==
  /\ Return(h, outcome)
  /\ overtaken' = [overtaken EXCEPT ![h] = FALSE]
  /\ UNCHANGED store

Proceed(h, step) ==
  /\ Goto(h, step)
  /\ UNCHANGED <<store, overtaken>>

(* A write that committed.  Its context may end before the answer is read, *)
(* and then the caller is told of an error although the row has changed.   *)
Committed(h) ==
  /\ \E outcome \in {"ok", "aborted"} : Return(h, outcome)
  /\ overtaken' = [overtaken EXCEPT ![h] = FALSE]

-----------------------------------------------------------------------------
(* The first statement of each use case.                                   *)

FirstStep(r) ==
  CASE r.op = "CreateGroup" /\ r.ref = NULL -> "insertGroup"
    [] r.op = "CreateGroup" /\ r.ref # NULL -> "checkParent"
    [] r.op \in {"UpdateGroup", "DeleteGroup"} -> "getGroup"
    [] r.op = "CreatePerson" -> "checkGroup"
    [] r.op = "UpdatePerson" -> "getPerson"
    [] OTHER -> "deletePerson"

(* Bound: as many rows are ever created as there are ids. *)
InFlightWith(op) == {h \in Handlers : arg[h].op = op}
RoomFor(op) ==
  /\ op = "CreateGroup" =>
       Cardinality(InFlightWith(op)) < Cardinality(GroupIds \ bornGroups)
  /\ op = "CreatePerson" =>
       Cardinality(InFlightWith(op)) < Cardinality(PersonIds \ bornPeople)

Accept(h) ==
  /\ At(h, "idle")
  /\ \E r \in Requests :
       /\ r.op \in Operations
       /\ RoomFor(r.op)
       /\ arg' = [arg EXCEPT ![h] = r]
       /\ pc' = [pc EXCEPT ![h] = FirstStep(r)]
  /\ reply' = [reply EXCEPT ![h] = NoReply]
  /\ UNCHANGED <<store, overtaken>>

(* The request's context ends: its timeout, a client that hangs up, the    *)
(* server going down.  The statement under way is cancelled or never       *)
(* starts, and the use case returns the error of the context.              *)
Cancel(h) ==
  /\ InFlight(h)
  /\ Fail(h, "aborted")

-----------------------------------------------------------------------------
(* GroupService.Create, Update and Delete.                                 *)

(* Mutant: validateNewParent without the search for a cycle. *)
CheckParentOnly(h) ==
  /\ At(h, "checkParent")
  /\ IF arg[h].ref \in Groups
       THEN Proceed(h, IF arg[h].op = "CreateGroup" THEN "insertGroup" ELSE "updateGroup")
       ELSE Fail(h, "unknown_parent")

(* ensureParentExists: GetByID of the parent. *)
CheckParent(h) ==
  /\ At(h, "checkParent")
  /\ IF arg[h].ref \in Groups
       THEN Proceed(h, IF arg[h].op = "CreateGroup" THEN "insertGroup" ELSE "checkCycle")
       ELSE Fail(h, "unknown_parent")

(* NewGroup and repo.Create. *)
CreateGroup(h) ==
  LET r == arg[h]
      result == InsertGroupResult(r.ref)
  IN /\ At(h, "insertGroup")
     /\ \/ ~r.valid /\ Fail(h, "invalid")
        \/ r.valid /\ result # "done" /\ Fail(h, mapGroupParentError(result))
        \/ /\ r.valid /\ result = "done"
           /\ \E id \in GroupIds \ bornGroups : InsertGroup(id, r.ref)
           /\ Committed(h)

(* GetByID of the group itself: the start of Update and of Delete. *)
GetGroup(h) ==
  LET r == arg[h]
  IN /\ At(h, "getGroup")
     /\ \/ r.id \notin Groups /\ Fail(h, "not_found")
        \/ r.id \in Groups /\ r.op = "DeleteGroup" /\ Proceed(h, "countPeople")
        \/ r.id \in Groups /\ r.op = "UpdateGroup" /\
             \/ r.ref = NULL /\ Proceed(h, "updateGroup")
             \/ r.ref = r.id /\ Fail(h, "cyclic")
             \/ r.ref \notin {NULL, r.id} /\ Proceed(h, "checkParent")

(* IsDescendant in validateNewParent.  A query that does not return works  *)
(* on the snapshot it started from: no later write gets it going, and only *)
(* the end of its context ends it.                                         *)
CheckCycle(h) ==
  LET r == arg[h]
  IN /\ At(h, "checkCycle")
     /\ \/ IsDescendant(r.id, r.ref) /\ Fail(h, "cyclic")
        \/ /\ ~IsDescendant(r.id, r.ref)
           /\ Proceed(h, IF IsDescendantReturns(r.id, r.ref) THEN "updateGroup" ELSE "hung")

(* Rename and repo.Update.  A new parent that is not NULL overtakes every  *)
(* other reparent that has passed its own cycle check.                     *)
UpdateGroup(h) ==
  LET r == arg[h]
      result == UpdateGroupResult(r.id, r.ref)
  IN /\ At(h, "updateGroup")
     /\ \/ ~r.valid /\ Fail(h, "invalid")
        \/ r.valid /\ result # "done" /\ Fail(h, mapGroupParentError(result))
        \/ /\ r.valid /\ result = "done"
           /\ SetParent(r.id, r.ref)
           /\ \E outcome \in {"ok", "aborted"} : Return(h, outcome)
           /\ overtaken' = [d \in Handlers |->
                              /\ d # h
                              /\ \/ overtaken[d]
                                 \/ r.ref # NULL /\ At(d, "updateGroup") /\ arg[d].ref # NULL]

(* CountMembers(id, false) in Delete. *)
CountPeople(h) ==
  /\ At(h, "countPeople")
  /\ IF Members(arg[h].id) # {} THEN Fail(h, "has_people") ELSE Proceed(h, "deleteGroup")

(* A DELETE locks its row and then, for ON DELETE RESTRICT, the rows that  *)
(* refer to it.  When every group of a cycle is being deleted, each waits  *)
(* for the next and PostgreSQL ends one of them with deadlock_detected.    *)
Deadlocked(h) ==
  LET id == arg[h].id
      ring == {g \in Groups : g \in Subtree(id) /\ id \in Subtree(g)}
  IN /\ OnCycle(id)
     /\ \A g \in ring : \E d \in Handlers : At(d, "deleteGroup") /\ arg[d].id = g

(* repo.Delete. *)
DeleteGroup(h) ==
  LET results == DeleteGroupResults(arg[h].id) \cup {x \in {"deadlock"} : Deadlocked(h)}
  IN /\ At(h, "deleteGroup")
     /\ \E result \in results :
          \/ result # "done" /\ Fail(h, mapGroupDeleteError(result))
          \/ result = "done" /\ RemoveGroup(arg[h].id) /\ Committed(h)

-----------------------------------------------------------------------------
(* PersonService.Create, Update and Delete.                                *)

(* ensureGroupExists: GetByID of the person's group. *)
CheckGroup(h) ==
  /\ At(h, "checkGroup")
  /\ IF arg[h].ref \in Groups
       THEN Proceed(h, IF arg[h].op = "CreatePerson" THEN "insertPerson" ELSE "updatePerson")
       ELSE Fail(h, "unknown_group")

(* NewPerson and repo.Create. *)
CreatePerson(h) ==
  LET r == arg[h]
      result == InsertPersonResult(r.ref)
  IN /\ At(h, "insertPerson")
     /\ \/ ~r.valid /\ Fail(h, "invalid")
        \/ r.valid /\ result # "done" /\ Fail(h, mapPersonGroupError(result))
        \/ /\ r.valid /\ result = "done"
           /\ \E id \in PersonIds \ bornPeople : InsertPerson(id, r.ref)
           /\ Committed(h)

(* GetByID of the person.  A person who keeps the group read here is       *)
(* written without looking the group up again.                             *)
GetPerson(h) ==
  LET r == arg[h]
  IN /\ At(h, "getPerson")
     /\ \/ r.id \notin People /\ Fail(h, "not_found")
        \/ r.id \in People /\ r.ref = member[r.id] /\ Proceed(h, "updatePerson")
        \/ r.id \in People /\ r.ref # member[r.id] /\ Proceed(h, "checkGroup")

(* NewPerson and repo.Update. *)
UpdatePerson(h) ==
  LET r == arg[h]
      result == UpdatePersonResult(r.id, r.ref)
  IN /\ At(h, "updatePerson")
     /\ \/ ~r.valid /\ Fail(h, "invalid")
        \/ r.valid /\ result # "done" /\ Fail(h, mapPersonGroupError(result))
        \/ r.valid /\ result = "done" /\ SetMember(r.id, r.ref) /\ Committed(h)

(* repo.Delete. *)
DeletePerson(h) ==
  /\ At(h, "deletePerson")
  /\ \/ arg[h].id \notin People /\ Fail(h, "not_found")
     \/ arg[h].id \in People /\ RemovePerson(arg[h].id) /\ Committed(h)

-----------------------------------------------------------------------------
Execute(h) ==
  \/ CheckParent(h) \/ CreateGroup(h) \/ GetGroup(h) \/ CheckCycle(h) \/ UpdateGroup(h)
  \/ CountPeople(h) \/ DeleteGroup(h)
  \/ CheckGroup(h) \/ CreatePerson(h) \/ GetPerson(h) \/ UpdatePerson(h) \/ DeletePerson(h)

Next == \E h \in Handlers : Accept(h) \/ Cancel(h) \/ Execute(h)

Spec == Init /\ [][Next]_vars

(* A statement that can finish does; no context need ever end. *)
FairSpec == Spec /\ \A h \in Handlers : WF_vars(Execute(h))

-----------------------------------------------------------------------------
(* Properties.                                                             *)

(* Every variable stays in its range, and a handler that is idle holds no  *)
(* request.                                                                *)
ControlTypeOK ==
  /\ pc \in [Handlers -> Steps \cup {"idle"}]
  /\ arg \in [Handlers -> Requests \cup {NoRequest}]
  /\ reply \in [Handlers -> Outcomes \cup {NoReply}]
  /\ overtaken \in [Handlers -> BOOLEAN]
  /\ \A h \in Handlers : arg[h] = NoRequest <=> pc[h] = "idle"
TypeOK == StoreTypeOK /\ ControlTypeOK

(* The statements of each use case. *)
StepsOf(op) ==
  CASE op = "CreateGroup" -> {"checkParent", "insertGroup"}
    [] op = "UpdateGroup" -> {"getGroup", "checkParent", "checkCycle", "updateGroup", "hung"}
    [] op = "DeleteGroup" -> {"getGroup", "countPeople", "deleteGroup"}
    [] op = "CreatePerson" -> {"checkGroup", "insertPerson"}
    [] op = "UpdatePerson" -> {"getPerson", "checkGroup", "updatePerson"}
    [] op = "DeletePerson" -> {"deletePerson"}
    [] OTHER -> {"idle"}
OnPath == \A h \in Handlers : pc[h] \in StepsOf(arg[h].op)

(* What a reparent knows of its groups once it has looked them up: that    *)
(* they existed, and that they differ.                                     *)
LookedUp ==
  \A h \in Handlers :
    LET r == arg[h]
    IN /\ At(h, "checkParent") => r.ref # NULL
       /\ At(h, "checkParent") /\ r.op = "UpdateGroup" => r.id \in bornGroups /\ r.ref # r.id
       /\ At(h, "checkCycle") => {r.id, r.ref} \subseteq bornGroups /\ r.ref # r.id
       /\ At(h, "updateGroup") =>
            r.id \in bornGroups /\ r.ref \in bornGroups \cup {NULL}

(* What the cycle check establishes and every step but another reparent    *)
(* preserves: the new parent is apart from the subtree of the group, which *)
(* is itself on no cycle.                                                  *)
CheckStillHolds ==
  \A h \in Handlers :
    At(h, "updateGroup") /\ arg[h].ref # NULL /\ ~overtaken[h] =>
      Apart(arg[h].id, arg[h].ref) /\ ~OnCycle(arg[h].id)

(* The inductive invariant behind the properties below: whichever races    *)
(* the handlers run, rows keep their integrity, and a check that nobody    *)
(* overtook is still true when its write is executed.                      *)
Inv == TypeOK /\ ReferentialIntegrity /\ OnPath /\ LookedUp /\ CheckStillHolds

(* The write of a reparent whose cycle check was overtaken. *)
OvertakenReparent ==
  \E h \in Handlers : overtaken[h] /\ At(h, "updateGroup") /\ pc'[h] = "idle" /\ parent' # parent

(* usecase/group.go checks for a cycle in one statement and writes in a    *)
(* later one.  However creations, deletions and moves interleave, a group  *)
(* comes to be its own ancestor only through the write of a reparent that  *)
(* another reparent overtook after its check.                              *)
CyclesComeFromRaces ==
  [][parent' # parent /\ (\E g \in Groups' : OnCycle(g)' /\ ~OnCycle(g)) => OvertakenReparent]_vars

(* The write that makes a group of a cycle a root, or moves it away on the *)
(* strength of a check that was overtaken.                                 *)
CycleOpened ==
  \E h \in Handlers :
    /\ At(h, "updateGroup") /\ pc'[h] = "idle"
    /\ OnCycle(arg[h].id)
    /\ arg[h].ref = NULL \/ overtaken[h]

(* A cycle cannot be taken apart by moving or deleting its groups: a group *)
(* leaves a cycle only when one of its groups is made a root, or by the    *)
(* write of a reparent that was checked before the cycle was closed.       *)
CyclesAreSticky ==
  [][parent' # parent /\ (\E g \in Groups : OnCycle(g) /\ ~OnCycle(g)') => CycleOpened]_vars

(* Whatever a statement meets that the checks before it did not see is an  *)
(* error the repositories know, and one that the operation can be refused  *)
(* with: no request is answered 500 because of a race, except a deletion   *)
(* inside a cycle.                                                         *)
RacesAreMapped ==
  [][\A h \in Handlers :
       InFlight(h) /\ pc'[h] = "idle" =>
         \/ reply'[h] \in {"ok", "invalid", "aborted"} \cup Refusals(arg[h].op)
         \/ reply'[h] = "internal" /\ arg[h].op = "DeleteGroup" /\ OnCycle(arg[h].id)]_vars

(* The only statement that never returns is the cycle check of a reparent  *)
(* whose group has come to lie on a cycle: every other request is answered *)
(* although no timeout is assumed to fire.                                 *)
HangsOnlyOnCycles ==
  \A h \in Handlers :
    (InFlight(h) /\ ~At(h, "hung")) ~>
      (~InFlight(h) \/ (At(h, "hung") /\ OnCycle(arg[h].id)))

(* The service whose reparents are never overtaken, as they would be if    *)
(* check and write were one transaction.                                   *)
SerialSpec == Init /\ [][Next /\ ~OvertakenReparent]_vars

(* What Service implements; a reparent to a new parent is cleared while it *)
(* is between its cycle check and its write.                               *)
Promise == INSTANCE Directory WITH
  pending <- arg,
  cleared <- [h \in Handlers |-> At(h, "updateGroup") /\ arg[h].ref # NULL]
ImplementsDirectory == Promise!Spec
=============================================================================
