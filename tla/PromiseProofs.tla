--------------------------- MODULE PromiseProofs ---------------------------
(***************************************************************************)
(* Service implements Directory: every statement of a handler is, seen by  *)
(* the callers, a step of the promise or no step at all.                   *)
(***************************************************************************)
EXTENDS ServiceProofs

(* The clearance of Directory, read off the control state of Service.      *)
Cleared == [h \in Handlers |-> At(h, "updateGroup") /\ arg[h].ref # NULL]

-----------------------------------------------------------------------------
(* How the ends of a step look to the callers.                             *)

(* Return, seen through the refinement mapping, is Answer.                 *)
LEMMA ReturnIsAnswer ==
  ASSUME ControlTypeOK, NEW h \in Handlers, NEW outcome, Return(h, outcome)
  PROVE  Promise!Answer(h, outcome)
<1>1. /\ pc' = [pc EXCEPT ![h] = "idle"]
      /\ arg' = [arg EXCEPT ![h] = NoRequest]
      /\ reply' = [reply EXCEPT ![h] = outcome]
  BY DEF Return
<1>2. Cleared' = [Cleared EXCEPT ![h] = FALSE]
  BY <1>1, Zenon DEF Cleared, At, ControlTypeOK
<1> QED
  BY <1>1, <1>2 DEF Promise!Answer, Cleared, NoRequest, Promise!NoRequest

(* Ending with an error is a refusal, when the error is a reason that      *)
(* holds.                                                                  *)
LEMMA FailIsRefusal ==
  ASSUME ControlTypeOK, NEW h \in Handlers, InFlight(h),
         NEW outcome, Fail(h, outcome), outcome \in Promise!Reasons(arg[h])
  PROVE  Promise!Refuse(h)
<1>1. Return(h, outcome) /\ UNCHANGED store
  BY DEF Fail
<1>2. arg[h] # Promise!NoRequest
  BY DEF ControlTypeOK, InFlight, NoRequest, Promise!NoRequest
<1>3. Promise!Answer(h, outcome)
  BY <1>1, ReturnIsAnswer
<1> QED
  BY <1>1, <1>2, <1>3 DEF Promise!Refuse, store, Promise!store

(* Going on to the next statement is no step at all, except to the write   *)
(* of a move to a new parent.                                              *)
LEMMA ProceedIsNoStep ==
  ASSUME ControlTypeOK, NEW h \in Handlers, NEW step, Proceed(h, step),
         ~At(h, "updateGroup"), step = "updateGroup" => arg[h].ref = NULL
  PROVE  UNCHANGED Promise!vars
<1>1. pc' = [pc EXCEPT ![h] = step] /\ UNCHANGED <<store, arg, reply>>
  BY DEF Proceed, Goto
<1>2. Cleared' = Cleared
  BY <1>1, Zenon DEF Cleared, At, ControlTypeOK
<1> QED
  BY <1>1, <1>2 DEF Promise!vars, Promise!store, store, Cleared

(* Committing is the effect of the request.                                *)
LEMMA CommittedIsCommit ==
  ASSUME ControlTypeOK, NEW h \in Handlers, Committed(h), arg[h].valid, Promise!Effect(h)
  PROVE  Promise!Commit(h)
<1>1. PICK outcome \in {"ok", "aborted"} : Return(h, outcome)
  BY DEF Committed
<1>2. Promise!Answer(h, outcome)
  BY <1>1, ReturnIsAnswer
<1> QED
  BY <1>2 DEF Promise!Commit

-----------------------------------------------------------------------------
(* The steps.                                                              *)

(* An empty service is an empty directory.                                 *)
LEMMA InitIsInit == Init => Promise!Init
<1> SUFFICES ASSUME Init PROVE Promise!Init
  OBVIOUS
<1>1. Cleared = [h \in Handlers |-> FALSE]
  BY Zenon DEF Init, Cleared, At
<1> QED
  BY <1>1 DEF Init, Promise!Init, StoreInit, Promise!StoreInit, Cleared, NoRequest,
    Promise!NoRequest, NoReply, Promise!NoReply

(* Accepting a request is submitting it.                                   *)
LEMMA AcceptIsSubmit ==
  ASSUME Inv, NEW h \in Handlers, Accept(h)
  PROVE  Promise!Submit(h)
<1>1. PICK r \in Requests : /\ r.op \in Operations
                            /\ arg' = [arg EXCEPT ![h] = r]
                            /\ pc' = [pc EXCEPT ![h] = FirstStep(r)]
  BY DEF Accept
<1>2. /\ At(h, "idle") /\ reply' = [reply EXCEPT ![h] = NoReply]
      /\ UNCHANGED store
  BY DEF Accept
<1>3. FirstStep(r) # "updateGroup"
  BY DEF FirstStep
<1>4. Cleared' = Cleared
  <2>1. ASSUME NEW d \in Handlers PROVE Cleared'[d] = Cleared[d]
    <3>1. CASE d = h
      BY <1>1, <1>2, <1>3, <3>1 DEF Cleared, At, Inv, TypeOK, ControlTypeOK
    <3>2. CASE d # h
      BY <1>1, <3>2 DEF Cleared, At, Inv, TypeOK, ControlTypeOK
    <3> QED
      BY <3>1, <3>2
  <2> QED
    BY <2>1 DEF Cleared
<1>5. arg[h] = NoRequest
  BY <1>2 DEF Inv, TypeOK, ControlTypeOK, At
<1>6. r \in Promise!Requests
  BY DEF Requests, GroupRequests, PersonRequests, CreateGroupRequests, UpdateGroupRequests,
    DeleteGroupRequests, CreatePersonRequests, UpdatePersonRequests, DeletePersonRequests,
    Promise!Requests, Promise!GroupRequests, Promise!PersonRequests,
    Promise!CreateGroupRequests, Promise!UpdateGroupRequests, Promise!DeleteGroupRequests,
    Promise!CreatePersonRequests, Promise!UpdatePersonRequests, Promise!DeletePersonRequests
<1> QED
  BY <1>1, <1>2, <1>4, <1>5, <1>6 DEF Promise!Submit, Cleared, NoRequest, Promise!NoRequest,
    NoReply, Promise!NoReply, store, Promise!store

(* A context that ends is a refusal with no reason given.                  *)
LEMMA CancelIsRefusal ==
  ASSUME Inv, NEW h \in Handlers, Cancel(h)
  PROVE  Promise!Refuse(h)
BY FailIsRefusal DEF Cancel, Inv, TypeOK, Promise!Reasons, Promise!Outcomes

(* The lookup of the parent goes on, or refuses an unknown parent.         *)
LEMMA CheckParentStep ==
  ASSUME Inv, NEW h \in Handlers, CheckParent(h)
  PROVE  Promise!Refuse(h) \/ UNCHANGED Promise!vars
<1>1. /\ At(h, "checkParent") /\ InFlight(h) /\ ControlTypeOK
      /\ "checkParent" \in StepsOf(arg[h].op) /\ arg[h].ref # NULL
  BY DEF CheckParent, At, InFlight, Inv, TypeOK, OnPath, LookedUp
<1>2. arg[h].op \in {"CreateGroup", "UpdateGroup"}
  BY <1>1 DEF StepsOf
<1>3. CASE arg[h].ref \notin Groups
  <2>1. "unknown_parent" \in Promise!Reasons(arg[h])
    BY <1>1, <1>2, <1>3 DEF Promise!Reasons, Promise!Outcomes, Groups, Promise!Groups
  <2> QED
    BY <1>1, <1>3, <2>1, FailIsRefusal DEF CheckParent
<1>4. CASE arg[h].ref \in Groups
  BY <1>1, <1>4, ProceedIsNoStep DEF CheckParent, At
<1> QED
  BY <1>3, <1>4

(* The insert commits, or refuses for validation or for its parent.        *)
LEMMA CreateGroupStep ==
  ASSUME Inv, NEW h \in Handlers, CreateGroup(h)
  PROVE  Promise!Refuse(h) \/ Promise!Commit(h)
<1> DEFINE r == arg[h]
<1>1. /\ InFlight(h) /\ ControlTypeOK /\ "insertGroup" \in StepsOf(r.op)
  BY DEF CreateGroup, At, InFlight, Inv, TypeOK, OnPath
<1>2. r.op = "CreateGroup"
  BY <1>1 DEF StepsOf
<1>3. ASSUME ~r.valid, Fail(h, "invalid") PROVE Promise!Refuse(h)
  <2>1. "invalid" \in Promise!Reasons(r)
    BY <1>3 DEF Promise!Reasons, Promise!Outcomes
  <2> QED
    BY <1>1, <1>3, <2>1, FailIsRefusal
<1>4. ASSUME r.ref \notin Groups \cup {NULL}, Fail(h, "unknown_parent") PROVE Promise!Refuse(h)
  <2>1. "unknown_parent" \in Promise!Reasons(r)
    BY <1>2, <1>4 DEF Promise!Reasons, Promise!Outcomes, Groups, Promise!Groups
  <2> QED
    BY <1>1, <1>4, <2>1, FailIsRefusal
<1>5. ASSUME r.valid, r.ref \in Groups \cup {NULL}, Committed(h),
             NEW id \in GroupIds \ bornGroups, InsertGroup(id, r.ref)
      PROVE  Promise!Commit(h)
  <2>1. Promise!Effect(h)
    BY <1>2, <1>5 DEF Promise!Effect, Groups, Promise!Groups, InsertGroup, Promise!InsertGroup,
      With, Promise!With
  <2> QED
    BY <1>1, <1>5, <2>1, CommittedIsCommit
<1> QED
  BY <1>3, <1>4, <1>5 DEF CreateGroup, InsertGroupResult, mapGroupParentError

(* The promise and the service speak of the same tree.                     *)
LEMMA SameTree ==
  /\ \A a : Promise!Subtree(a) = Subtree(a)
  /\ \A a : Promise!OnCycle(a) <=> OnCycle(a)
<1>1. \A S : Promise!Closed(S) <=> Closed(S)
  BY DEF Promise!Closed, Closed, Groups, Promise!Groups
<1>2. \A a : Promise!Subtree(a) = Subtree(a)
  BY <1>1 DEF Promise!Subtree, Subtree, Groups, Promise!Groups
<1> QED
  BY <1>2 DEF Promise!OnCycle, OnCycle, Groups, Promise!Groups

(* The lookup of the group goes on, or refuses one missing or its own parent. *)
LEMMA GetGroupStep ==
  ASSUME Inv, NEW h \in Handlers, GetGroup(h)
  PROVE  Promise!Refuse(h) \/ UNCHANGED Promise!vars
<1> DEFINE r == arg[h]
<1>1. /\ At(h, "getGroup") /\ InFlight(h) /\ ControlTypeOK
      /\ "getGroup" \in StepsOf(r.op)
  BY DEF GetGroup, At, InFlight, Inv, TypeOK, OnPath
<1>2. r.op \in {"UpdateGroup", "DeleteGroup"}
  BY <1>1 DEF StepsOf
<1>3. ASSUME r.id \notin Groups, Fail(h, "not_found") PROVE Promise!Refuse(h)
  <2>1. "not_found" \in Promise!Reasons(r)
    BY <1>2, <1>3 DEF Promise!Reasons, Promise!Outcomes, Groups, Promise!Groups
  <2> QED
    BY <1>1, <1>3, <2>1, FailIsRefusal
<1>4. ASSUME r.id \in Groups, r.op = "UpdateGroup", r.ref = r.id, Fail(h, "cyclic")
      PROVE  Promise!Refuse(h)
  <2>1. r.ref \in Promise!Subtree(r.id)
    BY <1>4, SubtreeIsClosed, SameTree
  <2>2. "cyclic" \in Promise!Reasons(r)
    BY <1>4, <2>1 DEF Promise!Reasons, Promise!Outcomes
  <2> QED
    BY <1>1, <1>4, <2>2, FailIsRefusal
<1>5. ASSUME NEW step, Proceed(h, step), step = "updateGroup" => r.ref = NULL
      PROVE  UNCHANGED Promise!vars
  BY <1>1, <1>5, ProceedIsNoStep DEF At
<1> QED
  BY <1>3, <1>4, <1>5 DEF GetGroup

(* The cycle check clears the move, or refuses it, or never returns.       *)
LEMMA CheckCycleStep ==
  ASSUME Inv, NEW h \in Handlers, CheckCycle(h)
  PROVE  Promise!Refuse(h) \/ Promise!Clear(h) \/ UNCHANGED Promise!vars
<1> DEFINE r == arg[h]
<1>1. /\ At(h, "checkCycle") /\ InFlight(h) /\ ControlTypeOK
      /\ "checkCycle" \in StepsOf(r.op) /\ r.ref \in bornGroups
  BY DEF CheckCycle, At, InFlight, Inv, TypeOK, OnPath, LookedUp
<1>2. r.op = "UpdateGroup"
  BY <1>1 DEF StepsOf
<1>3. CASE IsDescendant(r.id, r.ref)
  <2>1. "cyclic" \in Promise!Reasons(r)
    BY <1>2, <1>3, SameTree DEF Promise!Reasons, Promise!Outcomes, IsDescendant
  <2> QED
    BY <1>1, <1>3, <2>1, FailIsRefusal DEF CheckCycle
<1>4. CASE /\ ~IsDescendant(r.id, r.ref) /\ r.ref # NULL
           /\ IsDescendantReturns(r.id, r.ref)
  <2>1. pc' = [pc EXCEPT ![h] = "updateGroup"] /\ UNCHANGED <<store, arg, reply>>
    BY <1>4 DEF CheckCycle, Proceed, Goto
  <2>2. Cleared' = [Cleared EXCEPT ![h] = TRUE]
    <3>1. ASSUME NEW d \in Handlers PROVE Cleared'[d] = [Cleared EXCEPT ![h] = TRUE][d]
      <4>1. CASE d = h
        BY <1>4, <2>1, <4>1 DEF Cleared, At, ControlTypeOK, Inv, TypeOK
      <4>2. CASE d # h
        BY <2>1, <4>2 DEF Cleared, At, ControlTypeOK, Inv, TypeOK
      <4> QED
        BY <4>1, <4>2
    <3> QED
      BY <3>1 DEF Cleared
  <2>3. r.ref \notin Promise!Subtree(r.id)
    BY <1>4, SameTree DEF IsDescendant
  <2> QED
    BY <1>1, <1>2, <1>4, <2>1, <2>2, <2>3 DEF Promise!Clear, Cleared, store, Promise!store
<1>5. CASE ~IsDescendant(r.id, r.ref) /\ (r.ref = NULL \/ ~IsDescendantReturns(r.id, r.ref))
  <2> DEFINE step == IF IsDescendantReturns(r.id, r.ref) THEN "updateGroup" ELSE "hung"
  <2>1. Proceed(h, step) /\ (step = "updateGroup" => r.ref = NULL)
    BY <1>5 DEF CheckCycle
  <2> HIDE DEF step
  <2> QED
    BY <1>1, <2>1, ProceedIsNoStep DEF At
<1> QED
  BY <1>3, <1>4, <1>5

(* The update commits what was cleared, or refuses.                        *)
LEMMA UpdateGroupStep ==
  ASSUME Inv, NEW h \in Handlers, UpdateGroup(h)
  PROVE  Promise!Refuse(h) \/ Promise!Commit(h)
<1> DEFINE r == arg[h]
<1>1. /\ At(h, "updateGroup") /\ InFlight(h) /\ ControlTypeOK
      /\ "updateGroup" \in StepsOf(r.op)
  BY DEF UpdateGroup, At, InFlight, Inv, TypeOK, OnPath
<1>2. r.op = "UpdateGroup"
  BY <1>1 DEF StepsOf
<1>3. ASSUME NEW reason, Fail(h, reason),
             \/ reason = "invalid" /\ ~r.valid
             \/ reason = "not_found" /\ r.id \notin Groups
             \/ reason = "unknown_parent" /\ r.ref \notin Groups \cup {NULL}
      PROVE  Promise!Refuse(h)
  <2>1. reason \in Promise!Reasons(r)
    BY <1>2, <1>3 DEF Promise!Reasons, Promise!Outcomes, Groups, Promise!Groups
  <2> QED
    BY <1>1, <1>3, <2>1, FailIsRefusal
<1>4. ASSUME r.valid, r.id \in Groups, r.ref \in Groups \cup {NULL}, SetParent(r.id, r.ref),
             NEW outcome \in {"ok", "aborted"}, Return(h, outcome)
      PROVE  Promise!Commit(h)
  <2>1. r.ref = NULL \/ (r.ref \in Groups /\ Cleared[h])
    BY <1>1, <1>4 DEF Cleared
  <2>2. Promise!Effect(h)
    BY <1>2, <1>4, <2>1 DEF Promise!Effect, Cleared, Groups, Promise!Groups, SetParent,
      Promise!SetParent, With, Promise!With
  <2>3. Promise!Answer(h, outcome)
    BY <1>1, <1>4, ReturnIsAnswer
  <2> QED
    BY <1>4, <2>2, <2>3 DEF Promise!Commit
<1> QED
  BY <1>3, <1>4 DEF UpdateGroup, UpdateGroupResult, mapGroupParentError

(* The count of the people goes on, or refuses a group that has some.      *)
LEMMA CountPeopleStep ==
  ASSUME Inv, NEW h \in Handlers, CountPeople(h)
  PROVE  Promise!Refuse(h) \/ UNCHANGED Promise!vars
<1> DEFINE r == arg[h]
<1>1. /\ At(h, "countPeople") /\ InFlight(h) /\ ControlTypeOK
      /\ "countPeople" \in StepsOf(r.op)
  BY DEF CountPeople, At, InFlight, Inv, TypeOK, OnPath
<1>2. r.op = "DeleteGroup"
  BY <1>1 DEF StepsOf
<1>3. CASE Members(r.id) # {}
  <2>1. "has_people" \in Promise!Reasons(r)
    BY <1>2, <1>3 DEF Promise!Reasons, Promise!Outcomes, Members, Promise!Members, People,
      Promise!People
  <2> QED
    BY <1>1, <1>3, <2>1, FailIsRefusal DEF CountPeople
<1>4. CASE Members(r.id) = {}
  BY <1>1, <1>4, ProceedIsNoStep DEF CountPeople, At
<1> QED
  BY <1>3, <1>4

(* The delete commits, or refuses with the constraint that stands in its way. *)
LEMMA DeleteGroupStep ==
  ASSUME Inv, NEW h \in Handlers, DeleteGroup(h)
  PROVE  Promise!Refuse(h) \/ Promise!Commit(h)
<1> DEFINE r == arg[h]
<1>1. /\ At(h, "deleteGroup") /\ InFlight(h) /\ ControlTypeOK
      /\ "deleteGroup" \in StepsOf(r.op)
  BY DEF DeleteGroup, At, InFlight, Inv, TypeOK, OnPath
<1>2. r.op = "DeleteGroup"
  BY <1>1 DEF StepsOf
<1>3. ASSUME NEW reason, Fail(h, reason),
             \/ reason = "not_found" /\ r.id \notin Groups
             \/ reason = "has_children" /\ Children(r.id) # {}
             \/ reason = "has_people" /\ Members(r.id) # {}
             \/ reason = "internal" /\ OnCycle(r.id)
      PROVE  Promise!Refuse(h)
  <2>1. reason \in Promise!Reasons(r)
    BY <1>2, <1>3, SameTree DEF Promise!Reasons, Promise!Outcomes, Groups, Promise!Groups,
      People, Promise!People, Children, Promise!Children, Members, Promise!Members
  <2> QED
    BY <1>1, <1>3, <2>1, FailIsRefusal
<1>4. ASSUME "done" \in DeleteGroupResults(r.id), RemoveGroup(r.id), Committed(h)
      PROVE  Promise!Commit(h)
  <2>1. r.id \in Groups /\ Children(r.id) = {} /\ Members(r.id) = {}
    BY <1>4 DEF DeleteGroupResults
  <2>2. Promise!Effect(h)
    BY <1>2, <1>4, <2>1 DEF Promise!Effect, Groups, Promise!Groups, People, Promise!People,
      Children, Promise!Children, Members, Promise!Members, RemoveGroup, Promise!RemoveGroup,
      Without, Promise!Without
  <2>3. r.valid
    BY <1>1, <1>2 DEF ControlTypeOK, InFlight, Requests, GroupRequests, PersonRequests,
      CreateGroupRequests, UpdateGroupRequests, DeleteGroupRequests, CreatePersonRequests,
      UpdatePersonRequests, DeletePersonRequests, NoRequest
  <2> QED
    BY <1>1, <1>4, <2>2, <2>3, CommittedIsCommit
<1>5. ASSUME Deadlocked(h), Fail(h, mapGroupDeleteError("deadlock")) PROVE Promise!Refuse(h)
  BY <1>3, <1>5 DEF Deadlocked, mapGroupDeleteError
<1>6. ASSUME NEW result \in DeleteGroupResults(r.id), result # "done",
             Fail(h, mapGroupDeleteError(result))
      PROVE  Promise!Refuse(h)
  BY <1>3, <1>6 DEF DeleteGroupResults, mapGroupDeleteError
<1> QED
  BY <1>4, <1>5, <1>6 DEF DeleteGroup

(* The lookup of a person's group goes on, or refuses an unknown group.    *)
LEMMA CheckGroupStep ==
  ASSUME Inv, NEW h \in Handlers, CheckGroup(h)
  PROVE  Promise!Refuse(h) \/ UNCHANGED Promise!vars
<1>1. /\ At(h, "checkGroup") /\ InFlight(h) /\ ControlTypeOK
      /\ "checkGroup" \in StepsOf(arg[h].op)
  BY DEF CheckGroup, At, InFlight, Inv, TypeOK, OnPath
<1>2. arg[h].op \in {"CreatePerson", "UpdatePerson"}
  BY <1>1 DEF StepsOf
<1>3. CASE arg[h].ref \notin Groups
  <2>1. "unknown_group" \in Promise!Reasons(arg[h])
    BY <1>2, <1>3 DEF Promise!Reasons, Promise!Outcomes, Groups, Promise!Groups
  <2> QED
    BY <1>1, <1>3, <2>1, FailIsRefusal DEF CheckGroup
<1>4. CASE arg[h].ref \in Groups
  BY <1>1, <1>4, ProceedIsNoStep DEF CheckGroup, At
<1> QED
  BY <1>3, <1>4

(* The lookup of the person goes on, or refuses one that is missing.       *)
LEMMA GetPersonStep ==
  ASSUME Inv, NEW h \in Handlers, GetPerson(h)
  PROVE  Promise!Refuse(h) \/ UNCHANGED Promise!vars
<1> DEFINE r == arg[h]
<1>1. /\ At(h, "getPerson") /\ InFlight(h) /\ ControlTypeOK
      /\ "getPerson" \in StepsOf(r.op)
  BY DEF GetPerson, At, InFlight, Inv, TypeOK, OnPath
<1>2. r.op = "UpdatePerson"
  BY <1>1 DEF StepsOf
<1>3. ASSUME r.id \notin People, Fail(h, "not_found") PROVE Promise!Refuse(h)
  <2>1. "not_found" \in Promise!Reasons(r)
    BY <1>2, <1>3 DEF Promise!Reasons, Promise!Outcomes, People, Promise!People
  <2> QED
    BY <1>1, <1>3, <2>1, FailIsRefusal
<1>4. ASSUME NEW step \in {"checkGroup", "updatePerson"}, Proceed(h, step)
      PROVE  UNCHANGED Promise!vars
  BY <1>1, <1>4, ProceedIsNoStep DEF At
<1> QED
  BY <1>3, <1>4 DEF GetPerson

(* The insert commits, or refuses for validation or for its group.         *)
LEMMA CreatePersonStep ==
  ASSUME Inv, NEW h \in Handlers, CreatePerson(h)
  PROVE  Promise!Refuse(h) \/ Promise!Commit(h)
<1> DEFINE r == arg[h]
<1>1. /\ InFlight(h) /\ ControlTypeOK /\ "insertPerson" \in StepsOf(r.op)
  BY DEF CreatePerson, At, InFlight, Inv, TypeOK, OnPath
<1>2. r.op = "CreatePerson"
  BY <1>1 DEF StepsOf
<1>3. ASSUME NEW reason, Fail(h, reason),
             \/ reason = "invalid" /\ ~r.valid
             \/ reason = "unknown_group" /\ r.ref \notin Groups
      PROVE  Promise!Refuse(h)
  <2>1. reason \in Promise!Reasons(r)
    BY <1>2, <1>3 DEF Promise!Reasons, Promise!Outcomes, Groups, Promise!Groups
  <2> QED
    BY <1>1, <1>3, <2>1, FailIsRefusal
<1>4. ASSUME r.valid, r.ref \in Groups, Committed(h),
             NEW id \in PersonIds \ bornPeople, InsertPerson(id, r.ref)
      PROVE  Promise!Commit(h)
  <2>1. Promise!Effect(h)
    BY <1>2, <1>4 DEF Promise!Effect, Groups, Promise!Groups, InsertPerson,
      Promise!InsertPerson, With, Promise!With
  <2> QED
    BY <1>1, <1>4, <2>1, CommittedIsCommit
<1> QED
  BY <1>3, <1>4 DEF CreatePerson, InsertPersonResult, mapPersonGroupError

(* The update commits, or refuses a person or a group gone meanwhile.      *)
LEMMA UpdatePersonStep ==
  ASSUME Inv, NEW h \in Handlers, UpdatePerson(h)
  PROVE  Promise!Refuse(h) \/ Promise!Commit(h)
<1> DEFINE r == arg[h]
<1>1. /\ InFlight(h) /\ ControlTypeOK /\ "updatePerson" \in StepsOf(r.op)
  BY DEF UpdatePerson, At, InFlight, Inv, TypeOK, OnPath
<1>2. r.op = "UpdatePerson"
  BY <1>1 DEF StepsOf
<1>3. ASSUME NEW reason, Fail(h, reason),
             \/ reason = "invalid" /\ ~r.valid
             \/ reason = "not_found" /\ r.id \notin People
             \/ reason = "unknown_group" /\ r.ref \notin Groups
      PROVE  Promise!Refuse(h)
  <2>1. reason \in Promise!Reasons(r)
    BY <1>2, <1>3 DEF Promise!Reasons, Promise!Outcomes, Groups, Promise!Groups, People,
      Promise!People
  <2> QED
    BY <1>1, <1>3, <2>1, FailIsRefusal
<1>4. ASSUME r.valid, r.id \in People, r.ref \in Groups, SetMember(r.id, r.ref), Committed(h)
      PROVE  Promise!Commit(h)
  <2>1. Promise!Effect(h)
    BY <1>2, <1>4 DEF Promise!Effect, Groups, Promise!Groups, People, Promise!People, SetMember,
      Promise!SetMember, With, Promise!With
  <2> QED
    BY <1>1, <1>4, <2>1, CommittedIsCommit
<1> QED
  BY <1>3, <1>4 DEF UpdatePerson, UpdatePersonResult, mapPersonGroupError

(* The delete commits, or refuses a person who is missing.                 *)
LEMMA DeletePersonStep ==
  ASSUME Inv, NEW h \in Handlers, DeletePerson(h)
  PROVE  Promise!Refuse(h) \/ Promise!Commit(h)
<1> DEFINE r == arg[h]
<1>1. /\ InFlight(h) /\ ControlTypeOK /\ "deletePerson" \in StepsOf(r.op)
  BY DEF DeletePerson, At, InFlight, Inv, TypeOK, OnPath
<1>2. r.op = "DeletePerson"
  BY <1>1 DEF StepsOf
<1>3. CASE r.id \notin People
  <2>1. "not_found" \in Promise!Reasons(r)
    BY <1>2, <1>3 DEF Promise!Reasons, Promise!Outcomes, People, Promise!People
  <2> QED
    BY <1>1, <1>3, <2>1, FailIsRefusal DEF DeletePerson
<1>4. CASE r.id \in People
  <2>1. Promise!Effect(h) /\ Committed(h)
    BY <1>2, <1>4 DEF DeletePerson, Promise!Effect, People, Promise!People, RemovePerson,
      Promise!RemovePerson, Without, Promise!Without
  <2>2. r.valid
    BY <1>1, <1>2 DEF ControlTypeOK, InFlight, Requests, GroupRequests, PersonRequests,
      CreateGroupRequests, UpdateGroupRequests, DeleteGroupRequests, CreatePersonRequests,
      UpdatePersonRequests, DeletePersonRequests, NoRequest
  <2> QED
    BY <1>1, <2>1, <2>2, CommittedIsCommit
<1> QED
  BY <1>3, <1>4

(* Every step of the service is a step of the directory or none.           *)
LEMMA NextIsPromised == Inv /\ [Next]_vars => [Promise!Next]_(Promise!vars)
<1> SUFFICES ASSUME Inv, [Next]_vars PROVE [Promise!Next]_(Promise!vars)
  OBVIOUS
<1>1. CASE UNCHANGED vars
  <2>1. UNCHANGED <<pc, arg, reply, store>>
    BY <1>1 DEF vars
  <2>2. Cleared' = Cleared
    BY <2>1 DEF Cleared, At
  <2> QED
    BY <2>1, <2>2 DEF Promise!vars, Promise!store, store, Cleared
<1>2. CASE Next
  <2>1. PICK h \in Handlers : Accept(h) \/ Cancel(h) \/ Execute(h)
    BY <1>2 DEF Next
  <2>2. \/ Promise!Submit(h) \/ Promise!Clear(h) \/ Promise!Commit(h) \/ Promise!Refuse(h)
        \/ UNCHANGED Promise!vars
    BY <2>1, AcceptIsSubmit, CancelIsRefusal, CheckParentStep, CreateGroupStep, GetGroupStep,
      CheckCycleStep, UpdateGroupStep, CountPeopleStep, DeleteGroupStep, CheckGroupStep,
      CreatePersonStep, GetPersonStep, UpdatePersonStep, DeletePersonStep DEF Execute
  <2> QED
    BY <2>2 DEF Promise!Next
<1> QED
  BY <1>1, <1>2

(* Every request takes effect at one instant, or is refused for a reason   *)
(* that holds at that instant, or is cut off: with any number of handlers  *)
(* interleaving their statements, callers see no other behaviour.          *)
THEOREM Refinement == Spec => ImplementsDirectory
<1>1. Init => Promise!Init
  BY InitIsInit
<1>2. Inv /\ [Next]_vars => [Promise!Next]_(Promise!vars)
  BY NextIsPromised
<1> QED
  BY <1>1, <1>2, Invariance, PTL DEF Spec, ImplementsDirectory, Promise!Spec
=============================================================================
