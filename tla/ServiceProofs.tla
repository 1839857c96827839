--------------------------- MODULE ServiceProofs ---------------------------
(***************************************************************************)
(* The safety of Service for any number of handlers, groups and people:    *)
(* its invariant, that cycles come only from overtaken reparents and stay  *)
(* until a root is made, and that without overtaken reparents the groups   *)
(* are a forest.                                                           *)
(***************************************************************************)
EXTENDS Service, SubtreeProofs

-----------------------------------------------------------------------------
(* Steps that leave the groups table alone.                                *)

(* The tree depends on the groups table only.                              *)
LEMMA SameGroupsSameTree ==
  ASSUME UNCHANGED <<parent, bornGroups>>
  PROVE  /\ \A a, b : Apart(a, b)' <=> Apart(a, b)
         /\ \A g : OnCycle(g)' <=> OnCycle(g)
<1>1. \A S : Closed(S)' <=> Closed(S)
  BY DEF Closed, Groups
<1>2. \A a : Subtree(a)' = Subtree(a)
  BY <1>1 DEF Subtree, Groups
<1> QED
  BY <1>1, <1>2 DEF Apart, OnCycle, Groups

-----------------------------------------------------------------------------
(* The ways in which a step ends.                                          *)

(* A handler that returns leaves the control state in order.               *)
LEMMA ReturnIsSafe ==
  ASSUME ControlTypeOK, OnPath,
         NEW h \in Handlers, NEW outcome \in Outcomes, Return(h, outcome),
         overtaken' \in [Handlers -> BOOLEAN]
  PROVE  ControlTypeOK' /\ OnPath'
<1>1. StepsOf("none") = {"idle"}
  BY DEF StepsOf
<1> QED
  BY <1>1 DEF ControlTypeOK, OnPath, Return, NoRequest

(* The handlers that do not move keep what they know when the statement    *)
(* forgets no id, and what their checks established when it moves nothing  *)
(* together.                                                               *)
LEMMA OthersKeepTheirKnowledge ==
  ASSUME ControlTypeOK, LookedUp, CheckStillHolds,
         NEW h \in Handlers, NEW outcome \in Outcomes, Return(h, outcome),
         bornGroups \subseteq bornGroups',
         overtaken' = [overtaken EXCEPT ![h] = FALSE],
         \A a \in bornGroups, b \in bornGroups : Apart(a, b) => Apart(a, b)',
         \A g : OnCycle(g)' => OnCycle(g)
  PROVE  LookedUp' /\ CheckStillHolds'
<1>1. pc'[h] = "idle" /\ \A d \in Handlers \ {h} :
        pc'[d] = pc[d] /\ arg'[d] = arg[d] /\ overtaken'[d] = overtaken[d]
  BY DEF ControlTypeOK, Return
<1>2. LookedUp'
  BY <1>1 DEF LookedUp, At
<1>3. CheckStillHolds'
  <2> SUFFICES ASSUME NEW d \in Handlers,
                      (At(d, "updateGroup") /\ arg[d].ref # NULL /\ ~overtaken[d])'
               PROVE  (Apart(arg[d].id, arg[d].ref) /\ ~OnCycle(arg[d].id))'
    BY DEF CheckStillHolds
  <2>1. /\ d # h /\ At(d, "updateGroup") /\ arg'[d] = arg[d] /\ arg[d].ref # NULL
        /\ Apart(arg[d].id, arg[d].ref) /\ ~OnCycle(arg[d].id)
    BY <1>1 DEF At, CheckStillHolds
  <2>2. arg[d].id \in bornGroups /\ arg[d].ref \in bornGroups
    BY <2>1 DEF LookedUp
  <2>3. Apart(arg[d].id, arg[d].ref)' /\ ~OnCycle(arg[d].id)'
    BY <2>1, <2>2
  <2> QED
    BY <2>3
<1> QED
  BY <1>2, <1>3

(* A statement that ends its use case with an error keeps the invariant.   *)
LEMMA FailKeepsInv ==
  ASSUME Inv, NEW h \in Handlers, NEW outcome \in Outcomes, Fail(h, outcome)
  PROVE  Inv'
<1>1. /\ Return(h, outcome) /\ UNCHANGED store
      /\ overtaken' = [overtaken EXCEPT ![h] = FALSE]
  BY DEF Fail
<1>2. StoreTypeOK' /\ ReferentialIntegrity'
  BY <1>1, SameStore DEF Inv, TypeOK
<1>3. UNCHANGED <<parent, bornGroups>>
  BY <1>1 DEF store
<1>4. ControlTypeOK' /\ OnPath'
  BY <1>1, ReturnIsSafe DEF Inv, TypeOK, ControlTypeOK
<1>5. LookedUp' /\ CheckStillHolds'
  BY <1>1, <1>3, OthersKeepTheirKnowledge, SameGroupsSameTree DEF Inv, TypeOK
<1> QED
  BY <1>2, <1>4, <1>5 DEF Inv, TypeOK

(* A write that commits keeps the invariant when the statement is safe and *)
(* moves no group below another.                                           *)
LEMMA CommittedKeepsInv ==
  ASSUME Inv, NEW h \in Handlers, Committed(h),
         StoreTypeOK', ReferentialIntegrity', bornGroups \subseteq bornGroups',
         \A a \in bornGroups, b \in bornGroups : Apart(a, b) => Apart(a, b)',
         \A g : OnCycle(g)' => OnCycle(g)
  PROVE  Inv'
<1>1. overtaken' = [overtaken EXCEPT ![h] = FALSE]
  BY DEF Committed
<1>2. PICK outcome \in {"ok", "aborted"} : Return(h, outcome)
  BY DEF Committed
<1>3. outcome \in Outcomes
  BY DEF Outcomes
<1>4. ControlTypeOK' /\ OnPath'
  BY <1>1, <1>2, <1>3, ReturnIsSafe DEF Inv, TypeOK, ControlTypeOK
<1>5. LookedUp' /\ CheckStillHolds'
  BY <1>1, <1>2, <1>3, OthersKeepTheirKnowledge DEF Inv, TypeOK
<1> QED
  BY <1>4, <1>5 DEF Inv, TypeOK

(* A statement that lets its use case go on keeps the invariant when the   *)
(* next statement is one of the use case and finds what it relies on.      *)
LEMMA ProceedKeepsInv ==
  ASSUME Inv, NEW h \in Handlers, InFlight(h),
         NEW step \in StepsOf(arg[h].op), Proceed(h, step),
         step = "checkParent" => arg[h].ref # NULL,
         step = "checkParent" /\ arg[h].op = "UpdateGroup" =>
           arg[h].id \in bornGroups /\ arg[h].ref # arg[h].id,
         step = "checkCycle" =>
           {arg[h].id, arg[h].ref} \subseteq bornGroups /\ arg[h].ref # arg[h].id,
         step = "updateGroup" =>
           /\ arg[h].id \in bornGroups /\ arg[h].ref \in bornGroups \cup {NULL}
           /\ arg[h].ref # NULL => Apart(arg[h].id, arg[h].ref) /\ ~OnCycle(arg[h].id)
  PROVE  Inv'
<1>1. /\ pc' = [pc EXCEPT ![h] = step]
      /\ UNCHANGED <<store, arg, reply, overtaken>>
  BY DEF Proceed, Goto
<1>2. StoreTypeOK' /\ ReferentialIntegrity'
  BY <1>1, SameStore DEF Inv, TypeOK
<1>3. UNCHANGED <<parent, bornGroups>>
  BY <1>1 DEF store
<1>4. step # "idle" /\ step \in Steps
  <2>1. arg[h] # NoRequest /\ arg[h] \in Requests
    BY DEF Inv, TypeOK, ControlTypeOK, InFlight
  <2>2. arg[h].op \in {"CreateGroup", "UpdateGroup", "DeleteGroup",
                       "CreatePerson", "UpdatePerson", "DeletePerson"}
    BY <2>1 DEF Requests, GroupRequests, PersonRequests, CreateGroupRequests,
      UpdateGroupRequests, DeleteGroupRequests, CreatePersonRequests, UpdatePersonRequests,
      DeletePersonRequests
  <2> QED
    BY <2>2 DEF StepsOf, Steps
<1>5. ControlTypeOK' /\ OnPath'
  BY <1>1, <1>4 DEF Inv, TypeOK, ControlTypeOK, OnPath, InFlight
<1>6. LookedUp'
  BY <1>1, <1>3 DEF Inv, TypeOK, ControlTypeOK, LookedUp, At
<1>7. CheckStillHolds'
  <2> SUFFICES ASSUME NEW d \in Handlers,
                      (At(d, "updateGroup") /\ arg[d].ref # NULL /\ ~overtaken[d])'
               PROVE  (Apart(arg[d].id, arg[d].ref) /\ ~OnCycle(arg[d].id))'
    BY DEF CheckStillHolds
  <2>1. Apart(arg[d].id, arg[d].ref) /\ ~OnCycle(arg[d].id)
    BY <1>1 DEF Inv, TypeOK, ControlTypeOK, CheckStillHolds, At
  <2>2. arg' = arg
    BY <1>1
  <2> QED
    BY <1>3, <2>1, <2>2, SameGroupsSameTree
<1> QED
  BY <1>2, <1>5, <1>6, <1>7 DEF Inv, TypeOK

-----------------------------------------------------------------------------
(* The actions keep the invariant.                                         *)

(* The empty service satisfies the invariant.                              *)
LEMMA InitInv == Init => Inv
BY DEF Init, StoreInit, Inv, TypeOK, StoreTypeOK, ControlTypeOK, ReferentialIntegrity, OnPath,
  StepsOf, LookedUp, CheckStillHolds, At, NoRequest, NoReply, Groups, People

(* A request that arrives knows nothing yet.                               *)
LEMMA AcceptInv ==
  ASSUME Inv, NEW h \in Handlers, Accept(h)
  PROVE  Inv'
<1>1. PICK r \in Requests : /\ arg' = [arg EXCEPT ![h] = r]
                            /\ pc' = [pc EXCEPT ![h] = FirstStep(r)]
  BY DEF Accept
<1>2. /\ At(h, "idle") /\ reply' = [reply EXCEPT ![h] = NoReply]
      /\ UNCHANGED <<store, overtaken>>
  BY DEF Accept
<1>3. r.op \in {"CreateGroup", "UpdateGroup", "DeleteGroup",
                "CreatePerson", "UpdatePerson", "DeletePerson"}
  BY DEF Requests, GroupRequests, PersonRequests, CreateGroupRequests, UpdateGroupRequests,
    DeleteGroupRequests, CreatePersonRequests, UpdatePersonRequests, DeletePersonRequests
<1>4. /\ FirstStep(r) \in StepsOf(r.op) /\ FirstStep(r) \in Steps /\ r # NoRequest
      /\ FirstStep(r) \notin {"idle", "checkCycle", "updateGroup"}
      /\ FirstStep(r) = "checkParent" => r.op = "CreateGroup" /\ r.ref # NULL
  BY <1>3 DEF FirstStep, StepsOf, Steps, NoRequest
<1>5. StoreTypeOK' /\ ReferentialIntegrity' /\ UNCHANGED <<parent, bornGroups>>
  BY <1>2, SameStore DEF Inv, TypeOK, store
<1>6. ControlTypeOK' /\ OnPath'
  BY <1>1, <1>2, <1>4 DEF Inv, TypeOK, ControlTypeOK, OnPath, NoReply
<1>7. LookedUp'
  BY <1>1, <1>2, <1>4, <1>5 DEF Inv, TypeOK, ControlTypeOK, LookedUp, At
<1>8. CheckStillHolds'
  <2> SUFFICES ASSUME NEW d \in Handlers,
                      (At(d, "updateGroup") /\ arg[d].ref # NULL /\ ~overtaken[d])'
               PROVE  (Apart(arg[d].id, arg[d].ref) /\ ~OnCycle(arg[d].id))'
    BY DEF CheckStillHolds
  <2>1. Apart(arg[d].id, arg[d].ref) /\ ~OnCycle(arg[d].id) /\ arg'[d] = arg[d]
    BY <1>1, <1>2, <1>4 DEF Inv, TypeOK, ControlTypeOK, CheckStillHolds, At
  <2>2. Apart(arg[d].id, arg[d].ref)' /\ ~OnCycle(arg[d].id)'
    BY <1>5, <2>1, SameGroupsSameTree
  <2> QED
    BY <2>2
<1> QED
  BY <1>5, <1>6, <1>7, <1>8 DEF Inv, TypeOK

(* A context that ends keeps the invariant.                                *)
LEMMA CancelInv ==
  ASSUME Inv, NEW h \in Handlers, Cancel(h)
  PROVE  Inv'
BY FailKeepsInv DEF Cancel, Outcomes

(* A parent that was found is an id of the table from then on.             *)
LEMMA CheckParentInv ==
  ASSUME Inv, NEW h \in Handlers, CheckParent(h)
  PROVE  Inv'
<1> DEFINE r == arg[h]
           step == IF r.op = "CreateGroup" THEN "insertGroup" ELSE "checkCycle"
<1>1. At(h, "checkParent")
  BY DEF CheckParent
<1>2. CASE r.ref \notin Groups
  BY <1>2, FailKeepsInv DEF CheckParent, Outcomes
<1>3. CASE r.ref \in Groups
  <2>1. Proceed(h, step)
    BY <1>3 DEF CheckParent
  <2>2. r.op \in {"CreateGroup", "UpdateGroup"} /\ InFlight(h)
    <3>1. "checkParent" \in StepsOf(r.op)
      BY <1>1 DEF Inv, OnPath, At
    <3> QED
      BY <1>1, <3>1 DEF StepsOf, At, InFlight
  <2>3. step \in StepsOf(r.op)
    BY <2>2 DEF StepsOf
  <2>4. r.op = "UpdateGroup" => {r.id, r.ref} \subseteq bornGroups /\ r.ref # r.id
    BY <1>1, <1>3 DEF Inv, LookedUp, TypeOK, StoreTypeOK
  <2> QED
    BY <2>1, <2>2, <2>3, <2>4, ProceedKeepsInv
<1> QED
  BY <1>2, <1>3

(* A new group has no children, so it keeps apart what was apart.          *)
LEMMA CreateGroupInv ==
  ASSUME Inv, NEW h \in Handlers, CreateGroup(h)
  PROVE  Inv'
<1> DEFINE r == arg[h]
<1>1. CASE \E outcome \in Outcomes : Fail(h, outcome)
  BY <1>1, FailKeepsInv
<1>2. ASSUME NEW n \in GroupIds \ bornGroups, InsertGroup(n, r.ref), Committed(h),
             r.ref \in Groups \cup {NULL}
      PROVE  Inv'
  <2>1. StoreTypeOK' /\ ReferentialIntegrity'
    BY <1>2, InsertGroupIsSafe DEF Inv, TypeOK
  <2>2. \A g : OnCycle(g)' => OnCycle(g)
    BY <1>2, InsertKeepsCycles DEF Inv, TypeOK
  <2>3. \A a \in bornGroups, b \in bornGroups : Apart(a, b) => Apart(a, b)'
    BY <1>2, InsertKeepsApart DEF Inv, TypeOK
  <2>4. bornGroups \subseteq bornGroups'
    BY <1>2 DEF InsertGroup
  <2> QED
    BY <1>2, <2>1, <2>2, <2>3, <2>4, CommittedKeepsInv
<1> QED
  BY <1>1, <1>2 DEF CreateGroup, InsertGroupResult, mapGroupParentError, Outcomes

(* A move goes on only with a group that exists and a parent that is another. *)
LEMMA GetGroupInv ==
  ASSUME Inv, NEW h \in Handlers, GetGroup(h)
  PROVE  Inv'
<1> DEFINE r == arg[h]
<1>1. CASE \E outcome \in Outcomes : Fail(h, outcome)
  BY <1>1, FailKeepsInv
<1>2. CASE /\ r.id \in Groups
           /\ \/ r.op = "DeleteGroup" /\ Proceed(h, "countPeople")
              \/ r.op = "UpdateGroup" /\ r.ref = NULL /\ Proceed(h, "updateGroup")
              \/ r.op = "UpdateGroup" /\ r.ref \notin {NULL, r.id} /\ Proceed(h, "checkParent")
  <2>1. InFlight(h) /\ r.id \in bornGroups
    BY <1>2 DEF GetGroup, At, InFlight, Inv, TypeOK, StoreTypeOK
  <2>2. CASE r.op = "DeleteGroup" /\ Proceed(h, "countPeople")
    BY <2>1, <2>2, ProceedKeepsInv DEF StepsOf
  <2>3. CASE r.op = "UpdateGroup" /\ r.ref = NULL /\ Proceed(h, "updateGroup")
    BY <2>1, <2>3, ProceedKeepsInv DEF StepsOf
  <2>4. CASE r.op = "UpdateGroup" /\ r.ref \notin {NULL, r.id} /\ Proceed(h, "checkParent")
    BY <2>1, <2>4, ProceedKeepsInv DEF StepsOf
  <2> QED
    BY <1>2, <2>2, <2>3, <2>4
<1> QED
  BY <1>1, <1>2 DEF GetGroup, Outcomes

(* A check that passes puts the group and its new parent apart.            *)
LEMMA CheckCycleInv ==
  ASSUME Inv, NEW h \in Handlers, CheckCycle(h)
  PROVE  Inv'
<1> DEFINE r == arg[h]
<1>1. CASE IsDescendant(r.id, r.ref)
  BY <1>1, FailKeepsInv DEF CheckCycle, Outcomes
<1>2. CASE ~IsDescendant(r.id, r.ref)
  <2> DEFINE step == IF IsDescendantReturns(r.id, r.ref) THEN "updateGroup" ELSE "hung"
  <2>1. At(h, "checkCycle") /\ Proceed(h, step)
    BY <1>2 DEF CheckCycle
  <2>2. step = "updateGroup" => ~OnCycle(r.id)
    BY <1>2 DEF IsDescendantReturns
  <2>3. r.id \in bornGroups /\ r.ref \in bornGroups /\ r.ref # r.id
    BY <2>1 DEF Inv, LookedUp
  <2>4. Apart(r.id, r.ref)
    BY <1>2, <2>3, NoDescendantIsApart DEF Inv, TypeOK
  <2>5. step \in StepsOf(r.op) /\ step \in {"updateGroup", "hung"}
    <3>1. "checkCycle" \in StepsOf(r.op)
      BY <2>1 DEF Inv, OnPath, At
    <3> QED
      BY <3>1 DEF StepsOf
  <2> HIDE DEF step
  <2> QED
    BY <2>1, <2>2, <2>3, <2>4, <2>5, ProceedKeepsInv DEF InFlight, At
<1> QED
  BY <1>1, <1>2 DEF CheckCycle

(* A move to a new parent keeps the invariant because it spoils every      *)
(* check that is waiting to be used; any other write of the parent keeps   *)
(* the checks true.                                                        *)
LEMMA UpdateGroupInv ==
  ASSUME Inv, NEW h \in Handlers, UpdateGroup(h)
  PROVE  Inv'
<1> DEFINE r == arg[h]
           overtakes(d) == r.ref # NULL /\ At(d, "updateGroup") /\ arg[d].ref # NULL
<1>1. CASE \E outcome \in Outcomes : Fail(h, outcome)
  BY <1>1, FailKeepsInv
<1>2. ASSUME r.id \in Groups, r.ref \in Groups \cup {NULL}, SetParent(r.id, r.ref),
             NEW outcome \in {"ok", "aborted"}, Return(h, outcome),
             overtaken' = [d \in Handlers |-> d # h /\ (overtaken[d] \/ overtakes(d))]
      PROVE  Inv'
  <2>1. StoreTypeOK' /\ ReferentialIntegrity'
    BY <1>2, SetParentIsSafe DEF Inv, TypeOK
  <2>2. overtaken' \in [Handlers -> BOOLEAN] /\ outcome \in Outcomes /\ bornGroups' = bornGroups
    BY <1>2 DEF SetParent, Outcomes
  <2>3. ControlTypeOK' /\ OnPath'
    BY <1>2, <2>2, ReturnIsSafe DEF Inv, TypeOK
  <2>4. pc'[h] = "idle" /\ \A d \in Handlers \ {h} : pc'[d] = pc[d] /\ arg'[d] = arg[d]
    BY <1>2 DEF Return, Inv, TypeOK, ControlTypeOK
  <2>5. LookedUp'
    BY <2>2, <2>4 DEF Inv, LookedUp, At
  <2>6. CheckStillHolds'
    <3> SUFFICES ASSUME NEW d \in Handlers,
                        (At(d, "updateGroup") /\ arg[d].ref # NULL /\ ~overtaken[d])'
                 PROVE  (Apart(arg[d].id, arg[d].ref) /\ ~OnCycle(arg[d].id))'
      BY DEF CheckStillHolds
    <3>1. /\ At(d, "updateGroup") /\ arg'[d] = arg[d] /\ arg[d].ref # NULL
          /\ d # h /\ ~overtaken[d] /\ r.ref = NULL
      BY <1>2, <2>4 DEF At
    <3>2. Apart(arg[d].id, arg[d].ref) /\ ~OnCycle(arg[d].id)
      BY <3>1 DEF Inv, CheckStillHolds
    <3>3. SetParent(r.id, NULL) /\ StoreTypeOK
      BY <1>2, <3>1 DEF Inv, TypeOK
    <3>4. Apart(arg[d].id, arg[d].ref)'
      <4> DEFINE a == arg[d].id
                 b == arg[d].ref
      <4>1. \A x, y : Apart(x, y) => Apart(x, y)'
        BY <1>2, <3>3, RootKeepsApart
      <4> QED
        BY <3>1, <3>2, <4>1
    <3>5. ~OnCycle(arg[d].id)'
      <4>1. \A g : OnCycle(g)' => OnCycle(g)
        BY <1>2, <3>1, <3>3, ApartClosesNoCycle
      <4> QED
        BY <3>1, <3>2, <4>1
    <3> QED
      BY <3>4, <3>5
  <2> QED
    BY <2>1, <2>3, <2>5, <2>6 DEF Inv, TypeOK
<1>3. /\ mapGroupParentError(UpdateGroupResult(r.id, r.ref)) \in Outcomes
      /\ "invalid" \in Outcomes
      /\ UpdateGroupResult(r.id, r.ref) = "done" => r.id \in Groups /\ r.ref \in Groups \cup {NULL}
  BY DEF UpdateGroupResult, mapGroupParentError, Outcomes
<1> QED
  BY <1>1, <1>2, <1>3 DEF UpdateGroup

(* The count of the people writes nothing.                                 *)
LEMMA CountPeopleInv ==
  ASSUME Inv, NEW h \in Handlers, CountPeople(h)
  PROVE  Inv'
<1>1. CASE Members(arg[h].id) # {}
  BY <1>1, FailKeepsInv DEF CountPeople, Outcomes
<1>2. CASE Members(arg[h].id) = {}
  <2>1. At(h, "countPeople") /\ Proceed(h, "deleteGroup")
    BY <1>2 DEF CountPeople
  <2>2. "deleteGroup" \in StepsOf(arg[h].op)
    <3>1. "countPeople" \in StepsOf(arg[h].op)
      BY <2>1 DEF Inv, OnPath, At
    <3> QED
      BY <3>1 DEF StepsOf
  <2> QED
    BY <2>1, <2>2, ProceedKeepsInv DEF InFlight, At
<1> QED
  BY <1>1, <1>2

(* A group that is deleted had no children, and no cycle through it.       *)
LEMMA DeleteGroupInv ==
  ASSUME Inv, NEW h \in Handlers, DeleteGroup(h)
  PROVE  Inv'
<1> DEFINE id == arg[h].id
<1>1. CASE \E outcome \in Outcomes : Fail(h, outcome)
  BY <1>1, FailKeepsInv
<1>2. ASSUME "done" \in DeleteGroupResults(id), RemoveGroup(id), Committed(h)
      PROVE  Inv'
  <2>1. id \in Groups /\ Children(id) = {} /\ Members(id) = {}
    BY <1>2 DEF DeleteGroupResults
  <2>2. StoreTypeOK' /\ ReferentialIntegrity'
    BY <1>2, <2>1, RemoveGroupIsSafe DEF Inv, TypeOK
  <2>3. \A g : OnCycle(g)' => OnCycle(g)
    BY <1>2, <2>1, RemoveKeepsCycles
  <2>4. \A a, b : Apart(a, b) => Apart(a, b)'
    BY <1>2, RemoveKeepsApart
  <2>5. bornGroups \subseteq bornGroups'
    BY <1>2 DEF RemoveGroup
  <2> QED
    BY <1>2, <2>2, <2>3, <2>4, <2>5, CommittedKeepsInv
<1>3. \A result : mapGroupDeleteError(result) \in Outcomes
  BY DEF mapGroupDeleteError, Outcomes
<1> QED
  BY <1>1, <1>2, <1>3 DEF DeleteGroup

(* A write to people that commits leaves the tree alone.                   *)
LEMMA PeopleWriteKeepsInv ==
  ASSUME Inv, NEW h \in Handlers, Committed(h), UNCHANGED <<parent, bornGroups>>,
         StoreTypeOK', ReferentialIntegrity'
  PROVE  Inv'
BY SameGroupsSameTree, CommittedKeepsInv

(* The lookup of a person's group writes nothing.                          *)
LEMMA CheckGroupInv ==
  ASSUME Inv, NEW h \in Handlers, CheckGroup(h)
  PROVE  Inv'
<1> DEFINE r == arg[h]
           step == IF r.op = "CreatePerson" THEN "insertPerson" ELSE "updatePerson"
<1>1. CASE r.ref \notin Groups
  BY <1>1, FailKeepsInv DEF CheckGroup, Outcomes
<1>2. CASE r.ref \in Groups
  <2>1. At(h, "checkGroup") /\ Proceed(h, step)
    BY <1>2 DEF CheckGroup
  <2>2. step \in StepsOf(r.op)
    <3>1. "checkGroup" \in StepsOf(r.op)
      BY <2>1 DEF Inv, OnPath, At
    <3> QED
      BY <3>1 DEF StepsOf
  <2> QED
    BY <2>1, <2>2, ProceedKeepsInv DEF InFlight, At
<1> QED
  BY <1>1, <1>2

(* The lookup of a person writes nothing.                                  *)
LEMMA GetPersonInv ==
  ASSUME Inv, NEW h \in Handlers, GetPerson(h)
  PROVE  Inv'
<1>1. "not_found" \in Outcomes
  BY DEF Outcomes
<1>2. {"checkGroup", "updatePerson"} \subseteq StepsOf(arg[h].op) /\ InFlight(h)
  <2>1. "getPerson" \in StepsOf(arg[h].op) /\ At(h, "getPerson")
    BY DEF GetPerson, Inv, OnPath, At
  <2> QED
    BY <2>1 DEF StepsOf, At, InFlight
<1>3. ASSUME NEW step \in {"checkGroup", "updatePerson"}, Proceed(h, step)
      PROVE  Inv'
  BY <1>2, <1>3, ProceedKeepsInv
<1> QED
  BY <1>1, <1>3, FailKeepsInv DEF GetPerson

(* Inserting a person keeps the invariant.                                 *)
LEMMA CreatePersonInv ==
  ASSUME Inv, NEW h \in Handlers, CreatePerson(h)
  PROVE  Inv'
<1> DEFINE r == arg[h]
<1>1. CASE \E outcome \in Outcomes : Fail(h, outcome)
  BY <1>1, FailKeepsInv
<1>2. ASSUME NEW p \in PersonIds \ bornPeople, InsertPerson(p, r.ref), Committed(h),
             r.ref \in Groups
      PROVE  Inv'
  <2>1. StoreTypeOK' /\ ReferentialIntegrity'
    BY <1>2, InsertPersonIsSafe DEF Inv, TypeOK
  <2> QED
    BY <1>2, <2>1, PeopleWriteKeepsInv DEF InsertPerson
<1> QED
  BY <1>1, <1>2 DEF CreatePerson, InsertPersonResult, mapPersonGroupError, Outcomes

(* Moving a person keeps the invariant.                                    *)
LEMMA UpdatePersonInv ==
  ASSUME Inv, NEW h \in Handlers, UpdatePerson(h)
  PROVE  Inv'
<1> DEFINE r == arg[h]
<1>1. CASE \E outcome \in Outcomes : Fail(h, outcome)
  BY <1>1, FailKeepsInv
<1>2. ASSUME r.id \in People, r.ref \in Groups, SetMember(r.id, r.ref), Committed(h)
      PROVE  Inv'
  <2>1. StoreTypeOK' /\ ReferentialIntegrity'
    BY <1>2, SetMemberIsSafe DEF Inv, TypeOK
  <2> QED
    BY <1>2, <2>1, PeopleWriteKeepsInv DEF SetMember
<1>3. /\ mapPersonGroupError(UpdatePersonResult(r.id, r.ref)) \in Outcomes
      /\ "invalid" \in Outcomes
      /\ UpdatePersonResult(r.id, r.ref) = "done" => r.id \in People /\ r.ref \in Groups
  BY DEF UpdatePersonResult, mapPersonGroupError, Outcomes
<1> QED
  BY <1>1, <1>2, <1>3 DEF UpdatePerson

(* Deleting a person keeps the invariant.                                  *)
LEMMA DeletePersonInv ==
  ASSUME Inv, NEW h \in Handlers, DeletePerson(h)
  PROVE  Inv'
<1>1. CASE Fail(h, "not_found")
  BY <1>1, FailKeepsInv DEF Outcomes
<1>2. CASE arg[h].id \in People /\ RemovePerson(arg[h].id) /\ Committed(h)
  <2>1. StoreTypeOK' /\ ReferentialIntegrity'
    BY <1>2, RemovePersonIsSafe DEF Inv, TypeOK
  <2> QED
    BY <1>2, <2>1, PeopleWriteKeepsInv DEF RemovePerson
<1> QED
  BY <1>1, <1>2 DEF DeletePerson

(* A step that changes nothing keeps the invariant.                        *)
LEMMA StutterInv ==
  ASSUME Inv, UNCHANGED vars
  PROVE  Inv'
<1>1. UNCHANGED <<store, pc, arg, reply, overtaken>> /\ UNCHANGED <<parent, bornGroups>>
  BY DEF vars, store
<1>2. StoreTypeOK' /\ ReferentialIntegrity'
  BY <1>1, SameStore DEF Inv, TypeOK
<1>3. ControlTypeOK' /\ OnPath' /\ LookedUp'
  BY <1>1 DEF Inv, TypeOK, ControlTypeOK, OnPath, LookedUp, At
<1>4. CheckStillHolds'
  BY <1>1, SameGroupsSameTree DEF Inv, CheckStillHolds, At
<1> QED
  BY <1>2, <1>3, <1>4 DEF Inv, TypeOK

(* The invariant is inductive.                                             *)
LEMMA NextInv == Inv /\ [Next]_vars => Inv'
<1> SUFFICES ASSUME Inv, [Next]_vars PROVE Inv'
  OBVIOUS
<1>1. CASE UNCHANGED vars
  BY <1>1, StutterInv
<1>2. CASE Next
  <2>1. PICK h \in Handlers : Accept(h) \/ Cancel(h) \/ Execute(h)
    BY <1>2 DEF Next
  <2> QED
    BY <2>1, AcceptInv, CancelInv, CheckParentInv, CreateGroupInv, GetGroupInv, CheckCycleInv,
      UpdateGroupInv, CountPeopleInv, DeleteGroupInv, CheckGroupInv, CreatePersonInv,
      GetPersonInv, UpdatePersonInv, DeletePersonInv DEF Execute
<1> QED
  BY <1>1, <1>2

(* Whatever the handlers do and however they interleave, no foreign key    *)
(* ever dangles, and a cycle check that no other reparent overtook still   *)
(* holds when its write is executed.                                       *)
THEOREM Invariance == Spec => []Inv
<1>1. Init => Inv
  BY InitInv
<1>2. Inv /\ [Next]_vars => Inv'
  BY NextInv
<1> QED
  BY <1>1, <1>2, PTL DEF Spec

(* Every variable of the service stays in its range.                       *)
THEOREM TypeCorrectness == Spec => []TypeOK
<1>1. Inv => TypeOK
  BY DEF Inv
<1> QED
  BY <1>1, Invariance, PTL

(* No deletion, reported or cut off, racing with creations and moves,      *)
(* leaves a group or a person that refers to a group that is gone.         *)
THEOREM Integrity == Spec => []ReferentialIntegrity
<1>1. Inv => ReferentialIntegrity
  BY DEF Inv
<1> QED
  BY <1>1, Invariance, PTL

(* Whatever tables the service makes, cycles included, the recursive query *)
(* returns the subtree of its root and runs without end only on a cycle.   *)
THEOREM RecursionIsRight == Spec => []SubtreeIsCTE
<1>1. Inv => SubtreeIsCTE
  BY RecursionIsSubtree DEF Inv, TypeOK
<1> QED
  BY <1>1, Invariance, PTL

-----------------------------------------------------------------------------
(* Cycles.                                                                 *)

(* A reparent that is executed, whoever wins it.                           *)
Reparent(h) ==
  /\ At(h, "updateGroup") /\ pc'[h] = "idle"
  /\ arg[h].id \in Groups /\ arg[h].ref \in Groups \cup {NULL}
  /\ SetParent(arg[h].id, arg[h].ref)

(* There are four kinds of steps, as far as the tree is concerned.         *)
LEMMA StepsOnTheTree ==
  ASSUME Inv, [Next]_vars
  PROVE  \/ UNCHANGED <<parent, bornGroups>>
         \/ \E n \in GroupIds \ bornGroups, ref \in Groups \cup {NULL} : InsertGroup(n, ref)
         \/ \E id \in Groups : Children(id) = {} /\ RemoveGroup(id)
         \/ \E h \in Handlers : Reparent(h)
<1>1. CASE UNCHANGED store \/ UNCHANGED vars
  BY <1>1 DEF store, vars
<1>2. CASE \E h \in Handlers : CreateGroup(h)
  BY <1>2 DEF CreateGroup, InsertGroupResult, Fail, store
<1>3. CASE \E h \in Handlers : DeleteGroup(h)
  BY <1>3 DEF DeleteGroup, DeleteGroupResults, Fail, store
<1>4. CASE \E h \in Handlers : UpdateGroup(h)
  <2>1. PICK h \in Handlers : UpdateGroup(h)
    BY <1>4
  <2>2. CASE UNCHANGED store
    BY <2>2 DEF store
  <2>3. CASE ~UNCHANGED store
    <3>1. /\ At(h, "updateGroup") /\ UpdateGroupResult(arg[h].id, arg[h].ref) = "done"
          /\ SetParent(arg[h].id, arg[h].ref)
          /\ \E outcome \in {"ok", "aborted"} : Return(h, outcome)
      BY <2>1, <2>3 DEF UpdateGroup, Fail
    <3>2. pc'[h] = "idle"
      BY <3>1 DEF Return, Inv, TypeOK, ControlTypeOK
    <3>3. arg[h].id \in Groups /\ arg[h].ref \in Groups \cup {NULL}
      BY <3>1 DEF UpdateGroupResult
    <3> QED
      BY <3>1, <3>2, <3>3 DEF Reparent
  <2> QED
    BY <2>2, <2>3
<1>5. CASE \E h \in Handlers : CreatePerson(h) \/ UpdatePerson(h) \/ DeletePerson(h)
  BY <1>5 DEF CreatePerson, UpdatePerson, DeletePerson, InsertPerson, SetMember, RemovePerson,
    Fail, store
<1>6. CASE \E h \in Handlers :
             Accept(h) \/ Cancel(h) \/ CheckParent(h) \/ GetGroup(h) \/ CheckCycle(h)
             \/ CountPeople(h) \/ CheckGroup(h) \/ GetPerson(h)
  <2>1. UNCHANGED store
    BY <1>6 DEF Accept, Cancel, CheckParent, GetGroup, CheckCycle, CountPeople, CheckGroup,
      GetPerson, Fail, Proceed
  <2> QED
    BY <1>1, <2>1
<1> QED
  BY <1>1, <1>2, <1>3, <1>4, <1>5, <1>6 DEF Next, Execute

(* A step that puts a group on a cycle is the write of an overtaken move.  *)
LEMMA OnlyRacesCloseCycles ==
  ASSUME Inv, [Next]_vars, ~OvertakenReparent
  PROVE  \A g : OnCycle(g)' => OnCycle(g)
<1>1. CASE UNCHANGED <<parent, bornGroups>>
  BY <1>1, SameGroupsSameTree
<1>2. CASE \E n \in GroupIds \ bornGroups, ref \in Groups \cup {NULL} : InsertGroup(n, ref)
  BY <1>2, InsertKeepsCycles DEF Inv, TypeOK
<1>3. CASE \E id \in Groups : Children(id) = {} /\ RemoveGroup(id)
  BY <1>3, RemoveKeepsCycles
<1>4. CASE \E h \in Handlers : Reparent(h)
  <2>1. PICK h \in Handlers : Reparent(h)
    BY <1>4
  <2>2. CASE parent' = parent
    BY <1>1, <2>1, <2>2 DEF Reparent, SetParent
  <2>3. CASE parent' # parent
    <3>1. ~overtaken[h]
      BY <2>1, <2>3 DEF OvertakenReparent, Reparent
    <3>2. arg[h].ref = NULL \/ Apart(arg[h].id, arg[h].ref)
      BY <2>1, <3>1 DEF Inv, CheckStillHolds, Reparent
    <3> QED
      BY <2>1, <3>2, ApartClosesNoCycle DEF Reparent, Inv, TypeOK
  <2> QED
    BY <2>2, <2>3
<1> QED
  BY <1>1, <1>2, <1>3, <1>4, StepsOnTheTree

(* However creations, deletions and moves interleave, a group comes to be  *)
(* its own ancestor only through a reparent that another reparent overtook *)
(* between its check and its write.                                        *)
THEOREM CyclesAreRaces == Spec => CyclesComeFromRaces
<1>1. Inv /\ [Next]_vars =>
        [(\E g \in Groups' : OnCycle(g)' /\ ~OnCycle(g)) => OvertakenReparent]_vars
  BY OnlyRacesCloseCycles
<1> QED
  BY <1>1, Invariance, PTL DEF Spec, CyclesComeFromRaces

(* A step that takes a group off a cycle is one that opens the cycle.      *)
LEMMA CyclesOpenOnlySo ==
  ASSUME Inv, [Next]_vars, NEW g, OnCycle(g), ~OnCycle(g)'
  PROVE  CycleOpened
<1>1. CASE UNCHANGED <<parent, bornGroups>>
  BY <1>1, SameGroupsSameTree
<1>2. CASE \E n \in GroupIds \ bornGroups, ref \in Groups \cup {NULL} : InsertGroup(n, ref)
  BY <1>2, InsertKeepsCycles DEF Inv, TypeOK
<1>3. CASE \E id \in Groups : Children(id) = {} /\ RemoveGroup(id)
  BY <1>3, RemoveKeepsCycles
<1>4. CASE \E h \in Handlers : Reparent(h)
  <2>1. PICK h \in Handlers : Reparent(h)
    BY <1>4
  <2>2. OnCycle(arg[h].id)
    BY <2>1, OutsideUpdateKeepsCycles DEF Reparent
  <2>3. arg[h].ref = NULL \/ overtaken[h]
    BY <2>1, <2>2 DEF Inv, CheckStillHolds, Reparent
  <2> QED
    BY <2>1, <2>2, <2>3 DEF CycleOpened, Reparent
<1> QED
  BY <1>1, <1>2, <1>3, <1>4, StepsOnTheTree

(* No sequence of moves and deletions takes a cycle apart, only making one *)
(* of its groups a root or a move whose check was overtaken.               *)
THEOREM CyclesStay == Spec => CyclesAreSticky
<1>1. Inv /\ [Next]_vars =>
        [(\E g \in Groups : OnCycle(g) /\ ~OnCycle(g)') => CycleOpened]_vars
  BY CyclesOpenOnlySo
<1> QED
  BY <1>1, Invariance, PTL DEF Spec, CyclesAreSticky

(* If no reparent is overtaken between its check and its write, as when    *)
(* the two share a transaction, the groups are a forest at all times.      *)
THEOREM SerialIsAcyclic == SerialSpec => []Acyclic
<1>1. Init => Inv /\ Acyclic
  BY InitInv DEF Init, StoreInit, Acyclic, Groups
<1>2. Inv /\ Acyclic /\ [Next /\ ~OvertakenReparent]_vars => (Inv /\ Acyclic)'
  <2> SUFFICES ASSUME Inv, Acyclic, [Next /\ ~OvertakenReparent]_vars PROVE (Inv /\ Acyclic)'
    OBVIOUS
  <2>1. [Next]_vars
    OBVIOUS
  <2>2. Inv'
    BY <2>1, NextInv
  <2>3. \A g : OnCycle(g)' => OnCycle(g)
    <3>1. CASE UNCHANGED vars
      BY <3>1, SameGroupsSameTree DEF vars, store
    <3>2. CASE ~OvertakenReparent
      BY <2>1, <3>2, OnlyRacesCloseCycles
    <3> QED
      BY <3>1, <3>2
  <2>4. Acyclic'
    BY <2>3 DEF Acyclic, OnCycle
  <2> QED
    BY <2>2, <2>4
<1> QED
  BY <1>1, <1>2, PTL DEF SerialSpec

-----------------------------------------------------------------------------
(* Answers.                                                                *)

(* Inside a use case a handler answers what its statement came to.         *)
LEMMA FailAnswers ==
  ASSUME ControlTypeOK, NEW h \in Handlers, NEW outcome, Fail(h, outcome)
  PROVE  /\ reply'[h] = outcome
         /\ \A d \in Handlers \ {h} : pc'[d] = pc[d]
BY DEF Fail, Return, ControlTypeOK

(* A write that committed is answered ok or aborted.                       *)
LEMMA WriteAnswers ==
  ASSUME ControlTypeOK, NEW h \in Handlers, NEW outcome \in {"ok", "aborted"}, Return(h, outcome)
  PROVE  /\ reply'[h] \in {"ok", "aborted"}
         /\ \A d \in Handlers \ {h} : pc'[d] = pc[d]
BY DEF Return, ControlTypeOK

(* What a statement meets that the checks before it did not see, a row     *)
(* that is gone, a child or a member that has come, is answered with one   *)
(* of the refusals of the operation, except a deletion inside a cycle.     *)
THEOREM RacesHaveAnswers == Spec => RacesAreMapped
<1> DEFINE Known(h) == {"ok", "invalid", "aborted"} \cup Refusals(arg[h].op)
           Deadlock(h) == arg[h].op = "DeleteGroup" /\ OnCycle(arg[h].id)
           Answered(h) == reply'[h] \in Known(h) \/ (reply'[h] = "internal" /\ Deadlock(h))
           Step(h) == /\ \A d \in Handlers \ {h} : pc'[d] = pc[d]
                      /\ pc'[h] = "idle" => Answered(h)
<1>1. ASSUME Inv, NEW h \in Handlers, Cancel(h) \/ Execute(h)
      PROVE  Step(h)
  <2>1. ControlTypeOK /\ pc[h] \in StepsOf(arg[h].op)
    BY <1>1 DEF Inv, TypeOK, OnPath
  <2>2. ASSUME NEW outcome \in Known(h), Fail(h, outcome) PROVE Step(h)
    BY <2>1, <2>2, FailAnswers
  <2>3. ASSUME NEW outcome \in {"ok", "aborted"}, Return(h, outcome) PROVE Step(h)
    BY <2>1, <2>3, WriteAnswers
  <2>4. ASSUME NEW step \in Steps, Proceed(h, step) PROVE Step(h)
    BY <2>1, <2>4 DEF Proceed, Goto, ControlTypeOK, Steps
  <2>5. CASE Committed(h)
    BY <2>3, <2>5 DEF Committed
  <2>6. CASE Cancel(h)
    BY <2>2, <2>6 DEF Cancel
  <2>7. CASE CheckParent(h)
    <3>1. arg[h].op \in {"CreateGroup", "UpdateGroup"}
      BY <2>1, <2>7 DEF CheckParent, At, StepsOf
    <3>2. "unknown_parent" \in Known(h)
      BY <3>1 DEF Refusals, GroupRefusals, PersonRefusals
    <3> QED
      BY <2>2, <2>4, <2>7, <3>2 DEF CheckParent, Steps
  <2>8. CASE GetGroup(h)
    <3>1. arg[h].op \in {"UpdateGroup", "DeleteGroup"}
      BY <2>1, <2>8 DEF GetGroup, At, StepsOf
    <3>2. "not_found" \in Known(h) /\ (arg[h].op = "UpdateGroup" => "cyclic" \in Known(h))
      BY <3>1 DEF Refusals, GroupRefusals, PersonRefusals
    <3> QED
      BY <2>2, <2>4, <2>8, <3>2 DEF GetGroup, Steps
  <2>9. CASE CheckCycle(h)
    <3>1. arg[h].op = "UpdateGroup"
      BY <2>1, <2>9 DEF CheckCycle, At, StepsOf
    <3>2. "cyclic" \in Known(h)
      BY <3>1 DEF Refusals, GroupRefusals, PersonRefusals
    <3> QED
      BY <2>2, <2>4, <2>9, <3>2 DEF CheckCycle, Steps
  <2>10. CASE CountPeople(h) \/ DeleteGroup(h)
    <3>1. arg[h].op = "DeleteGroup"
      BY <2>1, <2>10 DEF CountPeople, DeleteGroup, At, StepsOf
    <3>2. {"not_found", "has_children", "has_people"} \subseteq Known(h)
      BY <3>1 DEF Refusals, GroupRefusals, PersonRefusals
    <3>3. \A result \in DeleteGroupResults(arg[h].id) : result # "done" =>
            mapGroupDeleteError(result) \in Known(h)
      BY <3>2 DEF DeleteGroupResults, mapGroupDeleteError
    <3>4. ASSUME Deadlocked(h), Fail(h, mapGroupDeleteError("deadlock")) PROVE Step(h)
      <4>1. OnCycle(arg[h].id)
        BY <3>4 DEF Deadlocked
      <4>2. mapGroupDeleteError("deadlock") = "internal"
        BY DEF mapGroupDeleteError
      <4> QED
        BY <2>1, <3>1, <3>4, <4>1, <4>2, FailAnswers
    <3> QED
      BY <2>2, <2>4, <2>5, <2>10, <3>2, <3>3, <3>4 DEF CountPeople, DeleteGroup, Steps
  <2>11. CASE CheckGroup(h)
    <3>1. arg[h].op \in {"CreatePerson", "UpdatePerson"}
      BY <2>1, <2>11 DEF CheckGroup, At, StepsOf
    <3>2. "unknown_group" \in Known(h)
      BY <3>1 DEF Refusals, GroupRefusals, PersonRefusals
    <3> QED
      BY <2>2, <2>4, <2>11, <3>2 DEF CheckGroup, Steps
  <2>12. CASE GetPerson(h) \/ DeletePerson(h)
    <3>1. arg[h].op \in {"UpdatePerson", "DeletePerson"}
      BY <2>1, <2>12 DEF GetPerson, DeletePerson, At, StepsOf
    <3>2. "not_found" \in Known(h)
      BY <3>1 DEF Refusals, GroupRefusals, PersonRefusals
    <3> QED
      BY <2>2, <2>4, <2>5, <2>12, <3>2 DEF GetPerson, DeletePerson, Steps
  <2>13. CASE CreateGroup(h)
    <3>1. arg[h].op = "CreateGroup"
      BY <2>1, <2>13 DEF CreateGroup, At, StepsOf
    <3>2. "unknown_parent" \in Known(h)
      BY <3>1 DEF Refusals, GroupRefusals, PersonRefusals
    <3> QED
      BY <2>2, <2>5, <2>13, <3>2 DEF CreateGroup, InsertGroupResult, mapGroupParentError
  <2>14. CASE UpdateGroup(h)
    <3>1. arg[h].op = "UpdateGroup"
      BY <2>1, <2>14 DEF UpdateGroup, At, StepsOf
    <3>2. mapGroupParentError(UpdateGroupResult(arg[h].id, arg[h].ref)) \in Known(h)
      BY <3>1 DEF UpdateGroupResult, mapGroupParentError, Refusals, GroupRefusals, PersonRefusals
    <3> QED
      BY <2>2, <2>3, <2>14, <3>2 DEF UpdateGroup
  <2>15. CASE CreatePerson(h)
    <3>1. arg[h].op = "CreatePerson"
      BY <2>1, <2>15 DEF CreatePerson, At, StepsOf
    <3>2. "unknown_group" \in Known(h)
      BY <3>1 DEF Refusals, GroupRefusals, PersonRefusals
    <3> QED
      BY <2>2, <2>5, <2>15, <3>2 DEF CreatePerson, InsertPersonResult, mapPersonGroupError
  <2>16. CASE UpdatePerson(h)
    <3>1. arg[h].op = "UpdatePerson"
      BY <2>1, <2>16 DEF UpdatePerson, At, StepsOf
    <3>2. mapPersonGroupError(UpdatePersonResult(arg[h].id, arg[h].ref)) \in Known(h)
      BY <3>1 DEF UpdatePersonResult, mapPersonGroupError, Refusals, GroupRefusals, PersonRefusals
    <3> QED
      BY <2>2, <2>5, <2>16, <3>2 DEF UpdatePerson
  <2> QED
    BY <1>1, <2>6, <2>7, <2>8, <2>9, <2>10, <2>11, <2>12, <2>13, <2>14, <2>15, <2>16 DEF Execute
<1>2. ASSUME Inv, NEW h \in Handlers, Accept(h), NEW d \in Handlers, InFlight(d)
      PROVE  pc'[d] = pc[d]
  BY <1>2 DEF Accept, At, InFlight, Inv, TypeOK, ControlTypeOK
<1>3. Inv /\ [Next]_vars =>
        [\A h \in Handlers : InFlight(h) /\ pc'[h] = "idle" =>
           \/ reply'[h] \in {"ok", "invalid", "aborted"} \cup Refusals(arg[h].op)
           \/ reply'[h] = "internal" /\ arg[h].op = "DeleteGroup" /\ OnCycle(arg[h].id)]_vars
  <2> SUFFICES ASSUME Inv, Next, NEW h \in Handlers, InFlight(h), pc'[h] = "idle"
               PROVE  Answered(h)
    OBVIOUS
  <2>1. PICK d \in Handlers : Accept(d) \/ Cancel(d) \/ Execute(d)
    BY DEF Next
  <2>2. Cancel(d) \/ Execute(d)
    BY <1>2, <2>1 DEF InFlight
  <2>3. Step(d)
    BY <1>1, <2>2
  <2> QED
    BY <2>3 DEF InFlight
<1> QED
  BY <1>3, Invariance, PTL DEF Spec, RacesAreMapped
=============================================================================
