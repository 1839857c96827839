---------------------------- MODULE StoreProofs ----------------------------
(***************************************************************************)
(* Facts about the groups table: what a subtree is, what a cycle is, and   *)
(* what each writing statement does to them, for any number of groups.     *)
(***************************************************************************)
EXTENDS Store, TLAPS

-----------------------------------------------------------------------------
(* Subtrees.                                                               *)

(* A subtree is contained in every closed set of groups that holds its     *)
(* root: the recursive query returns no more than it has to.               *)
LEMMA SubtreeIsLeast ==
  ASSUME NEW a, NEW S \in SUBSET Groups, a \in S, Closed(S)
  PROVE  Subtree(a) \subseteq S
BY DEF Subtree

(* The recursive query returns its root and, with a group, the children of *)
(* that group.                                                             *)
LEMMA SubtreeIsClosed ==
  ASSUME NEW a \in Groups
  PROVE  /\ a \in Subtree(a)
         /\ Subtree(a) \subseteq Groups
         /\ Closed(Subtree(a))
BY DEF Subtree, Closed

(* Every group that is in the subtree of a group on a cycle has its parent *)
(* there too: the subtree is closed upwards as well.                       *)
LEMMA CycleSubtreeIsClosedUpwards ==
  ASSUME NEW g, OnCycle(g), NEW x \in Subtree(g)
  PROVE  parent[x] \in Subtree(g)
<1> DEFINE C == Subtree(g)
           S == {y \in C : y = g \/ parent[y] \in C}
<1>1. g \in Groups /\ parent[g] \in C
  BY DEF OnCycle
<1>2. g \in C /\ C \subseteq Groups /\ Closed(C)
  BY <1>1, SubtreeIsClosed
<1>3. S \in SUBSET Groups /\ g \in S
  BY <1>2
<1>4. Closed(S)
  BY <1>2 DEF Closed
<1>5. C \subseteq S
  BY <1>3, <1>4, SubtreeIsLeast
<1> QED
  BY <1>1, <1>5

(* Whoever has a group of a cycle below it is on that cycle: a recursive   *)
(* query runs for ever only when it starts on a cycle.                     *)
LEMMA AncestorsOfCyclesAreOnThem ==
  ASSUME NEW g, OnCycle(g), NEW a \in Groups, g \in Subtree(a)
  PROVE  OnCycle(a)
<1> DEFINE C == Subtree(g)
<1>1. g \in Groups
  BY DEF OnCycle
<1>2. g \in C /\ C \subseteq Groups /\ Closed(C)
  BY <1>1, SubtreeIsClosed
<1>3. \A x \in C : parent[x] \in C
  BY CycleSubtreeIsClosedUpwards
<1>4. a \in C
  <2> SUFFICES ASSUME a \notin C PROVE FALSE
    OBVIOUS
  <2>1. Closed(Groups \ C)
    BY <1>3 DEF Closed
  <2>2. Subtree(a) \subseteq Groups \ C
    BY <2>1, SubtreeIsLeast
  <2> QED
    BY <1>2, <2>2
<1>5. Subtree(a) \subseteq Groups /\ Closed(Subtree(a))
  BY SubtreeIsClosed
<1>6. C \subseteq Subtree(a)
  BY <1>5, SubtreeIsLeast
<1> QED
  BY <1>3, <1>4, <1>6 DEF OnCycle

(* A group on a cycle has a child, so ON DELETE RESTRICT protects it.      *)
LEMMA CycleGroupsHaveChildren ==
  ASSUME NEW g, OnCycle(g)
  PROVE  Children(g) # {}
<1> SUFFICES ASSUME Children(g) = {} PROVE FALSE
  OBVIOUS
<1>1. g \in Groups /\ parent[g] \in Subtree(g)
  BY DEF OnCycle
<1>2. Closed({g}) /\ {g} \in SUBSET Groups
  BY <1>1 DEF Closed, Children
<1>3. parent[g] = g
  BY <1>1, <1>2, SubtreeIsLeast
<1> QED
  BY <1>1, <1>3 DEF Children

-----------------------------------------------------------------------------
(* Statements and cycles.                                                  *)

(* INSERT adds a leaf: the cycles stay as they are.                        *)
LEMMA InsertKeepsCycles ==
  ASSUME StoreTypeOK, ReferentialIntegrity,
         NEW n \in GroupIds \ bornGroups, NEW ref \in Groups \cup {NULL},
         InsertGroup(n, ref)
  PROVE  \A g : OnCycle(g)' <=> OnCycle(g)
<1>1. /\ n \notin Groups /\ Groups' = Groups \cup {n} /\ parent'[n] = ref
      /\ \A x \in Groups : parent'[x] = parent[x] /\ parent[x] # n
      /\ NULL \notin Groups'
  BY NullIsNoId DEF StoreTypeOK, ReferentialIntegrity, InsertGroup, With, Groups
<1>2. ASSUME NEW g, OnCycle(g)' PROVE OnCycle(g)
  <2>1. g \in Groups' /\ parent'[g] \in Subtree(g)'
    BY <1>2 DEF OnCycle
  <2>2. g # n
    <3> SUFFICES ASSUME g = n PROVE FALSE
      OBVIOUS
    <3>1. {n} \in SUBSET Groups' /\ Closed({n})'
      BY <1>1 DEF Closed
    <3>2. parent'[n] = n
      BY <2>1, <3>1 DEF Subtree
    <3> QED
      BY <1>1, <3>2
  <2>3. ASSUME NEW S \in SUBSET Groups, g \in S, Closed(S) PROVE parent[g] \in S
    <3> DEFINE U == IF ref \in S THEN S \cup {n} ELSE S
    <3>1. U \in SUBSET Groups' /\ g \in U
      BY <1>1, <2>3
    <3>2. Closed(U)'
      BY <1>1, <2>3 DEF Closed
    <3>3. parent'[g] \in U
      BY <2>1, <3>1, <3>2 DEF Subtree
    <3> QED
      BY <1>1, <2>1, <2>2, <3>3
  <2>4. g \in Groups /\ parent[g] \in Groups
    BY <1>1, <2>1, <2>2, <2>3 DEF Closed
  <2> QED
    BY <2>3, <2>4 DEF OnCycle, Subtree
<1>3. ASSUME NEW g, OnCycle(g) PROVE OnCycle(g)'
  <2>1. g \in Groups /\ parent[g] \in Subtree(g) /\ parent[g] \in Groups
    BY <1>3 DEF OnCycle, Subtree
  <2>2. ASSUME NEW S \in SUBSET (Groups'), g \in S, Closed(S)' PROVE parent'[g] \in S
    <3>1. Closed(S \cap Groups) /\ S \cap Groups \in SUBSET Groups /\ g \in S \cap Groups
      BY <1>1, <2>1, <2>2 DEF Closed
    <3>2. parent[g] \in S \cap Groups
      BY <2>1, <3>1, SubtreeIsLeast
    <3> QED
      BY <1>1, <2>1, <3>2
  <2> QED
    BY <1>1, <2>1, <2>2 DEF OnCycle, Subtree
<1> QED
  BY <1>2, <1>3

(* DELETE of a group without children removes a leaf: the cycles stay as   *)
(* they are.                                                               *)
LEMMA RemoveKeepsCycles ==
  ASSUME NEW id \in Groups, Children(id) = {}, RemoveGroup(id)
  PROVE  \A g : OnCycle(g)' <=> OnCycle(g)
<1>1. /\ Groups' = Groups \ {id}
      /\ \A x \in Groups' : parent'[x] = parent[x]
      /\ \A x \in Groups : parent[x] # id
  BY DEF RemoveGroup, Without, Groups, Children
<1>2. ASSUME NEW g, OnCycle(g)' PROVE OnCycle(g)
  <2>1. /\ g \in Groups /\ g # id /\ parent'[g] = parent[g]
        /\ parent'[g] \in Subtree(g)' /\ parent[g] \in Groups
    BY <1>1, <1>2 DEF OnCycle, Subtree
  <2>2. ASSUME NEW S \in SUBSET Groups, g \in S, Closed(S) PROVE parent[g] \in S
    <3>1. Closed(S \ {id})' /\ S \ {id} \in SUBSET (Groups') /\ g \in S \ {id}
      BY <1>1, <2>1, <2>2 DEF Closed
    <3>2. parent'[g] \in S \ {id}
      BY <2>1, <3>1 DEF Subtree
    <3> QED
      BY <2>1, <3>2
  <2> QED
    BY <2>1, <2>2 DEF OnCycle, Subtree
<1>3. ASSUME NEW g, OnCycle(g) PROVE OnCycle(g)'
  <2>1. g \in Groups /\ parent[g] \in Subtree(g) /\ parent[g] \in Groups /\ parent[g] # id
    BY <1>1, <1>3 DEF OnCycle, Subtree
  <2>2. g # id
    BY <1>3, CycleGroupsHaveChildren
  <2>3. ASSUME NEW S \in SUBSET (Groups'), g \in S, Closed(S)' PROVE parent'[g] \in S
    <3>1. Closed(S \cup {id}) /\ S \cup {id} \in SUBSET Groups /\ g \in S \cup {id}
      BY <1>1, <2>3 DEF Closed
    <3>2. parent[g] \in S \cup {id}
      BY <2>1, <3>1, SubtreeIsLeast
    <3> QED
      BY <1>1, <2>1, <2>2, <3>2
  <2> QED
    BY <1>1, <2>1, <2>2, <2>3 DEF OnCycle, Subtree
<1> QED
  BY <1>2, <1>3

(* UPDATE of a parent that lies apart from the subtree of the group, or of *)
(* a parent that is NULL, closes no cycle.                                 *)
LEMMA ApartClosesNoCycle ==
  ASSUME StoreTypeOK,
         NEW id \in Groups, NEW ref \in Groups \cup {NULL}, SetParent(id, ref),
         ref = NULL \/ Apart(id, ref)
  PROVE  \A g : OnCycle(g)' => OnCycle(g)
<1> SUFFICES ASSUME NEW g, OnCycle(g)' PROVE OnCycle(g)
  OBVIOUS
<1>1. /\ Groups' = Groups /\ parent'[id] = ref /\ NULL \notin Groups
      /\ \A x \in Groups : x # id => parent'[x] = parent[x]
  BY NullIsNoId DEF StoreTypeOK, SetParent, With, Groups
<1>2. g \in Groups /\ parent'[g] \in Subtree(g)' /\ parent'[g] \in Groups
  BY <1>1 DEF OnCycle, Subtree
<1>3. PICK T \in SUBSET Groups : Closed(T) /\ ref \notin T /\ (ref = NULL \/ id \in T)
  <2>1. CASE ref = NULL
    BY <1>1, <2>1 DEF Closed
  <2>2. CASE Apart(id, ref)
    <3>1. PICK T \in SUBSET bornGroups : id \in T /\ ref \notin T /\ Closed(T)
      BY <2>2 DEF Apart
    <3>2. Closed(T \cap Groups) /\ id \in T \cap Groups /\ ref \notin T \cap Groups
      BY <3>1 DEF Closed
    <3> QED
      BY <3>2
  <2> QED
    BY <2>1, <2>2
<1>4. Closed(T)'
  BY <1>1, <1>3 DEF Closed
<1>5. g # id
  BY <1>1, <1>2, <1>3, <1>4 DEF Subtree
<1>6. ASSUME NEW S \in SUBSET Groups, g \in S, Closed(S) PROVE parent[g] \in S
  <2>1. CASE g \in T
    <3>1. Closed(S \cap T)' /\ S \cap T \in SUBSET (Groups') /\ g \in S \cap T
      BY <1>1, <1>3, <1>6, <2>1 DEF Closed
    <3> QED
      BY <1>1, <1>2, <1>5, <3>1 DEF Subtree
  <2>2. CASE g \notin T
    <3>1. Closed(S \cup T)' /\ S \cup T \in SUBSET (Groups') /\ g \in S \cup T
      BY <1>1, <1>2, <1>3, <1>6 DEF Closed
    <3>2. parent[g] \in S \cup T
      BY <1>1, <1>2, <1>5, <3>1 DEF Subtree
    <3> QED
      BY <1>2, <1>3, <2>2, <3>2 DEF Closed
  <2> QED
    BY <2>1, <2>2
<1> QED
  BY <1>1, <1>2, <1>5, <1>6 DEF OnCycle, Subtree

(* UPDATE of the parent of a group that is on no cycle leaves every cycle  *)
(* as it is.                                                               *)
LEMMA OutsideUpdateKeepsCycles ==
  ASSUME NEW id \in Groups, NEW ref, SetParent(id, ref), ~OnCycle(id)
  PROVE  \A g : OnCycle(g) => OnCycle(g)'
<1> SUFFICES ASSUME NEW g, OnCycle(g) PROVE OnCycle(g)'
  OBVIOUS
<1>1. /\ Groups' = Groups
      /\ \A x \in Groups : x # id => parent'[x] = parent[x]
  BY DEF SetParent, With, Groups
<1>2. g \in Groups /\ g # id /\ parent[g] \in Subtree(g) /\ parent[g] \in Groups
  BY DEF OnCycle, Subtree
<1>3. Closed(Subtree(id)) /\ id \in Subtree(id) /\ Subtree(id) \subseteq Groups
  BY SubtreeIsClosed
<1>4. g \notin Subtree(id)
  BY AncestorsOfCyclesAreOnThem
<1>5. ASSUME NEW S \in SUBSET Groups, g \in S, Closed(S)' PROVE parent[g] \in S
  <2>1. Closed(S \cup Subtree(id)) /\ S \cup Subtree(id) \in SUBSET Groups
    BY <1>1, <1>3, <1>5 DEF Closed
  <2>2. parent[g] \in S \cup Subtree(id)
    BY <1>2, <1>5, <2>1, SubtreeIsLeast
  <2> QED
    BY <1>2, <1>3, <1>4, <2>2 DEF Closed
<1> QED
  BY <1>1, <1>2, <1>5 DEF OnCycle, Subtree

-----------------------------------------------------------------------------
(* Statements and what a cycle check established: the statements that are  *)
(* no move to a new parent leave two groups apart that were so.            *)

(* A new group joins the set that separates two others iff its parent is in it. *)
LEMMA InsertKeepsApart ==
  ASSUME StoreTypeOK, ReferentialIntegrity,
         NEW n \in GroupIds \ bornGroups, NEW ref \in Groups \cup {NULL},
         InsertGroup(n, ref),
         NEW a, NEW b \in bornGroups, Apart(a, b)
  PROVE  Apart(a, b)'
<1>1. PICK T \in SUBSET bornGroups : a \in T /\ b \notin T /\ Closed(T)
  BY DEF Apart
<1> DEFINE U == IF ref \in T THEN T \cup {n} ELSE T
<1>2. /\ Groups' = Groups \cup {n} /\ parent'[n] = ref /\ n \notin T
      /\ \A x \in Groups : x # n /\ parent'[x] = parent[x] /\ parent[x] # n
      /\ bornGroups' = bornGroups \cup {n} /\ b # n /\ ref # n
  BY <1>1, NullIsNoId DEF StoreTypeOK, ReferentialIntegrity, InsertGroup, With, Groups
<1>3. U \in SUBSET (bornGroups') /\ a \in U /\ b \notin U
  BY <1>1, <1>2
<1>4. Closed(U)'
  BY <1>1, <1>2 DEF Closed
<1> QED
  BY <1>3, <1>4 DEF Apart

(* The set that separates two groups may keep one that is deleted.         *)
LEMMA RemoveKeepsApart ==
  ASSUME NEW id, RemoveGroup(id), NEW a, NEW b, Apart(a, b)
  PROVE  Apart(a, b)'
<1>1. PICK T \in SUBSET bornGroups : a \in T /\ b \notin T /\ Closed(T)
  BY DEF Apart
<1>2. Closed(T)' /\ bornGroups' = bornGroups
  BY <1>1 DEF Closed, RemoveGroup, Without, Groups
<1> QED
  BY <1>1, <1>2 DEF Apart

(* A group made a root only leaves the subtree it was in.                  *)
LEMMA RootKeepsApart ==
  ASSUME StoreTypeOK, NEW id \in Groups, SetParent(id, NULL), NEW a, NEW b, Apart(a, b)
  PROVE  Apart(a, b)'
<1>1. PICK T \in SUBSET bornGroups : a \in T /\ b \notin T /\ Closed(T)
  BY DEF Apart
<1>2. NULL \notin T
  BY <1>1, NullIsNoId DEF StoreTypeOK
<1>3. Closed(T)' /\ bornGroups' = bornGroups
  BY <1>1, <1>2 DEF Closed, SetParent, With, Groups
<1> QED
  BY <1>1, <1>3 DEF Apart

(* What IsDescendant establishes when it answers FALSE, whether or not its *)
(* two groups still exist by then.                                         *)
LEMMA NoDescendantIsApart ==
  ASSUME StoreTypeOK, ReferentialIntegrity,
         NEW a \in bornGroups, NEW b \in bornGroups, a # b, ~IsDescendant(a, b)
  PROVE  Apart(a, b)
<1>1. CASE a \notin Groups
  <2>1. \A x \in Groups : parent[x] # a
    BY <1>1, NullIsNoId DEF StoreTypeOK, ReferentialIntegrity
  <2>2. Closed({a}) /\ {a} \in SUBSET bornGroups
    BY <2>1 DEF Closed
  <2> QED
    BY <2>2 DEF Apart
<1>2. CASE a \in Groups
  <2>1. /\ a \in Subtree(a) /\ b \notin Subtree(a) /\ Closed(Subtree(a))
        /\ Subtree(a) \in SUBSET bornGroups
    BY <1>2, SubtreeIsClosed DEF IsDescendant, StoreTypeOK
  <2> QED
    BY <2>1 DEF Apart
<1> QED
  BY <1>1, <1>2

-----------------------------------------------------------------------------
(* Statements and the integrity of the rows.                               *)

(* A step that leaves the tables alone leaves their integrity alone.       *)
LEMMA SameStore ==
  ASSUME StoreTypeOK, ReferentialIntegrity, UNCHANGED store
  PROVE  StoreTypeOK' /\ ReferentialIntegrity'
BY DEF StoreTypeOK, ReferentialIntegrity, store, Groups, People

(* Inserting a group below one that exists keeps the tables in order.      *)
LEMMA InsertGroupIsSafe ==
  ASSUME StoreTypeOK, ReferentialIntegrity,
         NEW n \in GroupIds \ bornGroups, NEW ref \in Groups \cup {NULL}, InsertGroup(n, ref)
  PROVE  StoreTypeOK' /\ ReferentialIntegrity'
BY DEF StoreTypeOK, ReferentialIntegrity, InsertGroup, With, Groups, People

(* Moving a group below one that exists keeps the tables in order.         *)
LEMMA SetParentIsSafe ==
  ASSUME StoreTypeOK, ReferentialIntegrity,
         NEW id \in Groups, NEW ref \in Groups \cup {NULL}, SetParent(id, ref)
  PROVE  StoreTypeOK' /\ ReferentialIntegrity'
BY DEF StoreTypeOK, ReferentialIntegrity, SetParent, With, Groups, People

(* Deleting a group nothing refers to keeps the tables in order.           *)
LEMMA RemoveGroupIsSafe ==
  ASSUME StoreTypeOK, ReferentialIntegrity,
         NEW id \in Groups, Children(id) = {}, Members(id) = {}, RemoveGroup(id)
  PROVE  StoreTypeOK' /\ ReferentialIntegrity'
BY DEF StoreTypeOK, ReferentialIntegrity, RemoveGroup, Without, Groups, People, Children, Members

(* Inserting a person into a group that exists keeps the tables in order.  *)
LEMMA InsertPersonIsSafe ==
  ASSUME StoreTypeOK, ReferentialIntegrity,
         NEW p \in PersonIds \ bornPeople, NEW ref \in Groups, InsertPerson(p, ref)
  PROVE  StoreTypeOK' /\ ReferentialIntegrity'
BY DEF StoreTypeOK, ReferentialIntegrity, InsertPerson, With, Groups, People

(* Moving a person to a group that exists keeps the tables in order.       *)
LEMMA SetMemberIsSafe ==
  ASSUME StoreTypeOK, ReferentialIntegrity,
         NEW p \in People, NEW ref \in Groups, SetMember(p, ref)
  PROVE  StoreTypeOK' /\ ReferentialIntegrity'
BY DEF StoreTypeOK, ReferentialIntegrity, SetMember, With, Groups, People

(* Deleting a person keeps the tables in order.                            *)
LEMMA RemovePersonIsSafe ==
  ASSUME StoreTypeOK, ReferentialIntegrity, NEW p \in People, RemovePerson(p)
  PROVE  StoreTypeOK' /\ ReferentialIntegrity'
BY DEF StoreTypeOK, ReferentialIntegrity, RemovePerson, Without, Groups, People
=============================================================================
