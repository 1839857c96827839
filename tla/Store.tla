------------------------------- MODULE Store -------------------------------
(***************************************************************************)
(* The two tables of migrations/000001_init.up.sql and the statements the  *)
(* repositories of adapters/repository/postgres run against them.  No      *)
(* transaction is ever opened, so each statement is atomic and nothing     *)
(* larger is.                                                              *)
(*                                                                         *)
(* A table is a function from the ids of its rows to the foreign key of    *)
(* the row.  Ids come from gen_random_uuid() and are never reused, which   *)
(* `bornGroups` and `bornPeople` remember.                                 *)
(***************************************************************************)
EXTENDS Contract, FiniteSets

VARIABLES
  parent,      \* groups: id -> parent_id
  bornGroups,  \* every id groups ever held
  member,      \* people: id -> group_id
  bornPeople   \* every id people ever held

store == <<parent, bornGroups, member, bornPeople>>

Groups == DOMAIN parent
People == DOMAIN member
Children(g) == {c \in Groups : parent[c] = g}
Members(g) == {p \in People : member[p] = g}

StoreInit ==
  /\ parent = [g \in {} |-> NULL]
  /\ bornGroups = {}
  /\ member = [p \in {} |-> NULL]
  /\ bornPeople = {}

StoreTypeOK ==
  /\ bornGroups \subseteq GroupIds
  /\ Groups \subseteq bornGroups
  /\ parent \in [Groups -> GroupIds \cup {NULL}]
  /\ bornPeople \subseteq PersonIds
  /\ People \subseteq bornPeople
  /\ member \in [People -> GroupIds]

(* What the two REFERENCES clauses promise: no dangling foreign key. *)
ReferentialIntegrity ==
  /\ \A g \in Groups : parent[g] \in Groups \cup {NULL}
  /\ \A p \in People : member[p] \in Groups

-----------------------------------------------------------------------------
(* The tree.                                                               *)

(* A set of groups nothing hangs below from outside it. *)
Closed(S) == \A g \in Groups : parent[g] \in S => g \in S

(* The rows of WITH RECURSIVE subtree started at a: the least closed set   *)
(* that contains a, and no row when a is not in the table.                 *)
Subtree(a) ==
  {c \in Groups : a \in Groups /\ \A S \in SUBSET Groups : a \in S /\ Closed(S) => c \in S}

(* a is its own ancestor.  UNION ALL keeps duplicates, so the recursion    *)
(* started at such a group produces its rows again and again for ever.     *)
OnCycle(a) == a \in Groups /\ parent[a] \in Subtree(a)

Acyclic == \A g \in Groups : ~OnCycle(g)

(* The subtree of id can be told apart from ref: some set of groups, those *)
(* deleted in the meantime included, holds id and all that hangs below it, *)
(* and not ref.                                                            *)
Apart(id, ref) == \E T \in SUBSET bornGroups : id \in T /\ ref \notin T /\ Closed(T)

(* Mutant: the arguments of the query swapped. *)
IsDescendantSwapped(ancestor, candidate) == ancestor \in Subtree(candidate)

(* IsDescendant: EXISTS stops the recursion at the first row that matches; *)
(* without a match it has to exhaust it.                                   *)
IsDescendant(ancestor, candidate) == candidate \in Subtree(ancestor)

(* Mutants: UNION in the place of UNION ALL ends every recursion; a walk   *)
(* up from the candidate ends unless it gets onto a cycle.                 *)
UnionReturns(ancestor, candidate) == TRUE
AncestorWalkReturns(ancestor, candidate) ==
  IsDescendant(ancestor, candidate) \/ ~\E g \in Groups : OnCycle(g) /\ candidate \in Subtree(g)

IsDescendantReturns(ancestor, candidate) ==
  IsDescendant(ancestor, candidate) \/ ~OnCycle(ancestor)

(* The recursion as PostgreSQL runs it: round 0 is the group itself, and   *)
(* every further round joins the groups with the rows of the last round    *)
(* only.  It ends with the first empty round.  There are never more groups *)
(* than rounds here, so a last round with rows is a recursion without end. *)
Rounds == 0..Cardinality(GroupIds)
(* Mutants: the recursive term joins the other way, ON g.id = s.parent_id; *)
(* the first term already takes the children, WHERE $1 IN (id, parent_id). *)
WorkingTableUpwards(a) ==
  LET round[n \in Rounds] ==
        IF n = 0 THEN {a} \cap Groups ELSE {c \in Groups : \E g \in round[n - 1] : parent[g] = c}
  IN round
WorkingTableWithChildren(a) ==
  LET round[n \in Rounds] ==
        IF n = 0 THEN {g \in Groups : a \in {g, parent[g]}}
                 ELSE {c \in Groups : parent[c] \in round[n - 1]}
  IN round

WorkingTable(a) ==
  LET round[n \in Rounds] ==
        IF n = 0 THEN {a} \cap Groups ELSE {c \in Groups : parent[c] \in round[n - 1]}
  IN round

(* The recursive query on groups, run round by round, returns the rows     *)
(* that Subtree names, and runs for ever exactly when it starts on a cycle *)
(* (not merely in a table that holds one).                                 *)
SubtreeIsCTE ==
  \A a \in GroupIds :
    LET table == WorkingTable(a)
    IN /\ Subtree(a) = UNION {table[n] : n \in Rounds}
       /\ OnCycle(a) <=> table[Cardinality(GroupIds)] # {}

-----------------------------------------------------------------------------
(* The writing statements: the results PostgreSQL may report and the row   *)
(* change of the result "done".                                            *)

With(f, k, v) == [x \in DOMAIN f \cup {k} |-> IF x = k THEN v ELSE f[x]]
Without(f, k) == [x \in DOMAIN f \ {k} |-> f[x]]

InsertGroupResult(ref) ==
  IF ref \in Groups \cup {NULL} THEN "done" ELSE "fk_groups_parent_id"

InsertGroup(id, ref) ==
  /\ parent' = With(parent, id, ref)
  /\ bornGroups' = bornGroups \cup {id}
  /\ UNCHANGED <<member, bornPeople>>

UpdateGroupResult(id, ref) ==
  CASE id \notin Groups -> "no_rows"
    [] id \in Groups /\ ref \in Groups \cup {NULL} -> "done"
    [] OTHER -> "fk_groups_parent_id"

SetParent(id, ref) ==
  /\ parent' = With(parent, id, ref)
  /\ UNCHANGED <<bornGroups, member, bornPeople>>

(* Mutant: people.group_id without its REFERENCES clause. *)
DeleteGroupResultsNoPeopleFK(id) ==
  CASE id \notin Groups -> {"no_rows"}
    [] id \in Groups /\ Children(id) = {} -> {"done"}
    [] OTHER -> {"fk_groups_parent_id"}

(* A group with both children and people violates both ON DELETE RESTRICT  *)
(* constraints; either one may be reported.                                *)
DeleteGroupResults(id) ==
  LET blocked == {fk \in {"fk_groups_parent_id", "fk_people_group_id"} :
                    \/ fk = "fk_groups_parent_id" /\ Children(id) # {}
                    \/ fk = "fk_people_group_id" /\ Members(id) # {}}
  IN CASE id \notin Groups -> {"no_rows"}
       [] id \in Groups /\ blocked = {} -> {"done"}
       [] OTHER -> blocked

RemoveGroup(id) ==
  /\ parent' = Without(parent, id)
  /\ UNCHANGED <<bornGroups, member, bornPeople>>

InsertPersonResult(ref) ==
  IF ref \in Groups THEN "done" ELSE "fk_people_group_id"

(* Mutant: the id handed out is not used up. *)
InsertPersonReusesId(id, ref) ==
  /\ member' = With(member, id, ref)
  /\ UNCHANGED <<parent, bornGroups, bornPeople>>

InsertPerson(id, ref) ==
  /\ member' = With(member, id, ref)
  /\ bornPeople' = bornPeople \cup {id}
  /\ UNCHANGED <<parent, bornGroups>>

UpdatePersonResult(id, ref) ==
  CASE id \notin People -> "no_rows"
    [] id \in People /\ ref \in Groups -> "done"
    [] OTHER -> "fk_people_group_id"

SetMember(id, ref) ==
  /\ member' = With(member, id, ref)
  /\ UNCHANGED <<parent, bornGroups, bornPeople>>

RemovePerson(id) ==
  /\ member' = Without(member, id)
  /\ UNCHANGED <<parent, bornGroups, bornPeople>>

-----------------------------------------------------------------------------
(* The error mapping of the repositories: pgx.ErrNoRows and the SQLSTATE   *)
(* 23503 of a known constraint become domain errors, anything else passes  *)
(* through and ends as an internal error.                                  *)

mapGroupParentError(result) ==
  CASE result = "done" -> "ok"
    [] result = "no_rows" -> "not_found"
    [] result = "fk_groups_parent_id" -> "unknown_parent"
    [] OTHER -> "internal"

(* Mutant: the two constraints confused. *)
mapGroupDeleteErrorSwapped(result) ==
  CASE result = "done" -> "ok"
    [] result = "no_rows" -> "not_found"
    [] result = "fk_groups_parent_id" -> "has_people"
    [] result = "fk_people_group_id" -> "has_children"
    [] OTHER -> "internal"

mapGroupDeleteError(result) ==
  CASE result = "done" -> "ok"
    [] result = "no_rows" -> "not_found"
    [] result = "fk_groups_parent_id" -> "has_children"
    [] result = "fk_people_group_id" -> "has_people"
    [] OTHER -> "internal"

(* Mutant: a violated foreign key passes through as it is. *)
mapPersonGroupErrorNoFK(result) ==
  CASE result = "done" -> "ok"
    [] result = "no_rows" -> "not_found"
    [] OTHER -> "internal"

mapPersonGroupError(result) ==
  CASE result = "done" -> "ok"
    [] result = "no_rows" -> "not_found"
    [] result = "fk_people_group_id" -> "unknown_group"
    [] OTHER -> "internal"
=============================================================================
