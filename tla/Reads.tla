------------------------------- MODULE Reads -------------------------------
(***************************************************************************)
(* The reading use cases: GetGroup, ListGroups, ListGroupPeople and        *)
(* GetPerson.  Each is a sequence of SELECT statements, each with its own  *)
(* snapshot, and the writers of Service run between any two of them.       *)
(*                                                                         *)
(* Reads do not disturb one another, so one reader stands for all.  It     *)
(* starts over any tables that earlier requests may have left, and the     *)
(* writers are reduced to the row changes they commit.                     *)
(***************************************************************************)
EXTENDS Store, Integers, SequencesExt

CONSTANTS
  DefaultLimit, MaxLimit,  \* 20 and 100 in the code
  Limits, Offsets,         \* the limit and offset parameters callers send, NULL for none
  Filters                  \* the parent_id parameters callers send, NULL for none

(* Rows are listed by created_at, then id; here ids are their own ranks. *)
ASSUME IdsAreRanks == GroupIds \cup PersonIds \subseteq Nat
ASSUME LimitsAreOrdered == DefaultLimit \in Nat \ {0} /\ MaxLimit \in Nat /\ DefaultLimit <= MaxLimit
ASSUME ParametersAreIntegers == NULL \notin Int /\ Limits \cup Offsets \subseteq Int \cup {NULL}

VARIABLES
  step,     \* the statement the reader runs next, "idle", or "hung" in one
  query,    \* its request, kept until the next one
  seen,     \* what the earlier statements of the request returned
  answer,   \* the response
  touched   \* history: a row was written since the request arrived

reader == <<step, query, seen, answer>>
vars == <<store, reader, touched>>

GroupQueries == [op: {"GetGroup"}, id: GroupIds, limit: {NULL}, offset: {NULL},
                 parent: {NULL}, deep: {FALSE}]
ListQueries == [op: {"ListGroups"}, id: {NULL}, limit: Limits, offset: Offsets,
                parent: Filters, deep: {FALSE}]
PeopleQueries == [op: {"ListGroupPeople"}, id: GroupIds, limit: Limits, offset: Offsets,
                  parent: {NULL}, deep: BOOLEAN]
PersonQueries == [op: {"GetPerson"}, id: PersonIds, limit: {NULL}, offset: {NULL},
                  parent: {NULL}, deep: {FALSE}]
Queries == GroupQueries \cup ListQueries \cup PeopleQueries \cup PersonQueries

NoQuery == [op |-> "none", id |-> NULL, limit |-> NULL, offset |-> NULL,
            parent |-> NULL, deep |-> FALSE]
Nothing == [parent |-> NULL, count |-> 0]
Response(outcome, items, total) == [outcome |-> outcome, items |-> items, total |-> total]
NoAnswer == Response("none", <<>>, 0)

(* A database some earlier run of the service left: any rows that keep     *)
(* their integrity, cycles of two groups or more included.                 *)
Init ==
  /\ bornGroups \in SUBSET GroupIds
  /\ parent \in {f \in [bornGroups -> bornGroups \cup {NULL}] : \A g \in bornGroups : f[g] # g}
  /\ bornPeople \in SUBSET PersonIds
  /\ member \in [bornPeople -> bornGroups]
  /\ step = "idle" /\ query = NoQuery /\ seen = Nothing /\ answer = NoAnswer
  /\ touched = FALSE

-----------------------------------------------------------------------------
(* Pages.                                                                  *)

(* Mutant: a limit of zero passes through. *)
paginationAllowsZero(limit, offset) ==
  [limit |-> IF limit = NULL \/ limit < 0 THEN DefaultLimit ELSE Min({limit, MaxLimit}),
   offset |-> IF offset = NULL \/ offset < 0 THEN 0 ELSE offset]

pagination(limit, offset) ==
  [limit |-> IF limit = NULL \/ limit <= 0 THEN DefaultLimit ELSE Min({limit, MaxLimit}),
   offset |-> IF offset = NULL \/ offset < 0 THEN 0 ELSE offset]
PageOf(q) == pagination(q.limit, q.offset)

(* Mutant: OFFSET counts from one. *)
WindowFromOne(rows, page) ==
  SubSeq(rows, page.offset + 2, Min({page.offset + page.limit + 1, Len(rows)}))

(* Mutant: one row more is fetched to see whether there is another page.   *)
WindowOneMore(rows, page) ==
  SubSeq(rows, page.offset + 1, Min({page.offset + page.limit + 1, Len(rows)}))

(* ORDER BY created_at, id LIMIT .. OFFSET .. *)
Window(rows, page) ==
  SubSeq(rows, page.offset + 1, Min({page.offset + page.limit, Len(rows)}))

(* ORDER BY created_at, id: the row at i has i - 1 rows before it. *)
Ascending(S) ==
  [i \in 1..Cardinality(S) |-> CHOOSE x \in S : Cardinality({y \in S : y < x}) = i - 1]

-----------------------------------------------------------------------------
(* The recursive queries, which join every round of the recursion with     *)
(* people and would return a person once per row of the recursion.         *)

CountedIn(table) == {x \in People \X Rounds : member[x[1]] \in table[x[2]]}

CountDirectMembers(g) == Cardinality(Members(g))
(* Mutant: the recursion starts from the children. *)
CountDescendantMembers(g) == Cardinality({x \in CountedIn(WorkingTable(g)) : x[2] # 0})

CountSubtreeMembers(g) == Cardinality(CountedIn(WorkingTable(g)))

DirectPeople(g) == Ascending(Members(g))
SubtreePeople(g) ==
  LET rows == CountedIn(WorkingTable(g))
      Before(p) == Cardinality({x \in rows : x[1] < p})
      UpTo(p) == Cardinality({x \in rows : x[1] <= p})
  IN [i \in 1..Cardinality(rows) |-> CHOOSE p \in People : Before(p) < i /\ i <= UpTo(p)]

GroupRow(id, up, direct, total) == [id |-> id, parent |-> up, direct |-> direct, total |-> total]

(* The page of repo.List: one statement, so one snapshot. *)
GroupPage(page) ==
  LET ids == Window(Ascending(Groups), page)
  IN [i \in DOMAIN ids |->
        GroupRow(ids[i], parent[ids[i]], CountDirectMembers(ids[i]), CountSubtreeMembers(ids[i]))]

-----------------------------------------------------------------------------
(* Control.                                                                *)

InFlight == step # "idle"

Reply(response) ==
  /\ step' = "idle" /\ answer' = response /\ seen' = Nothing
  /\ UNCHANGED <<store, query, touched>>

Go(next, now) ==
  /\ step' = next /\ seen' = now
  /\ UNCHANGED <<store, query, answer, touched>>

Hang == Go("hung", seen)

FirstGroupRead(op) == IF op = "ListGroups" THEN "countGroups" ELSE "getGroup"
FirstPersonRead(op) == IF op = "ListGroupPeople" THEN "checkGroup" ELSE "getPerson"

Send(q) ==
  /\ ~InFlight
  /\ query' = q
  /\ step' = IF q.op \in {"ListGroups", "GetGroup"} THEN FirstGroupRead(q.op)
                                                  ELSE FirstPersonRead(q.op)
  /\ answer' = NoAnswer /\ touched' = FALSE
  /\ UNCHANGED <<store, seen>>

Request == \E q \in Queries : Send(q)

(* The request's context ends. *)
Cancel == InFlight /\ Reply(Response("aborted", <<>>, 0))

-----------------------------------------------------------------------------
(* GetGroup: Get, and then Counts, which looks the group up once more.     *)

NotFound == Reply(Response("not_found", <<>>, 0))

GetGroup ==
  /\ step = "getGroup"
  /\ IF query.id \in Groups
       THEN Go("lookupGroup", [parent |-> parent[query.id], count |-> 0])
       ELSE NotFound

LookupGroup ==
  /\ step = "lookupGroup"
  /\ IF query.id \in Groups THEN Go("countDirect", seen) ELSE NotFound

CountDirect ==
  /\ step = "countDirect"
  /\ Go("countTotal", [seen EXCEPT !.count = CountDirectMembers(query.id)])

CountTotal ==
  /\ step = "countTotal"
  /\ IF OnCycle(query.id)
       THEN Hang
       ELSE Reply(Response("ok", <<GroupRow(query.id, seen.parent, seen.count,
                                            CountSubtreeMembers(query.id))>>, 0))

-----------------------------------------------------------------------------
(* ListGroups.  The parent_id parameter of the request is not looked at.   *)

CountGroups ==
  /\ step = "countGroups"
  /\ IF Groups = {}
       THEN Reply(Response("ok", <<>>, 0))
       ELSE Go("pageGroups", [seen EXCEPT !.count = Cardinality(Groups)])

PageGroups ==
  LET ids == Window(Ascending(Groups), PageOf(query))
  IN /\ step = "pageGroups"
     /\ IF \E i \in DOMAIN ids : OnCycle(ids[i])
          THEN Hang
          ELSE Reply(Response("ok", GroupPage(PageOf(query)), seen.count))

-----------------------------------------------------------------------------
(* ListGroupPeople.                                                        *)

CheckGroup ==
  /\ step = "checkGroup"
  /\ IF query.id \in Groups THEN Go("countPeople", seen) ELSE NotFound

(* Mutant: the recursion runs for direct members too. *)
EndlessAlways == OnCycle(query.id)

(* The recursion starts on a cycle.  The plan may join from the side of    *)
(* people and then never start it when there is no person at all.          *)
Endless == query.deep /\ OnCycle(query.id)

CountPeople ==
  LET count == IF query.deep THEN CountSubtreeMembers(query.id) ELSE CountDirectMembers(query.id)
  IN /\ step = "countPeople"
     /\ \/ Endless /\ Hang
        \/ Endless /\ People = {} /\ Reply(Response("ok", <<>>, 0))
        \/ ~Endless /\ count = 0 /\ Reply(Response("ok", <<>>, 0))
        \/ ~Endless /\ count # 0 /\ Go("pagePeople", [seen EXCEPT !.count = count])

PagePeople ==
  LET rows == IF query.deep THEN SubtreePeople(query.id) ELSE DirectPeople(query.id)
  IN /\ step = "pagePeople"
     /\ \/ Endless /\ Hang
        \/ Endless /\ People = {} /\ Reply(Response("ok", <<>>, seen.count))
        \/ ~Endless /\ Reply(Response("ok", Window(rows, PageOf(query)), seen.count))

(* GetPerson. *)
GetPerson ==
  /\ step = "getPerson"
  /\ IF query.id \in People THEN Reply(Response("ok", <<query.id>>, 0)) ELSE NotFound

-----------------------------------------------------------------------------
(* A statement of some writer commits while the request is under way; a    *)
(* statement that hangs sees none of them.                                 *)
Write ==
  /\ step \notin {"idle", "hung"}
  /\ \/ \E id \in GroupIds \ bornGroups, ref \in Groups \cup {NULL} : InsertGroup(id, ref)
     \/ \E id \in Groups, ref \in Groups \cup {NULL} : id # ref /\ SetParent(id, ref)
     \/ \E id \in Groups : "done" \in DeleteGroupResults(id) /\ RemoveGroup(id)
     \/ \E id \in PersonIds \ bornPeople, ref \in Groups : InsertPerson(id, ref)
     \/ \E id \in People, ref \in Groups : SetMember(id, ref)
     \/ \E id \in People : RemovePerson(id)
  /\ touched' = TRUE
  /\ UNCHANGED reader

Read ==
  \/ GetGroup \/ LookupGroup \/ CountDirect \/ CountTotal
  \/ CountGroups \/ PageGroups
  \/ CheckGroup \/ CountPeople \/ PagePeople
  \/ GetPerson

Next == Request \/ Cancel \/ Read \/ Write

Spec == Init /\ [][Next]_vars

-----------------------------------------------------------------------------
(* Properties.                                                             *)

Ranked(S, page) ==
  Ascending({x \in S : Cardinality({y \in S : y < x}) \in
                         page.offset..(page.offset + page.limit - 1)})

PeopleBelow(g) == {p \in People : member[p] \in Subtree(g)}

(* The limit and offset a request stands for.  The contract has a minimum   *)
(* and, for the limit, a default and a maximum, and does not say what is   *)
(* made of a number outside of them.  mapper.go does: a limit above the    *)
(* maximum is the maximum, and what is no limit or offset is the default.  *)
PageMeant(q) ==
  [limit |-> CASE q.limit \in 1..MaxLimit -> q.limit
               [] q.limit \in Nat /\ q.limit > MaxLimit -> MaxLimit
               [] OTHER -> DefaultLimit,
   offset |-> IF q.offset \in Nat THEN q.offset ELSE 0]

(* The response api/openapi.yaml describes for such a page, of tables that *)
(* stand still; the filter, which the code ignores, is left out.           *)
Expected(q) ==
  LET page == PageMeant(q)
      groups == Ranked(Groups, page)
      people == IF q.deep THEN PeopleBelow(q.id) ELSE Members(q.id)
      Row(g) == GroupRow(g, parent[g], Cardinality(Members(g)), Cardinality(PeopleBelow(g)))
  IN CASE q.op = "ListGroups" ->
            Response("ok", [i \in DOMAIN groups |-> Row(groups[i])], Cardinality(Groups))
       [] q.op = "GetPerson" /\ q.id \in People -> Response("ok", <<q.id>>, 0)
       [] q.op = "GetGroup" /\ q.id \in Groups -> Response("ok", <<Row(q.id)>>, 0)
       [] q.op = "ListGroupPeople" /\ q.id \in Groups ->
            Response("ok", Ranked(people, page), Cardinality(people))
       [] OTHER -> Response("not_found", <<>>, 0)

Answered == step = "idle" /\ query # NoQuery /\ answer.outcome # "aborted"

(* The recursion with UNION ALL, the joins, the early return on a count of *)
(* zero and the page arithmetic together return the rows that rank from    *)
(* offset on, limit of them, with their counts, or that there is no such   *)
(* group or person: a response no writer got in the way of is exactly the  *)
(* one of the tables.                                                      *)
QuietAnswersAreExact == Answered /\ ~touched => answer = Expected(query)

(* repo.List takes ids, parents and both counts of a page from one         *)
(* snapshot: whatever is written meanwhile, the members counted for a      *)
(* group include its own and those counted for any child on the page.      *)
PagesAreConsistent ==
  Answered /\ query.op = "ListGroups" =>
    \A i, j \in DOMAIN answer.items :
      LET up == answer.items[i]
          down == answer.items[j]
      IN /\ up.direct <= up.total
         /\ down.parent = up.id => up.direct + down.total <= up.total
         /\ i < j => up.id < down.id

(* Two statements count the people of ListGroupPeople and fetch them, with *)
(* writers in between, yet a person is never delivered twice on a page.    *)
NobodyTwice ==
  Answered /\ query.op = "ListGroupPeople" => IsInjective(answer.items)

(* A reader is answered although no timeout fires and writers never pause; *)
(* only a request that descends into a cycle can be stuck in a statement.  *)
ReadsHangOnlyOnCycles ==
  InFlight ~>
    \/ ~InFlight
    \/ /\ step = "hung"
       /\ \/ query.op = "ListGroups" /\ ~Acyclic
          \/ query.op = "GetGroup" /\ OnCycle(query.id)
          \/ query.op = "ListGroupPeople" /\ query.deep /\ OnCycle(query.id)

(* api/openapi.yaml: total_count is the number of people in the group and  *)
(* in all its descendants, direct_count those of the group itself.         *)
CountsAgree ==
  Answered /\ query.op = "GetGroup" /\ answer.outcome = "ok" =>
    answer.items[1].direct <= answer.items[1].total

(* api/openapi.yaml: parent_id filters the list by the parent group. *)
FilterIsHonoured ==
  Answered /\ query.op = "ListGroups" /\ query.parent # NULL =>
    \A i \in DOMAIN answer.items : answer.items[i].parent = query.parent
=============================================================================
