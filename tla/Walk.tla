-------------------------------- MODULE Walk --------------------------------
(***************************************************************************)
(* A client that lists all groups, or all people of a group, page by page  *)
(* while others write.  Every page is a request of Reads of its own, cut   *)
(* by LIMIT and OFFSET from the tables as they are when it is read.        *)
(*                                                                         *)
(* The client is not in the repository; it does what the pagination object *)
(* of the responses is for.  It asks for the next page from where the last *)
(* one ended, repeats a page it got no answer for, and stops either at a   *)
(* page that is not full or when it has come to the reported total.        *)
(***************************************************************************)
EXTENDS Reads

VARIABLES
  until,   \* what ends the walk: "short" page, "total", or "once": there is one request
  got,     \* rows the pages delivered
  twice,   \* rows they delivered more than once
  stayed,  \* history: rows in the listing ever since the walk began
  left,    \* history: rows that left the listing meanwhile
  came     \* history: rows that came into it

history == <<got, twice, stayed, left, came>>
walkVars == <<vars, until, history>>

WalkInit ==
  /\ Init
  /\ until = "once" /\ got = {} /\ twice = {} /\ stayed = {} /\ left = {} /\ came = {}

(* What the request of q lists, however many pages it takes. *)
Listing(q) ==
  CASE q.op = "ListGroups" -> Groups
    [] q.op = "ListGroupPeople" -> IF q.deep THEN PeopleBelow(q.id) ELSE Members(q.id)
    [] OTHER -> {}

RowsOf(q, response) ==
  IF q.op = "ListGroups" THEN {response.items[i].id : i \in DOMAIN response.items}
                         ELSE {response.items[i] : i \in DOMAIN response.items}

-----------------------------------------------------------------------------
FirstPage ==
  \E q \in Queries :
    /\ Send(q)
    /\ until' \in IF q.op \in {"ListGroups", "ListGroupPeople"} /\ q.offset = NULL
                    THEN {"short", "total"} ELSE {"once"}
    /\ stayed' = Listing(q)
    /\ got' = {} /\ twice' = {} /\ left' = {} /\ came' = {}

(* The response repeats the limit and offset that were used. *)
LastPage ==
  LET page == PageOf(query)
  IN \/ until = "once"
     \/ answer.outcome # "ok"
     \/ until = "short" /\ Len(answer.items) < page.limit
     \/ until = "total" /\ page.offset + page.limit >= answer.total

NextPage ==
  /\ Answered /\ ~LastPage
  /\ Send([query EXCEPT !.offset = PageOf(query).offset + PageOf(query).limit])
  /\ UNCHANGED <<until, history>>

RepeatPage ==
  /\ answer.outcome = "aborted" /\ until # "once"
  /\ Send(query)
  /\ UNCHANGED <<until, history>>

Receive ==
  LET rows == IF answer' = NoAnswer THEN {} ELSE RowsOf(query, answer')
  IN /\ got' = got \cup rows /\ twice' = twice \cup (got \cap rows)
     /\ UNCHANGED <<until, stayed, left, came>>

Serve == Read /\ Receive
GiveUp == Cancel /\ Receive

Disturb ==
  LET before == Listing(query)
      after == Listing(query)'
  IN /\ Write
     /\ stayed' = stayed \cap after
     /\ left' = left \cup (before \ after) /\ came' = came \cup (after \ before)
     /\ UNCHANGED <<until, got, twice>>

WalkNext == FirstPage \/ NextPage \/ RepeatPage \/ Serve \/ GiveUp \/ Disturb

(* A statement that can finish does, whatever the writers do. *)
WalkSpec == WalkInit /\ [][WalkNext]_walkVars /\ WF_walkVars(Serve)

-----------------------------------------------------------------------------
(* Properties.                                                             *)

Walked == Answered /\ LastPage /\ until # "once"

(* repository/postgres/person.go and group.go, LIMIT and OFFSET: a row     *)
(* that was in the listing all along is missing from the pages only if a   *)
(* row listed before it left meanwhile.  A client that goes by the total,  *)
(* which is older than the page it comes with, can also stop too early     *)
(* when a row came in before it.                                           *)
SkipsAreShifts ==
  Walked => \A x \in stayed \ got :
    \/ \E y \in left : y < x
    \/ until = "total" /\ \E y \in came : y < x

(* A row is delivered twice only if a row listed before it came in.        *)
RepeatsAreShifts == \A x \in twice : \E y \in came : y < x
=============================================================================
