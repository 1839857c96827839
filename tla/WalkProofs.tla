----------------------------- MODULE WalkProofs -----------------------------
(***************************************************************************)
(* What a client that walks through the pages can miss or get twice, for   *)
(* listings of any size, any limit and any writers in between.             *)
(*                                                                         *)
(* The walk has come to an offset.  What it got had a smaller rank when it *)
(* was delivered, and still has unless something came in before it; what   *)
(* it has yet to get has at least that rank, unless something left.        *)
(***************************************************************************)
EXTENDS Walk, ReadsProofs

Listed(q) == q.op \in {"ListGroups", "ListGroupPeople"}

(* How far the walk has come. *)
Reached ==
  IF Answered /\ answer.outcome = "ok" THEN PageOf(query).offset + PageOf(query).limit
                                       ELSE PageOf(query).offset

NoneBelow(S, x) == \A y \in S : ~(y < x)

Behind == \A x \in got : NoneBelow(came, x) => Rank(Listing(query), x) < Reached
Ahead == \A x \in stayed \ got : NoneBelow(left, x) => Reached <= Rank(Listing(query), x)
Counted ==
  step \in {"pageGroups", "pagePeople"} =>
    /\ seen.count \in Nat
    /\ \A x \in stayed : NoneBelow(came, x) => Rank(Listing(query), x) < seen.count

WalkInv ==
  /\ Inv
  /\ stayed \subseteq Listing(query)
  /\ InFlight => answer = NoAnswer /\ (until = "once" => got = {})
  /\ until # "once" => Proper(query) /\ Listed(query) /\ Behind /\ Ahead /\ Counted
  /\ RepeatsAreShifts
  /\ SkipsAreShifts

-----------------------------------------------------------------------------
(* Listings.                                                               *)

(* A listing is a finite set of ids in their order. *)
LEMMA ListingsAreNumbers ==
  ASSUME StoreTypeOK, NEW q
  PROVE  Listing(q) \in SUBSET Nat /\ IsFiniteSet(Listing(q))
BY RowsAreNumbers, PeopleBelowAreNumbers, FS_EmptySet DEF Listing

(* A listing changes only with the tables. *)
LEMMA SameListing ==
  ASSUME UNCHANGED <<parent, member>>
  PROVE  \A q : Listing(q)' = Listing(q)
<1>1. Groups' = Groups /\ People' = People
  BY DEF Groups, People
<1>2. \A S : Closed(S)' <=> Closed(S)
  BY <1>1 DEF Closed
<1>3. \A g : Subtree(g)' = Subtree(g)
  BY <1>1, <1>2 DEF Subtree
<1>4. \A g : Members(g)' = Members(g) /\ PeopleBelow(g)' = PeopleBelow(g)
  BY <1>1, <1>3 DEF Members, PeopleBelow
<1> QED
  BY <1>1, <1>4 DEF Listing

(* Without a newcomer before it no row gets a higher rank. *)
LEMMA RanksShrink ==
  ASSUME NEW S \in SUBSET Nat, IsFiniteSet(S), NEW T \in SUBSET Nat, IsFiniteSet(T),
         NEW x, NoneBelow(T \ S, x)
  PROVE  Rank(T, x) <= Rank(S, x)
<1>1. {y \in T : y < x} \in SUBSET {y \in S : y < x}
  BY DEF NoneBelow
<1>2. IsFiniteSet({y \in S : y < x})
  BY SmallerRows
<1> QED
  BY <1>1, <1>2, FS_Subset DEF Rank

(* The rows on a page. *)
OnPage(S, page) == {x \in S : page.offset <= Rank(S, x) /\ Rank(S, x) < page.offset + page.limit}

(* A page has the rows of its ranks, and one that is not full reaches the  *)
(* end.                                                                    *)
LEMMA WindowHasPage ==
  ASSUME NEW S \in SUBSET Nat, IsFiniteSet(S), NEW page, page.limit \in Nat, page.offset \in Nat
  PROVE  LET w == Window(Ascending(S), page)
         IN /\ {w[i] : i \in DOMAIN w} = OnPage(S, page)
            /\ Len(w) < page.limit => Cardinality(S) < page.offset + page.limit
<1> DEFINE n == Cardinality(S)
           a == Ascending(S)
           o == page.offset
           l == page.limit
           k == PageSize(Len(a), page)
           w == Window(a, page)
<1>1. n \in Nat /\ a \in Seq(S) /\ Len(a) = n /\ \A i \in 1..n : a[i] \in S /\ Rank(S, a[i]) = i - 1
  BY AscendingRows, FS_CardinalityType
<1> HIDE DEF n, a
<1>2. /\ k \in Nat /\ Len(w) = k /\ DOMAIN w = 1..k
      /\ \A i \in 1..k : o + i \in 1..Len(a) /\ w[i] = a[o + i]
  BY ONLY <1>1, page.limit \in Nat, page.offset \in Nat, WindowRows
<1>3. o \in Nat /\ l \in Nat /\ k = IF n <= o THEN 0 ELSE IF n <= o + l THEN n - o ELSE l
  BY <1>1 DEF PageSize
<1> HIDE DEF o, l, k, w
<1>4. ASSUME NEW i \in 1..k PROVE w[i] \in S /\ o <= Rank(S, w[i]) /\ Rank(S, w[i]) < o + l
  <2>1. o + i \in 1..n /\ w[i] = a[o + i] /\ i \in 1..l
    BY <1>1, <1>2, <1>3
  <2>2. w[i] \in S /\ Rank(S, w[i]) = (o + i) - 1
    BY <1>1, <2>1
  <2> QED
    BY ONLY <1>3, <2>1, <2>2
<1>5. ASSUME NEW x \in S, o <= Rank(S, x), Rank(S, x) < o + l PROVE \E i \in 1..k : w[i] = x
  <2> DEFINE i == Rank(S, x) - o + 1
  <2>1. Rank(S, x) \in 0..(n - 1)
    BY RanksAreBounded DEF n
  <2>2. i \in 1..k /\ o + i \in 1..n /\ (o + i) - 1 = Rank(S, x)
    <3> DEFINE x0 == Rank(S, x)
    <3>1. x0 \in 0..(n - 1) /\ o <= x0 /\ x0 < o + l /\ n \in Nat /\ i = x0 - o + 1
      BY <1>1, <1>5, <2>1
    <3> HIDE DEF x0, i
    <3>2. i \in 1..k /\ o + i \in 1..n /\ (o + i) - 1 = x0
      BY ONLY <1>3, <3>1
    <3> QED
      BY ONLY <3>2 DEF x0
  <2>3. w[i] = a[o + i]
    BY <1>2, <2>2
  <2>4. w[i] \in S /\ Rank(S, w[i]) = Rank(S, x)
    BY <1>1, <2>2, <2>3
  <2> HIDE DEF i
  <2>5. \A y, z \in S : Rank(S, y) = Rank(S, z) => y = z
    BY RanksDiffer
  <2>6. w[i] = x
    BY ONLY x \in S, <2>4, <2>5
  <2> QED
    BY <2>2, <2>6
<1>6. {w[i] : i \in DOMAIN w} = OnPage(S, page)
  BY <1>2, <1>4, <1>5 DEF OnPage, o, l
<1>7. Len(w) < l => n < o + l
  BY <1>1, <1>2, <1>3
<1> QED
  BY <1>6, <1>7 DEF n, a, o, l, w

-----------------------------------------------------------------------------
(* Requests.                                                               *)

(* A request has nothing behind it and nothing delivered. *)
LEMMA FirstPageKeepsWalk ==
  ASSUME WalkInv, FirstPage
  PROVE  WalkInv'
<1>1. PICK q \in Queries :
        /\ Send(q)
        /\ until' \in IF q.op \in {"ListGroups", "ListGroupPeople"} /\ q.offset = NULL
                        THEN {"short", "total"} ELSE {"once"}
        /\ stayed' = Listing(q)
        /\ got' = {} /\ twice' = {} /\ left' = {} /\ came' = {}
  BY DEF FirstPage
<1>2. /\ UNCHANGED <<store, seen>> /\ query' = q
      /\ step' = IF q.op \in {"ListGroups", "GetGroup"} THEN FirstGroupRead(q.op)
                                                      ELSE FirstPersonRead(q.op)
      /\ answer' = NoAnswer /\ touched' = FALSE
  BY <1>1 DEF Send
<1>3. Proper(q)
  BY QueriesAreProper
<1>4. Inv'
  BY <1>1, <1>3, SendKeepsInv DEF WalkInv
<1>5. step' \in {"getGroup", "countGroups", "checkGroup", "getPerson"}
  BY <1>2, <1>3 DEF Proper, FirstGroupRead, FirstPersonRead
<1>6. ~Answered' /\ InFlight' /\ Listing(query)' = Listing(q)
  BY <1>2, <1>5, SameListing DEF Answered, InFlight, store
<1>7. ASSUME until' # "once" PROVE Proper(query)' /\ Listed(query)' /\ Behind' /\ Ahead' /\ Counted'
  <2>1. Proper(query)' /\ Listed(query)' /\ q.offset = NULL
    BY <1>1, <1>2, <1>3, <1>7 DEF Proper, Listed
  <2>2. Reached' = 0
    BY <1>2, <1>6, <2>1 DEF Reached, PageOf, pagination
  <2>3. \A x : Rank(Listing(q), x) \in Nat
    BY ListingsAreNumbers, SmallerRows DEF WalkInv, Inv
  <2>4. \A x : Rank(Listing(query), x)' = Rank(Listing(q), x)
    BY <1>6 DEF Rank
  <2>5. Ahead'
    BY <2>2, <2>3, <2>4 DEF Ahead
  <2> QED
    BY <1>1, <1>5, <2>1, <2>5 DEF Behind, Counted
<1>8. RepeatsAreShifts' /\ SkipsAreShifts'
  BY <1>1, <1>6 DEF RepeatsAreShifts, SkipsAreShifts, Walked
<1> QED
  BY <1>1, <1>2, <1>4, <1>6, <1>7, <1>8 DEF WalkInv

(* The next request, or the same one again, goes on from where the walk is. *)
LEMMA SendKeepsWalk ==
  ASSUME WalkInv, until # "once", NEW q, Proper(q), Listed(q), Send(q), UNCHANGED <<until, history>>,
         PageOf(q).offset = Reached, Listing(q) = Listing(query)
  PROVE  WalkInv'
<1>1. /\ UNCHANGED <<store, seen>> /\ query' = q
      /\ step' = IF q.op \in {"ListGroups", "GetGroup"} THEN FirstGroupRead(q.op)
                                                      ELSE FirstPersonRead(q.op)
      /\ answer' = NoAnswer /\ touched' = FALSE
  BY DEF Send
<1>2. UNCHANGED <<until, got, twice, stayed, left, came>>
  BY DEF history
<1>3. Inv'
  BY SendKeepsInv DEF WalkInv
<1>4. step' \in {"countGroups", "checkGroup"}
  BY <1>1 DEF Listed, FirstGroupRead, FirstPersonRead
<1>5. ~Answered' /\ InFlight' /\ Listing(query)' = Listing(query)
  BY <1>1, <1>4, SameListing DEF Answered, InFlight, store
<1>6. \A x : Rank(Listing(query), x)' = Rank(Listing(query), x)
  BY <1>5 DEF Rank
<1>7. Reached' = Reached
  BY <1>1, <1>5 DEF Reached, PageOf, pagination
<1>8. Behind' /\ Ahead' /\ Counted'
  BY <1>2, <1>4, <1>6, <1>7 DEF WalkInv, Behind, Ahead, Counted, NoneBelow
<1>9. RepeatsAreShifts' /\ SkipsAreShifts'
  BY <1>2, <1>5 DEF WalkInv, RepeatsAreShifts, SkipsAreShifts, Walked
<1>10. Proper(query)' /\ Listed(query)'
  BY <1>1 DEF Proper, Listed
<1> QED
  BY <1>1, <1>2, <1>3, <1>5, <1>8, <1>9, <1>10 DEF WalkInv

(* The next page starts where the walk has come to. *)
LEMMA NextPageKeepsWalk ==
  ASSUME WalkInv, NextPage
  PROVE  WalkInv'
<1> DEFINE page == PageOf(query)
           q == [query EXCEPT !.offset = page.offset + page.limit]
<1>1. until # "once" /\ answer.outcome = "ok" /\ Answered
  BY DEF NextPage, LastPage
<1>2. Proper(query) /\ Listed(query)
  BY <1>1 DEF WalkInv
<1>3. page.limit \in Nat /\ page.offset \in Nat
  BY <1>2, PagesAreMeant DEF Proper
<1> HIDE DEF page
<1>4. Proper(q) /\ Listed(q) /\ q.offset = page.offset + page.limit
      /\ q.op = query.op /\ q.id = query.id /\ q.deep = query.deep
  BY <1>2, <1>3 DEF Proper, Listed
<1>5. Send(q) /\ UNCHANGED <<until, history>>
  BY DEF NextPage, page
<1> HIDE DEF q
<1>6. PageOf(q).offset = page.offset + page.limit
  BY <1>3, <1>4, ParametersAreIntegers DEF PageOf, pagination
<1>7. Reached = page.offset + page.limit
  BY <1>1 DEF Reached, page
<1>8. Listing(q) = Listing(query)
  BY <1>4 DEF Listing
<1> QED
  BY <1>1, <1>4, <1>5, <1>6, <1>7, <1>8, SendKeepsWalk

(* Asking again after a timeout delivers nothing by itself. *)
LEMMA RepeatPageKeepsWalk ==
  ASSUME WalkInv, RepeatPage
  PROVE  WalkInv'
<1>1. until # "once" /\ answer.outcome # "ok" /\ Send(query) /\ UNCHANGED <<until, history>>
  BY DEF RepeatPage
<1>2. Proper(query) /\ Listed(query)
  BY <1>1 DEF WalkInv
<1>3. PageOf(query).offset = Reached
  BY <1>1 DEF Reached
<1> QED
  BY <1>1, <1>2, <1>3, SendKeepsWalk

-----------------------------------------------------------------------------
(* Writers.                                                                *)

(* ListingsAreNumbers, of the next state. *)
LEMMA ListingsStayNumbers ==
  (StoreTypeOK => Listing(query) \in SUBSET Nat /\ IsFiniteSet(Listing(query)))'
<1>1. StoreTypeOK => Listing(query) \in SUBSET Nat /\ IsFiniteSet(Listing(query))
  BY ListingsAreNumbers
<1> QED
  BY <1>1, PTL

(* A writer makes rows leave and come in, and is remembered for it. *)
LEMMA DisturbKeepsWalk ==
  ASSUME WalkInv, Disturb
  PROVE  WalkInv'
<1> DEFINE before == Listing(query)
           after == Listing(query)'
<1>1. /\ Write /\ UNCHANGED <<until, got, twice>>
      /\ stayed' = stayed \cap after
      /\ left' = left \cup (before \ after) /\ came' = came \cup (after \ before)
  BY DEF Disturb
<1>2. UNCHANGED <<step, query, seen, answer>> /\ step # "idle"
  BY <1>1 DEF Write, reader
<1>3. Inv'
  BY <1>1, WriteKeepsInv DEF WalkInv
<1>4. before \in SUBSET Nat /\ IsFiniteSet(before)
  BY ListingsAreNumbers DEF WalkInv, Inv
<1>5. after \in SUBSET Nat /\ IsFiniteSet(after)
  BY <1>3, ListingsStayNumbers DEF Inv
<1>6. \A x : Rank(Listing(query), x)' = Rank(after, x)
  BY DEF Rank
<1> HIDE DEF before, after
<1>7. ~Answered' /\ InFlight' /\ Reached' = Reached
  BY <1>2 DEF Answered, InFlight, Reached
<1>8. ASSUME NEW x PROVE /\ NoneBelow(came', x) => NoneBelow(came, x) /\ NoneBelow(after \ before, x)
                         /\ NoneBelow(left', x) => NoneBelow(left, x) /\ NoneBelow(before \ after, x)
  BY <1>1 DEF NoneBelow
<1>9. ASSUME NEW x PROVE /\ Rank(before, x) \in Nat /\ Rank(after, x) \in Nat
                         /\ NoneBelow(after \ before, x) => Rank(after, x) <= Rank(before, x)
                         /\ NoneBelow(before \ after, x) => Rank(before, x) <= Rank(after, x)
  BY <1>4, <1>5, SmallerRows, RanksShrink
<1>10. stayed' \subseteq after
  BY <1>1
<1>11. ASSUME until # "once" PROVE Proper(query)' /\ Listed(query)' /\ Behind' /\ Ahead' /\ Counted'
  <2>1. Proper(query) /\ Listed(query) /\ Behind /\ Ahead /\ Counted
    BY <1>11 DEF WalkInv
  <2>2. PageOf(query).limit \in Nat /\ PageOf(query).offset \in Nat
    BY <2>1, PagesAreMeant DEF Proper
  <2>3. Reached \in Nat
    BY <2>2 DEF Reached
  <2>4. ASSUME NEW x \in got', NoneBelow(came', x) PROVE Rank(after, x) < Reached
    <3>1. Rank(before, x) < Reached
      BY <1>1, <1>8, <2>1, <2>4 DEF Behind, before
    <3> QED
      BY <1>8, <1>9, <2>3, <2>4, <3>1
  <2>5. ASSUME NEW x \in stayed' \ got', NoneBelow(left', x) PROVE Reached <= Rank(after, x)
    <3>1. Reached <= Rank(before, x)
      BY <1>1, <1>8, <2>1, <2>5 DEF Ahead, before
    <3> QED
      BY <1>8, <1>9, <2>3, <2>5, <3>1
  <2>6. ASSUME step \in {"pageGroups", "pagePeople"}, NEW x \in stayed', NoneBelow(came', x)
        PROVE  Rank(after, x) < seen.count
    <3>1. Rank(before, x) < seen.count
      BY <1>1, <1>8, <2>1, <2>6 DEF Counted, before
    <3>2. Rank(after, x) <= Rank(before, x) /\ Rank(after, x) \in Nat /\ Rank(before, x) \in Nat
      BY <1>8, <1>9, <2>6
    <3>3. seen.count \in Nat
      BY <2>1, <2>6 DEF Counted
    <3> QED
      BY <3>1, <3>2, <3>3
  <2>7. Behind'
    BY <1>6, <1>7, <2>4 DEF Behind, NoneBelow
  <2>8. Ahead'
    BY <1>6, <1>7, <2>5 DEF Ahead, NoneBelow
  <2>9. Counted'
    BY <1>2, <1>6, <2>1, <2>6 DEF Counted, NoneBelow
  <2>10. Proper(query)' /\ Listed(query)'
    BY <1>2, <2>1 DEF Proper, Listed
  <2> QED
    BY <2>7, <2>8, <2>9, <2>10
<1>12. RepeatsAreShifts' /\ SkipsAreShifts'
  BY <1>1, <1>7 DEF WalkInv, RepeatsAreShifts, SkipsAreShifts, Walked
<1>13. InFlight' => answer' = NoAnswer /\ (until' = "once" => got' = {})
  BY <1>1, <1>2 DEF WalkInv, InFlight
<1> QED
  BY <1>1, <1>3, <1>10, <1>11, <1>12, <1>13 DEF WalkInv, after

-----------------------------------------------------------------------------
(* The statements of a request.                                            *)

(* Between its statements a request delivers nothing. *)
LEMMA GoKeepsWalk ==
  ASSUME WalkInv, Inv', InFlight, NEW next, next # "idle", NEW now, Go(next, now), Receive,
         next \in {"pageGroups", "pagePeople"} =>
           now.count \in Nat /\ \A x \in stayed : Rank(Listing(query), x) < now.count
  PROVE  WalkInv'
<1>1. UNCHANGED <<store, query, answer, touched>> /\ step' = next /\ seen' = now
  BY DEF Go
<1>2. answer' = NoAnswer
  BY <1>1 DEF WalkInv
<1>3. UNCHANGED <<until, got, twice, stayed, left, came>>
  BY <1>2 DEF Receive
<1>4. ~Answered /\ ~Answered' /\ InFlight'
  BY <1>1 DEF Answered, InFlight
<1>5. Listing(query)' = Listing(query)
  <2>1. \A q : Listing(q)' = Listing(q)
    BY <1>1, SameListing DEF store
  <2> QED
    BY <1>1, <2>1
<1>6. \A x : Rank(Listing(query), x)' = Rank(Listing(query), x)
  BY <1>5 DEF Rank
<1>7. Reached' = Reached
  BY <1>1, <1>4 DEF Reached
<1>8. ASSUME until' # "once" PROVE Proper(query)' /\ Listed(query)' /\ Behind' /\ Ahead' /\ Counted'
  <2>1. Proper(query) /\ Listed(query) /\ Behind /\ Ahead
    BY <1>3, <1>8 DEF WalkInv
  <2>2. Behind' /\ Ahead'
    BY <1>3, <1>6, <1>7, <2>1 DEF Behind, Ahead, NoneBelow
  <2>3. Counted'
    BY <1>1, <1>3, <1>6 DEF Counted
  <2> QED
    BY <1>1, <2>1, <2>2, <2>3 DEF Proper, Listed
<1>9. RepeatsAreShifts' /\ SkipsAreShifts'
  BY <1>3, <1>4 DEF WalkInv, RepeatsAreShifts, SkipsAreShifts, Walked
<1> QED
  BY <1>1, <1>2, <1>3, <1>4, <1>5, <1>8, <1>9 DEF WalkInv

(* A response that delivers nothing because there is nothing to deliver, or *)
(* because the request was cut off.                                        *)
Empty(response) ==
  /\ \A q : RowsOf(q, response) = {}
  /\ response.outcome # "aborted" => Listing(query) = {}

(* A response with the page the walk has come to. *)
Delivers(response) ==
  /\ response.outcome = "ok"
  /\ RowsOf(query, response) = OnPage(Listing(query), PageOf(query))
  /\ Len(response.items) < PageOf(query).limit =>
       Cardinality(Listing(query)) < PageOf(query).offset + PageOf(query).limit
  /\ step \in {"pageGroups", "pagePeople"} /\ response.total = seen.count

(* A page moves the walk forward by its limit, or ends it. *)
LEMMA ReplyKeepsWalk ==
  ASSUME WalkInv, Inv', InFlight, NEW response, response # NoAnswer, Reply(response), Receive,
         until # "once" => Empty(response) \/ Delivers(response)
  PROVE  WalkInv'
<1> DEFINE L == Listing(query)
           rows == RowsOf(query, response)
           o == PageOf(query).offset
           l == PageOf(query).limit
<1>1. UNCHANGED <<store, query, touched>> /\ step' = "idle" /\ answer' = response
  BY DEF Reply
<1>2. /\ got' = got \cup rows /\ twice' = twice \cup (got \cap rows)
      /\ UNCHANGED <<until, stayed, left, came>>
  BY <1>1 DEF Receive
<1>3. Listing(query)' = L
  <2>1. \A q : Listing(q)' = Listing(q)
    BY <1>1, SameListing DEF store
  <2> QED
    BY <1>1, <2>1
<1>4. \A x : Rank(Listing(query), x)' = Rank(L, x)
  BY <1>3 DEF Rank
<1>5. L \in SUBSET Nat /\ IsFiniteSet(L) /\ stayed \subseteq L
  BY ListingsAreNumbers DEF WalkInv, Inv
<1>6. CASE until = "once"
  <2>1. got = {}
    BY <1>6 DEF WalkInv
  <2>2. twice' = twice
    BY <1>2, <2>1
  <2>3. RepeatsAreShifts' /\ SkipsAreShifts'
    BY <1>2, <1>6, <2>2 DEF WalkInv, RepeatsAreShifts, SkipsAreShifts, Walked
  <2> QED
    BY <1>1, <1>2, <1>3, <1>5, <1>6, <2>3 DEF WalkInv, InFlight
<1>7. CASE until # "once"
  <2>1. Proper(query) /\ Listed(query) /\ Behind /\ Ahead /\ Counted
    BY <1>7 DEF WalkInv
  <2>2. l \in Nat /\ o \in Nat
    BY <2>1, PagesAreMeant DEF Proper
  <2>3. Reached = o
    BY DEF Reached, Answered, InFlight
  <2>4. Reached' = IF response.outcome = "ok" THEN o + l ELSE o
    <3>1. Answered' <=> response.outcome # "aborted"
      BY <1>1, <2>1 DEF Answered, Listed, NoQuery
    <3>2. PageOf(query)' = PageOf(query)
      BY <1>1 DEF PageOf, pagination
    <3> QED
      BY <1>1, <3>1, <3>2 DEF Reached
  <2>5. \A x : Rank(L, x) \in Nat
    BY <1>5, SmallerRows
  <2> HIDE DEF L, rows, o, l
  <2>6. CASE Empty(response)
    <3>1. rows = {} /\ UNCHANGED <<got, twice>>
      BY <1>2, <2>6 DEF Empty, rows
    <3>2. o <= Reached' /\ Reached' \in Nat
      BY <2>2, <2>4
    <3>3. Behind'
      <4>1. ASSUME NEW x \in got, NoneBelow(came, x) PROVE Rank(L, x) < Reached'
        <5>1. Rank(L, x) < o
          BY <2>1, <2>3, <4>1 DEF Behind, L
        <5> QED
          BY ONLY <2>2, <2>5, <3>2, <5>1
      <4> QED
        BY <1>2, <1>4, <3>1, <4>1 DEF Behind, NoneBelow
    <3>4. CASE response.outcome = "aborted"
      <4>1. Reached' = Reached
        BY <2>3, <2>4, <3>4
      <4>2. Ahead'
        BY <1>2, <1>4, <2>1, <3>1, <4>1 DEF Ahead, NoneBelow, L
      <4>3. SkipsAreShifts'
        BY <1>1, <3>4 DEF SkipsAreShifts, Walked, Answered
      <4> QED
        BY <1>1, <1>2, <1>3, <1>5, <2>1, <3>1, <3>3, <4>2, <4>3
        DEF WalkInv, InFlight, Counted, RepeatsAreShifts, Proper, Listed
    <3>5. CASE response.outcome # "aborted"
      <4>1. stayed = {}
        BY <1>5, <2>6, <3>5 DEF Empty, L
      <4>2. Ahead' /\ SkipsAreShifts'
        BY <1>2, <4>1 DEF Ahead, SkipsAreShifts
      <4> QED
        BY <1>1, <1>2, <1>3, <1>5, <2>1, <3>1, <3>3, <4>2
        DEF WalkInv, InFlight, Counted, RepeatsAreShifts, Proper, Listed
    <3> QED
      BY <3>4, <3>5
  <2>7. CASE Delivers(response)
    <3>1. /\ response.outcome = "ok" /\ Reached' = o + l
          /\ rows = {x \in L : o <= Rank(L, x) /\ Rank(L, x) < o + l}
          /\ Len(response.items) < l => Cardinality(L) < o + l
          /\ response.total = seen.count
      BY <2>4, <2>7 DEF Delivers, OnPage, L, rows, o, l
    <3>2. Behind'
      <4>1. ASSUME NEW x \in got \cup rows, NoneBelow(came, x) PROVE Rank(L, x) < o + l
        <5>1. CASE x \in got
          <6>1. Rank(L, x) < o
            BY <2>1, <2>3, <4>1, <5>1 DEF Behind, L
          <6> QED
            BY ONLY <2>2, <2>5, <6>1
        <5>2. CASE x \in rows
          BY <3>1, <5>2
        <5> QED
          BY <4>1, <5>1, <5>2
      <4> QED
        BY <1>2, <1>4, <3>1, <4>1 DEF Behind, NoneBelow
    <3>3. ASSUME NEW x \in stayed \ got', NoneBelow(left, x) PROVE o + l <= Rank(L, x)
      <4>1. o <= Rank(L, x) /\ x \in L /\ x \notin rows
        BY <1>2, <1>5, <2>1, <2>3, <3>3 DEF Ahead, L
      <4>2. ~(Rank(L, x) < o + l)
        BY <3>1, <4>1
      <4> QED
        BY ONLY <2>2, <2>5, <4>2
    <3>4. Ahead'
      BY <1>2, <1>4, <3>1, <3>3 DEF Ahead, NoneBelow
    <3>5. RepeatsAreShifts'
      <4>1. ASSUME NEW x \in got \cap rows PROVE ~NoneBelow(came, x)
        <5>1. o <= Rank(L, x)
          BY <3>1
        <5>2. NoneBelow(came, x) => Rank(L, x) < o
          BY <2>1, <2>3 DEF Behind, L
        <5> QED
          BY ONLY <2>2, <2>5, <5>1, <5>2
      <4> QED
        BY <1>2, <4>1 DEF WalkInv, RepeatsAreShifts, NoneBelow
    <3>6. SkipsAreShifts'
      <4> SUFFICES ASSUME LastPage', NEW x \in stayed \ got', NoneBelow(left, x),
                          until = "total" => NoneBelow(came, x)
                   PROVE  FALSE
        BY <1>2 DEF SkipsAreShifts, Walked, NoneBelow
      <4>1. o + l <= Rank(L, x) /\ x \in L
        BY <1>5, <3>3
      <4>2. Rank(L, x) \in 0..(Cardinality(L) - 1) /\ Cardinality(L) \in Nat
        BY <1>5, <4>1, RanksAreBounded, FS_CardinalityType
      <4>3. /\ (until = "short" /\ Len(response.items) < l) \/ (until = "total" /\ o + l >= response.total)
        BY <1>1, <1>2, <1>7, <3>1 DEF LastPage, PageOf, pagination, o, l
      <4>4. CASE until = "short" /\ Len(response.items) < l
        <5>1. Cardinality(L) < o + l
          BY <3>1, <4>4
        <5> QED
          BY ONLY <2>2, <4>1, <4>2, <5>1
      <4>5. CASE until = "total" /\ o + l >= response.total
        <5>1. Rank(L, x) < seen.count /\ seen.count \in Nat /\ o + l >= seen.count
          BY <2>1, <2>7, <3>1, <4>5 DEF Counted, Delivers, L
        <5> QED
          BY ONLY <2>2, <2>5, <4>1, <5>1
      <4> QED
        BY <4>3, <4>4, <4>5
    <3> QED
      BY <1>1, <1>2, <1>3, <1>5, <2>1, <3>2, <3>4, <3>5, <3>6
      DEF WalkInv, InFlight, Counted, Proper, Listed
  <2> QED
    BY <1>7, <2>6, <2>7
<1> QED
  BY <1>6, <1>7

(* An error delivers no rows. *)
LEMMA NothingDelivered ==
  ASSUME NEW outcome, NEW total
  PROVE  \A q : RowsOf(q, Response(outcome, <<>>, total)) = {}
BY DEF RowsOf, Response

(* A request that was cut off delivers nothing. *)
LEMMA GiveUpKeepsWalk ==
  ASSUME WalkInv, GiveUp
  PROVE  WalkInv'
<1> DEFINE response == Response("aborted", <<>>, 0)
<1>1. InFlight /\ Reply(response) /\ Receive
  BY DEF GiveUp, Cancel
<1>2. Inv'
  BY CancelKeepsInv DEF WalkInv, GiveUp
<1>3. response # NoAnswer /\ Empty(response)
  BY NothingDelivered DEF Response, NoAnswer, Empty
<1> QED
  BY <1>1, <1>2, <1>3, ReplyKeepsWalk

(* The requests that list nothing are none of a walk. *)
LEMMA SingleReadKeepsWalk ==
  ASSUME WalkInv, Inv', Receive,
         GetGroup \/ LookupGroup \/ CountDirect \/ CountTotal \/ GetPerson
  PROVE  WalkInv'
<1>1. InFlight
  BY DEF GetGroup, LookupGroup, CountDirect, CountTotal, GetPerson, InFlight
<1>2. query.op \in {"GetGroup", "GetPerson"}
  BY DEF WalkInv, Inv, OnPath, Proper, StepsOf, GetGroup, LookupGroup, CountDirect, CountTotal, GetPerson
<1>3. until = "once"
  BY <1>2 DEF WalkInv, Listed
<1>4. CASE \E next \in {"lookupGroup", "countDirect", "countTotal", "hung"} : \E now : Go(next, now)
  BY <1>1, <1>4, GoKeepsWalk
<1>5. CASE \E outcome \in {"ok", "not_found"} : \E items : Reply(Response(outcome, items, 0))
  <2>0. PICK outcome \in {"ok", "not_found"} : \E items : Reply(Response(outcome, items, 0))
    BY <1>5
  <2>1. PICK items : Reply(Response(outcome, items, 0))
    BY <2>0
  <2>2. Response(outcome, items, 0) # NoAnswer
    BY DEF Response, NoAnswer
  <2> QED
    BY <1>1, <1>3, <2>1, <2>2, ReplyKeepsWalk
<1> QED
  BY <1>4, <1>5 DEF GetGroup, LookupGroup, CountDirect, CountTotal, GetPerson, NotFound, Hang

(* A walk through the groups. *)
LEMMA ListGroupsKeepsWalk ==
  ASSUME WalkInv, Inv', Receive, CountGroups \/ PageGroups
  PROVE  WalkInv'
<1> DEFINE page == PageOf(query)
           ids == Window(Ascending(Groups), page)
<1>1. InFlight /\ Proper(query) /\ query.op = "ListGroups" /\ StoreTypeOK /\ stayed \subseteq Groups
  BY DEF WalkInv, Inv, OnPath, Proper, StepsOf, CountGroups, PageGroups, InFlight, Listing
<1>2. Groups \in SUBSET Nat /\ IsFiniteSet(Groups) /\ Cardinality(Groups) \in Nat /\ Listing(query) = Groups
  BY <1>1, RowsAreNumbers, FS_CardinalityType DEF Listing
<1>3. page.limit \in Nat /\ page.offset \in Nat
  BY <1>1, PagesAreMeant DEF Proper
<1>4. CASE CountGroups /\ Groups = {}
  <2> DEFINE response == Response("ok", <<>>, 0)
  <2>1. Reply(response) /\ response # NoAnswer /\ Empty(response)
    BY <1>2, <1>4, NothingDelivered DEF CountGroups, Response, NoAnswer, Empty
  <2> QED
    BY <1>1, <2>1, ReplyKeepsWalk
<1>5. CASE CountGroups /\ Groups # {}
  <2> DEFINE now == [seen EXCEPT !.count = Cardinality(Groups)]
  <2>1. Go("pageGroups", now)
    BY <1>5 DEF CountGroups
  <2>2. now.count = Cardinality(Groups)
    BY DEF WalkInv, Inv, OnPath
  <2>3. ASSUME NEW x \in stayed PROVE Rank(Groups, x) < Cardinality(Groups)
    <3>1. Rank(Groups, x) \in 0..(Cardinality(Groups) - 1)
      BY <1>1, <1>2, RanksAreBounded
    <3> QED
      BY <1>2, <3>1
  <2> HIDE DEF now
  <2> QED
    BY <1>1, <1>2, <2>1, <2>2, <2>3, GoKeepsWalk
<1>6. CASE PageGroups /\ Hang
  BY <1>1, <1>6, GoKeepsWalk DEF Hang
<1>7. CASE PageGroups /\ Reply(Response("ok", GroupPage(page), seen.count))
  <2> DEFINE items == GroupPage(page)
             response == Response("ok", items, seen.count)
  <2>1. ids \in Seq(Groups) /\ Len(ids) \in Nat
    BY <1>2, <1>3, AscendingRows, WindowRows
  <2>2. DOMAIN items = DOMAIN ids /\ DOMAIN ids = 1..Len(ids) /\ \A i \in DOMAIN ids : items[i].id = ids[i]
    BY <2>1 DEF GroupPage, GroupRow
  <2>3. Len(items) = Len(ids)
    BY <2>1, <2>2 DEF GroupPage
  <2>4. RowsOf(query, response) = {ids[i] : i \in DOMAIN ids}
    BY <1>1, <2>2 DEF RowsOf, Response
  <2>5. /\ {ids[i] : i \in DOMAIN ids} = OnPage(Groups, page)
        /\ Len(ids) < page.limit => Cardinality(Groups) < page.offset + page.limit
    BY <1>2, <1>3, WindowHasPage
  <2>6. step = "pageGroups"
    BY <1>7 DEF PageGroups
  <2> HIDE DEF ids, items
  <2>7. Delivers(response)
    BY <1>2, <2>3, <2>4, <2>5, <2>6 DEF Delivers, Response, page
  <2>8. response # NoAnswer
    BY DEF Response, NoAnswer
  <2> QED
    BY <1>1, <1>7, <2>7, <2>8, ReplyKeepsWalk DEF items
<1> QED
  BY <1>4, <1>5, <1>6, <1>7 DEF CountGroups, PageGroups

(* A walk through the people of a group. *)
LEMMA ListPeopleKeepsWalk ==
  ASSUME WalkInv, Inv', Receive, CheckGroup \/ CountPeople \/ PagePeople
  PROVE  WalkInv'
<1> DEFINE page == PageOf(query)
           L == Listing(query)
           rows == IF query.deep THEN SubtreePeople(query.id) ELSE DirectPeople(query.id)
           items == Window(rows, page)
<1>1. /\ InFlight /\ Proper(query) /\ query.op = "ListGroupPeople" /\ StoreTypeOK /\ ReferentialIntegrity
      /\ stayed \subseteq L
  BY DEF WalkInv, Inv, OnPath, Proper, StepsOf, CheckGroup, CountPeople, PagePeople, InFlight
<1>2. L = IF query.deep THEN PeopleBelow(query.id) ELSE Members(query.id)
  BY <1>1 DEF Listing
<1>3. L \in SUBSET Nat /\ IsFiniteSet(L) /\ Cardinality(L) \in Nat
  BY <1>1, ListingsAreNumbers, FS_CardinalityType
<1>4. page.limit \in Nat /\ page.offset \in Nat
  BY <1>1, PagesAreMeant DEF Proper
<1>5. ~Endless => PeopleCount = Cardinality(L) /\ rows = Ascending(L)
  BY <1>1, <1>2, SubtreeCount, PeopleInOrder
  DEF Endless, PeopleCount, CountDirectMembers, DirectPeople
<1>6. People = {} => L = {}
  BY <1>2 DEF PeopleBelow, Members
<1>7. query.id \notin Groups => L = {}
  BY <1>1, <1>2 DEF PeopleBelow, Members, Subtree, ReferentialIntegrity
<1>8. Cardinality(L) = 0 => L = {}
  BY <1>3, FS_EmptySet
<1> HIDE DEF L, rows
(* Nobody is listed, and nobody is delivered. *)
<1>9. ASSUME L = {}, NEW outcome \in {"ok", "not_found"}, NEW total, Reply(Response(outcome, <<>>, total))
      PROVE  WalkInv'
  <2> DEFINE response == Response(outcome, <<>>, total)
  <2>1. response # NoAnswer
    BY DEF Response, NoAnswer
  <2>2. Empty(response)
    BY <1>9, NothingDelivered DEF Empty, L
  <2> HIDE DEF response
  <2> QED
    BY <1>1, <1>9, <2>1, <2>2, ReplyKeepsWalk DEF response
<1>10. CASE Hang
  BY <1>1, <1>10, GoKeepsWalk DEF Hang
<1>11. CASE Go("countPeople", seen)
  BY <1>1, <1>11, GoKeepsWalk
<1>12. CASE ~Endless /\ Go("pagePeople", [seen EXCEPT !.count = PeopleCount])
  <2> DEFINE now == [seen EXCEPT !.count = PeopleCount]
  <2>1. now.count = Cardinality(L)
    BY <1>5, <1>12 DEF WalkInv, Inv, OnPath
  <2>2. ASSUME NEW x \in stayed PROVE Rank(L, x) < Cardinality(L)
    <3>1. Rank(L, x) \in 0..(Cardinality(L) - 1)
      BY <1>1, <1>3, RanksAreBounded
    <3> QED
      BY <1>3, <3>1
  <2>3. Go("pagePeople", now)
    BY <1>12
  <2> HIDE DEF now
  <2> QED
    BY <1>1, <1>3, <2>1, <2>2, <2>3, GoKeepsWalk DEF L
<1>13. CASE ~Endless /\ step = "pagePeople" /\ Reply(Response("ok", items, seen.count))
  <2> DEFINE response == Response("ok", items, seen.count)
  <2>1. items = Window(Ascending(L), page)
    BY <1>5, <1>13
  <2>2. /\ {items[i] : i \in DOMAIN items} = OnPage(L, page)
        /\ Len(items) < page.limit => Cardinality(L) < page.offset + page.limit
    BY <1>3, <1>4, <2>1, WindowHasPage
  <2>3. RowsOf(query, response) = {items[i] : i \in DOMAIN items}
    BY <1>1 DEF RowsOf, Response
  <2> HIDE DEF items
  <2>4. Delivers(response)
    BY <1>13, <2>2, <2>3 DEF Delivers, Response, page, L
  <2>5. response # NoAnswer
    BY DEF Response, NoAnswer
  <2> QED
    BY <1>1, <1>13, <2>4, <2>5, ReplyKeepsWalk
<1>14. CASE CheckGroup
  BY <1>7, <1>9, <1>11, <1>14 DEF CheckGroup, NotFound
<1>15. CASE CountPeople
  <2>1. CASE Endless /\ Hang
    BY <1>10, <2>1
  <2>2. CASE People = {} /\ Reply(Response("ok", <<>>, 0))
    BY <1>6, <1>9, <2>2
  <2>3. CASE ~Endless /\ PeopleCount = 0 /\ Reply(Response("ok", <<>>, 0))
    BY <1>5, <1>8, <1>9, <2>3
  <2>4. CASE ~Endless /\ Go("pagePeople", [seen EXCEPT !.count = PeopleCount])
    BY <1>12, <2>4
  <2> QED
    BY <1>15, <2>1, <2>2, <2>3, <2>4 DEF CountPeople, PeopleCount
<1>16. CASE PagePeople
  <2>1. CASE Endless /\ Hang
    BY <1>10, <2>1
  <2>2. CASE People = {} /\ Reply(Response("ok", <<>>, seen.count))
    BY <1>6, <1>9, <2>2
  <2>3. CASE ~Endless /\ step = "pagePeople" /\ Reply(Response("ok", items, seen.count))
    BY <1>13, <2>3
  <2> QED
    BY <1>16, <2>1, <2>2, <2>3 DEF PagePeople, rows
<1> QED
  BY <1>14, <1>15, <1>16

(* Every statement of the service keeps the invariant of the walk. *)
LEMMA ServeKeepsWalk ==
  ASSUME WalkInv, Serve
  PROVE  WalkInv'
<1>1. Inv' /\ Receive /\ Read
  BY ReadKeepsInv DEF WalkInv, Serve
<1> QED
  BY <1>1, SingleReadKeepsWalk, ListGroupsKeepsWalk, ListPeopleKeepsWalk DEF Read

-----------------------------------------------------------------------------
(* Before the first request there is no walk. *)
LEMMA InitWalkInv == WalkInit => WalkInv
<1> SUFFICES ASSUME WalkInit PROVE WalkInv
  OBVIOUS
<1>1. Inv
  BY InitInv DEF WalkInit
<1>2. ~InFlight /\ ~Walked
  BY DEF WalkInit, Init, InFlight, Walked
<1> QED
  BY <1>1, <1>2 DEF WalkInit, WalkInv, RepeatsAreShifts, SkipsAreShifts

(* The invariant of the walk speaks of nothing else than its variables. *)
LEMMA StutterKeepsWalk ==
  ASSUME WalkInv, UNCHANGED walkVars
  PROVE  WalkInv'
<1>1. UNCHANGED <<store, step, query, seen, answer, touched, until, got, twice, stayed, left, came>>
  BY DEF walkVars, vars, reader, history
<1>2. Inv'
  BY <1>1, NextInv DEF WalkInv, vars, reader
<1>3. Listing(query)' = Listing(query)
  <2>1. \A q : Listing(q)' = Listing(q)
    BY <1>1, SameListing DEF store
  <2> QED
    BY <1>1, <2>1
<1>4. \A x : Rank(Listing(query), x)' = Rank(Listing(query), x)
  BY <1>3 DEF Rank
<1>5. (Answered' <=> Answered) /\ PageOf(query)' = PageOf(query)
  BY <1>1 DEF Answered, PageOf, pagination
<1>6. Reached' = Reached /\ (LastPage' <=> LastPage)
  BY <1>1, <1>5 DEF Reached, LastPage
<1>7. (Behind' <=> Behind) /\ (Ahead' <=> Ahead) /\ (Counted' <=> Counted)
  BY <1>1, <1>4, <1>6 DEF Behind, Ahead, Counted, NoneBelow
<1>8. (RepeatsAreShifts' <=> RepeatsAreShifts) /\ (SkipsAreShifts' <=> SkipsAreShifts)
  BY <1>1, <1>5, <1>6 DEF RepeatsAreShifts, SkipsAreShifts, Walked
<1> QED
  BY <1>1, <1>2, <1>3, <1>7, <1>8 DEF WalkInv, InFlight, Proper, Listed

(* The invariant of the walk is inductive. *)
LEMMA NextWalkInv == WalkInv /\ [WalkNext]_walkVars => WalkInv'
BY FirstPageKeepsWalk, NextPageKeepsWalk, RepeatPageKeepsWalk, ServeKeepsWalk, GiveUpKeepsWalk,
   DisturbKeepsWalk, StutterKeepsWalk
DEF WalkNext

(* At any moment of a walk, under any writers: what was delivered lies     *)
(* before the offset the walk has come to unless something came in before  *)
(* it, and what is still to come lies behind it unless something left.     *)
THEOREM WalkInvariance == WalkSpec => []WalkInv
<1>1. WalkInit => WalkInv
  BY InitWalkInv
<1>2. WalkInv /\ [WalkNext]_walkVars => WalkInv'
  BY NextWalkInv
<1> QED
  BY <1>1, <1>2, PTL DEF WalkSpec

(* LIMIT and OFFSET over tables that move: at the end of a walk a row that *)
(* was there all along is missing only if a row before it left, or, for a  *)
(* client that stops at the total, if one came in.                         *)
THEOREM SkipsHaveCauses == WalkSpec => []SkipsAreShifts
<1>1. WalkInv => SkipsAreShifts
  BY DEF WalkInv
<1> QED
  BY <1>1, WalkInvariance, PTL

(* A row is delivered twice only if a row before it came in.               *)
THEOREM RepeatsHaveCauses == WalkSpec => []RepeatsAreShifts
<1>1. WalkInv => RepeatsAreShifts
  BY DEF WalkInv
<1> QED
  BY <1>1, WalkInvariance, PTL
=============================================================================
