---------------------------- MODULE ReadsProofs ----------------------------
(***************************************************************************)
(* The responses of Reads for tables of any size, any page and any writers *)
(* in between.                                                             *)
(***************************************************************************)
EXTENDS Reads, SubtreeProofs, SequenceTheorems

-----------------------------------------------------------------------------
(* Rows in order.  A finite set of numbers lists every rank once.          *)

Rank(S, x) == Cardinality({y \in S : y < x})

(* A row has finitely many before it. *)
LEMMA SmallerRows ==
  ASSUME NEW S \in SUBSET Nat, IsFiniteSet(S), NEW x
  PROVE  IsFiniteSet({y \in S : y < x}) /\ Rank(S, x) \in Nat
<1>1. {y \in S : y < x} \in SUBSET S
  OBVIOUS
<1> QED
  BY <1>1, FS_Subset, FS_CardinalityType DEF Rank

(* A later row has a higher rank. *)
LEMMA RanksAscend ==
  ASSUME NEW S \in SUBSET Nat, IsFiniteSet(S), NEW x \in S, NEW z \in S, x < z
  PROVE  Rank(S, x) < Rank(S, z)
<1> DEFINE X == {y \in S : y < x}
           Z == {y \in S : y < z}
<1>1. IsFiniteSet(X) /\ IsFiniteSet(Z) /\ Cardinality(X) \in Nat /\ Cardinality(Z) \in Nat
  BY SmallerRows DEF Rank
<1>2. X \in SUBSET Z /\ x \in Z /\ x \notin X
  <2>1. x \in Nat /\ z \in Nat
    OBVIOUS
  <2>2. ASSUME NEW y \in S, y < x PROVE y < z
    <3>1. y \in Nat
      OBVIOUS
    <3> QED
      BY ONLY <2>1, <2>2, <3>1, x < z
  <2>3. x \notin X
    BY ONLY <2>1
  <2>4. X \in SUBSET Z /\ x \in Z
    BY <2>2
  <2> QED
    BY <2>3, <2>4
<1>3. Cardinality(X) <= Cardinality(Z) /\ Cardinality(X) # Cardinality(Z)
  BY <1>1, <1>2, FS_Subset
<1> QED
  BY <1>1, <1>3 DEF Rank

(* No two rows have the same rank. *)
LEMMA RanksDiffer ==
  ASSUME NEW S \in SUBSET Nat, IsFiniteSet(S), NEW x \in S, NEW z \in S, Rank(S, x) = Rank(S, z)
  PROVE  x = z
<1>1. Rank(S, x) \in Nat
  BY SmallerRows
<1>2. ~(x < z) /\ ~(z < x)
  BY <1>1, RanksAscend
<1> QED
  BY <1>2

(* A rank is less than the number of rows. *)
LEMMA RanksAreBounded ==
  ASSUME NEW S \in SUBSET Nat, IsFiniteSet(S), NEW x \in S
  PROVE  Rank(S, x) \in 0..(Cardinality(S) - 1)
<1> DEFINE X == {y \in S : y < x}
<1>1. X \in SUBSET S /\ x \notin X
  OBVIOUS
<1>2. Cardinality(X) <= Cardinality(S) /\ Cardinality(X) # Cardinality(S)
  BY <1>1, FS_Subset
<1>3. Cardinality(X) \in Nat /\ Cardinality(S) \in Nat
  BY SmallerRows, FS_CardinalityType DEF Rank
<1>4. Cardinality(X) \in 0..(Cardinality(S) - 1)
  BY ONLY <1>2, <1>3
<1> QED
  BY <1>4 DEF Rank

(* Every rank below the number of rows is taken. *)
LEMMA RanksAreTaken ==
  ASSUME NEW S \in SUBSET Nat, IsFiniteSet(S), NEW i \in 0..(Cardinality(S) - 1)
  PROVE  \E x \in S : Rank(S, x) = i
<1> DEFINE n == Cardinality(S)
           T == 0..(n - 1)
           rank == [x \in S |-> Rank(S, x)]
<1>1. n \in Nat
  BY FS_CardinalityType
<1>2. IsFiniteSet(T) /\ Cardinality(T) = n
  BY <1>1, FS_Interval
<1>3. rank \in [S -> T]
  BY RanksAreBounded
<1>4. \A x, z \in S : rank[x] = rank[z] => x = z
  BY RanksDiffer
<1>5. rank \in Injection(S, T)
  BY <1>3, <1>4 DEF Injection, IsInjective
<1>6. rank \in Surjection(S, T)
  BY <1>2, <1>5, FS_Injection
<1>7. PICK x \in S : rank[x] = i
  BY <1>6 DEF Surjection
<1> QED
  BY <1>7

(* As many rows have a rank from a up to, but not, b as there are numbers. *)
LEMMA RanksBetween ==
  ASSUME NEW S \in SUBSET Nat, IsFiniteSet(S),
         NEW a \in Nat, NEW b \in Nat, a <= b, b <= Cardinality(S)
  PROVE  Cardinality({x \in S : a <= Rank(S, x) /\ Rank(S, x) < b}) = b - a
<1> DEFINE U == {x \in S : a <= Rank(S, x) /\ Rank(S, x) < b}
           T == a..(b - 1)
           rank == [x \in U |-> Rank(S, x)]
<1>1. Cardinality(S) \in Nat /\ \A x \in S : Rank(S, x) \in Nat
  BY FS_CardinalityType, SmallerRows
<1>2. IsFiniteSet(T) /\ Cardinality(T) = b - a
  <2>1. a \in Int /\ b - 1 \in Int
    OBVIOUS
  <2>2. IsFiniteSet(T) /\ Cardinality(T) = IF a > b - 1 THEN 0 ELSE (b - 1) - a + 1
    BY ONLY <2>1, FS_Interval
  <2>3. CASE a = b
    BY <2>2, <2>3
  <2>4. CASE a < b
    BY <2>2, <2>4
  <2> QED
    BY <2>3, <2>4
<1>3. rank \in [U -> T]
  <2>1. ASSUME NEW x \in U PROVE Rank(S, x) \in T
    <3>1. Rank(S, x) \in Nat /\ a <= Rank(S, x) /\ Rank(S, x) < b
      BY <1>1
    <3> QED
      BY ONLY <3>1, a \in Nat, b \in Nat
  <2> QED
    BY <2>1
<1>4. \A x, z \in U : rank[x] = rank[z] => x = z
  BY RanksDiffer
<1>5. \A i \in T : \E x \in U : rank[x] = i
  <2> SUFFICES ASSUME NEW i \in T PROVE \E x \in U : rank[x] = i
    OBVIOUS
  <2>1. i \in 0..(Cardinality(S) - 1) /\ a <= i /\ i < b
    BY <1>1
  <2>2. PICK x \in S : Rank(S, x) = i
    BY <2>1, RanksAreTaken
  <2> QED
    BY <2>1, <2>2
<1>6. U \in SUBSET S
  OBVIOUS
<1>7. IsFiniteSet(U)
  BY <1>6, FS_Subset
<1>8. rank \in Bijection(U, T)
  BY <1>3, <1>4, <1>5 DEF Bijection, Injection, Surjection, IsInjective
<1> QED
  BY <1>2, <1>7, <1>8, FS_Bijection DEF ExistsBijection

(* What Ascending promises: the rows of S, each at its rank. *)
LEMMA AscendingRows ==
  ASSUME NEW S \in SUBSET Nat, IsFiniteSet(S)
  PROVE  /\ Ascending(S) \in Seq(S)
         /\ Len(Ascending(S)) = Cardinality(S)
         /\ DOMAIN Ascending(S) = 1..Cardinality(S)
         /\ \A i \in 1..Cardinality(S) :
              Ascending(S)[i] \in S /\ Rank(S, Ascending(S)[i]) = i - 1
<1> DEFINE n == Cardinality(S)
           Row(i) == CHOOSE x \in S : Rank(S, x) = i - 1
<1>1. n \in Nat
  BY FS_CardinalityType
<1>2. Ascending(S) = [i \in 1..n |-> Row(i)]
  BY DEF Ascending, Rank
<1>3. ASSUME NEW i \in 1..n PROVE Row(i) \in S /\ Rank(S, Row(i)) = i - 1
  <2>1. i - 1 \in 0..(n - 1)
    BY <1>1
  <2>2. \E x \in S : Rank(S, x) = i - 1
    BY <2>1, RanksAreTaken
  <2> QED
    BY <2>2
<1> HIDE DEF Row
<1>4. Ascending(S) \in [1..n -> S]
  BY <1>2, <1>3
<1>5. \A i \in 1..n : Ascending(S)[i] = Row(i)
  BY <1>2
<1> HIDE DEF n
<1>6. Ascending(S) \in Seq(S) /\ Len(Ascending(S)) = n /\ DOMAIN Ascending(S) = 1..n
  BY <1>1, <1>4
<1> QED
  BY <1>3, <1>5, <1>6 DEF n

(* The rows ascend, so none is there twice. *)
LEMMA AscendingAscends ==
  ASSUME NEW S \in SUBSET Nat, IsFiniteSet(S),
         NEW i \in 1..Cardinality(S), NEW j \in 1..Cardinality(S), i < j
  PROVE  Ascending(S)[i] < Ascending(S)[j]
<1> DEFINE x == Ascending(S)[i]
           z == Ascending(S)[j]
<1>1. x \in S /\ z \in S /\ Rank(S, x) = i - 1 /\ Rank(S, z) = j - 1
  BY AscendingRows
<1>2. i \in Nat /\ j \in Nat /\ x \in Nat /\ z \in Nat
  <2>1. i \in Nat /\ j \in Nat
    BY FS_CardinalityType
  <2> QED
    BY <1>1, <2>1
<1>3. ~(Rank(S, z) < Rank(S, x)) /\ Rank(S, z) # Rank(S, x)
  BY ONLY <1>1, <1>2, i < j
<1>4. ~(z < x) /\ x # z
  BY <1>1, <1>3, RanksAscend
<1> QED
  BY ONLY <1>2, <1>4

(* Among rows of consecutive ranks, each is as far up as its rank is from  *)
(* the first of them.                                                      *)
LEMMA RanksShift ==
  ASSUME NEW S \in SUBSET Nat, IsFiniteSet(S), NEW a \in Nat, NEW b \in Nat,
         NEW T, T = {x \in S : a <= Rank(S, x) /\ Rank(S, x) < b},
         NEW x \in T
  PROVE  Rank(T, x) = Rank(S, x) - a
<1> DEFINE r == Rank(S, x)
           U == {y \in S : a <= Rank(S, y) /\ Rank(S, y) < r}
<1>1. x \in S /\ r \in Nat /\ a <= r /\ r < b /\ r <= Cardinality(S)
  <2>1. x \in S /\ a <= r /\ r < b
    OBVIOUS
  <2>2. r \in 0..(Cardinality(S) - 1) /\ Cardinality(S) \in Nat
    BY <2>1, RanksAreBounded, FS_CardinalityType
  <2> QED
    BY ONLY <2>1, <2>2
<1>2. ASSUME NEW y \in S PROVE Rank(S, y) \in Nat /\ (y < x <=> Rank(S, y) < r)
  <2>1. x \in Nat /\ y \in Nat
    BY <1>1
  <2>2. Rank(S, y) \in Nat /\ r \in Nat
    BY SmallerRows
  <2>3. (y < x => Rank(S, y) < r) /\ (x < y => r < Rank(S, y))
    BY <1>1, RanksAscend
  <2>4. x = y => Rank(S, y) = r
    OBVIOUS
  <2> QED
    BY ONLY <2>1, <2>2, <2>3, <2>4
<1> HIDE DEF r
<1>3. {y \in T : y < x} = U
  <2>1. ASSUME NEW y \in T, y < x PROVE y \in U
    BY <1>2, <2>1
  <2>2. ASSUME NEW y \in U PROVE y \in T /\ y < x
    <3>1. y \in S /\ a <= Rank(S, y) /\ Rank(S, y) < r /\ Rank(S, y) \in Nat /\ y < x
      BY <1>2, <2>2
    <3>2. Rank(S, y) < b
      BY ONLY <1>1, <3>1, b \in Nat
    <3> QED
      BY <3>1, <3>2
  <2> QED
    BY <2>1, <2>2
<1>4. Cardinality(U) = r - a
  BY <1>1, RanksBetween
<1> QED
  BY <1>3, <1>4 DEF Rank, r

-----------------------------------------------------------------------------
(* Pages.                                                                  *)

(* The rows a page has of n rows. *)
PageSize(n, page) ==
  IF n <= page.offset THEN 0 ELSE IF n <= page.offset + page.limit THEN n - page.offset ELSE page.limit

(* LIMIT and OFFSET: how many rows are cut out, and which. *)
LEMMA WindowRows ==
  ASSUME NEW S, NEW rows \in Seq(S), NEW page, page.limit \in Nat, page.offset \in Nat
  PROVE  LET k == PageSize(Len(rows), page)
         IN  /\ k \in Nat
             /\ Window(rows, page) \in Seq(S)
             /\ Len(Window(rows, page)) = k
             /\ DOMAIN Window(rows, page) = 1..k
             /\ \A i \in 1..k : /\ page.offset + i \in 1..Len(rows)
                                /\ Window(rows, page)[i] = rows[page.offset + i]
<1> DEFINE n == Len(rows)
           o == page.offset
           l == page.limit
           last == Min({o + l, n})
           k == PageSize(n, page)
           w == Window(rows, page)
<1>1. n \in Nat /\ o \in Nat /\ l \in Nat
  OBVIOUS
<1>2. last = IF n <= o + l THEN n ELSE o + l
  BY <1>1 DEF Min
<1>3. k = IF n <= o THEN 0 ELSE IF n <= o + l THEN n - o ELSE l
  BY DEF PageSize
<1>4. w = SubSeq(rows, o + 1, last)
  BY DEF Window
<1> HIDE DEF n, o, l, last, k, w
<1>5. last \in Int /\ k \in Nat /\ last <= n
  BY <1>1, <1>2, <1>3
<1>6. ASSUME NEW i \in (o + 1)..last PROVE rows[i] \in S
  <2>1. i \in 1..n
    BY <1>1, <1>5
  <2> QED
    BY <2>1 DEF n
<1>7. /\ w \in Seq(S)
      /\ Len(w) = IF o + 1 <= last THEN last - (o + 1) + 1 ELSE 0
      /\ \A i \in 1..(last - (o + 1) + 1) : w[i] = rows[(o + 1) + i - 1]
  <2>1. o + 1 \in Int
    BY <1>1
  <2> QED
    BY ONLY <1>4, <1>5, <1>6, <2>1, SubSeqProperties
<1>8. Len(w) = k
  <2>1. CASE n <= o
    BY ONLY <1>1, <1>2, <1>3, <1>7, <2>1
  <2>2. CASE ~(n <= o) /\ n <= o + l
    BY ONLY <1>1, <1>2, <1>3, <1>7, <2>2
  <2>3. CASE ~(n <= o) /\ ~(n <= o + l)
    BY ONLY <1>1, <1>2, <1>3, <1>7, <2>3
  <2> QED
    BY ONLY <2>1, <2>2, <2>3
<1>9. DOMAIN w = 1..k
  BY <1>7, <1>8
<1>10. ASSUME NEW i \in 1..k PROVE o + i \in 1..n /\ w[i] = rows[o + i]
  <2>1. o + i \in 1..n /\ i \in 1..(last - (o + 1) + 1) /\ (o + 1) + i - 1 = o + i
    BY <1>1, <1>2, <1>3
  <2> QED
    BY <1>7, <2>1
<1> QED
  BY <1>5, <1>7, <1>8, <1>9, <1>10 DEF n, o, k, w

(* LIMIT and OFFSET cut out the rows whose ranks the page is about. *)
LEMMA WindowIsRanked ==
  ASSUME NEW S \in SUBSET Nat, IsFiniteSet(S), NEW page, page.limit \in Nat, page.offset \in Nat
  PROVE  Window(Ascending(S), page) = Ranked(S, page)
<1> DEFINE n == Cardinality(S)
           a == page.offset
           l == page.limit
           k == PageSize(n, page)
           T == {x \in S : Rank(S, x) \in a..(a + l - 1)}
           w == Window(Ascending(S), page)
           r == Ascending(T)
<1>1. Ascending(S) \in Seq(S) /\ Len(Ascending(S)) = n /\ n \in Nat
  BY AscendingRows, FS_CardinalityType
<1>2. /\ k \in Nat /\ w \in Seq(S) /\ Len(w) = k
      /\ \A i \in 1..k : a + i \in 1..n /\ w[i] = Ascending(S)[a + i]
  <2> HIDE DEF n
  <2> QED
    BY ONLY <1>1, page.limit \in Nat, page.offset \in Nat, WindowRows
<1>3. a \in Nat /\ l \in Nat /\ (k = IF n <= a THEN 0 ELSE IF n <= a + l THEN n - a ELSE l)
  BY DEF PageSize
<1>4. Ranked(S, page) = r
  BY DEF Ranked, Rank
<1>5. T \in SUBSET Nat /\ IsFiniteSet(T) /\ T \subseteq S
  <2>1. T \in SUBSET S
    OBVIOUS
  <2> QED
    BY <2>1, FS_Subset
<1> HIDE DEF n, a, l, k, w, r
<1>6. T = {x \in S : a <= Rank(S, x) /\ Rank(S, x) < a + k}
  <2> SUFFICES ASSUME NEW x \in S
               PROVE  Rank(S, x) \in a..(a + l - 1) <=> a <= Rank(S, x) /\ Rank(S, x) < a + k
    OBVIOUS
  <2>1. Rank(S, x) \in 0..(n - 1)
    BY RanksAreBounded DEF n
  <2> QED
    BY ONLY <1>1, <1>3, <2>1
<1> HIDE DEF T
<1>7. Cardinality(T) = k
  <2>1. CASE n <= a
    <3>1. k = 0
      BY <1>3, <2>1
    <3>2. \A x \in S : ~(a <= Rank(S, x) /\ Rank(S, x) < a + k)
      <4> TAKE x \in S
      <4>1. Rank(S, x) \in Nat
        BY SmallerRows
      <4> QED
        BY ONLY <1>3, <3>1, <4>1
    <3>3. T = {}
      BY <1>6, <3>2
    <3> QED
      BY <3>1, <3>3, FS_EmptySet
  <2>2. CASE ~(n <= a)
    <3>1. a + k \in Nat /\ a <= a + k /\ a + k <= n /\ (a + k) - a = k
      BY ONLY <1>1, <1>2, <1>3, <2>2
    <3>2. Cardinality(T) = (a + k) - a
      BY <1>3, <1>6, <3>1, RanksBetween DEF n
    <3> QED
      BY <3>1, <3>2
  <2> QED
    BY <2>1, <2>2
<1>8. /\ r \in Seq(T) /\ Len(r) = k
      /\ \A i \in 1..k : r[i] \in T /\ Rank(T, r[i]) = i - 1
  BY <1>5, <1>7, AscendingRows DEF r
<1>9. ASSUME NEW i \in 1..k PROVE w[i] = r[i]
  <2>1. a + i \in 1..n /\ w[i] = Ascending(S)[a + i]
    BY <1>2
  <2>2. w[i] \in S /\ Rank(S, w[i]) = (a + i) - 1
    BY <2>1, AscendingRows DEF n
  <2>3. r[i] \in S /\ r[i] \in T /\ Rank(T, r[i]) = i - 1
    BY <1>5, <1>8
  <2>4. a + k \in Nat
    BY <1>2, <1>3
  <2>5. Rank(T, r[i]) = Rank(S, r[i]) - a
    BY <1>3, <1>6, <2>3, <2>4, RanksShift
  <2>6. Rank(S, r[i]) \in Nat
    BY SmallerRows
  <2>7. i \in Nat
    BY <1>2
  <2>8. Rank(S, w[i]) = Rank(S, r[i])
    BY ONLY <1>3, <2>2, <2>3, <2>5, <2>6, <2>7
  <2>9. \A x, z \in S : Rank(S, x) = Rank(S, z) => x = z
    BY RanksDiffer
  <2> QED
    BY ONLY <2>2, <2>3, <2>8, <2>9
<1>10. r \in Seq(S)
  <2>1. r \in [1..k -> T]
    BY <1>8
  <2>2. r \in [1..k -> S]
    BY <1>5, <2>1
  <2> QED
    BY <1>2, <2>2
<1>11. w = r
  BY <1>2, <1>8, <1>9, <1>10, SeqEqual
<1> QED
  BY <1>4, <1>11 DEF w

(* pagination: what a request may leave out, or get wrong, ends as the     *)
(* limit and the offset it stands for.                                     *)
LEMMA PagesAreMeant ==
  ASSUME NEW q, q.limit \in Int \cup {NULL}, q.offset \in Int \cup {NULL}
  PROVE  /\ PageOf(q) = PageMeant(q)
         /\ PageOf(q).limit \in Nat /\ PageOf(q).offset \in Nat
<1> DEFINE limit == IF q.limit = NULL \/ q.limit <= 0 THEN DefaultLimit ELSE Min({q.limit, MaxLimit})
           offset == IF q.offset = NULL \/ q.offset < 0 THEN 0 ELSE q.offset
           page == PageMeant(q)
<1>1. PageOf(q) = [limit |-> limit, offset |-> offset]
  BY DEF PageOf, pagination
<1>2. /\ page.limit = CASE q.limit \in 1..MaxLimit -> q.limit
                        [] q.limit \in Nat /\ q.limit > MaxLimit -> MaxLimit
                        [] OTHER -> DefaultLimit
      /\ page.offset = IF q.offset \in Nat THEN q.offset ELSE 0
      /\ page = [limit |-> page.limit, offset |-> page.offset]
  BY DEF PageMeant
<1>3. NULL \notin Int /\ DefaultLimit \in Nat /\ DefaultLimit > 0 /\ MaxLimit \in Nat /\ MaxLimit > 0
  BY LimitsAreOrdered, ParametersAreIntegers
<1> HIDE DEF page
<1>4. offset = page.offset /\ offset \in Nat
  <2>1. CASE q.offset = NULL
    BY <1>2, <1>3, <2>1
  <2>2. CASE q.offset \in Int
    BY <1>2, <1>3, <2>2
  <2> QED
    BY <2>1, <2>2
<1>5. limit = page.limit /\ limit \in Nat
  <2>1. CASE q.limit = NULL
    BY <1>2, <1>3, <2>1
  <2>2. CASE q.limit \in Int /\ q.limit <= 0
    BY <1>2, <1>3, <2>2
  <2>3. CASE q.limit \in Int /\ q.limit > 0 /\ q.limit <= MaxLimit
    <3>1. limit = Min({q.limit, MaxLimit}) /\ q.limit \in 1..MaxLimit
      BY <1>3, <2>3
    <3>2. limit = q.limit
      BY <1>3, <2>3, <3>1 DEF Min
    <3>3. ~(q.limit \in Nat /\ q.limit > MaxLimit)
      BY <1>3, <2>3
    <3>4. page.limit = q.limit
      BY <1>2, <3>1, <3>3
    <3> QED
      BY <2>3, <3>2, <3>4
  <2>4. CASE q.limit \in Int /\ q.limit > MaxLimit
    <3>1. limit = Min({q.limit, MaxLimit}) /\ q.limit \notin 1..MaxLimit /\ q.limit \in Nat
      BY <1>3, <2>4
    <3>2. limit = MaxLimit
      BY <1>3, <2>4, <3>1 DEF Min
    <3> QED
      BY <1>2, <1>3, <2>4, <3>1, <3>2
  <2>5. q.limit = NULL \/ (q.limit \in Int /\ (q.limit <= 0 \/ (q.limit > 0 /\ q.limit <= MaxLimit) \/ q.limit > MaxLimit))
    BY <1>3
  <2> QED
    BY <2>1, <2>2, <2>3, <2>4, <2>5
<1> HIDE DEF limit, offset
<1>6. PageOf(q) = page
  BY <1>1, <1>2, <1>4, <1>5
<1> QED
  BY <1>1, <1>4, <1>5, <1>6 DEF page

-----------------------------------------------------------------------------
(* The rows of the joins with the recursion.                               *)

(* Ids stand for the order by created_at and id. *)
LEMMA RowsAreNumbers ==
  ASSUME StoreTypeOK
  PROVE  /\ Groups \in SUBSET Nat /\ IsFiniteSet(Groups)
         /\ People \in SUBSET Nat /\ IsFiniteSet(People)
<1>1. Groups \in SUBSET GroupIds /\ People \in SUBSET PersonIds
  BY DEF StoreTypeOK
<1>2. IsFiniteSet(Groups) /\ IsFiniteSet(People)
  BY <1>1, IdsAreFinite, FS_Subset
<1> QED
  BY <1>1, <1>2, IdsAreRanks

(* Away from the cycles the recursion has a row once, and a join with it   *)
(* has a person once: UNION ALL and the joins count nobody twice.          *)
LEMMA EverybodyIsCountedOnce ==
  ASSUME StoreTypeOK, NEW g, ~OnCycle(g), NEW Q
  PROVE  Cardinality({x \in CountedIn(WorkingTable(g)) : x[1] \in Q}) =
         Cardinality({p \in PeopleBelow(g) : p \in Q})
<1> DEFINE rows == {x \in CountedIn(WorkingTable(g)) : x[1] \in Q}
           S == {p \in PeopleBelow(g) : p \in Q}
           Round(p) == CHOOSE n \in Rounds : member[p] \in Level(g, n)
           row == [p \in S |-> <<p, Round(p)>>]
<1>1. Rounds \subseteq Nat
  BY DEF Rounds
<1>2. \A n \in Rounds : WorkingTable(g)[n] = Level(g, n)
  BY RoundsAreLevels
<1>3. ASSUME NEW p \in S PROVE Round(p) \in Rounds /\ member[p] \in Level(g, Round(p))
  <2>1. member[p] \in Subtree(g)
    BY DEF PeopleBelow
  <2>2. \E n \in Rounds : member[p] \in Level(g, n)
    BY <2>1, EarlyRoundsSuffice
  <2> QED
    BY <2>2
<1> HIDE DEF Round
<1>4. ASSUME NEW p \in S PROVE row[p] \in rows /\ row[p] = <<p, Round(p)>>
  <2>1. p \in People /\ p \in Q /\ row[p] = <<p, Round(p)>>
    BY DEF PeopleBelow
  <2>2. member[p] \in WorkingTable(g)[Round(p)] /\ Round(p) \in Rounds
    BY <1>2, <1>3
  <2> QED
    BY <2>1, <2>2 DEF CountedIn
<1>5. ASSUME NEW x \in rows PROVE x[1] \in S /\ x = row[x[1]]
  <2>1. /\ x = <<x[1], x[2]>> /\ x[1] \in People /\ x[2] \in Rounds /\ x[1] \in Q
        /\ member[x[1]] \in Level(g, x[2])
    BY <1>2 DEF CountedIn
  <2>2. member[x[1]] \in Subtree(g)
    BY <1>1, <2>1, SubtreeIsLevels
  <2>3. x[1] \in S
    BY <2>1, <2>2 DEF PeopleBelow
  <2>4. Round(x[1]) = x[2]
    BY <1>1, <1>3, <2>1, <2>3, LevelsAreDisjoint
  <2>5. row[x[1]] = <<x[1], Round(x[1])>>
    BY <1>4, <2>3
  <2> QED
    BY <2>1, <2>3, <2>4, <2>5
<1>6. row \in Bijection(S, rows)
  <2>1. row \in [S -> rows]
    BY <1>4
  <2>2. ASSUME NEW p \in S, NEW q \in S, row[p] = row[q] PROVE p = q
    BY <1>4, <2>2
  <2>3. \A x \in rows : \E p \in S : row[p] = x
    BY <1>5
  <2> QED
    BY <2>1, <2>2, <2>3 DEF Bijection, Injection, Surjection, IsInjective
<1>7. IsFiniteSet(S)
  <2>1. S \in SUBSET People
    BY DEF PeopleBelow
  <2> QED
    BY <2>1, RowsAreNumbers, FS_Subset
<1> QED
  BY <1>6, <1>7, FS_Bijection DEF ExistsBijection

(* So do the ids of any group's members, direct or in its subtree. *)
LEMMA PeopleBelowAreNumbers ==
  ASSUME StoreTypeOK, NEW g
  PROVE  /\ PeopleBelow(g) \in SUBSET Nat /\ IsFiniteSet(PeopleBelow(g))
         /\ Members(g) \in SUBSET Nat /\ IsFiniteSet(Members(g))
<1>1. PeopleBelow(g) \in SUBSET People /\ Members(g) \in SUBSET People
  BY DEF PeopleBelow, Members
<1> QED
  BY <1>1, RowsAreNumbers, FS_Subset

(* CountSubtreeMembers counts the people in the subtree. *)
LEMMA SubtreeCount ==
  ASSUME StoreTypeOK, NEW g, ~OnCycle(g)
  PROVE  CountSubtreeMembers(g) = Cardinality(PeopleBelow(g))
<1>1. {x \in CountedIn(WorkingTable(g)) : x[1] \in People} = CountedIn(WorkingTable(g))
  BY DEF CountedIn
<1>2. {p \in PeopleBelow(g) : p \in People} = PeopleBelow(g)
  BY DEF PeopleBelow
<1> QED
  BY <1>1, <1>2, EverybodyIsCountedOnce DEF CountSubtreeMembers

(* The list of the people in the subtree has each of them once, in order.  *)
LEMMA PeopleInOrder ==
  ASSUME StoreTypeOK, NEW g, ~OnCycle(g)
  PROVE  SubtreePeople(g) = Ascending(PeopleBelow(g))
<1> DEFINE rows == CountedIn(WorkingTable(g))
           S == PeopleBelow(g)
           n == Cardinality(S)
           Before(p) == Cardinality({x \in rows : x[1] < p})
           UpTo(p) == Cardinality({x \in rows : x[1] <= p})
           Person(i) == CHOOSE p \in People : Before(p) < i /\ i <= UpTo(p)
           a == Ascending(S)
<1>1. S \in SUBSET Nat /\ IsFiniteSet(S) /\ S \subseteq People /\ People \in SUBSET Nat
  BY PeopleBelowAreNumbers, RowsAreNumbers DEF PeopleBelow
<1>2. n \in Nat /\ DOMAIN a = 1..n /\ a \in Seq(S)
      /\ \A i \in 1..n : a[i] \in S /\ Rank(S, a[i]) = i - 1
  BY <1>1, AscendingRows, FS_CardinalityType
<1>3. SubtreePeople(g) = [i \in 1..n |-> Person(i)]
  <2>1. Cardinality(rows) = n
    BY SubtreeCount DEF CountSubtreeMembers
  <2> QED
    BY <2>1 DEF SubtreePeople
<1>4. \A x \in rows : x[1] \in People
  BY DEF CountedIn
<1>5. ASSUME NEW p \in People PROVE Before(p) = Rank(S, p)
  <2> DEFINE Q == {q \in Nat : q < p}
  <2>1. {x \in rows : x[1] < p} = {x \in rows : x[1] \in Q}
    BY <1>1, <1>4
  <2>2. {q \in S : q \in Q} = {q \in S : q < p}
    BY <1>1
  <2>3. Cardinality({x \in rows : x[1] \in Q}) = Cardinality({q \in S : q \in Q})
    BY EverybodyIsCountedOnce
  <2> HIDE DEF rows, S
  <2> QED
    BY <2>1, <2>2, <2>3 DEF Rank
<1>6. ASSUME NEW p \in People
      PROVE  UpTo(p) = IF p \in S THEN Rank(S, p) + 1 ELSE Rank(S, p)
  <2> DEFINE Q == {q \in Nat : q <= p}
             L == {q \in S : q < p}
  <2>1. {x \in rows : x[1] <= p} = {x \in rows : x[1] \in Q}
    BY <1>1, <1>4
  <2>2. {q \in S : q \in Q} = IF p \in S THEN L \cup {p} ELSE L
    <3>1. p \in Nat /\ \A q \in S : q \in Nat
      BY <1>1
    <3>2. \A q \in S : q <= p <=> (q < p \/ q = p)
      BY <3>1
    <3> QED
      BY <3>1, <3>2
  <2>3. Cardinality({x \in rows : x[1] \in Q}) = Cardinality({q \in S : q \in Q})
    BY EverybodyIsCountedOnce
  <2>4. IsFiniteSet(L) /\ p \notin L
    BY <1>1, SmallerRows
  <2> HIDE DEF L
  <2>5. Cardinality(L \cup {p}) = Cardinality(L) + 1
    BY <2>4, FS_AddElement
  <2>6. Cardinality(L) = Rank(S, p)
    BY DEF Rank, L
  <2> HIDE DEF rows, S, Q
  <2> QED
    BY <2>1, <2>2, <2>3, <2>5, <2>6
<1> HIDE DEF Before, UpTo, rows, S, n, a
<1>7. ASSUME NEW i \in 1..n PROVE a[i] = Person(i)
  <2>1. i \in Nat /\ a[i] \in S /\ a[i] \in People /\ Rank(S, a[i]) = i - 1
    <3>1. i \in Nat
      BY <1>2
    <3>2. a[i] \in S /\ Rank(S, a[i]) = i - 1
      BY <1>2
    <3> QED
      BY <1>1, <3>1, <3>2
  <2>2. Before(a[i]) < i /\ i <= UpTo(a[i])
    BY <1>5, <1>6, <2>1
  <2>3. Person(i) \in People /\ Before(Person(i)) < i /\ i <= UpTo(Person(i))
    BY <2>1, <2>2
  <2> DEFINE p == Person(i)
  <2> HIDE DEF Person
  <2>4. Rank(S, p) \in Nat
    BY <1>1, SmallerRows
  <2>5. p \in S /\ Rank(S, p) = i - 1
    BY <1>5, <1>6, <2>1, <2>3, <2>4
  <2>6. \A x, z \in S : Rank(S, x) = Rank(S, z) => x = z
    BY <1>1, RanksDiffer
  <2>7. Rank(S, a[i]) = Rank(S, p)
    BY ONLY <2>1, <2>5
  <2>8. a[i] = p
    BY ONLY <2>1, <2>5, <2>6, <2>7
  <2> QED
    BY <2>8 DEF p
<1> HIDE DEF Person
<1>8. a = [i \in 1..n |-> a[i]]
  BY <1>2
<1> QED
  BY <1>3, <1>7, <1>8 DEF a, S

(* The counts of a row of the group list, and of the rows of a group and a *)
(* child of it, agree when no cycle is involved.                           *)
LEMMA CountsOfAGroup ==
  ASSUME StoreTypeOK, NEW up \in Groups, ~OnCycle(up)
  PROVE  /\ CountDirectMembers(up) \in Nat /\ CountSubtreeMembers(up) \in Nat
         /\ CountDirectMembers(up) <= CountSubtreeMembers(up)
<1>1. Members(up) \in SUBSET PeopleBelow(up)
  BY SubtreeIsClosed DEF Members, PeopleBelow
<1> QED
  BY <1>1, PeopleBelowAreNumbers, SubtreeCount, FS_Subset, FS_CardinalityType DEF CountDirectMembers

(* The counts of a child and its parent taken from one snapshot. *)
LEMMA CountsOfAChild ==
  ASSUME StoreTypeOK, NEW up \in Groups, NEW down \in Groups, parent[down] = up,
         ~OnCycle(up), ~OnCycle(down)
  PROVE  CountDirectMembers(up) + CountSubtreeMembers(down) <= CountSubtreeMembers(up)
<1> DEFINE M == Members(up)
           D == PeopleBelow(down)
           U == PeopleBelow(up)
<1>1. up \in Subtree(up) /\ Closed(Subtree(up)) /\ down \in Subtree(down)
  BY SubtreeIsClosed
<1>2. down \in Subtree(up)
  BY <1>1 DEF Closed
<1>3. Subtree(down) \subseteq Subtree(up)
  BY <1>1, <1>2, SubtreeIsClosed, SubtreeIsLeast
<1>4. up \notin Subtree(down)
  BY DEF OnCycle
<1>5. M \cap D = {} /\ M \cup D \in SUBSET U
  BY <1>1, <1>3, <1>4 DEF Members, PeopleBelow
<1>6. IsFiniteSet(M) /\ IsFiniteSet(D) /\ IsFiniteSet(U)
  BY PeopleBelowAreNumbers
<1>7. /\ Cardinality(M) \in Nat /\ Cardinality(D) \in Nat /\ Cardinality(U) \in Nat
      /\ Cardinality({}) = 0
  BY <1>6, FS_CardinalityType, FS_EmptySet
<1>8. Cardinality(M \cup D) = Cardinality(M) + Cardinality(D)
  <2>1. Cardinality(M \cup D) = Cardinality(M) + Cardinality(D) - Cardinality(M \cap D)
    BY <1>6, FS_Union
  <2>2. Cardinality(M \cap D) = 0
    BY <1>5, <1>7
  <2> QED
    BY <1>7, <2>1, <2>2
<1>9. Cardinality(M \cup D) <= Cardinality(U)
  BY <1>5, <1>6, FS_Subset
<1> QED
  BY <1>8, <1>9, SubtreeCount DEF CountDirectMembers

-----------------------------------------------------------------------------
(* The invariant.  The tables keep their integrity under every writer, the *)
(* reader runs the statements of its request, and what it has seen so far  *)
(* is what the tables hold for as long as nobody writes.                   *)

(* A request as Queries has it, with any limit and any offset.             *)
Proper(q) ==
  q \in [op: {"GetGroup", "ListGroups", "ListGroupPeople", "GetPerson"},
         id: GroupIds \cup PersonIds \cup {NULL}, limit: Int \cup {NULL}, offset: Int \cup {NULL},
         parent: Filters \cup {NULL}, deep: BOOLEAN]

StepsOf(op) ==
  CASE op = "GetGroup" -> {"getGroup", "lookupGroup", "countDirect", "countTotal", "hung"}
    [] op = "ListGroups" -> {"countGroups", "pageGroups", "hung"}
    [] op = "ListGroupPeople" -> {"checkGroup", "countPeople", "pagePeople", "hung"}
    [] OTHER -> {"getPerson", "hung"}

OnPath ==
  /\ step = "idle" \/ (Proper(query) /\ step \in StepsOf(query.op))
  /\ seen = [parent |-> seen.parent, count |-> seen.count]

PeopleCount ==
  IF query.deep THEN CountSubtreeMembers(query.id) ELSE CountDirectMembers(query.id)

Remembered ==
  /\ step \in {"lookupGroup", "countDirect", "countTotal"} =>
       query.id \in Groups /\ seen.parent = parent[query.id]
  /\ step = "countTotal" => seen.count = CountDirectMembers(query.id)
  /\ step = "pageGroups" => seen.count = Cardinality(Groups)
  /\ step \in {"countPeople", "pagePeople"} => query.id \in Groups
  /\ step = "pagePeople" => ~Endless /\ seen.count = PeopleCount

ConsistentPage(rows) ==
  \A i, j \in DOMAIN rows :
    LET up == rows[i]
        down == rows[j]
    IN /\ up.direct <= up.total
       /\ down.parent = up.id => up.direct + down.total <= up.total
       /\ i < j => up.id < down.id

Good(response) ==
  /\ ~touched => response = Expected(query)
  /\ query.op = "ListGroups" => ConsistentPage(response.items)
  /\ query.op = "ListGroupPeople" => IsInjective(response.items)

Inv ==
  /\ StoreTypeOK /\ ReferentialIntegrity
  /\ OnPath
  /\ ~touched => Remembered
  /\ Answered => Good(answer)

(* What the last conjunct is for. *)
LEMMA GoodAnswers ==
  ASSUME Inv
  PROVE  QuietAnswersAreExact /\ PagesAreConsistent /\ NobodyTwice
BY DEF Inv, Good, ConsistentPage, QuietAnswersAreExact, PagesAreConsistent, NobodyTwice

(* The invariant holds before the first request, over any tables with      *)
(* integrity.                                                              *)
LEMMA InitInv == Init => Inv
<1> SUFFICES ASSUME Init PROVE Inv
  OBVIOUS
<1>1. DOMAIN parent = bornGroups /\ DOMAIN member = bornPeople
  BY DEF Init
<1>2. StoreTypeOK /\ ReferentialIntegrity
  BY <1>1 DEF Init, StoreTypeOK, ReferentialIntegrity, Groups, People
<1>3. OnPath /\ Remembered /\ ~Answered
  BY DEF Init, OnPath, Remembered, Answered, Nothing
<1> QED
  BY <1>2, <1>3 DEF Inv

-----------------------------------------------------------------------------
(* The steps that change no table.                                         *)

(* What is read from the tables changes only with them. *)
LEMMA SameTables ==
  ASSUME UNCHANGED <<parent, member, query>>
  PROVE  /\ Groups' = Groups /\ PeopleCount' = PeopleCount /\ (Endless' <=> Endless)
         /\ CountDirectMembers(query.id)' = CountDirectMembers(query.id)
         /\ Expected(query)' = Expected(query)
<1>1. Groups' = Groups /\ People' = People
  BY DEF Groups, People
<1>2. \A S : Closed(S)' <=> Closed(S)
  BY <1>1 DEF Closed
<1>3. \A g : Subtree(g)' = Subtree(g)
  BY <1>1, <1>2 DEF Subtree
<1>4. \A g : Members(g)' = Members(g) /\ PeopleBelow(g)' = PeopleBelow(g)
  BY <1>1, <1>3 DEF Members, PeopleBelow
<1>5. \A g : CountDirectMembers(g)' = CountDirectMembers(g)
  BY <1>4 DEF CountDirectMembers
<1>6. \A g : OnCycle(g)' <=> OnCycle(g)
  BY <1>1, <1>3 DEF OnCycle
<1>7. \A g : WorkingTable(g)' = WorkingTable(g)
  BY <1>1 DEF WorkingTable
<1>8. \A g : CountSubtreeMembers(g)' = CountSubtreeMembers(g)
  BY <1>1, <1>7 DEF CountSubtreeMembers, CountedIn
<1>9. Expected(query)' = Expected(query)
  BY <1>1, <1>4 DEF Expected
<1>10. PeopleCount' = PeopleCount /\ (Endless' <=> Endless)
  BY <1>5, <1>6, <1>8 DEF PeopleCount, Endless
<1> QED
  BY <1>1, <1>5, <1>9, <1>10

(* A response is as good once it is given as when it is made. *)
LEMMA ReplyKeepsInv ==
  ASSUME Inv, Proper(query), NEW response, Reply(response),
         response.outcome = "aborted" \/ Good(response)
  PROVE  Inv'
<1>1. UNCHANGED <<store, query, touched>> /\ step' = "idle" /\ answer' = response /\ seen' = Nothing
  BY DEF Reply
<1>2. StoreTypeOK' /\ ReferentialIntegrity'
  BY <1>1, SameStore DEF Inv
<1>3. OnPath' /\ Remembered'
  BY <1>1 DEF OnPath, Remembered, Nothing
<1>4. ASSUME response.outcome # "aborted" PROVE Good(answer)'
  BY <1>1, <1>4, SameTables DEF Good, ConsistentPage, IsInjective, store
<1>5. (Answered => Good(answer))'
  BY <1>1, <1>4 DEF Answered
<1> QED
  BY <1>2, <1>3, <1>5 DEF Inv

(* A reader goes on to a statement of its operation and keeps what it has  *)
(* seen.                                                                   *)
LEMMA GoKeepsInv ==
  ASSUME Inv, Proper(query), NEW next \in StepsOf(query.op), next # "idle",
         NEW now, now = [parent |-> now.parent, count |-> now.count], Go(next, now),
         ~touched => Remembered'
  PROVE  Inv'
<1>1. UNCHANGED <<store, query, answer, touched>> /\ step' = next /\ seen' = now
  BY DEF Go
<1>2. StoreTypeOK' /\ ReferentialIntegrity'
  BY <1>1, SameStore DEF Inv
<1>3. OnPath'
  BY <1>1 DEF OnPath, Proper, StepsOf
<1>4. ~Answered'
  BY <1>1 DEF Answered
<1> QED
  BY <1>1, <1>2, <1>3, <1>4 DEF Inv

(* A recursion that does not end leaves the reader where it is. *)
LEMMA HangKeepsInv ==
  ASSUME Inv, step # "idle", Hang
  PROVE  Inv'
<1>1. Proper(query) /\ "hung" \in StepsOf(query.op) /\ seen = [parent |-> seen.parent, count |-> seen.count]
  BY DEF Inv, OnPath, Proper, StepsOf
<1>2. Go("hung", seen) /\ Remembered'
  BY DEF Hang, Go, Remembered
<1> QED
  BY <1>1, <1>2, GoKeepsInv

(* Send: a new request has seen nothing yet. *)
LEMMA SendKeepsInv ==
  ASSUME Inv, NEW q, Proper(q), Send(q)
  PROVE  Inv'
<1>1. /\ UNCHANGED <<store, seen>> /\ query' = q
      /\ step' = IF q.op \in {"ListGroups", "GetGroup"} THEN FirstGroupRead(q.op)
                                                      ELSE FirstPersonRead(q.op)
      /\ answer' = NoAnswer /\ touched' = FALSE
  BY DEF Send
<1>2. StoreTypeOK' /\ ReferentialIntegrity'
  BY <1>1, SameStore DEF Inv
<1>3. /\ step' \in {"getGroup", "countGroups", "checkGroup", "getPerson"}
      /\ step' \in StepsOf(q.op)
  BY <1>1 DEF Proper, FirstGroupRead, FirstPersonRead, StepsOf
<1>4. OnPath'
  BY <1>1, <1>3 DEF Inv, OnPath, Proper, StepsOf
<1>5. Remembered' /\ ~Answered'
  BY <1>3 DEF Remembered, Answered
<1> QED
  BY <1>2, <1>4, <1>5 DEF Inv

-----------------------------------------------------------------------------
(* The responses, one for each place that makes one.                       *)

(* A page of the group list: one snapshot, and no group of it on a cycle.  *)
LEMMA GroupPageRows ==
  ASSUME StoreTypeOK, Proper(query), query.op = "ListGroups",
         \A i \in DOMAIN Window(Ascending(Groups), PageOf(query)) :
           ~OnCycle(Window(Ascending(Groups), PageOf(query))[i])
  PROVE  /\ ConsistentPage(GroupPage(PageOf(query)))
         /\ Response("ok", GroupPage(PageOf(query)), Cardinality(Groups)) = Expected(query)
<1> DEFINE page == PageOf(query)
           n == Cardinality(Groups)
           ids == Window(Ascending(Groups), page)
           k == PageSize(n, page)
           Row(g) == GroupRow(g, parent[g], CountDirectMembers(g), CountSubtreeMembers(g))
           Told(g) == GroupRow(g, parent[g], Cardinality(Members(g)), Cardinality(PeopleBelow(g)))
           items == GroupPage(page)
<1>1. Groups \in SUBSET Nat /\ IsFiniteSet(Groups) /\ n \in Nat
  BY RowsAreNumbers, FS_CardinalityType
<1>2. page = PageMeant(query) /\ page.limit \in Nat /\ page.offset \in Nat
  BY PagesAreMeant DEF Proper
<1>3. /\ Ascending(Groups) \in Seq(Groups) /\ Len(Ascending(Groups)) = n
      /\ \A i \in 1..n : Ascending(Groups)[i] \in Groups
  BY <1>1, AscendingRows
<1>4. /\ k \in Nat /\ DOMAIN ids = 1..k
      /\ \A i \in 1..k : page.offset + i \in 1..n /\ ids[i] = Ascending(Groups)[page.offset + i]
  BY <1>2, <1>3, WindowRows
<1>5. ids = Ranked(Groups, PageMeant(query))
  BY <1>1, <1>2, WindowIsRanked
<1>6. items = [i \in 1..k |-> Row(ids[i])]
  BY <1>4 DEF GroupPage
<1> HIDE DEF page, n, ids, k
<1>7. ASSUME NEW i \in 1..k PROVE ids[i] \in Groups /\ ~OnCycle(ids[i]) /\ Row(ids[i]) = Told(ids[i])
  <2>1. ids[i] \in Groups
    BY <1>3, <1>4
  <2>2. ~OnCycle(ids[i])
    BY <1>4 DEF ids, page
  <2>3. CountSubtreeMembers(ids[i]) = Cardinality(PeopleBelow(ids[i]))
    BY <2>2, SubtreeCount
  <2> QED
    BY <2>1, <2>2, <2>3 DEF CountDirectMembers
<1>8. Response("ok", items, n) = Expected(query)
  <2>1. Expected(query) = Response("ok", [i \in DOMAIN ids |-> Told(ids[i])], n)
    BY <1>5 DEF Expected, n
  <2>2. items = [i \in DOMAIN ids |-> Told(ids[i])]
    BY <1>4, <1>6, <1>7
  <2> QED
    BY <2>1, <2>2
<1>9. ConsistentPage(items)
  <2> SUFFICES ASSUME NEW i \in 1..k, NEW j \in 1..k
               PROVE  /\ items[i].direct <= items[i].total
                      /\ items[j].parent = items[i].id => items[i].direct + items[j].total <= items[i].total
                      /\ i < j => items[i].id < items[j].id
    BY <1>6 DEF ConsistentPage
  <2> DEFINE up == ids[i]
             down == ids[j]
  <2>1. /\ items[i].id = up /\ items[i].direct = CountDirectMembers(up)
        /\ items[i].total = CountSubtreeMembers(up)
        /\ items[j].id = down /\ items[j].parent = parent[down]
        /\ items[j].total = CountSubtreeMembers(down)
    BY <1>6 DEF GroupRow
  <2>2. up \in Groups /\ ~OnCycle(up) /\ down \in Groups /\ ~OnCycle(down)
    BY <1>7
  <2>3. CountDirectMembers(up) <= CountSubtreeMembers(up)
    BY <2>2, CountsOfAGroup
  <2>4. parent[down] = up => CountDirectMembers(up) + CountSubtreeMembers(down) <= CountSubtreeMembers(up)
    BY <2>2, CountsOfAChild
  <2>5. i < j => up < down
    <3> SUFFICES ASSUME i < j PROVE up < down
      OBVIOUS
    <3>1. /\ page.offset + i \in 1..n /\ page.offset + j \in 1..n
          /\ page.offset + i < page.offset + j
      BY <1>2, <1>4
    <3>2. Ascending(Groups)[page.offset + i] < Ascending(Groups)[page.offset + j]
      BY <1>1, <3>1, AscendingAscends DEF n
    <3> QED
      BY <1>4, <3>2
  <2> QED
    BY <2>1, <2>3, <2>4, <2>5
<1> QED
  BY <1>8, <1>9 DEF n, page

(* A page of the people of a group. *)
LEMMA PeoplePageRows ==
  ASSUME StoreTypeOK, Proper(query), query.op = "ListGroupPeople", ~Endless
  PROVE  LET rows == IF query.deep THEN SubtreePeople(query.id) ELSE DirectPeople(query.id)
         IN /\ IsInjective(Window(rows, PageOf(query)))
            /\ query.id \in Groups =>
                 Response("ok", Window(rows, PageOf(query)), PeopleCount) = Expected(query)
<1> DEFINE page == PageOf(query)
           people == IF query.deep THEN PeopleBelow(query.id) ELSE Members(query.id)
           rows == IF query.deep THEN SubtreePeople(query.id) ELSE DirectPeople(query.id)
           n == Cardinality(people)
           k == PageSize(n, page)
           items == Window(rows, page)
<1>1. rows = Ascending(people) /\ PeopleCount = n
  <2>1. CASE query.deep
    <3>1. ~OnCycle(query.id)
      BY <2>1 DEF Endless
    <3> QED
      BY <2>1, <3>1, PeopleInOrder, SubtreeCount DEF PeopleCount
  <2>2. CASE ~query.deep
    BY <2>2 DEF PeopleCount, DirectPeople, CountDirectMembers
  <2> QED
    BY <2>1, <2>2
<1>2. people \in SUBSET Nat /\ IsFiniteSet(people)
  BY PeopleBelowAreNumbers
<1>3. page = PageMeant(query) /\ page.limit \in Nat /\ page.offset \in Nat
  BY PagesAreMeant DEF Proper
<1> HIDE DEF page, people, rows, n, k, items
<1>4. Ascending(people) \in Seq(people) /\ Len(Ascending(people)) = n /\ n \in Nat
  BY <1>2, AscendingRows, FS_CardinalityType DEF n
<1>5. /\ k \in Nat /\ DOMAIN items = 1..k
      /\ \A i \in 1..k : page.offset + i \in 1..n /\ items[i] = Ascending(people)[page.offset + i]
  <2>1. items = Window(Ascending(people), page) /\ k = PageSize(Len(Ascending(people)), page)
    BY <1>1, <1>4 DEF items, k
  <2> DEFINE a == Ascending(people)
             size == PageSize(Len(a), page)
             w == Window(a, page)
  <2>2. a \in Seq(people)
    BY <1>4
  <2> HIDE DEF a
  <2>3. /\ size \in Nat /\ DOMAIN w = 1..size
        /\ \A i \in 1..size : page.offset + i \in 1..Len(a) /\ w[i] = a[page.offset + i]
    BY ONLY <1>3, <2>2, WindowRows
  <2> QED
    BY <1>4, <2>1, <2>3 DEF a
<1>6. IsInjective(items)
  <2> SUFFICES ASSUME NEW i \in 1..k, NEW j \in 1..k, items[i] = items[j] PROVE i = j
    BY <1>5 DEF IsInjective
  <2> DEFINE x == page.offset + i
             y == page.offset + j
  <2>1. x \in 1..n /\ y \in 1..n /\ Ascending(people)[x] = Ascending(people)[y]
    BY <1>5
  <2>2. Rank(people, Ascending(people)[x]) = x - 1 /\ Rank(people, Ascending(people)[y]) = y - 1
    BY <1>2, <2>1, AscendingRows DEF n
  <2> QED
    BY <1>3, <1>4, <2>1, <2>2
<1>7. items = Ranked(people, PageMeant(query))
  BY <1>1, <1>2, <1>3, WindowIsRanked DEF items
<1>8. query.id \in Groups => Expected(query) = Response("ok", Ranked(people, PageMeant(query)), n)
  BY DEF Expected, people, n
<1> QED
  BY <1>1, <1>6, <1>7, <1>8 DEF items, rows, page

(* A lookup that finds nothing answers not_found, which is what to expect  *)
(* of a missing id.                                                        *)
LEMMA NotFoundIsGood ==
  ASSUME query.op \in {"GetGroup", "ListGroupPeople", "GetPerson"},
         ~touched => IF query.op = "GetPerson" THEN query.id \notin People ELSE query.id \notin Groups
  PROVE  Good(Response("not_found", <<>>, 0))
<1>1. ~touched => Expected(query) = Response("not_found", <<>>, 0)
  BY DEF Expected
<1> QED
  BY <1>1 DEF Good, Response, IsInjective

(* No rows, no page. *)
LEMMA EmptyPage ==
  ASSUME Proper(query)
  PROVE  Ranked({}, PageMeant(query)) = <<>> /\ Cardinality({}) = 0
<1> DEFINE page == PageMeant(query)
<1>1. Ranked({}, page) = Ascending({})
  BY DEF Ranked
<1>2. {} \in SUBSET Nat /\ IsFiniteSet({}) /\ Cardinality({}) = 0
  BY FS_EmptySet
<1>3. Ascending({}) \in Seq({}) /\ Len(Ascending({})) = 0
  BY <1>2, AscendingRows
<1>4. Ascending({}) = <<>>
  BY <1>3, EmptySeq
<1> QED
  BY <1>1, <1>2, <1>4

-----------------------------------------------------------------------------
(* Every step keeps the invariant.                                         *)

(* The tables may change between two statements, but only in order, and    *)
(* then nothing the reader remembers has to be true any more.              *)
LEMMA WriteKeepsInv ==
  ASSUME Inv, Write
  PROVE  Inv'
<1>1. UNCHANGED reader /\ touched' = TRUE /\ step # "idle"
  BY DEF Write
<1>2. StoreTypeOK /\ ReferentialIntegrity /\ OnPath
  BY DEF Inv
<1>3. StoreTypeOK' /\ ReferentialIntegrity'
  <2>1. CASE \E id \in GroupIds \ bornGroups, ref \in Groups \cup {NULL} : InsertGroup(id, ref)
    BY <1>2, <2>1, InsertGroupIsSafe
  <2>2. CASE \E id \in Groups, ref \in Groups \cup {NULL} : id # ref /\ SetParent(id, ref)
    BY <1>2, <2>2, SetParentIsSafe
  <2>3. CASE \E id \in Groups : "done" \in DeleteGroupResults(id) /\ RemoveGroup(id)
    <3>1. PICK id \in Groups : "done" \in DeleteGroupResults(id) /\ RemoveGroup(id)
      BY <2>3
    <3>2. Children(id) = {} /\ Members(id) = {}
      BY <3>1 DEF DeleteGroupResults
    <3> QED
      BY <1>2, <3>1, <3>2, RemoveGroupIsSafe
  <2>4. CASE \E id \in PersonIds \ bornPeople, ref \in Groups : InsertPerson(id, ref)
    BY <1>2, <2>4, InsertPersonIsSafe
  <2>5. CASE \E id \in People, ref \in Groups : SetMember(id, ref)
    BY <1>2, <2>5, SetMemberIsSafe
  <2>6. CASE \E id \in People : RemovePerson(id)
    BY <1>2, <2>6, RemovePersonIsSafe
  <2> QED
    BY <2>1, <2>2, <2>3, <2>4, <2>5, <2>6 DEF Write
<1>4. OnPath'
  BY <1>1, <1>2 DEF OnPath, reader
<1>5. ~Answered'
  BY <1>1 DEF Answered, reader
<1> QED
  BY <1>1, <1>3, <1>4, <1>5 DEF Inv

(* The end of the context is an answer nothing is promised of. *)
LEMMA CancelKeepsInv ==
  ASSUME Inv, Cancel
  PROVE  Inv'
<1>1. Proper(query)
  BY DEF Inv, OnPath, Cancel, InFlight
<1>2. Response("aborted", <<>>, 0).outcome = "aborted"
  BY DEF Response
<1> QED
  BY <1>1, <1>2, ReplyKeepsInv DEF Cancel

(* What the invariant says of a statement that is about to run. *)
LEMMA ReadingGroup ==
  ASSUME Inv, step \in {"getGroup", "lookupGroup", "countDirect", "countTotal"}
  PROVE  /\ Proper(query) /\ query.op = "GetGroup" /\ StoreTypeOK
         /\ seen = [parent |-> seen.parent, count |-> seen.count]
         /\ ~touched => Remembered
BY DEF Inv, OnPath, Proper, StepsOf

(* GetGroup: the four statements of Get and Counts. *)
LEMMA GetGroupKeepsInv ==
  ASSUME Inv, GetGroup \/ LookupGroup \/ CountDirect \/ CountTotal
  PROVE  Inv'
<1>0. /\ Proper(query) /\ query.op = "GetGroup" /\ StoreTypeOK
      /\ seen = [parent |-> seen.parent, count |-> seen.count]
      /\ ~touched => Remembered
  BY ReadingGroup DEF GetGroup, LookupGroup, CountDirect, CountTotal
<1>1. CASE GetGroup
  <2>1. CASE query.id \in Groups
    <3> DEFINE now == [parent |-> parent[query.id], count |-> 0]
    <3>1. Go("lookupGroup", now)
      BY <1>1, <2>1 DEF GetGroup
    <3>2. Remembered'
      BY <2>1, <3>1 DEF Go, Remembered, store, Groups
    <3> QED
      BY <1>0, <3>1, <3>2, GoKeepsInv DEF StepsOf
  <2>2. CASE query.id \notin Groups
    BY <1>0, <1>1, <2>2, NotFoundIsGood, ReplyKeepsInv DEF GetGroup, NotFound
  <2> QED
    BY <2>1, <2>2
<1>2. CASE LookupGroup
  <2>1. CASE query.id \in Groups
    <3>1. Go("countDirect", seen)
      BY <1>2, <2>1 DEF LookupGroup
    <3>2. ~touched => Remembered'
      BY <1>0, <1>2, <3>1 DEF LookupGroup, Go, Remembered, store, Groups
    <3> QED
      BY <1>0, <3>1, <3>2, GoKeepsInv DEF StepsOf
  <2>2. CASE query.id \notin Groups
    BY <1>0, <1>2, <2>2, NotFoundIsGood, ReplyKeepsInv DEF LookupGroup, NotFound
  <2> QED
    BY <2>1, <2>2
<1>3. CASE CountDirect
  <2> DEFINE now == [seen EXCEPT !.count = CountDirectMembers(query.id)]
  <2>1. now = [parent |-> seen.parent, count |-> CountDirectMembers(query.id)]
    BY <1>0
  <2>2. Go("countTotal", now)
    BY <1>3 DEF CountDirect
  <2>3. UNCHANGED <<parent, member, query>>
    BY <2>2 DEF Go, store
  <2>4. ~touched => Remembered'
    BY <1>0, <1>3, <2>1, <2>2, <2>3, SameTables DEF CountDirect, Go, Remembered
  <2> QED
    BY <1>0, <2>1, <2>2, <2>4, GoKeepsInv DEF StepsOf
<1>4. CASE CountTotal
  <2>1. CASE OnCycle(query.id)
    BY <1>4, <2>1, HangKeepsInv DEF CountTotal
  <2>2. CASE ~OnCycle(query.id)
    <3> DEFINE response == Response("ok", <<GroupRow(query.id, seen.parent, seen.count,
                                                     CountSubtreeMembers(query.id))>>, 0)
    <3>1. Reply(response)
      BY <1>4, <2>2 DEF CountTotal
    <3>2. ASSUME ~touched PROVE response = Expected(query)
      <4>1. /\ query.id \in Groups /\ seen.parent = parent[query.id]
            /\ seen.count = Cardinality(Members(query.id))
        BY <1>0, <1>4, <3>2 DEF CountTotal, Remembered, CountDirectMembers
      <4>2. CountSubtreeMembers(query.id) = Cardinality(PeopleBelow(query.id))
        BY <1>0, <2>2, SubtreeCount
      <4> QED
        BY <1>0, <4>1, <4>2 DEF Expected
    <3>3. Good(response)
      BY <1>0, <3>2 DEF Good
    <3> QED
      BY <1>0, <3>1, <3>3, ReplyKeepsInv
  <2> QED
    BY <2>1, <2>2
<1> QED
  BY <1>1, <1>2, <1>3, <1>4

(* List: the total, and the page with the counts of each group on it. *)
LEMMA ListGroupsKeepsInv ==
  ASSUME Inv, CountGroups \/ PageGroups
  PROVE  Inv'
<1>0. /\ Proper(query) /\ query.op = "ListGroups" /\ StoreTypeOK
      /\ seen = [parent |-> seen.parent, count |-> seen.count]
      /\ ~touched => Remembered
  BY DEF CountGroups, PageGroups, Inv, OnPath, Proper, StepsOf
<1>1. CASE CountGroups
  <2>1. CASE Groups = {}
    <3> DEFINE response == Response("ok", <<>>, 0)
               rows == Ranked(Groups, PageMeant(query))
               Told(g) == GroupRow(g, parent[g], Cardinality(Members(g)), Cardinality(PeopleBelow(g)))
    <3>1. Reply(response)
      BY <1>1, <2>1 DEF CountGroups
    <3>2. rows = <<>> /\ Cardinality(Groups) = 0
      BY <1>0, <2>1, EmptyPage
    <3>3. Expected(query) = Response("ok", [i \in DOMAIN rows |-> Told(rows[i])], Cardinality(Groups))
      BY <1>0 DEF Expected
    <3> HIDE DEF rows, Told
    <3>4. [i \in DOMAIN rows |-> Told(rows[i])] = <<>>
      BY <3>2
    <3>5. Good(response)
      BY <1>0, <3>2, <3>3, <3>4 DEF Good, Response, ConsistentPage
    <3> QED
      BY <1>0, <3>1, <3>5, ReplyKeepsInv
  <2>2. CASE Groups # {}
    <3> DEFINE now == [seen EXCEPT !.count = Cardinality(Groups)]
    <3>1. now = [parent |-> seen.parent, count |-> Cardinality(Groups)]
      BY <1>0
    <3>2. Go("pageGroups", now)
      BY <1>1, <2>2 DEF CountGroups
    <3>3. Remembered'
      BY <3>1, <3>2 DEF Go, Remembered, store, Groups
    <3> QED
      BY <1>0, <3>1, <3>2, <3>3, GoKeepsInv DEF StepsOf
  <2> QED
    BY <2>1, <2>2
<1>2. CASE PageGroups
  <2> DEFINE ids == Window(Ascending(Groups), PageOf(query))
             items == GroupPage(PageOf(query))
             response == Response("ok", items, seen.count)
  <2>1. CASE \E i \in DOMAIN ids : OnCycle(ids[i])
    <3>1. step = "pageGroups" /\ Hang
      BY <1>2, <2>1 DEF PageGroups
    <3> QED
      BY <3>1, HangKeepsInv
  <2>2. CASE ~\E i \in DOMAIN ids : OnCycle(ids[i])
    <3>1. step = "pageGroups" /\ Reply(response)
      BY <1>2, <2>2 DEF PageGroups
    <3>2. ConsistentPage(items) /\ Response("ok", items, Cardinality(Groups)) = Expected(query)
      BY <1>0, <2>2, GroupPageRows
    <3>3. ~touched => seen.count = Cardinality(Groups)
      BY <1>0, <3>1 DEF Remembered
    <3>4. Good(response)
      BY <1>0, <3>2, <3>3 DEF Good, Response
    <3> QED
      BY <1>0, <3>1, <3>4, ReplyKeepsInv
  <2> QED
    BY <2>1, <2>2
<1> QED
  BY <1>1, <1>2

(* ListByGroup: the lookup, the total and the page, of members or of a     *)
(* subtree.                                                                *)
LEMMA ListGroupPeopleKeepsInv ==
  ASSUME Inv, CheckGroup \/ CountPeople \/ PagePeople
  PROVE  Inv'
<1>0. /\ Proper(query) /\ query.op = "ListGroupPeople" /\ StoreTypeOK
      /\ seen = [parent |-> seen.parent, count |-> seen.count]
      /\ ~touched => Remembered
  BY DEF CheckGroup, CountPeople, PagePeople, Inv, OnPath, Proper, StepsOf
<1> DEFINE people == IF query.deep THEN PeopleBelow(query.id) ELSE Members(query.id)
(* A response without people is the right one when there are none. *)
<1>1. ASSUME NEW total, ~touched => query.id \in Groups /\ people = {} /\ total = 0
      PROVE  Good(Response("ok", <<>>, total))
  <2>1. ASSUME ~touched PROVE Response("ok", <<>>, total) = Expected(query)
    <3>1. Expected(query) = Response("ok", Ranked(people, PageMeant(query)), Cardinality(people))
      BY <1>0, <1>1, <2>1 DEF Expected
    <3>2. Ranked(people, PageMeant(query)) = <<>> /\ Cardinality(people) = 0
      BY <1>0, <1>1, <2>1, EmptyPage
    <3> QED
      BY <1>1, <2>1, <3>1, <3>2
  <2> QED
    BY <1>0, <2>1 DEF Good, Response, IsInjective
<1>2. People = {} => people = {}
  BY DEF PeopleBelow, Members
<1>3. ~Endless => PeopleCount = Cardinality(people)
  BY <1>0, SubtreeCount DEF Endless, PeopleCount, CountDirectMembers
<1>4. IsFiniteSet(people)
  BY <1>0, PeopleBelowAreNumbers
<1>5. Cardinality(people) = 0 => people = {}
  BY <1>4, FS_EmptySet
<1> HIDE DEF people
<1>6. CASE CheckGroup
  <2>1. CASE query.id \in Groups
    <3>1. Go("countPeople", seen)
      BY <1>6, <2>1 DEF CheckGroup
    <3>2. Remembered'
      BY <2>1, <3>1 DEF Go, Remembered, store, Groups
    <3> QED
      BY <1>0, <3>1, <3>2, GoKeepsInv DEF StepsOf
  <2>2. CASE query.id \notin Groups
    BY <1>0, <1>6, <2>2, NotFoundIsGood, ReplyKeepsInv DEF CheckGroup, NotFound
  <2> QED
    BY <2>1, <2>2
<1>7. CASE CountPeople
  <2>0. step = "countPeople" /\ (~touched => query.id \in Groups)
    BY <1>0, <1>7 DEF CountPeople, Remembered
  <2>1. CASE Endless /\ Hang
    BY <2>0, <2>1, HangKeepsInv
  <2>2. CASE People = {} /\ Reply(Response("ok", <<>>, 0))
    <3>1. Good(Response("ok", <<>>, 0))
      BY <1>1, <1>2, <2>0, <2>2
    <3> QED
      BY <1>0, <2>2, <3>1, ReplyKeepsInv
  <2>3. CASE ~Endless /\ PeopleCount = 0 /\ Reply(Response("ok", <<>>, 0))
    <3>1. Good(Response("ok", <<>>, 0))
      BY <1>1, <1>3, <1>5, <2>0, <2>3
    <3> QED
      BY <1>0, <2>3, <3>1, ReplyKeepsInv
  <2>4. CASE ~Endless /\ Go("pagePeople", [seen EXCEPT !.count = PeopleCount])
    <3> DEFINE now == [seen EXCEPT !.count = PeopleCount]
    <3>1. now = [parent |-> seen.parent, count |-> PeopleCount]
      BY <1>0
    <3>2. Go("pagePeople", now) /\ UNCHANGED <<parent, member, query>>
      BY <2>4 DEF Go, store
    <3>3. ~touched => Remembered'
      BY <2>0, <2>4, <3>1, <3>2, SameTables DEF Go, Remembered
    <3> QED
      BY <1>0, <3>1, <3>2, <3>3, GoKeepsInv DEF StepsOf
  <2> QED
    BY <1>7, <2>1, <2>2, <2>3, <2>4 DEF CountPeople, PeopleCount
<1>8. CASE PagePeople
  <2> DEFINE rows == IF query.deep THEN SubtreePeople(query.id) ELSE DirectPeople(query.id)
             items == Window(rows, PageOf(query))
             response == Response("ok", items, seen.count)
  <2>0. /\ step = "pagePeople"
        /\ ~touched => query.id \in Groups /\ ~Endless /\ seen.count = PeopleCount
    BY <1>0, <1>8 DEF PagePeople, Remembered
  <2>1. CASE Endless /\ Hang
    BY <2>0, <2>1, HangKeepsInv
  <2>2. CASE Endless /\ Reply(Response("ok", <<>>, seen.count))
    <3>1. Good(Response("ok", <<>>, seen.count))
      BY <1>1, <2>0, <2>2
    <3> QED
      BY <1>0, <2>2, <3>1, ReplyKeepsInv
  <2>3. CASE ~Endless /\ Reply(response)
    <3>1. IsInjective(items) /\ (query.id \in Groups => Response("ok", items, PeopleCount) = Expected(query))
      BY <1>0, <2>3, PeoplePageRows
    <3>2. Good(response)
      BY <1>0, <2>0, <3>1 DEF Good, Response
    <3> QED
      BY <1>0, <2>3, <3>2, ReplyKeepsInv
  <2> QED
    BY <1>8, <2>1, <2>2, <2>3 DEF PagePeople
<1> QED
  BY <1>6, <1>7, <1>8

(* PersonService.Get: one statement. *)
LEMMA GetPersonKeepsInv ==
  ASSUME Inv, GetPerson
  PROVE  Inv'
<1>1. Proper(query) /\ query.op = "GetPerson"
  BY DEF GetPerson, Inv, OnPath, Proper, StepsOf
<1>2. CASE query.id \in People
  <2>1. Reply(Response("ok", <<query.id>>, 0))
    BY <1>2 DEF GetPerson
  <2>2. Expected(query) = Response("ok", <<query.id>>, 0)
    BY <1>1, <1>2 DEF Expected
  <2>3. Good(Response("ok", <<query.id>>, 0))
    BY <1>1, <2>2 DEF Good
  <2> QED
    BY <1>1, <2>1, <2>3, ReplyKeepsInv
<1>3. CASE query.id \notin People
  BY <1>1, <1>3, NotFoundIsGood, ReplyKeepsInv DEF GetPerson, NotFound
<1> QED
  BY <1>2, <1>3

(* Every statement of a reader keeps the invariant. *)
LEMMA ReadKeepsInv ==
  ASSUME Inv, Read
  PROVE  Inv'
BY GetGroupKeepsInv, ListGroupsKeepsInv, ListGroupPeopleKeepsInv, GetPersonKeepsInv DEF Read

(* The requests that are sent have the parameters the invariant speaks of. *)
LEMMA QueriesAreProper == \A q \in Queries : Proper(q)
BY ParametersAreIntegers
DEF Queries, GroupQueries, ListQueries, PeopleQueries, PersonQueries, Proper

(* The invariant is inductive. *)
LEMMA NextInv == Inv /\ [Next]_vars => Inv'
<1> SUFFICES ASSUME Inv, [Next]_vars PROVE Inv'
  OBVIOUS
<1>1. CASE Request
  BY <1>1, QueriesAreProper, SendKeepsInv DEF Request
<1>2. CASE Cancel
  BY <1>2, CancelKeepsInv
<1>3. CASE Read
  BY <1>3, ReadKeepsInv
<1>4. CASE Write
  BY <1>4, WriteKeepsInv
<1>5. CASE UNCHANGED vars
  <2>1. UNCHANGED <<store, step, query, seen, answer, touched>>
    BY <1>5 DEF vars, reader
  <2>2. StoreTypeOK' /\ ReferentialIntegrity'
    BY <2>1, SameStore DEF Inv
  <2>3. OnPath'
    BY <2>1 DEF Inv, OnPath
  <2>4. (~touched => Remembered)'
    BY <2>1, SameTables DEF Inv, Remembered, store
  <2>5. (Answered => Good(answer))'
    BY <2>1, SameTables DEF Inv, Answered, Good, ConsistentPage, IsInjective, store
  <2> QED
    BY <2>2, <2>3, <2>4, <2>5 DEF Inv
<1> QED
  BY <1>1, <1>2, <1>3, <1>4, <1>5 DEF Next

(* Under any writers, at any moment of any read: the tables keep their     *)
(* integrity, the reader is on the path of its request, what it has seen is*)
(* still so if nobody wrote, and what it answered is good.                 *)
THEOREM Invariance == Spec => []Inv
<1>1. Init => Inv
  BY InitInv
<1>2. Inv /\ [Next]_vars => Inv'
  BY NextInv
<1> QED
  BY <1>1, <1>2, PTL DEF Spec

(* Every response to a request no writer got in the way of has exactly the *)
(* rows the tables have for it, for any tables, any page and any cycle:    *)
(* the recursion with UNION ALL, the joins with it, the early return on a  *)
(* count of zero and the arithmetic of the page come to that together.     *)
THEOREM AnswersAreExact == Spec => []QuietAnswersAreExact
<1>1. Inv => QuietAnswersAreExact
  BY GoodAnswers
<1> QED
  BY <1>1, Invariance, PTL

(* repo.List: whatever the writers do while the list is put together, the  *)
(* counts on a page agree with each other and its groups are in order.     *)
THEOREM PagesAgree == Spec => []PagesAreConsistent
<1>1. Inv => PagesAreConsistent
  BY GoodAnswers
<1> QED
  BY <1>1, Invariance, PTL

(* ListGroupPeople: whatever the writers do between its statements, nobody *)
(* is on a page twice.                                                     *)
THEOREM NobodyIsTwice == Spec => []NobodyTwice
<1>1. Inv => NobodyTwice
  BY GoodAnswers
<1> QED
  BY <1>1, Invariance, PTL
=============================================================================
