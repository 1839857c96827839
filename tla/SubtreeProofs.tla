--------------------------- MODULE SubtreeProofs ---------------------------
(***************************************************************************)
(* The recursive query of the repositories against the subtree it is meant *)
(* to return, for a groups table of any size and shape, cycles included.   *)
(*                                                                         *)
(* A row of round n of the recursion is the end of a path of n steps down  *)
(* from its root, and that makes the recursion a matter of paths: one that *)
(* is longer than there are groups comes through a group twice, and can be *)
(* cut short or, when that is what it is for, be made longer.              *)
(***************************************************************************)
EXTENDS StoreProofs, FiniteSetTheorems

(* Every set of naturals that is not empty has a least number.             *)
LEMMA LeastNumber ==
  ASSUME NEW T \in SUBSET Nat, T # {}
  PROVE  \E n \in T : \A m \in T : n <= m
<1> DEFINE R == OpToRel(<, Nat)
<1>1. PICK n \in T : \A m \in T : ~ (<<m, n>> \in R)
  BY NatLessThanWellFounded, WFMin
<1>2. \A m \in T : <<m, n>> \in R <=> m < n
  BY DEF OpToRel
<1>3. \A m \in T : ~(m < n)
  BY ONLY <1>1, <1>2
<1>4. \A m \in T : n <= m
  BY ONLY <1>3, T \in SUBSET Nat, n \in T
<1> QED
  BY ONLY <1>4, n \in T

-----------------------------------------------------------------------------
(* Paths.                                                                  *)

(* s goes down from a in n steps, each from a group to a child of it.      *)
Path(a, n, s) ==
  /\ s \in [0..n -> Groups]
  /\ s[0] = a
  /\ \A i \in 1..n : parent[s[i]] = s[i - 1]

(* The groups n steps below a. *)
Level(a, n) == {c \in Groups : \E s : Path(a, n, s) /\ s[n] = c}

(* The rows of the first term of the recursion: the group itself, if it is *)
(* there.                                                                  *)
LEMMA FirstLevel ==
  ASSUME NEW a PROVE Level(a, 0) = {a} \cap Groups
<1>1. ASSUME a \in Groups PROVE a \in Level(a, 0)
  <2> DEFINE s == [i \in 0..0 |-> a]
  <2>1. Path(a, 0, s) /\ s[0] = a
    BY <1>1 DEF Path
  <2> QED
    BY <1>1, <2>1 DEF Level
<1> QED
  BY <1>1 DEF Level, Path

(* A path and a child of its end make a path. *)
LEMMA LongerPath ==
  ASSUME NEW a, NEW n \in Nat, NEW s, Path(a, n, s), NEW c \in Groups, parent[c] = s[n]
  PROVE  \E t : Path(a, n + 1, t) /\ t[n + 1] = c
<1> DEFINE t == [i \in 0..(n + 1) |-> IF i = n + 1 THEN c ELSE s[i]]
<1>1. t \in [0..(n + 1) -> Groups] /\ t[0] = a /\ t[n + 1] = c
  BY DEF Path
<1>2. ASSUME NEW i \in 1..(n + 1) PROVE parent[t[i]] = t[i - 1]
  <2>1. CASE i = n + 1
    <3>1. t[i] = c /\ t[i - 1] = s[n]
      BY <2>1
    <3> QED
      BY <3>1
  <2>2. CASE i # n + 1
    <3>1. i \in 1..n /\ t[i] = s[i] /\ t[i - 1] = s[i - 1]
      BY <2>2
    <3> QED
      BY <3>1 DEF Path
  <2> QED
    BY <2>1, <2>2
<1> QED
  BY <1>1, <1>2 DEF Path

(* The first m steps of a path make a path. *)
StartsAs(a, m, s) == \E t : Path(a, m, t) /\ \A i \in 0..m : t[i] = s[i]

(* A path down from a group starts with shorter ones. *)
LEMMA ShorterPath ==
  ASSUME NEW a, NEW n \in Nat, NEW s, Path(a, n, s), NEW m \in 0..n
  PROVE  StartsAs(a, m, s)
<1> DEFINE t == [i \in 0..m |-> s[i]]
<1>1. t \in [0..m -> Groups] /\ t[0] = a /\ \A i \in 0..m : t[i] = s[i]
  BY DEF Path
<1>2. \A i \in 1..m : parent[t[i]] = t[i - 1]
  BY DEF Path
<1> QED
  BY <1>1, <1>2 DEF Path, StartsAs

(* The rows of a round of the recursion: the children of those of the round*)
(* before.                                                                 *)
LEMMA NextLevel ==
  ASSUME NEW a, NEW n \in Nat
  PROVE  Level(a, n + 1) = {c \in Groups : parent[c] \in Level(a, n)}
<1>1. ASSUME NEW c \in Level(a, n + 1) PROVE parent[c] \in Level(a, n)
  <2>1. PICK s : Path(a, n + 1, s) /\ s[n + 1] = c
    BY DEF Level
  <2>2. PICK t : Path(a, n, t) /\ \A i \in 0..n : t[i] = s[i]
    BY <2>1, ShorterPath DEF StartsAs
  <2>3. parent[c] = s[n] /\ s[n] \in Groups
    BY <2>1 DEF Path
  <2>4. t[n] = parent[c]
    BY <2>2, <2>3
  <2> QED
    BY <2>2, <2>3, <2>4 DEF Level
<1>2. ASSUME NEW c \in Groups, parent[c] \in Level(a, n) PROVE c \in Level(a, n + 1)
  BY <1>2, LongerPath DEF Level
<1> QED
  BY <1>1, <1>2 DEF Level

(* The rounds of the recursion are the levels, as far as they are counted. *)
LEMMA RoundsAreLevels ==
  ASSUME NEW a
  PROVE  WorkingTable(a) = [n \in Rounds |-> Level(a, n)]
<1> DEFINE Next(f) == [n \in Rounds |-> IF n = 0 THEN {a} \cap Groups
                                        ELSE {c \in Groups : parent[c] \in f[n - 1]}]
           level == [n \in Rounds |-> Level(a, n)]
           table == WorkingTable(a)
<1>0. Rounds \subseteq Nat /\ \A n \in Rounds : n # 0 => n - 1 \in Rounds /\ n - 1 \in Nat
  BY FS_CardinalityType, IdsAreFinite DEF Rounds
<1>1. level = Next(level)
  <2>1. ASSUME NEW n \in Rounds PROVE level[n] = Next(level)[n]
    <3>1. CASE n = 0
      BY <3>1, FirstLevel
    <3>2. CASE n # 0
      <4>1. n - 1 \in Nat /\ n - 1 \in Rounds /\ (n - 1) + 1 = n
        BY <1>0, <3>2
      <4>2. Level(a, (n - 1) + 1) = {c \in Groups : parent[c] \in Level(a, n - 1)}
        BY <4>1, NextLevel
      <4> QED
        BY <3>2, <4>1, <4>2
    <3> QED
      BY <3>1, <3>2
  <2> QED
    BY <2>1
<1>2. table = CHOOSE f : f = Next(f)
  BY DEF WorkingTable
<1>3. table = Next(table)
  BY <1>1, <1>2
<1>4. \A n \in Rounds : table[n] = level[n]
  <2> DEFINE T == {n \in Rounds : table[n] # level[n]}
  <2>1. SUFFICES ASSUME T # {} PROVE FALSE
    OBVIOUS
  <2>2. PICK n \in T : \A m \in T : n <= m
    BY <1>0, <2>1, LeastNumber
  <2>3. CASE n = 0
    BY <1>1, <1>3, <2>3
  <2>4. CASE n # 0
    <3>1. n - 1 \in Rounds /\ n - 1 \notin T
      BY <1>0, <2>2, <2>4
    <3>2. table[n - 1] = level[n - 1]
      BY <3>1
    <3> HIDE DEF table, level
    <3>3. n \in Rounds /\ table[n] # level[n]
      BY <2>2
    <3>4. table[n] = {c \in Groups : parent[c] \in table[n - 1]}
      BY <1>3, <2>4, <3>3
    <3>5. level[n] = {c \in Groups : parent[c] \in level[n - 1]}
      BY <1>1, <2>4, <3>3
    <3> QED
      BY <3>2, <3>3, <3>4, <3>5
  <2> QED
    BY <2>3, <2>4
<1> QED
  BY <1>3, <1>4

-----------------------------------------------------------------------------
(* The subtree.                                                            *)

(* A path stays in every closed set it starts in. *)
LEMMA PathsStayInside ==
  ASSUME NEW a, NEW n \in Nat, NEW s, Path(a, n, s), NEW S, a \in S, Closed(S)
  PROVE  \A i \in 0..n : s[i] \in S
<1> DEFINE T == {i \in 0..n : s[i] \notin S}
<1> SUFFICES ASSUME T # {} PROVE FALSE
  OBVIOUS
<1>0. T \in SUBSET Nat
  OBVIOUS
<1>1. PICK k \in T : \A i \in T : k <= i
  BY ONLY <1>0, T # {}, LeastNumber
<1>2. k \in 0..n /\ k # 0 /\ s[k] \notin S
  BY DEF Path
<1>3. k \in 1..n /\ k - 1 \in 0..n /\ k - 1 \notin T
  BY <1>1, <1>2
<1>4. s[k - 1] \in S /\ parent[s[k]] = s[k - 1] /\ s[k] \in Groups
  BY <1>3 DEF Path
<1> QED
  BY <1>2, <1>4 DEF Closed

(* The subtree is what the rounds bring together. *)
LEMMA SubtreeIsLevels ==
  ASSUME NEW a, NEW c
  PROVE  c \in Subtree(a) <=> \E n \in Nat : c \in Level(a, n)
<1> DEFINE U == {x \in Groups : \E n \in Nat : x \in Level(a, n)}
<1>1. ASSUME NEW n \in Nat, c \in Level(a, n) PROVE c \in Subtree(a)
  <2>1. PICK s : Path(a, n, s) /\ s[n] = c
    BY <1>1 DEF Level
  <2>2. a \in Groups /\ c \in Groups
    BY <2>1 DEF Path
  <2>3. ASSUME NEW S \in SUBSET Groups, a \in S, Closed(S) PROVE c \in S
    BY <2>1, <2>3, PathsStayInside
  <2> QED
    BY <2>2, <2>3 DEF Subtree
<1>2. ASSUME c \in Subtree(a) PROVE \E n \in Nat : c \in Level(a, n)
  <2>1. a \in Groups
    BY <1>2 DEF Subtree
  <2>2. a \in U
    BY <2>1, FirstLevel
  <2>3. Closed(U)
    <3>1. ASSUME NEW g \in Groups, NEW n \in Nat, parent[g] \in Level(a, n)
          PROVE  \E m \in Nat : g \in Level(a, m)
      BY <3>1, NextLevel
    <3> QED
      BY <3>1 DEF Closed
  <2> QED
    BY <1>2, <2>2, <2>3, SubtreeIsLeast
<1> QED
  BY <1>1, <1>2

(* Two ways through the same group: what a path does in between can be     *)
(* left out.                                                               *)
LEMMA PathCutShort ==
  ASSUME NEW a, NEW n \in Nat, NEW s, Path(a, n, s),
         NEW i \in 0..n, NEW j \in 0..n, i < j, s[i] = s[j]
  PROVE  \E t : Path(a, n - (j - i), t) /\ t[n - (j - i)] = s[n]
<1> DEFINE d == j - i
           m == n - d
           t == [k \in 0..m |-> IF k <= i THEN s[k] ELSE s[k + d]]
<1>1. d \in Nat /\ d >= 1 /\ m \in Nat /\ i <= m /\ m + d = n /\ i + d = j
  OBVIOUS
<1>2. s \in [0..n -> Groups] /\ s[0] = a /\ \A k \in 1..n : parent[s[k]] = s[k - 1]
  BY DEF Path
<1> HIDE DEF d, m
<1>3. t \in [0..m -> Groups]
  <2>1. \A k \in 0..m : k \in 0..n /\ k + d \in 0..n
    BY <1>1
  <2> QED
    BY <1>2, <2>1
<1>4. t[0] = a
  BY <1>1, <1>2
<1>5. t[m] = s[n]
  <2>1. CASE m <= i
    <3>1. m = i /\ n = j
      BY <1>1, <2>1
    <3> QED
      BY <1>1, <3>1
  <2>2. CASE ~(m <= i)
    BY <1>1, <2>2
  <2> QED
    BY <2>1, <2>2
<1>6. ASSUME NEW k \in 1..m PROVE parent[t[k]] = t[k - 1]
  <2>1. CASE k <= i
    <3>1. k \in 1..n /\ t[k] = s[k] /\ t[k - 1] = s[k - 1]
      BY <1>1, <2>1
    <3> QED
      BY <1>2, <3>1
  <2>2. CASE k = i + 1
    <3>1. t[k] = s[j + 1] /\ t[k - 1] = s[i] /\ j + 1 \in 1..n /\ (j + 1) - 1 = j
      BY <1>1, <2>2
    <3>2. parent[s[j + 1]] = s[j]
      BY <1>2, <3>1
    <3> QED
      BY <3>1, <3>2
  <2>3. CASE k > i + 1
    <3>1. t[k] = s[k + d] /\ t[k - 1] = s[(k + d) - 1] /\ k + d \in 1..n
      BY <1>1, <2>3
    <3> QED
      BY <1>2, <3>1
  <2>4. k <= i \/ k = i + 1 \/ k > i + 1
    BY <1>1
  <2> QED
    BY <2>1, <2>2, <2>3, <2>4
<1> QED
  BY <1>3, <1>4, <1>5, <1>6 DEF Path, d, m

(* A path with as many steps as there are ids comes through a group twice. *)
LEMMA LongPathsMeetThemselves ==
  ASSUME StoreTypeOK,
         NEW a, NEW n \in Nat, NEW s, Path(a, n, s), n >= Cardinality(GroupIds)
  PROVE  \E i, j \in 0..n : i < j /\ s[i] = s[j]
<1>1. Groups \subseteq GroupIds
  BY DEF StoreTypeOK
<1>2. IsFiniteSet(Groups) /\ Cardinality(Groups) <= Cardinality(GroupIds)
      /\ Cardinality(Groups) \in Nat /\ Cardinality(GroupIds) \in Nat
  BY <1>1, FS_Subset, FS_CardinalityType, IdsAreFinite
<1>3. IsFiniteSet(0..n) /\ Cardinality(0..n) = n + 1
  BY FS_Interval
<1>4. Cardinality(Groups) < Cardinality(0..n)
  BY <1>2, <1>3
<1>5. PICK x, y \in 0..n : x # y /\ s[x] = s[y]
  BY <1>2, <1>3, <1>4, FS_PigeonHole DEF Path
<1>6. x < y \/ y < x
  BY <1>5
<1> QED
  BY <1>5, <1>6

(* Every group of a subtree is reached in a round that the model counts.   *)
LEMMA EarlyRoundsSuffice ==
  ASSUME StoreTypeOK, NEW a, NEW c \in Subtree(a)
  PROVE  \E n \in Rounds : c \in Level(a, n)
<1> DEFINE T == {n \in Nat : c \in Level(a, n)}
<1>1. PICK n \in T : \A m \in T : n <= m
  BY SubtreeIsLevels, LeastNumber
<1>2. PICK s : Path(a, n, s) /\ s[n] = c
  BY DEF Level
<1>3. Cardinality(GroupIds) \in Nat
  BY FS_CardinalityType, IdsAreFinite
<1>4. ASSUME n > Cardinality(GroupIds) PROVE FALSE
  <2>1. PICK i, j \in 0..n : i < j /\ s[i] = s[j]
    BY <1>2, <1>3, <1>4, LongPathsMeetThemselves
  <2>2. PICK t : Path(a, n - (j - i), t) /\ t[n - (j - i)] = c
    <3>1. \E t : Path(a, n - (j - i), t) /\ t[n - (j - i)] = s[n]
      <4>1. i \in 0..n /\ j \in 0..n /\ i < j /\ s[i] = s[j] /\ n \in Nat /\ Path(a, n, s)
        BY <1>2, <2>1
      <4> QED
        BY ONLY <4>1, PathCutShort
    <3> QED
      BY <1>2, <3>1
  <2>3. n - (j - i) \in Nat /\ n - (j - i) < n
    BY <2>1
  <2>4. c \in Groups
    BY DEF Subtree
  <2>5. n - (j - i) \in T
    BY <2>2, <2>3, <2>4 DEF Level
  <2> QED
    BY <1>1, <2>3, <2>5
<1> QED
  BY <1>3, <1>4 DEF Rounds

-----------------------------------------------------------------------------
(* Cycles.                                                                 *)

(* A group is on a cycle when a path leads from it back to it. *)
LEMMA CyclesAreClosedPaths ==
  ASSUME NEW a
  PROVE  OnCycle(a) <=> \E m \in Nat : m >= 1 /\ \E q : Path(a, m, q) /\ q[m] = a
<1>1. ASSUME OnCycle(a) PROVE \E m \in Nat : m >= 1 /\ \E q : Path(a, m, q) /\ q[m] = a
  <2>1. a \in Groups /\ parent[a] \in Subtree(a)
    BY <1>1 DEF OnCycle
  <2>2. PICK n \in Nat : parent[a] \in Level(a, n)
    BY <2>1, SubtreeIsLevels
  <2>3. PICK s : Path(a, n, s) /\ s[n] = parent[a]
    BY <2>2 DEF Level
  <2>4. \E q : Path(a, n + 1, q) /\ q[n + 1] = a
    BY <2>1, <2>3, LongerPath
  <2> QED
    BY <2>4
<1>2. ASSUME NEW m \in Nat, m >= 1, NEW q, Path(a, m, q), q[m] = a PROVE OnCycle(a)
  <2>1. m \in 1..m /\ m - 1 \in 0..m /\ m - 1 \in Nat /\ 0 \in 0..m
    BY <1>2
  <2>2. parent[a] = q[m - 1] /\ q[m - 1] \in Groups /\ a \in Groups
    BY <1>2, <2>1 DEF Path
  <2>3. PICK t : Path(a, m - 1, t) /\ \A i \in 0..(m - 1) : t[i] = q[i]
    BY ONLY m \in Nat, Path(a, m, q), <2>1, ShorterPath DEF StartsAs
  <2>4. t[m - 1] = q[m - 1]
    BY <2>1, <2>3
  <2>5. parent[a] \in Level(a, m - 1)
    BY <2>2, <2>3, <2>4 DEF Level
  <2> QED
    BY <2>1, <2>2, <2>5, SubtreeIsLevels DEF OnCycle
<1> QED
  BY <1>1, <1>2

(* Two paths that meet, one longer than the other, have gone round. *)
LEMMA MeetingPathsGoRound ==
  ASSUME NEW a, NEW n \in Nat, NEW s, Path(a, n, s), NEW m \in Nat, NEW t, Path(a, m, t),
         n < m, s[n] = t[m]
  PROVE  OnCycle(a)
<1> DEFINE d == m - n
           T == {k \in 0..n : s[k] = t[k + d]}
<1>1. d \in Nat /\ d >= 1 /\ n + d = m
  OBVIOUS
<1> HIDE DEF d
<1>2. T \in SUBSET Nat /\ n \in T
  BY <1>1
<1>3. PICK k \in T : \A i \in T : k <= i
  BY ONLY <1>2, LeastNumber
<1>4. k = 0
  <2>1. SUFFICES ASSUME k # 0 PROVE FALSE
    OBVIOUS
  <2>2. k \in 1..n /\ k + d \in 1..m /\ k - 1 \in 0..n /\ (k + d) - 1 = (k - 1) + d
    BY <1>1, <2>1
  <2>3. s[k - 1] = t[(k - 1) + d]
    BY <2>2 DEF Path
  <2>4. k - 1 \in T
    BY <2>2, <2>3
  <2> QED
    BY <1>3, <2>2, <2>4
<1>5. t[d] = a /\ d \in 0..m
  <2>1. s[0] = t[0 + d] /\ 0 + d = d
    BY <1>1, <1>3, <1>4
  <2> QED
    BY <1>1, <2>1 DEF Path
<1>6. StartsAs(a, d, t)
  BY <1>5, ShorterPath
<1>7. PICK q : Path(a, d, q) /\ q[d] = t[d]
  BY <1>1, <1>6 DEF StartsAs
<1> QED
  BY <1>1, <1>5, <1>7, CyclesAreClosedPaths

(* Away from the cycles no group is in two rounds. *)
LEMMA LevelsAreDisjoint ==
  ASSUME NEW a, ~OnCycle(a), NEW n \in Nat, NEW m \in Nat, NEW c,
         c \in Level(a, n), c \in Level(a, m)
  PROVE  n = m
<1>1. PICK s : Path(a, n, s) /\ s[n] = c
  BY DEF Level
<1>2. PICK t : Path(a, m, t) /\ t[m] = c
  BY DEF Level
<1>3. ~(n < m) /\ ~(m < n)
  BY <1>1, <1>2, MeetingPathsGoRound
<1> QED
  BY <1>3

(* A path that goes round has started on a cycle. *)
LEMMA RoundPathsStartOnCycles ==
  ASSUME NEW a, NEW n \in Nat, NEW s, Path(a, n, s),
         NEW i \in 0..n, NEW j \in 0..n, i < j, s[i] = s[j]
  PROVE  OnCycle(a)
<1>1. StartsAs(a, i, s) /\ StartsAs(a, j, s)
  BY ShorterPath
<1>2. i \in Nat /\ j \in Nat
  OBVIOUS
<1>3. PICK t : Path(a, i, t) /\ t[i] = s[i]
  BY <1>1, <1>2 DEF StartsAs
<1>4. PICK u : Path(a, j, u) /\ u[j] = s[j]
  BY <1>1, <1>2 DEF StartsAs
<1> QED
  BY <1>2, <1>3, <1>4, MeetingPathsGoRound

(* From a group on a cycle there are paths of every length. *)
LEMMA CyclesGoOn ==
  ASSUME NEW a, OnCycle(a), NEW n \in Nat
  PROVE  \E s : Path(a, n, s)
<1> DEFINE T == {k \in Nat : ~\E s : Path(a, k, s)}
<1>1. PICK m \in Nat : m >= 1 /\ \E q : Path(a, m, q) /\ q[m] = a
  BY CyclesAreClosedPaths
<1>2. PICK q : Path(a, m, q) /\ q[m] = a
  BY <1>1
<1> SUFFICES ASSUME T # {} PROVE FALSE
  OBVIOUS
<1>3. T \in SUBSET Nat
  OBVIOUS
<1>4. PICK k \in T : \A i \in T : k <= i
  BY ONLY <1>3, T # {}, LeastNumber
<1>5. k \in Nat /\ k > m
  <2>1. ASSUME k <= m PROVE FALSE
    BY <1>1, <1>2, <2>1, ShorterPath DEF StartsAs
  <2> QED
    BY <1>1, <2>1
<1>6. k - m \in Nat /\ k - m < k /\ k - m \notin T
  BY <1>1, <1>4, <1>5
<1>7. PICK s : Path(a, k - m, s)
  BY <1>6
<1> DEFINE t == [i \in 0..k |-> IF i <= m THEN q[i] ELSE s[i - m]]
<1>8. t \in [0..k -> Groups] /\ t[0] = a
  <2>1. \A i \in 0..k : IF i <= m THEN i \in 0..m ELSE i - m \in 0..(k - m)
    BY <1>1, <1>5
  <2> QED
    BY <1>1, <1>2, <1>5, <1>7, <2>1 DEF Path
<1>9. ASSUME NEW i \in 1..k PROVE parent[t[i]] = t[i - 1]
  <2>1. CASE i <= m
    <3>1. i \in 1..m /\ t[i] = q[i] /\ t[i - 1] = q[i - 1]
      BY <1>1, <2>1
    <3> QED
      BY <1>2, <3>1 DEF Path
  <2>2. CASE i = m + 1
    <3>1. t[i] = s[1] /\ t[i - 1] = q[m] /\ 1 \in 1..(k - m)
      BY <1>1, <1>5, <2>2
    <3> QED
      BY <1>2, <1>7, <3>1 DEF Path
  <2>3. CASE i > m + 1
    <3>1. i - m \in 1..(k - m) /\ t[i] = s[i - m] /\ t[i - 1] = s[(i - m) - 1]
      BY <1>1, <1>5, <2>3
    <3> QED
      BY <1>7, <3>1 DEF Path
  <2>4. i <= m \/ i = m + 1 \/ i > m + 1
    BY <1>1
  <2> QED
    BY <2>1, <2>2, <2>3, <2>4
<1>10. Path(a, k, t)
  BY <1>8, <1>9 DEF Path
<1> QED
  BY <1>10

-----------------------------------------------------------------------------
(* repository/postgres/group.go: the recursive query, run round by round,  *)
(* returns the subtree, and runs without end just when it starts on a      *)
(* cycle.                                                                  *)
LEMMA RecursionIsSubtree ==
  ASSUME StoreTypeOK
  PROVE  SubtreeIsCTE
<1> SUFFICES ASSUME NEW a \in GroupIds
             PROVE  /\ Subtree(a) = UNION {WorkingTable(a)[n] : n \in Rounds}
                    /\ OnCycle(a) <=> WorkingTable(a)[Cardinality(GroupIds)] # {}
  BY DEF SubtreeIsCTE
<1> DEFINE N == Cardinality(GroupIds)
<1>1. N \in Nat /\ N \in Rounds /\ Rounds \subseteq Nat
  BY FS_CardinalityType, IdsAreFinite DEF Rounds
<1>2. \A n \in Rounds : WorkingTable(a)[n] = Level(a, n)
  BY RoundsAreLevels
<1>3. Subtree(a) = UNION {Level(a, n) : n \in Rounds}
  BY <1>1, SubtreeIsLevels, EarlyRoundsSuffice
<1>4. ASSUME OnCycle(a) PROVE Level(a, N) # {}
  <2>1. PICK s : Path(a, N, s)
    BY <1>1, <1>4, CyclesGoOn
  <2>2. s[N] \in Groups
    BY <1>1, <2>1 DEF Path
  <2> QED
    BY <2>1, <2>2 DEF Level
<1>5. ASSUME Level(a, N) # {} PROVE OnCycle(a)
  <2>1. PICK s : Path(a, N, s)
    BY <1>5 DEF Level
  <2>2. \E i, j \in 0..N : i < j /\ s[i] = s[j]
    BY <1>1, <2>1, LongPathsMeetThemselves
  <2> QED
    BY <1>1, <2>1, <2>2, RoundPathsStartOnCycles
<1> QED
  BY <1>1, <1>2, <1>3, <1>4, <1>5
=============================================================================
