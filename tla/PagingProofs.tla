----------------------------- MODULE PagingProofs -----------------------------
(***************************************************************************)
(* Proofs about queries with an order and a limit.  SweepBatch, for any    *)
(* rows, limits and delays: how a sweep shares its batch among the rows    *)
(* that are due.  ActionHistory, for any page sizes, ceilings and          *)
(* insertions: what a client sees that pages through a history.            *)
(***************************************************************************)
EXTENDS SweepBatch, ActionHistory, FiniteSetTheorems, SequenceTheorems, TLAPS

-----------------------------------------------------------------------------
(* Ranks: how many elements of a finite set come before one of them, in a  *)
(* strict total order R on it.                                             *)

StrictOrder(R, S) ==
  /\ \A x \in S : << x, x >> \notin R
  /\ \A x, y, z \in S : << x, y >> \in R /\ << y, z >> \in R => << x, z >> \in R
  /\ \A x, y \in S : x = y \/ << x, y >> \in R \/ << y, x >> \in R

Ahead(R, S, x) == {y \in S : << y, x >> \in R}

Rank(R, S, x) == Cardinality(Ahead(R, S, x))

\* What comes later has the higher rank.
LEMMA RankGrows ==
  ASSUME NEW S, IsFiniteSet(S), NEW R, StrictOrder(R, S), NEW x \in S, NEW y \in S, << x, y >> \in R
  PROVE  Rank(R, S, x) < Rank(R, S, y)
<1>1. Ahead(R, S, x) \subseteq Ahead(R, S, y) /\ x \in Ahead(R, S, y) /\ x \notin Ahead(R, S, x)
  BY DEF Ahead, StrictOrder
<1>2. IsFiniteSet(Ahead(R, S, y))
  BY FS_Subset DEF Ahead
<1>3. Ahead(R, S, x) # Ahead(R, S, y)
  BY <1>1
<1> QED
  BY <1>1, <1>2, <1>3, FS_Subset, FS_CardinalityType DEF Rank

\* Ranks are the numbers below the size of the set, each taken once.
LEMMA RanksTaken ==
  ASSUME NEW S, IsFiniteSet(S), NEW R, StrictOrder(R, S)
  PROVE  /\ Cardinality(S) \in Nat
         /\ \A x \in S : Rank(R, S, x) \in 0 .. Cardinality(S) - 1
         /\ \A x, y \in S : Rank(R, S, x) = Rank(R, S, y) => x = y
         /\ \A i \in 0 .. Cardinality(S) - 1 : \E x \in S : Rank(R, S, x) = i
<1> DEFINE N == Cardinality(S)
           rank == [x \in S |-> Rank(R, S, x)]
<1>1. N \in Nat
  BY FS_CardinalityType
<1>2. ASSUME NEW x \in S PROVE Rank(R, S, x) \in 0 .. N - 1
  <2>0. Ahead(R, S, x) \subseteq S /\ x \notin Ahead(R, S, x)
    BY DEF Ahead, StrictOrder
  <2>1. Ahead(R, S, x) \subseteq S /\ Ahead(R, S, x) # S
    BY <2>0
  <2>2. IsFiniteSet(Ahead(R, S, x)) /\ Cardinality(Ahead(R, S, x)) < N
    <3>1. /\ IsFiniteSet(Ahead(R, S, x)) /\ Cardinality(Ahead(R, S, x)) <= N
          /\ Cardinality(S) = Cardinality(Ahead(R, S, x)) => S = Ahead(R, S, x)
      BY <2>1, FS_Subset
    <3> QED
      BY <1>1, <2>1, <3>1, FS_CardinalityType
  <2> QED
    BY <1>1, <2>2, FS_CardinalityType DEF Rank
<1>3. ASSUME NEW x \in S, NEW y \in S, Rank(R, S, x) = Rank(R, S, y) PROVE x = y
  <2>1. ~(<< x, y >> \in R) /\ ~(<< y, x >> \in R)
    BY <1>1, <1>2, <1>3, RankGrows
  <2> QED
    BY <2>1 DEF StrictOrder
<1>4. IsFiniteSet(0 .. N - 1) /\ Cardinality(0 .. N - 1) = N
  BY <1>1, FS_Interval
<1>5. rank \in Injection(S, 0 .. N - 1)
  BY <1>2, <1>3 DEF Injection, IsInjective
<1>6. rank \in Surjection(S, 0 .. N - 1)
  BY <1>4, <1>5, FS_Injection
<1>7. \A i \in 0 .. N - 1 : \E x \in S : rank[x] = i
  BY <1>6 DEF Surjection
<1> QED
  BY <1>1, <1>2, <1>3, <1>7

\* A query that takes n rows in order returns n of them, or all there are.
LEMMA RankedBelow ==
  ASSUME NEW S, IsFiniteSet(S), NEW R, StrictOrder(R, S), NEW n \in Nat,
         NEW T, T = {x \in S : Rank(R, S, x) < n}
  PROVE  /\ T \subseteq S /\ IsFiniteSet(T) /\ Cardinality(T) \in Nat /\ Cardinality(S) \in Nat
         /\ Cardinality(T) = IF n <= Cardinality(S) THEN n ELSE Cardinality(S)
<1> DEFINE N == Cardinality(S)
           m == IF n <= N THEN n ELSE N
           rank == [x \in T |-> Rank(R, S, x)]
<1>1. /\ N \in Nat
      /\ \A x \in S : Rank(R, S, x) \in 0 .. N - 1
      /\ \A x, y \in S : Rank(R, S, x) = Rank(R, S, y) => x = y
      /\ \A i \in 0 .. N - 1 : \E x \in S : Rank(R, S, x) = i
  BY RanksTaken
<1>2. T \subseteq S /\ IsFiniteSet(T) /\ m \in Nat
  <2>1. T \subseteq S
    OBVIOUS
  <2>2. m \in Nat
    BY <1>1
  <2> QED
    BY <2>1, <2>2, FS_Subset
<1>3. IsFiniteSet(0 .. m - 1) /\ Cardinality(0 .. m - 1) = m
  <2>1. \A k \in Nat : IsFiniteSet(0 .. k - 1) /\ Cardinality(0 .. k - 1) = k
    BY FS_Interval
  <2> HIDE DEF m
  <2> QED
    BY <1>2, <2>1
<1>4. \A x \in T : rank[x] \in 0 .. m - 1
  BY <1>1
<1>5. rank \in [T -> 0 .. m - 1]
  BY <1>4
<1>6. \A x, y \in T : rank[x] = rank[y] => x = y
  BY <1>1
<1>7. \A i \in 0 .. m - 1 : \E x \in T : rank[x] = i
  <2> SUFFICES ASSUME NEW i \in 0 .. m - 1 PROVE \E x \in T : rank[x] = i
    OBVIOUS
  <2>1. i \in 0 .. N - 1 /\ i < n
    BY <1>1, <1>2
  <2>2. PICK x \in S : Rank(R, S, x) = i
    BY <1>1, <2>1
  <2>3. x \in T
    BY <2>1, <2>2
  <2> QED
    BY <2>2, <2>3
<1> HIDE DEF rank, m
<1>8. rank \in Injection(T, 0 .. m - 1) /\ rank \in Surjection(T, 0 .. m - 1)
  BY <1>5, <1>6, <1>7 DEF Injection, IsInjective, Surjection
<1>9. Cardinality(T) = Cardinality(0 .. m - 1)
  BY <1>3, <1>8, FS_Injection
<1> QED
  BY <1>1, <1>2, <1>3, <1>9 DEF m, N

-----------------------------------------------------------------------------
(* SweepBatch: what the batch of the outbox holds.                         *)

LEMMA MinOfTwo == \A a, b \in Int : Min({a, b}) = Lesser(a, b)
<1> SUFFICES ASSUME NEW a \in Int, NEW b \in Int PROVE Min({a, b}) = Lesser(a, b)
  OBVIOUS
<1>1. Lesser(a, b) \in {a, b} /\ \A y \in {a, b} : Lesser(a, b) =< y
  BY DEF Lesser
<1>2. \A x \in {a, b} : (\A y \in {a, b} : x =< y) => x = Lesser(a, b)
  BY DEF Lesser
<1> QED
  BY <1>1, <1>2 DEF Min

LEMMA MaxOfTwo == \A a, b \in Int : Max({a, b}) \in Int
<1> SUFFICES ASSUME NEW a \in Int, NEW b \in Int PROVE Max({a, b}) \in Int
  OBVIOUS
<1>1. \E x \in {a, b} : \A y \in {a, b} : x >= y
  OBVIOUS
<1> QED
  BY <1>1 DEF Max

Waits == wait \in [Rows -> Int]

\* The order of a query: by marker, then as the table returns them.
LEMMA OldestTakes ==
  ASSUME SweepConstants, Waits, NEW S, S \subseteq Rows, NEW n \in Nat
  PROVE  /\ Oldest(S, n) \subseteq S /\ IsFiniteSet(S) /\ IsFiniteSet(Oldest(S, n))
         /\ Cardinality(S) \in Nat /\ Cardinality(Oldest(S, n)) \in Nat
         /\ Cardinality(Oldest(S, n)) = Lesser(n, Cardinality(S))
<1> DEFINE R == {p \in S \X S : Older(p[1], p[2])}
<1>1. IsFiniteSet(S)
  BY FS_Subset DEF SweepConstants
<1>2. \A x \in S : x \in Nat /\ wait[x] \in Int
  BY DEF Waits, SweepConstants
<1>3. \A x, y \in S : << x, y >> \in R <=> Older(x, y)
  OBVIOUS
<1>4. StrictOrder(R, S)
  <2> HIDE DEF R
  <2>1. \A x \in S : << x, x >> \notin R
    BY <1>2, <1>3 DEF Older
  <2>2. \A x, y, z \in S : << x, y >> \in R /\ << y, z >> \in R => << x, z >> \in R
    BY <1>2, <1>3 DEF Older
  <2>3. ASSUME NEW x \in S, NEW y \in S PROVE x = y \/ << x, y >> \in R \/ << y, x >> \in R
    <3>1. x \in Nat /\ y \in Nat /\ wait[x] \in Int /\ wait[y] \in Int
      BY <1>2
    <3>2. x = y \/ Older(x, y) \/ Older(y, x)
      BY <3>1 DEF Older
    <3> QED
      BY <1>3, <3>2
  <2> QED
    BY <2>1, <2>2, <2>3 DEF StrictOrder
<1>5. \A x \in S : {q \in S : Older(q, x)} = Ahead(R, S, x)
  BY <1>3 DEF Ahead
<1> HIDE DEF R
<1>6. Oldest(S, n) = {x \in S : Rank(R, S, x) < n}
  BY <1>5 DEF Oldest, Rank
<1> QED
  BY <1>1, <1>4, <1>6, RankedBelow DEF Lesser

\* Two quotas, and what is left over to one kind and then to the other.
LEMMA QuotasFill ==
  ASSUME NEW n \in Nat, NEW q \in Nat, q <= n, NEW a \in Nat, NEW b \in Nat, NEW c1, c1 = Lesser(q, a),
         NEW c2, c2 = Lesser(n - q, b), NEW m, m = Lesser(n - (c1 + c2), a - c1),
         NEW k, k = Lesser(n - (c1 + c2) - m, b - c2)
  PROVE  c1 + c2 + m + k = Lesser(n, a + b)
BY DEF Lesser

LEMMA DisjointUnion ==
  ASSUME NEW S, NEW T, IsFiniteSet(S), IsFiniteSet(T), S \cap T = {}
  PROVE  IsFiniteSet(S \cup T) /\ Cardinality(S \cup T) = Cardinality(S) + Cardinality(T)
<1>1. /\ IsFiniteSet(S \cup T)
      /\ Cardinality(S \cup T) = Cardinality(S) + Cardinality(T) - Cardinality(S \cap T)
  BY FS_Union
<1>2. Cardinality(S \cap T) = 0
  BY FS_EmptySet
<1>3. Cardinality(S) \in Nat /\ Cardinality(T) \in Nat
  BY FS_CardinalityType
<1> QED
  BY <1>1, <1>2, <1>3

LEMMA WithoutPart ==
  ASSUME NEW S, NEW T, IsFiniteSet(S), T \subseteq S
  PROVE  IsFiniteSet(S \ T) /\ Cardinality(S \ T) = Cardinality(S) - Cardinality(T)
<1>1. S \cap T = T
  OBVIOUS
<1> QED
  BY <1>1, FS_Difference

\* The tombstones of a batch fill its capacity, half for each kind first.
LEMMA UnresolvedFills ==
  ASSUME SweepConstants, Waits, NEW I, NEW T, I \subseteq Rows, T \subseteq Rows, I \cap T = {}, NEW n \in Nat,
         NEW U, U = unresolved(Oldest(I, n), Oldest(T, n), n)
  PROVE  /\ U \subseteq I \cup T /\ IsFiniteSet(U)
         /\ Cardinality(U) = Lesser(n, Cardinality(I) + Cardinality(T))
         /\ n >= 2 /\ I # {} => U \cap I # {}
         /\ n >= 2 /\ T # {} => U \cap T # {}
<1> DEFINE initial == Oldest(I, n)
           retry == Oldest(T, n)
           q == (n + 1) \div 2
           h1 == Oldest(initial, q)
           h2 == Oldest(retry, n - q)
           halves == h1 \cup h2
           more == Oldest(initial \ halves, n - Cardinality(halves))
           rest == Oldest(retry \ halves, n - Cardinality(halves) - Cardinality(more))
<1>1. U = halves \cup more \cup rest
  BY DEF unresolved
<1>2. q \in Nat /\ n - q \in Nat /\ (n >= 2 => q >= 1 /\ n - q >= 1)
  OBVIOUS
<1>3. /\ initial \subseteq I /\ IsFiniteSet(initial) /\ Cardinality(I) \in Nat /\ Cardinality(initial) \in Nat
      /\ Cardinality(initial) = Lesser(n, Cardinality(I)) /\ IsFiniteSet(I)
  BY OldestTakes
<1>4. /\ retry \subseteq T /\ IsFiniteSet(retry) /\ Cardinality(T) \in Nat /\ Cardinality(retry) \in Nat
      /\ Cardinality(retry) = Lesser(n, Cardinality(T)) /\ IsFiniteSet(T)
  BY OldestTakes
<1> HIDE DEF initial, retry, q
<1>5. /\ h1 \subseteq initial /\ IsFiniteSet(h1) /\ Cardinality(h1) \in Nat
      /\ Cardinality(h1) = Lesser(q, Cardinality(initial))
  BY <1>2, <1>3, OldestTakes
<1>6. /\ h2 \subseteq retry /\ IsFiniteSet(h2) /\ Cardinality(h2) \in Nat
      /\ Cardinality(h2) = Lesser(n - q, Cardinality(retry))
  BY <1>2, <1>4, OldestTakes
<1> HIDE DEF h1, h2
<1>7. /\ IsFiniteSet(halves) /\ Cardinality(halves) = Cardinality(h1) + Cardinality(h2)
      /\ n - Cardinality(halves) \in Nat
  <2>1. h1 \cap h2 = {}
    BY <1>3, <1>4, <1>5, <1>6
  <2>2. IsFiniteSet(halves) /\ Cardinality(halves) = Cardinality(h1) + Cardinality(h2)
    BY <1>5, <1>6, <2>1, DisjointUnion
  <2>3. Cardinality(h1) <= q /\ Cardinality(h2) <= n - q
    BY <1>2, <1>3, <1>4, <1>5, <1>6 DEF Lesser
  <2> HIDE DEF halves
  <2> QED
    BY <1>2, <1>5, <1>6, <2>2, <2>3
<1>8. initial \ halves = initial \ h1 /\ retry \ halves = retry \ h2
  BY <1>3, <1>4, <1>5, <1>6
<1> DEFINE left1 == initial \ halves
           left2 == retry \ halves
<1>9. Cardinality(left1) = Cardinality(initial) - Cardinality(h1)
  BY <1>3, <1>5, <1>8, WithoutPart
<1>10. Cardinality(left2) = Cardinality(retry) - Cardinality(h2)
  BY <1>4, <1>6, <1>8, WithoutPart
<1>11. left1 \subseteq initial /\ left1 \cap halves = {} /\ left2 \subseteq retry /\ left2 \cap halves = {}
  OBVIOUS
<1> HIDE DEF halves, left1, left2
<1> DEFINE room == n - Cardinality(halves)
<1>12. /\ more \subseteq left1 /\ IsFiniteSet(more) /\ Cardinality(more) \in Nat /\ Cardinality(left1) \in Nat
       /\ Cardinality(more) = Lesser(room, Cardinality(left1))
  <2>1. left1 \subseteq Rows /\ more = Oldest(left1, room)
    BY <1>3, <1>11 DEF left1
  <2> HIDE DEF more, room
  <2>2. room \in Nat
    BY <1>7 DEF room
  <2> QED
    BY <2>1, <2>2, OldestTakes
<1>13. /\ rest \subseteq left2 /\ IsFiniteSet(rest) /\ Cardinality(rest) \in Nat /\ Cardinality(left2) \in Nat
       /\ Cardinality(rest) = Lesser(room - Cardinality(more), Cardinality(left2))
  <2>1. left2 \subseteq Rows /\ rest = Oldest(left2, room - Cardinality(more))
    BY <1>4, <1>11 DEF left2
  <2> HIDE DEF rest, more, room
  <2>2. room - Cardinality(more) \in Nat
    BY <1>7, <1>12 DEF room, Lesser
  <2> QED
    BY <2>1, <2>2, OldestTakes
<1> HIDE DEF more, rest
<1>14. IsFiniteSet(U) /\ Cardinality(U) = Cardinality(halves) + Cardinality(more) + Cardinality(rest)
  <2>1. halves \cap more = {}
    BY <1>11, <1>12
  <2>2. IsFiniteSet(halves \cup more) /\ Cardinality(halves \cup more) = Cardinality(halves) + Cardinality(more)
    BY <1>7, <1>12, <2>1, DisjointUnion
  <2>3. (halves \cup more) \cap rest = {}
    BY <1>3, <1>4, <1>11, <1>12, <1>13
  <2> QED
    BY <1>1, <1>13, <2>2, <2>3, DisjointUnion
<1>15. Cardinality(U) = Lesser(n, Cardinality(I) + Cardinality(T))
  <2>1. Cardinality(U) = Lesser(n, Cardinality(initial) + Cardinality(retry))
    <3>1. Cardinality(more) = Lesser(n - (Cardinality(h1) + Cardinality(h2)), Cardinality(initial) - Cardinality(h1))
      BY <1>7, <1>9, <1>12
    <3>2. Cardinality(rest) = Lesser(n - (Cardinality(h1) + Cardinality(h2)) - Cardinality(more), Cardinality(retry) - Cardinality(h2))
      BY <1>7, <1>10, <1>13
    <3>3. q <= n
      BY <1>2
    <3> QED
      BY <1>2, <1>3, <1>4, <1>5, <1>6, <1>7, <1>14, <3>1, <3>2, <3>3, QuotasFill
  <2> QED
    BY <1>3, <1>4, <2>1 DEF Lesser
<1>16. U \subseteq I \cup T
  BY <1>1, <1>3, <1>4, <1>5, <1>6, <1>11, <1>12, <1>13 DEF halves
<1>17. n >= 2 /\ I # {} => U \cap I # {}
  <2> SUFFICES ASSUME n >= 2, I # {} PROVE U \cap I # {}
    OBVIOUS
  <2>1. Cardinality(I) # 0
    BY <1>3, FS_EmptySet
  <2>2. Cardinality(h1) # 0
    BY <1>2, <1>3, <1>5, <2>1 DEF Lesser
  <2>3. h1 # {}
    BY <2>2, FS_EmptySet
  <2> QED
    BY <1>1, <1>3, <1>5, <2>3 DEF halves
<1>18. n >= 2 /\ T # {} => U \cap T # {}
  <2> SUFFICES ASSUME n >= 2, T # {} PROVE U \cap T # {}
    OBVIOUS
  <2>1. Cardinality(T) # 0
    BY <1>4, FS_EmptySet
  <2>2. Cardinality(h2) # 0
    BY <1>2, <1>4, <1>6, <2>1 DEF Lesser
  <2>3. h2 # {}
    BY <2>2, FS_EmptySet
  <2> QED
    BY <1>1, <1>4, <1>6, <2>3 DEF halves
<1> QED
  BY <1>14, <1>15, <1>16, <1>17, <1>18

\* The three queries of the outbox match different rows.
LEMMA QueriesDiffer ==
  /\ \A k \in Outbox : Queried(k) \subseteq Rows
  /\ \A j, k \in Outbox : j # k => Queried(j) \cap Queried(k) = {}
BY DEF Queried, Outbox

\* What the outbox batch holds, in terms of what was due.
Shared(rows, settled, initial, retry) ==
  /\ rows \subseteq settled \cup initial \cup retry
  /\ Cardinality(rows) = Lesser(Limit, Cardinality(settled \cup initial \cup retry))
  /\ rows \cap settled # settled => rows = rows \cap settled
  /\ Limit - Cardinality(rows \cap settled) >= 2 =>
       (initial # {} => rows \cap initial # {}) /\ (retry # {} => rows \cap retry # {})

LEMMA BatchIsShared ==
  ASSUME SweepConstants, Waits
  PROVE  Shared(Batch, Queried("settled"), Queried("initial"), Queried("retry"))
<1> DEFINE S == Queried("settled")
           I == Queried("initial")
           T == Queried("retry")
           s == Oldest(S, Limit)
           n == Limit - Cardinality(s)
           U == unresolved(Oldest(I, n), Oldest(T, n), n)
<1>1. /\ S \subseteq Rows /\ I \subseteq Rows /\ T \subseteq Rows
      /\ S \cap I = {} /\ S \cap T = {} /\ I \cap T = {}
  BY QueriesDiffer DEF Outbox
<1>2. Batch = s \cup U
  BY DEF Batch, Find
<1>3. Limit \in Nat
  BY DEF SweepConstants
<1> HIDE DEF S, I, T
<1>4. /\ s \subseteq S /\ IsFiniteSet(S) /\ IsFiniteSet(s) /\ Cardinality(S) \in Nat /\ Cardinality(s) \in Nat
      /\ Cardinality(s) = Lesser(Limit, Cardinality(S))
  BY <1>1, <1>3, OldestTakes
<1>5. n \in Nat
  BY <1>3, <1>4 DEF Lesser
<1> HIDE DEF s, n
<1>6. /\ U \subseteq I \cup T /\ IsFiniteSet(U)
      /\ Cardinality(U) = Lesser(n, Cardinality(I) + Cardinality(T))
      /\ n >= 2 /\ I # {} => U \cap I # {}
      /\ n >= 2 /\ T # {} => U \cap T # {}
  BY <1>1, <1>5, UnresolvedFills
<1> HIDE DEF U
<1>7. IsFiniteSet(I) /\ IsFiniteSet(T) /\ Cardinality(I) \in Nat /\ Cardinality(T) \in Nat /\ Cardinality(U) \in Nat
  BY <1>1, <1>6, FS_Subset, FS_CardinalityType DEF SweepConstants
<1>8. Cardinality(S \cup I \cup T) = Cardinality(S) + Cardinality(I) + Cardinality(T)
  <2>1. IsFiniteSet(S \cup I) /\ Cardinality(S \cup I) = Cardinality(S) + Cardinality(I)
    BY <1>1, <1>4, <1>7, DisjointUnion
  <2>2. (S \cup I) \cap T = {}
    BY <1>1
  <2> QED
    BY <1>7, <2>1, <2>2, DisjointUnion
<1>9. s \cap U = {}
  BY <1>1, <1>4, <1>6
<1>10. Cardinality(Batch) = Cardinality(s) + Cardinality(U)
  BY <1>2, <1>4, <1>6, <1>9, DisjointUnion
<1>11. Cardinality(Batch) = Lesser(Limit, Cardinality(S \cup I \cup T))
  BY <1>3, <1>4, <1>5, <1>6, <1>7, <1>8, <1>10 DEF Lesser, n
<1>12. Batch \cap S = s /\ Batch \cap I = U \cap I /\ Batch \cap T = U \cap T
  BY <1>1, <1>2, <1>4, <1>6
<1>13. s # S => U = {}
  <2> SUFFICES ASSUME s # S PROVE U = {}
    OBVIOUS
  <2>1. Cardinality(s) # Cardinality(S)
    BY <1>4, FS_Subset
  <2>2. n = 0
    BY <1>3, <1>4, <2>1 DEF Lesser, n
  <2>3. Cardinality(U) = 0
    BY <1>6, <1>7, <2>2 DEF Lesser
  <2> QED
    BY <1>6, <2>3, FS_EmptySet
<1>14. Batch \cap S # S => Batch = Batch \cap S
  BY <1>2, <1>12, <1>13
<1>15. Limit - Cardinality(Batch \cap S) = n
  BY <1>12 DEF n
<1>16. Batch \subseteq S \cup I \cup T
  BY <1>2, <1>4, <1>6
<1> QED
  BY <1>6, <1>11, <1>12, <1>14, <1>15, <1>16 DEF Shared, S, I, T

-----------------------------------------------------------------------------
(* SweepBatch: the inductive invariant.                                    *)

LastShared == Shared(last.rows, last.due["settled"], last.due["initial"], last.due["retry"])

SweepInv ==
  /\ Waits
  /\ IsFiniteSet(UNION {last.due[k] : k \in Outbox}) /\ LastShared

LEMMA SweepInvInit == SweepConstants /\ SweepInit => SweepInv
<1> SUFFICES ASSUME SweepConstants, SweepInit PROVE SweepInv
  OBVIOUS
<1>1. Waits
  BY DEF SweepInit, Waits
<1>2. last.rows = {} /\ last.due = [k \in Outbox |-> {}]
  BY DEF SweepInit
<1>3. last.due["settled"] = {} /\ last.due["initial"] = {} /\ last.due["retry"] = {}
  BY <1>2 DEF Outbox
<1>4. UNION {last.due[k] : k \in Outbox} = {}
  BY <1>2
<1>5. Cardinality({}) = 0 /\ IsFiniteSet({}) /\ Limit \in Nat
  BY FS_EmptySet DEF SweepConstants
<1>6. Shared({}, {}, {}, {})
  <2>1. {} \cup {} \cup {} = {} /\ {} \cap {} = {}
    OBVIOUS
  <2> QED
    BY <1>5, <2>1 DEF Shared, Lesser
<1>7. LastShared
  BY <1>2, <1>3, <1>6 DEF LastShared
<1> QED
  BY <1>1, <1>4, <1>5, <1>7 DEF SweepInv

\* Times stay times.
LEMMA WaitsStep == SweepConstants /\ Waits /\ [SweepNext]_sweepVars => Waits'
<1> SUFFICES ASSUME SweepConstants, Waits, [SweepNext]_sweepVars PROVE Waits'
  OBVIOUS
<1> USE DEF Waits
<1>1. Backoff \in Int /\ Lease \in Int /\ Period \in Int /\ -Old \in Int
  BY DEF SweepConstants
<1>2. ASSUME NEW W, W \in [Rows -> Int], NEW failed PROVE Released(W, failed) \in [Rows -> Int]
  BY <1>1, <1>2 DEF Released
<1>3. ASSUME NEW r \in Rows, NEW k \in ArrivalKinds, elapse(r, k) PROVE Waits'
  BY <1>3 DEF elapse
<1>4. CASE unsafeSystemCleanupExpiredDirectUploads
  <2>1. PICK failed : wait' = Released(wait, failed)
    BY <1>4 DEF unsafeSystemCleanupExpiredDirectUploads
  <2> QED
    BY <1>2, <2>1
<1>5. CASE unsafeSystemCleanupCompletedStaging
  BY <1>5 DEF unsafeSystemCleanupCompletedStaging
<1>6. CASE unsafeSystemRetryPendingDeletions
  <2>1. PICK rows, failed : wait' = Released([r \in Rows |-> IF r \in rows THEN Lease ELSE wait[r]], failed)
    BY <1>6 DEF unsafeSystemRetryPendingDeletions
  <2>2. [r \in Rows |-> IF r \in rows THEN Lease ELSE wait[r]] \in [Rows -> Int]
    BY <1>1
  <2> QED
    BY <1>2, <2>1, <2>2
<1>7. CASE pendingTick
  <2>1. \A r \in Rows : wait[r] \in Int /\ Max({-Old, wait[r] - Period}) \in Int
    BY <1>1, MaxOfTwo
  <2> QED
    BY <1>7, <2>1 DEF pendingTick
<1>8. CASE UNCHANGED sweepVars
  BY <1>8 DEF sweepVars
<1> QED
  BY <1>3, <1>4, <1>5, <1>6, <1>7, <1>8 DEF SweepNext, Cron

LEMMA SweepInvStep == SweepConstants /\ SweepInv /\ [SweepNext]_sweepVars => SweepInv'
<1> SUFFICES ASSUME SweepConstants, SweepInv, [SweepNext]_sweepVars PROVE SweepInv'
  OBVIOUS
<1>1. Waits'
  BY WaitsStep DEF SweepInv
<1>2. CASE last' = last
  BY <1>1, <1>2 DEF SweepInv, LastShared
<1>3. CASE unsafeSystemRetryPendingDeletions
  <2>1. last' = [rows |-> Batch, due |-> [k \in Outbox |-> Queried(k)]]
    BY <1>3 DEF unsafeSystemRetryPendingDeletions
  <2>2. /\ last'.rows = Batch /\ last'.due = [k \in Outbox |-> Queried(k)]
        /\ last'.due["settled"] = Queried("settled") /\ last'.due["initial"] = Queried("initial")
        /\ last'.due["retry"] = Queried("retry")
    BY <2>1 DEF Outbox
  <2>3. LastShared'
    BY <2>2, BatchIsShared DEF LastShared, SweepInv
  <2>4. UNION {last'.due[k] : k \in Outbox} \subseteq Rows
    BY <2>2, QueriesDiffer
  <2>5. IsFiniteSet(UNION {last'.due[k] : k \in Outbox})
    BY <2>4, FS_Subset DEF SweepConstants
  <2> QED
    BY <1>1, <2>3, <2>5 DEF SweepInv
<1>4. last' = last \/ unsafeSystemRetryPendingDeletions
  BY DEF SweepNext, Cron, sweepVars, elapse, pendingTick, unsafeSystemCleanupExpiredDirectUploads,
         unsafeSystemCleanupCompletedStaging
<1> QED
  BY <1>2, <1>3, <1>4

\* For any number of rows, any limit and all delays, whatever fails: an outbox
\* batch holds as many rows as are due or as fit, settled deletions before
\* tombstones, and some of each kind of tombstone that is due when it has room
\* for two (unsafeSystemRetryPendingDeletions).
THEOREM BatchesShared == SweepConstants => (SweepSpec => []BatchShared)
<1> SUFFICES ASSUME SweepConstants PROVE SweepSpec => []BatchShared
  OBVIOUS
<1>1. SweepInv => BatchShared
  <2> SUFFICES ASSUME SweepInv PROVE BatchShared
    OBVIOUS
  <2> DEFINE all == UNION {last.due[k] : k \in Outbox}
  <2>1. Shared(last.rows, last.due["settled"], last.due["initial"], last.due["retry"])
    BY DEF SweepInv, LastShared
  <2>2. all = last.due["settled"] \cup last.due["initial"] \cup last.due["retry"]
    BY DEF Outbox
  <2>3. IsFiniteSet(all)
    BY DEF SweepInv
  <2> HIDE DEF all
  <2>4. Limit \in Int /\ Cardinality(all) \in Int
    BY <2>3, FS_CardinalityType DEF SweepConstants
  <2>5. Cardinality(last.rows) = Min({Limit, Cardinality(all)})
    BY <2>1, <2>2, <2>4, MinOfTwo DEF Shared
  <2>6. BatchFull
    BY <2>1, <2>5 DEF BatchFull, Shared, Took, all
  <2>7. BothTombstones
    BY <2>1 DEF BothTombstones, Shared, Took
  <2> QED
    BY <2>6, <2>7 DEF BatchShared
<1> QED
  BY SweepInvInit, SweepInvStep, <1>1, PTL DEF SweepSpec

-----------------------------------------------------------------------------
(* ActionHistory: the arithmetic of pages.                                 *)

Numbers == Int \cup {Unspecified, Malformed}

LEMMA ProductGrows ==
  ASSUME NEW x \in Nat, NEW y \in Nat, NEW p \in Nat, x <= y
  PROVE  x * p \in Nat /\ y * p \in Nat /\ x * p <= y * p
<1>1. PICK d \in Nat : y = x + d
  <2>1. y - x \in Nat /\ y = x + (y - x)
    OBVIOUS
  <2> QED
    BY <2>1
<1>2. (x + d) * p = x * p + d * p
  OBVIOUS
<1>3. x * p \in Nat /\ d * p \in Nat
  OBVIOUS
<1> QED
  BY <1>1, <1>2, <1>3

LEMMA Quotient ==
  ASSUME NEW a \in Nat, NEW p \in Nat \ {0}
  PROVE  a \div p \in Nat /\ (a \div p) * p <= a /\ a < (a \div p + 1) * p
<1>1. a \div p \in Int /\ a = p * (a \div p) + (a % p) /\ a % p \in 0 .. p - 1
  OBVIOUS
<1> QED
  BY <1>1

\* A page is never longer than the ceilings.
LEMMA PageSizeIs ==
  ASSUME PagesConstants, maxSize \in MaxPageSizes, NEW q, q.size \in Numbers
  PROVE  /\ pageSize(q) \in 1 .. AbsoluteMax
         /\ Finite(maxSize) /\ maxSize >= 2 => pageSize(q) <= maxSize \div 2
<1>1. AbsoluteMax \in Nat \ {0} /\ DefaultMax \in Nat /\ maxSize \in Numbers
  BY DEF PagesConstants, Numbers
<1>2. \A h \in Int : trunc(h) \in Int /\ (h >= 2 => trunc(h) = h \div 2 /\ trunc(h) >= 1)
  BY DEF trunc
<1>3. configuredMax \in 1 .. AbsoluteMax /\ (Finite(maxSize) /\ maxSize >= 2 => configuredMax <= maxSize \div 2)
  <2> DEFINE m == IF Finite(maxSize) THEN trunc(maxSize) ELSE DefaultMax
  <2>1. m \in Int /\ (Finite(maxSize) /\ maxSize >= 2 => m = maxSize \div 2 /\ m >= 1)
    BY <1>1, <1>2 DEF Finite, Numbers
  <2>2. configuredMax = Lesser(Greater(1, m), AbsoluteMax)
    BY DEF configuredMax
  <2> HIDE DEF m
  <2> QED
    BY <1>1, <2>1, <2>2 DEF Lesser, Greater
<1>4. Finite(q.size) => trunc(q.size) \in Int
  BY <1>2 DEF Finite, Numbers
<1>5. pageSize(q) \in 1 .. configuredMax
  BY <1>1, <1>3, <1>4 DEF pageSize, Lesser, Greater
<1>6. Finite(maxSize) => maxSize \in Int
  BY <1>1 DEF Finite, Numbers
<1> QED
  BY <1>1, <1>3, <1>5, <1>6

\* No query starts beyond the largest offset, and a page below it starts where
\* the pages before it ended.
LEMMA SkipIs ==
  ASSUME PagesConstants, maxSize \in MaxPageSizes, NEW q, q.size \in Numbers, q.page \in Numbers
  PROVE  /\ skip(q) \in 0 .. MaxOffset
         /\ \A k \in Nat : q.page = 2 * k /\ k * pageSize(q) <= MaxOffset => skip(q) = k * pageSize(q)
<1> DEFINE P == pageSize(q)
           d == MaxOffset \div P
           n == IF Finite(q.page) THEN Greater(0, trunc(q.page)) ELSE 0
<1>1. P \in Nat \ {0} /\ MaxOffset \in Nat
  BY PageSizeIs DEF PagesConstants
<1>2. d \in Nat /\ d * P <= MaxOffset /\ MaxOffset < (d + 1) * P
  <2> HIDE DEF P
  <2> QED
    BY <1>1, Quotient
<1>3. n \in Nat
  <2>1. \A h \in Int : trunc(h) \in Int
    BY DEF trunc
  <2>2. Finite(q.page) => trunc(q.page) \in Int
    BY <2>1 DEF Finite, Numbers
  <2> QED
    BY <2>2 DEF Greater
<1>4. pageNumber(q) = Lesser(n, d) /\ skip(q) = pageNumber(q) * P
  BY DEF pageNumber, skip
<1>5. ASSUME NEW k \in Nat, q.page = 2 * k PROVE n = k
  <2>1. q.page \in Int /\ Finite(q.page)
    BY <1>5 DEF Finite, PagesConstants
  <2>2. trunc(2 * k) = k
    BY DEF trunc
  <2> QED
    BY <1>5, <2>1, <2>2 DEF Greater
<1> HIDE DEF P, d, n
<1>6. pageNumber(q) \in Nat /\ pageNumber(q) <= d
  BY <1>2, <1>3, <1>4 DEF Lesser
<1>7. skip(q) \in 0 .. MaxOffset
  <2>1. pageNumber(q) * P \in Nat /\ d * P \in Nat /\ pageNumber(q) * P <= d * P
    BY <1>1, <1>2, <1>6, ProductGrows
  <2> QED
    BY <1>1, <1>2, <1>4, <2>1
<1>8. ASSUME NEW k \in Nat, q.page = 2 * k, k * P <= MaxOffset PROVE skip(q) = k * P
  <2>1. k <= d
    <3> SUFFICES ASSUME d + 1 <= k PROVE FALSE
      BY <1>2
    <3>1. (d + 1) * P \in Nat /\ k * P \in Nat /\ (d + 1) * P <= k * P
      BY <1>1, <1>2, ProductGrows
    <3> QED
      BY <1>1, <1>2, <1>8, <3>1
  <2>2. pageNumber(q) = k
    BY <1>2, <1>4, <1>5, <1>8, <2>1 DEF Lesser
  <2> QED
    BY <1>4, <2>2
<1> QED
  BY <1>7, <1>8 DEF P

-----------------------------------------------------------------------------
(* ActionHistory: the order of a history.                                  *)

\* How many rows of S are newer than r.
Position(S, r) == Cardinality({q \in S : q.createdAt > r.createdAt})

\* Rows have times, not always their own.
Timed(S) == IsFiniteSet(S) /\ \A r \in S : r.createdAt \in Int

\* A row only moves back when others are inserted.
LEMMA PositionGrows ==
  ASSUME NEW S, NEW T, S \subseteq T, IsFiniteSet(T), NEW r
  PROVE  Position(S, r) \in Nat /\ Position(T, r) \in Nat /\ Position(S, r) <= Position(T, r)
<1> DEFINE A == {q \in S : q.createdAt > r.createdAt}
           B == {q \in T : q.createdAt > r.createdAt}
<1>1. A \subseteq B /\ B \subseteq T
  OBVIOUS
<1> HIDE DEF A, B
<1>2. IsFiniteSet(B) /\ IsFiniteSet(A) /\ Cardinality(A) <= Cardinality(B)
  BY <1>1, FS_Subset
<1>3. Cardinality(A) \in Nat /\ Cardinality(B) \in Nat
  BY <1>2, FS_CardinalityType
<1> QED
  BY <1>2, <1>3 DEF Position, A, B

LEMMA HistoryTimed ==
  ASSUME Timed(history), NEW t, NEW res
  PROVE  /\ HistoryOf(t, res) \subseteq history /\ Timed(HistoryOf(t, res))
         /\ Cardinality(HistoryOf(t, res)) <= Cardinality(history)
         /\ Cardinality(history) \in Nat /\ Cardinality(HistoryOf(t, res)) \in Nat
<1>1. HistoryOf(t, res) \subseteq history
  BY DEF HistoryOf
<1>2. IsFiniteSet(HistoryOf(t, res)) /\ Cardinality(HistoryOf(t, res)) <= Cardinality(history)
  BY <1>1, FS_Subset DEF Timed
<1>3. Timed(HistoryOf(t, res))
  BY <1>1, <1>2 DEF Timed
<1> QED
  BY <1>1, <1>2, <1>3, FS_CardinalityType DEF Timed

\* In every order that a query may answer in, a row that is tied with no other has
\* all newer rows before it and no other: ties elsewhere do not move it.
LEMMA OrderIs ==
  ASSUME NEW S, Timed(S), NEW all \in Orders(S)
  PROVE  /\ all \in Seq(S) /\ Len(all) = Cardinality(S)
         /\ \A r \in S : ~Tied(S, r) => Position(S, r) + 1 \in 1 .. Len(all) /\ all[Position(S, r) + 1] = r
<1> DEFINE N == Cardinality(S)
<1>1. N \in Nat /\ \A r \in S : r.createdAt \in Int
  BY FS_CardinalityType DEF Timed
<1>2. /\ all \in [1 .. N -> S]
      /\ \A i, j \in 1 .. N : all[i] = all[j] => i = j
      /\ \A r \in S : \E i \in 1 .. N : all[i] = r
      /\ \A i, j \in 1 .. N : i < j => all[i].createdAt >= all[j].createdAt
  BY DEF Orders, Bijection, Injection, IsInjective, Surjection
<1> HIDE DEF N
<1>3. all \in Seq(S) /\ Len(all) = N
  BY <1>1, <1>2
<1>4. ASSUME NEW r \in S, ~Tied(S, r)
      PROVE  Position(S, r) + 1 \in 1 .. N /\ all[Position(S, r) + 1] = r
  <2>1. PICK i \in 1 .. N : all[i] = r
    BY <1>2
  <2> DEFINE newer == {q \in S : q.createdAt > r.createdAt}
             first == 1 .. i - 1
             f == [j \in first |-> all[j]]
  <2>2. ASSUME NEW j \in first PROVE all[j] \in newer
    <3>1. j \in 1 .. N /\ j < i
      BY <1>1
    <3>2. all[j] \in S /\ all[j].createdAt >= r.createdAt /\ all[j] # r
      BY <1>2, <2>1, <3>1
    <3>3. all[j].createdAt # r.createdAt
      BY <1>4, <3>2 DEF Tied
    <3> QED
      BY <1>1, <3>2, <3>3
  <2>3. ASSUME NEW q \in newer PROVE \E j \in first : all[j] = q
    <3>1. PICK j \in 1 .. N : all[j] = q
      BY <1>2
    <3>2. ~(i < j) /\ i # j
      BY <1>1, <1>2, <2>1, <3>1
    <3>3. j \in first
      BY <1>1, <3>2
    <3> QED
      BY <3>1, <3>3
  <2>4. \A j, k \in first : all[j] = all[k] => j = k
    BY <1>1, <1>2
  <2> HIDE DEF newer, first
  <2>5. f \in Bijection(first, newer)
    <3>1. f \in [first -> newer]
      BY <2>2
    <3> QED
      BY <2>3, <2>4, <3>1 DEF Bijection, Injection, IsInjective, Surjection
  <2>6. ExistsBijection(first, newer)
    BY <2>5 DEF ExistsBijection
  <2>7. IsFiniteSet(first) /\ Cardinality(first) = i - 1
    <3>1. i - 1 \in Int /\ 1 \in Int /\ (IF 1 > i - 1 THEN 0 ELSE (i - 1) - 1 + 1) = i - 1
      BY <1>1
    <3> QED
      BY <3>1, FS_Interval DEF first
  <2>8. Cardinality(newer) = i - 1
    BY <2>6, <2>7, FS_Bijection
  <2>9. Position(S, r) = i - 1 /\ i - 1 + 1 = i
    BY <1>1, <2>8 DEF Position, newer
  <2> QED
    BY <2>1, <2>9
<1> QED
  BY <1>3, <1>4 DEF N

\* What lies within a page is on it.
LEMMA PageHolds ==
  ASSUME NEW S, NEW all \in Seq(S), NEW from \in Nat, NEW take \in Nat \ {0},
         NEW items, items = SubSeq(all, from + 1, Lesser(from + take, Len(all)))
  PROVE  /\ items \in Seq(S)
         /\ \A i \in 1 .. Len(all) : from < i /\ i <= from + take => items # << >> /\ all[i] \in Range(items)
<1> DEFINE n == Lesser(from + take, Len(all))
<1>1. Len(all) \in Nat /\ n \in Int /\ n <= Len(all) /\ n <= from + take
  BY DEF Lesser
<1>2. \A i \in from + 1 .. n : all[i] \in S
  BY <1>1, ElementOfSeq
<1>3. /\ items \in Seq(S)
      /\ Len(items) = IF from + 1 <= n THEN n - (from + 1) + 1 ELSE 0
      /\ \A i \in 1 .. n - (from + 1) + 1 : items[i] = all[from + 1 + i - 1]
  <2> HIDE DEF n
  <2>1. items = SubSeq(all, from + 1, n) /\ from + 1 \in Int
    BY DEF n
  <2>2. ASSUME NEW m \in Int, NEW k \in Int, \A i \in m .. k : all[i] \in S
        PROVE  /\ SubSeq(all, m, k) \in Seq(S)
               /\ Len(SubSeq(all, m, k)) = IF m <= k THEN k - m + 1 ELSE 0
               /\ \A i \in 1 .. k - m + 1 : SubSeq(all, m, k)[i] = all[m + i - 1]
    BY <2>2, SubSeqProperties
  <2> DEFINE m == from + 1
  <2>3. m \in Int /\ n \in Int /\ (\A i \in m .. n : all[i] \in S) /\ items = SubSeq(all, m, n)
    BY <1>1, <1>2, <2>1
  <2> HIDE DEF m
  <2>4. /\ SubSeq(all, m, n) \in Seq(S)
        /\ Len(SubSeq(all, m, n)) = IF m <= n THEN n - m + 1 ELSE 0
        /\ \A i \in 1 .. n - m + 1 : SubSeq(all, m, n)[i] = all[m + i - 1]
    BY <2>2, <2>3, Zenon
  <2> QED
    BY <2>3, <2>4, Zenon DEF m
<1>4. ASSUME NEW i \in 1 .. Len(all), from < i, i <= from + take
      PROVE  items # << >> /\ all[i] \in Range(items)
  <2>1. i <= n /\ i \in Int
    BY <1>4 DEF Lesser
  <2> HIDE DEF n
  <2>2. i - from \in 1 .. n - (from + 1) + 1 /\ from + 1 <= n
    BY <1>1, <1>4, <2>1
  <2>3. i - from \in 1 .. Len(items) /\ Len(items) # 0
    BY <1>1, <1>3, <2>2
  <2>4. items[i - from] = all[i]
    <3>1. from + 1 + (i - from) - 1 = i
      BY <2>1
    <3> QED
      BY <1>3, <2>2, <3>1
  <2>5. DOMAIN items = 1 .. Len(items)
    BY <1>3, LenProperties
  <2>6. items # << >>
    BY <1>3, <2>3, EmptySeq
  <2> QED
    BY <2>3, <2>4, <2>5, <2>6 DEF Range
<1> QED
  BY <1>3, <1>4

-----------------------------------------------------------------------------
(* ActionHistory: the inductive invariant.                                 *)

\* A request as it was asked; nothing has been answered to it yet.
AskedOK ==
  asked # Unspecified =>
    /\ asked = [pc |-> asked.pc, query |-> asked.query, tenant |-> asked.tenant]
    /\ asked.query.size \in Numbers /\ asked.query.page \in Numbers
    /\ answer = Unspecified

AnswerOK ==
  HasPage =>
    /\ \A i \in DOMAIN answer.items : /\ answer.items[i].tenant = answer.tenant
                                      /\ answer.items[i].resource = answer.resource
    /\ answer.skip \in 0 .. MaxOffset /\ answer.take \in 1 .. AbsoluteMax
    /\ Finite(maxSize) /\ maxSize >= 2 => answer.take <= maxSize \div 2

SessionRows == HistoryOf(context.tenant, session.resource)

\* The rows that were there when the client began and are tied with no other: those
\* it must not miss.
Owed == {r \in session.before : ~Tied(SessionRows, r)}

\* The rows of U lie k rows or more behind the newest one.
Behind(U, k) == \A r \in U : Position(SessionRows, r) >= k

\* A client between two of its steps: the rows it is owed and has not seen lie
\* behind the pages it has asked for.
Seen ==
  /\ session.ended => Owed \subseteq session.got
  /\ asked # Unspecified => Behind(Owed \ session.got, session.page * pageSize(session))
  /\ asked = Unspecified /\ HasPage /\ ~session.ended =>
       /\ Behind(Owed \ (session.got \cup Range(answer.items)), (session.page + 1) * pageSize(session))
       /\ answer.items = << >> => Owed \subseteq session.got

SessionOK ==
  session # Unspecified =>
    /\ session = [size |-> session.size, page |-> session.page, resource |-> session.resource, got |-> session.got,
                  ended |-> session.ended, before |-> session.before]
    /\ session.page \in Nat /\ session.size \in Numbers /\ session.ended \in BOOLEAN
    /\ context.tenant # Unspecified
    /\ session.before \subseteq SessionRows
    /\ asked # Unspecified =>
         /\ asked.tenant = context.tenant
         /\ asked.query = [resource |-> session.resource, page |-> 2 * session.page, size |-> session.size]
    /\ Cardinality(history) <= MaxOffset => Seen

PagesInv == maxSize \in MaxPageSizes /\ Timed(history) /\ AskedOK /\ AnswerOK /\ SessionOK

LEMMA PagesInvInit == PagesConstants /\ PagesInit => PagesInv
<1> SUFFICES ASSUME PagesConstants, PagesInit PROVE PagesInv
  OBVIOUS
<1>1. Timed(history)
  BY FS_EmptySet DEF PagesInit, Timed
<1> QED
  BY <1>1 DEF PagesInit, PagesInv, AskedOK, AnswerOK, SessionOK, HasPage

-----------------------------------------------------------------------------
(* ActionHistory: the steps.                                               *)

LEMMA AskStep ==
  ASSUME PagesConstants, PagesInv, NEW query, query.size \in Numbers, query.page \in Numbers,
         session = Unspecified, Ask(query)
  PROVE  PagesInv'
<1>1. history' = history /\ maxSize' = maxSize /\ session' = Unspecified /\ asked = Unspecified
  BY DEF Ask
<1>2. CASE asked' = asked /\ answer' = NotFound
  BY <1>1, <1>2 DEF PagesInv, AskedOK, AnswerOK, SessionOK, HasPage
<1>3. CASE asked' = [pc |-> "policy", query |-> query, tenant |-> currentTenant] /\ answer' = Unspecified
  BY <1>1, <1>3 DEF PagesInv, AskedOK, AnswerOK, SessionOK, HasPage
<1> QED
  BY <1>2, <1>3 DEF Ask

LEMMA AuthorizeReadStep ==
  ASSUME PagesConstants, PagesInv, NEW decision, authorizeRead(decision)
  PROVE  PagesInv'
<1>1. history' = history /\ maxSize' = maxSize /\ session' = session /\ context' = context /\ asked # Unspecified
  BY DEF authorizeRead
<1>2. /\ asked = [pc |-> asked.pc, query |-> asked.query, tenant |-> asked.tenant] /\ answer = Unspecified
      /\ asked.query.size \in Numbers /\ asked.query.page \in Numbers
  BY <1>1 DEF PagesInv, AskedOK
<1>3. pageSize(session)' = pageSize(session) /\ SessionRows' = SessionRows /\ Owed' = Owed
  BY <1>1 DEF pageSize, configuredMax, SessionRows, HistoryOf, Owed
<1>4. CASE asked' = [asked EXCEPT !.pc = "query"] /\ answer' = answer
  <2>1. asked' = [pc |-> "query", query |-> asked.query, tenant |-> asked.tenant]
    BY <1>2, <1>4
  <2>2. AskedOK' /\ AnswerOK' /\ ~HasPage'
    BY <1>2, <1>4, <2>1 DEF AskedOK, AnswerOK, HasPage
  <2>3. SessionOK'
    <3> SUFFICES ASSUME session # Unspecified PROVE SessionOK'
      BY <1>1 DEF SessionOK
    <3>1. asked'.tenant = asked.tenant /\ asked'.query = asked.query
      BY <2>1
    <3>2. Cardinality(history) <= MaxOffset => Seen'
      BY <1>1, <1>3, <2>2 DEF PagesInv, SessionOK, Seen, Behind
    <3> QED
      BY <1>1, <1>3, <3>1, <3>2 DEF PagesInv, SessionOK
  <2> QED
    BY <1>1, <2>2, <2>3 DEF PagesInv
<1>5. CASE asked' = Unspecified /\ answer' \in {ServerError, NotFound}
  <2>1. AskedOK' /\ AnswerOK' /\ ~HasPage'
    BY <1>5 DEF AskedOK, AnswerOK, HasPage
  <2>2. SessionOK'
    <3> SUFFICES ASSUME session # Unspecified PROVE SessionOK'
      BY <1>1 DEF SessionOK
    <3>1. Cardinality(history) <= MaxOffset => Seen'
      BY <1>1, <1>3, <1>5, <2>1 DEF PagesInv, SessionOK, Seen, Behind
    <3> QED
      BY <1>1, <1>3, <1>5, <3>1 DEF PagesInv, SessionOK
  <2> QED
    BY <1>1, <2>1, <2>2 DEF PagesInv
<1> QED
  BY <1>4, <1>5 DEF authorizeRead

\* The rows of a page: of the tenant and the resource of the request, and all
\* that lie within the page.
LEMMA FindStep == PagesConstants /\ PagesInv /\ findAndCount => PagesInv'
<1> SUFFICES ASSUME PagesConstants, PagesInv, findAndCount PROVE PagesInv'
  OBVIOUS
<1> DEFINE t == asked.tenant
           res == asked.query.resource
           S == HistoryOf(t, res)
           from == skip(asked.query)
           take == pageSize(asked.query)
<1>0. PICK all \in Orders(S) :
        answer' = [items |-> SubSeq(all, from + 1, Lesser(from + take, Len(all))), skip |-> from, take |-> take,
                   tenant |-> t, resource |-> res]
  BY DEF findAndCount
<1> DEFINE items == SubSeq(all, from + 1, Lesser(from + take, Len(all)))
<1>1. /\ history' = history /\ maxSize' = maxSize /\ session' = session /\ context' = context
      /\ asked # Unspecified /\ asked' = Unspecified
      /\ answer' = [items |-> items, skip |-> from, take |-> take, tenant |-> t, resource |-> res]
  BY <1>0 DEF findAndCount
<1>2. /\ maxSize \in MaxPageSizes /\ Timed(history) /\ MaxOffset \in Nat /\ AbsoluteMax \in Nat
      /\ asked.query.size \in Numbers /\ asked.query.page \in Numbers
  BY <1>1 DEF PagesInv, AskedOK, PagesConstants
<1>3. /\ take \in 1 .. AbsoluteMax /\ take \in Nat \ {0}
      /\ Finite(maxSize) /\ maxSize >= 2 => take <= maxSize \div 2
  BY <1>2, PageSizeIs
<1>4. from \in 0 .. MaxOffset /\ from \in Nat
  BY <1>2, SkipIs
<1>5. /\ all \in Seq(S) /\ Len(all) = Cardinality(S)
      /\ \A r \in S : ~Tied(S, r) => Position(S, r) + 1 \in 1 .. Len(all) /\ all[Position(S, r) + 1] = r
  <2>1. Timed(S)
    BY <1>2, HistoryTimed
  <2> HIDE DEF S
  <2> QED
    BY <2>1, OrderIs
<1> HIDE DEF from, take, S
<1>6. /\ items \in Seq(S)
      /\ \A i \in 1 .. Len(all) : from < i /\ i <= from + take => items # << >> /\ all[i] \in Range(items)
  BY <1>3, <1>4, <1>5, PageHolds
<1> HIDE DEF items
<1>7. answer'.items = items /\ answer'.skip = from /\ answer'.take = take /\ answer'.tenant = t /\ answer'.resource = res
  BY <1>1
<1>8. \A i \in DOMAIN items : items[i].tenant = t /\ items[i].resource = res
  <2>1. \A i \in DOMAIN items : items[i] \in S
    BY <1>6, LenProperties, ElementOfSeq
  <2> QED
    BY <2>1 DEF S, HistoryOf
<1>9. AnswerOK'
  BY <1>1, <1>3, <1>4, <1>7, <1>8 DEF AnswerOK
<1>10. AskedOK'
  BY <1>1 DEF AskedOK
<1>11. SessionOK'
  <2> SUFFICES ASSUME session # Unspecified PROVE SessionOK'
    BY <1>1 DEF SessionOK
  <2> DEFINE P == pageSize(session)
             k == session.page
             new == Owed \ session.got
  <2>1. /\ session.page \in Nat /\ session.size \in Numbers /\ session.before \subseteq SessionRows
        /\ t = context.tenant /\ asked.query = [resource |-> session.resource, page |-> 2 * k, size |-> session.size]
        /\ Cardinality(history) <= MaxOffset => Seen
    BY <1>1 DEF PagesInv, SessionOK
  <2>2. /\ asked.query.page = 2 * k /\ P = take /\ S = SessionRows
    BY <2>1 DEF pageSize, take, S, SessionRows
  <2>3. pageSize(session)' = P /\ SessionRows' = SessionRows /\ Owed' = Owed
    BY <1>1 DEF pageSize, configuredMax, SessionRows, HistoryOf, Owed
  <2> HIDE DEF P
  <2>4. ASSUME Cardinality(history) <= MaxOffset PROVE Seen'
    <3>1. Behind(new, k * P) /\ (session.ended => Owed \subseteq session.got)
      BY <1>1, <2>1, <2>4 DEF Seen, P
    <3>2. ASSUME NEW r \in new
          PROVE  items # << >> /\ (r \notin Range(items) => Position(SessionRows, r) >= (k + 1) * P)
      <4> DEFINE x == Position(S, r)
      <4>1. r \in S /\ ~Tied(S, r) /\ x >= k * P
        BY <2>1, <2>2, <3>1, <3>2 DEF Behind, Owed
      <4>2. x + 1 \in 1 .. Len(all) /\ all[x + 1] = r /\ x \in Nat
        <5>1. x \in Nat
          BY <1>2, <4>1, PositionGrows, HistoryTimed DEF S, Timed
        <5> QED
          BY <1>5, <4>1, <5>1
      <4>3. Len(all) <= MaxOffset /\ Len(all) \in Nat
        <5>1. Cardinality(S) <= Cardinality(history) /\ Cardinality(history) \in Nat /\ Cardinality(S) \in Nat
          BY <1>2, HistoryTimed DEF S
        <5> QED
          BY <1>2, <1>5, <2>4, <5>1
      <4> HIDE DEF x
      <4>4. k * P \in Nat /\ (k + 1) * P = k * P + P /\ P \in Nat \ {0}
        BY <1>3, <2>1, <2>2
      <4>5. k * P <= MaxOffset
        BY <1>2, <4>1, <4>2, <4>3, <4>4
      <4>6. from = k * P
        BY <1>2, <2>1, <2>2, <4>5, SkipIs DEF from, take
      <4>7. from < x + 1
        BY <1>4, <4>1, <4>2, <4>4, <4>6
      <4>8. CASE x + 1 <= from + take
        BY <1>6, <4>2, <4>7, <4>8
      <4>9. CASE ~(x + 1 <= from + take)
        <5>1. x >= (k + 1) * P
          BY <1>4, <2>2, <4>2, <4>4, <4>6, <4>9
        <5>2. from + 1 \in 1 .. Len(all) /\ from < from + 1 /\ from + 1 <= from + take
          BY <1>3, <1>4, <4>2, <4>3, <4>7
        <5>3. items # << >>
          BY <1>6, <5>2
        <5> QED
          BY <2>2, <5>1, <5>3 DEF x
      <4> QED
        BY <4>8, <4>9
    <3>3. Behind(Owed \ (session.got \cup Range(items)), (k + 1) * P)
      BY <3>2 DEF Behind
    <3>4. items = << >> => Owed \subseteq session.got
      BY <3>2
    <3> QED
      BY <1>1, <1>7, <2>3, <3>1, <3>3, <3>4 DEF Seen, Behind
  <2> QED
    BY <1>1, <2>3, <2>4 DEF PagesInv, SessionOK
<1> QED
  BY <1>1, <1>9, <1>10, <1>11 DEF PagesInv

\* A row that is inserted pushes others back: what lay behind the pages asked for
\* still does.
LEMMA RecordStep ==
  ASSUME PagesConstants, PagesInv, NEW tenant, NEW resource, NEW stamp \in Stamps, Record(tenant, resource, stamp)
  PROVE  PagesInv'
<1> DEFINE row == [id |-> Cardinality({r \in HistoryOf(tenant, resource) : r.createdAt = stamp}), tenant |-> tenant,
                   resource |-> resource, createdAt |-> stamp]
<1>1. /\ history' = history \cup {row}
      /\ maxSize' = maxSize /\ context' = context /\ asked' = asked /\ answer' = answer /\ session' = session
  BY DEF Record
<1>2. Timed(history) /\ maxSize \in MaxPageSizes /\ stamp \in Int /\ MaxOffset \in Nat /\ row.createdAt = stamp
  BY DEF PagesInv, PagesConstants
<1> HIDE DEF row
<1>3. IsFiniteSet(history') /\ Cardinality(history) <= Cardinality(history')
      /\ Cardinality(history) \in Nat /\ Cardinality(history') \in Nat
  <2>1. IsFiniteSet(history')
    BY <1>1, <1>2, FS_AddElement DEF Timed
  <2>2. history \subseteq history'
    BY <1>1
  <2> QED
    BY <2>1, <2>2, FS_Subset, FS_CardinalityType
<1>4. Timed(history')
  BY <1>1, <1>2, <1>3 DEF Timed
<1>5. AskedOK' /\ AnswerOK' /\ (HasPage' <=> HasPage)
  BY <1>1 DEF PagesInv, AskedOK, AnswerOK, HasPage
<1>6. SessionOK'
  <2> SUFFICES ASSUME session # Unspecified PROVE SessionOK'
    BY <1>1 DEF SessionOK
  <2>1. pageSize(session)' = pageSize(session)
    BY <1>1 DEF pageSize, configuredMax
  <2>2. SessionRows \subseteq SessionRows' /\ SessionRows' \subseteq history'
    BY <1>1 DEF SessionRows, HistoryOf
  <2>3. IsFiniteSet(SessionRows')
    BY <1>3, <2>2, FS_Subset
  <2> DEFINE S == SessionRows
             T == SessionRows'
             P == pageSize(session)
  <2>4. P \in Nat /\ session.page \in Nat
    BY <1>2, PageSizeIs DEF PagesInv, SessionOK, PagesConstants
  <2>5. ASSUME NEW U, NEW k \in Nat, Behind(U, k)
        PROVE  \A r \in U : Position(T, r) >= k
    <3> TAKE r \in U
    <3>1. Position(S, r) >= k
      BY <2>5 DEF Behind
    <3> HIDE DEF S, T
    <3>2. Position(S, r) \in Nat /\ Position(T, r) \in Nat /\ Position(S, r) <= Position(T, r)
      BY <2>2, <2>3, PositionGrows DEF S, T
    <3> QED
      BY <3>1, <3>2
  <2>6. session.page * P \in Nat /\ (session.page + 1) * P \in Nat
    <3> HIDE DEF P
    <3> QED
      BY <2>4
  <2>7. ASSUME Cardinality(history') <= MaxOffset PROVE Seen'
    <3>1. Seen
      BY <1>2, <1>3, <2>7 DEF PagesInv, SessionOK
    <3> DEFINE old == Owed \ session.got
               rest == Owed \ (session.got \cup Range(answer.items))
    <3>2. asked # Unspecified => \A r \in old : Position(T, r) >= session.page * P
      BY <2>5, <2>6, <3>1 DEF Seen
    <3>3. asked = Unspecified /\ HasPage /\ ~session.ended => \A r \in rest : Position(T, r) >= (session.page + 1) * P
      BY <2>5, <2>6, <3>1 DEF Seen
    <3>4. Owed' \subseteq Owed
      BY <1>1, <2>2 DEF Owed, Tied
    <3> QED
      BY <1>1, <1>5, <2>1, <3>1, <3>2, <3>3, <3>4 DEF Seen, Behind
  <2>8. session.before \subseteq SessionRows'
    BY <2>2 DEF PagesInv, SessionOK
  <2> QED
    BY <1>1, <2>7, <2>8 DEF PagesInv, SessionOK
<1> QED
  BY <1>1, <1>2, <1>4, <1>5, <1>6 DEF PagesInv

LEMMA SetTenantStep ==
  ASSUME PagesInv, NEW tenant, SetTenant(tenant)
  PROVE  PagesInv'
BY DEF SetTenant, PagesInv, AskedOK, AnswerOK, SessionOK, HasPage

LEMMA BeginStep ==
  ASSUME PagesConstants, PagesInv, NEW size \in PageSizes, NEW resource, Begin(size, resource)
  PROVE  PagesInv'
<1> DEFINE query == [resource |-> resource, page |-> 0, size |-> size]
           rows == HistoryOf(context.tenant, resource)
<1>1. /\ history' = history /\ maxSize' = maxSize /\ context' = context /\ answer' = Unspecified
      /\ context.tenant # Unspecified
      /\ session' = [size |-> size, page |-> 0, resource |-> resource, got |-> {}, ended |-> FALSE, before |-> rows]
      /\ asked' = [pc |-> "policy", query |-> query, tenant |-> context.tenant]
  BY DEF Begin, currentTenant
<1>2. Timed(history) /\ maxSize \in MaxPageSizes /\ size \in Numbers
  BY DEF PagesInv, PagesConstants, Numbers
<1>3. AskedOK' /\ AnswerOK' /\ ~HasPage'
  BY <1>1, <1>2 DEF AskedOK, AnswerOK, HasPage, Numbers
<1>4. SessionOK'
  <2>1. /\ session'.size = size /\ session'.page = 0 /\ session'.resource = resource /\ session'.got = {}
        /\ session'.ended = FALSE /\ session'.before = rows
    BY <1>1
  <2>2. SessionRows' = rows
    BY <1>1, <2>1 DEF SessionRows, HistoryOf
  <2>3. asked'.tenant = context.tenant /\ asked'.query = [resource |-> resource, page |-> 2 * 0, size |-> size]
    BY <1>1
  <2>4. \A r \in rows : Position(rows, r) \in Nat
    <3>1. IsFiniteSet(rows)
      BY <1>2, HistoryTimed DEF Timed
    <3> HIDE DEF rows
    <3> QED
      BY <3>1, PositionGrows
  <2>5. pageSize(session') \in Nat
    BY <1>2, <2>1, PageSizeIs DEF PagesConstants
  <2>6. pageSize(session)' = pageSize(session')
    BY <1>1 DEF pageSize, configuredMax
  <2> HIDE DEF rows
  <2>7. session'.page * pageSize(session)' = 0
    BY <2>1, <2>5, <2>6
  <2>8. Seen'
    <3>1. Behind(Owed \ session.got, session.page * pageSize(session))'
      BY <2>1, <2>2, <2>4, <2>7 DEF Behind, Owed
    <3> QED
      BY <1>3, <2>1, <3>1 DEF Seen
  <2>9. session' = [size |-> session'.size, page |-> session'.page, resource |-> session'.resource,
                    got |-> session'.got, ended |-> session'.ended, before |-> session'.before]
    BY <1>1, <2>1
  <2> QED
    BY <1>1, <1>2, <2>1, <2>2, <2>3, <2>8, <2>9 DEF SessionOK
<1> QED
  BY <1>1, <1>2, <1>3, <1>4 DEF PagesInv

LEMMA ContinueStep == PagesConstants /\ PagesInv /\ Continue => PagesInv'
<1> SUFFICES ASSUME PagesConstants, PagesInv, Continue PROVE PagesInv'
  OBVIOUS
<1> DEFINE items == answer.items
           k == session.page
           query == [resource |-> session.resource, page |-> 2 * (k + 1), size |-> session.size]
<1>1. /\ history' = history /\ maxSize' = maxSize /\ context' = context /\ answer' = Unspecified
      /\ session # Unspecified /\ ~session.ended /\ asked = Unspecified /\ HasPage
      /\ session' = [session EXCEPT !.page = @ + 1, !.got = @ \cup Range(items), !.ended = items = << >>]
      /\ asked' = IF items = << >> THEN Unspecified
                  ELSE [pc |-> "policy", tenant |-> currentTenant, query |-> query]
  BY DEF Continue, HasPage
<1>2. /\ session = [size |-> session.size, page |-> k, resource |-> session.resource, got |-> session.got,
                    ended |-> session.ended, before |-> session.before]
      /\ k \in Nat /\ session.size \in Numbers /\ context.tenant # Unspecified /\ session.before \subseteq SessionRows
      /\ Cardinality(history) <= MaxOffset => Seen
  BY <1>1 DEF PagesInv, SessionOK
<1>3. session' = [size |-> session.size, page |-> k + 1, resource |-> session.resource,
                  got |-> session.got \cup Range(items), ended |-> (items = << >>), before |-> session.before]
  BY <1>1, <1>2
<1>4. /\ session'.size = session.size /\ session'.page = k + 1 /\ session'.resource = session.resource
      /\ session'.got = session.got \cup Range(items) /\ session'.ended = (items = << >>)
      /\ session'.before = session.before
  BY <1>3
<1>5. /\ session' = [size |-> session'.size, page |-> session'.page, resource |-> session'.resource,
                     got |-> session'.got, ended |-> session'.ended, before |-> session'.before]
      /\ session'.page \in Nat /\ session'.size \in Numbers /\ session'.ended \in BOOLEAN
  BY <1>2, <1>3, <1>4
<1>6. maxSize' \in MaxPageSizes /\ Timed(history')
  BY <1>1 DEF PagesInv
<1>7. CASE items = << >>
  <2>1. asked' = Unspecified /\ session'.ended
    BY <1>1, <1>4, <1>7
  <2>2. AskedOK' /\ AnswerOK' /\ ~HasPage'
    BY <1>1, <2>1 DEF AskedOK, AnswerOK, HasPage
  <2>3. SessionRows' = SessionRows /\ Owed' = Owed
    BY <1>1, <1>4 DEF SessionRows, HistoryOf, Owed
  <2>4. Cardinality(history) <= MaxOffset => Seen'
    BY <1>1, <1>2, <1>4, <1>7, <2>1, <2>2, <2>3 DEF Seen
  <2>5. SessionOK'
    <3> HIDE DEF items, k
    <3>1. session'.before \subseteq SessionRows' /\ context'.tenant # Unspecified /\ history' = history
      BY <1>1, <1>2, <1>4, <2>3
    <3> QED
      BY <1>5, <2>1, <2>4, <3>1 DEF SessionOK
  <2> QED
    BY <1>6, <2>2, <2>5 DEF PagesInv
<1>8. CASE items # << >>
  <2>1. asked' = [pc |-> "policy", tenant |-> context.tenant, query |-> query] /\ session'.ended = FALSE
    BY <1>1, <1>2, <1>4, <1>8 DEF currentTenant
  <2>2. asked'.tenant = context.tenant /\ asked'.query = query /\ asked'.pc = "policy"
        /\ asked'.query.size = session.size /\ asked'.query.page = 2 * (k + 1)
    BY <2>1
  <2>3. AskedOK'
    <3>1. 2 * (k + 1) \in Numbers
      BY <1>2 DEF Numbers
    <3> QED
      BY <1>1, <1>2, <2>1, <2>2, <3>1 DEF AskedOK
  <2>4. AnswerOK' /\ ~HasPage'
    BY <1>1 DEF AnswerOK, HasPage
  <2>5. SessionRows' = SessionRows /\ pageSize(session)' = pageSize(session) /\ Owed' = Owed
    BY <1>1, <1>4 DEF SessionRows, HistoryOf, pageSize, configuredMax, Owed
  <2>6. ASSUME Cardinality(history) <= MaxOffset PROVE Seen'
    <3>1. Behind(Owed \ (session.got \cup Range(items)), (k + 1) * pageSize(session))
      BY <1>1, <1>2, <2>6 DEF Seen
    <3>2. Behind(Owed \ session.got, session.page * pageSize(session))'
      BY <1>4, <2>5, <3>1 DEF Behind
    <3> QED
      BY <2>1, <2>4, <3>2 DEF Seen
  <2>7. asked'.query = [resource |-> session'.resource, page |-> 2 * session'.page, size |-> session'.size]
    BY <1>4, <2>2
  <2>8. SessionOK'
    <3> HIDE DEF items, k, query
    <3>1. session'.before \subseteq SessionRows' /\ context'.tenant # Unspecified /\ history' = history
      BY <1>1, <1>2, <1>4, <2>5
    <3>2. asked'.tenant = context'.tenant
      BY <1>1, <2>2
    <3> QED
      BY <1>5, <2>6, <2>7, <3>1, <3>2 DEF SessionOK
  <2> QED
    BY <1>6, <2>3, <2>4, <2>8 DEF PagesInv
<1> QED
  BY <1>7, <1>8

LEMMA PagesInvStep == PagesConstants /\ PagesInv /\ [PagesNext]_pagesVars => PagesInv'
<1> SUFFICES ASSUME PagesConstants, PagesInv, [PagesNext]_pagesVars PROVE PagesInv'
  OBVIOUS
<1>1. ASSUME NEW resource \in Resources \cup {Malformed}, NEW page \in PageNumbers, NEW size \in PageSizes,
             session = Unspecified, Ask([resource |-> resource, page |-> page, size |-> size])
      PROVE  PagesInv'
  <2> DEFINE query == [resource |-> resource, page |-> page, size |-> size]
  <2>1. query.size \in Numbers /\ query.page \in Numbers
    BY DEF PagesConstants, Numbers
  <2> QED
    BY <1>1, <2>1, AskStep
<1>2. CASE UNCHANGED pagesVars
  <2>1. pageSize(session)' = pageSize(session) /\ SessionRows' = SessionRows /\ (HasPage' <=> HasPage) /\ Owed' = Owed
    BY <1>2 DEF pagesVars, pageSize, configuredMax, SessionRows, HistoryOf, HasPage, Owed
  <2>2. Seen => Seen'
    BY <1>2, <2>1 DEF pagesVars, Seen, Behind
  <2>3. SessionOK'
    BY <1>2, <2>1, <2>2 DEF pagesVars, PagesInv, SessionOK
  <2> QED
    BY <1>2, <2>1, <2>3 DEF pagesVars, PagesInv, AskedOK, AnswerOK
<1> QED
  BY <1>1, <1>2, AuthorizeReadStep, FindStep, RecordStep, SetTenantStep, BeginStep, ContinueStep DEF PagesNext

\* ActionHistoryService.all answers only rows of the tenant and the resource that
\* were authorized, in pages no longer and no further than the ceilings, and a
\* client that pages to the first empty page misses no row that was there when it
\* began unless another row of the resource has its createdAt, although rows are
\* inserted anywhere in the order while it pages and those of one stamp change
\* places between queries: whatever the tenants, resources, numbers in queries and
\* options, and the ceilings.
THEOREM Pages == PagesConstants => (PagesSpec => []HistoryPages)
<1> SUFFICES ASSUME PagesConstants PROVE PagesSpec => []HistoryPages
  OBVIOUS
<1>1. PagesInv => HistoryPages
  <2> SUFFICES ASSUME PagesInv PROVE HistoryPages
    OBVIOUS
  <2>1. ScopedRows /\ PageBounded
    BY DEF PagesInv, AnswerOK, ScopedRows, PageBounded
  <2>2. ASSUME session # Unspecified, session.ended, Cardinality(history) <= MaxOffset, NEW r \in session.before \ session.got
        PROVE  Tied(HistoryOf(r.tenant, r.resource), r)
    <3>1. r \in SessionRows /\ Tied(SessionRows, r)
      BY <2>2 DEF PagesInv, SessionOK, Seen, Owed
    <3>2. SessionRows = HistoryOf(r.tenant, r.resource)
      BY <3>1 DEF SessionRows, HistoryOf
    <3> QED
      BY <3>1, <3>2
  <2> QED
    BY <2>1, <2>2 DEF HistoryPages, PagesCover
<1> QED
  BY PagesInvInit, PagesInvStep, <1>1, PTL DEF PagesSpec
=============================================================================
