---------------------------- MODULE PruningProofs ----------------------------
(***************************************************************************)
(* What the pruner's sorts and slices come to, for pools of any size: the  *)
(* rank of a memory in a sorted list is a bijection onto 0 .. n-1, so a    *)
(* slice of the list takes as many memories as it has places, and the      *)
(* elbow is a place of the list.  Ranks are counted, so none of this needs *)
(* induction: an injection into a set of the same size is onto.            *)
(***************************************************************************)
EXTENDS Pruning, FiniteSetTheorems, FunctionTheorems, TLAPS

-----------------------------------------------------------------------------
(***************************************************************************)
(* Ranks in a strict total order, given as a set of pairs.                 *)
(***************************************************************************)
Orders(R, S) ==
  /\ \A x \in S : <<x, x>> \notin R
  /\ \A x, y, z \in S : <<x, y>> \in R /\ <<y, z>> \in R => <<x, z>> \in R
  /\ \A x, y \in S : x = y \/ <<x, y>> \in R \/ <<y, x>> \in R

Below(R, S, x) == {y \in S : <<y, x>> \in R}

Rank(R, S) == [x \in S |-> Cardinality(Below(R, S, x))]

\* Who comes first has the smaller rank.
LEMMA RankIsMonotone ==
  ASSUME NEW R, NEW S, IsFiniteSet(S), Orders(R, S), NEW x \in S, NEW y \in S,
         <<x, y>> \in R
  PROVE  Cardinality(Below(R, S, x)) < Cardinality(Below(R, S, y))
<1>1. Below(R, S, x) \in SUBSET Below(R, S, y)
  BY DEF Below, Orders
<1>2. x \in Below(R, S, y) /\ x \notin Below(R, S, x)
  BY DEF Below, Orders
<1>3. IsFiniteSet(Below(R, S, y)) /\ IsFiniteSet(Below(R, S, x))
  BY FS_Subset DEF Below
<1>4. /\ Cardinality(Below(R, S, x)) <= Cardinality(Below(R, S, y))
      /\ Cardinality(Below(R, S, y)) = Cardinality(Below(R, S, x))
           => Below(R, S, y) = Below(R, S, x)
  BY <1>1, <1>3, FS_Subset
<1>5. Cardinality(Below(R, S, x)) \in Nat /\ Cardinality(Below(R, S, y)) \in Nat
  BY <1>3, FS_CardinalityType
<1>6. QED  BY <1>2, <1>4, <1>5

\* Ranks are the places 0 .. n-1, each taken once.
LEMMA RankIsBijection ==
  ASSUME NEW R, NEW S, IsFiniteSet(S), Orders(R, S)
  PROVE  Rank(R, S) \in Bijection(S, 0..(Cardinality(S) - 1))
<1> DEFINE n == Cardinality(S)
           T == 0..(n - 1)
           f == Rank(R, S)
<1>1. n \in Nat  BY FS_CardinalityType
<1>2. f \in [S -> T]
  <2> SUFFICES ASSUME NEW x \in S PROVE Cardinality(Below(R, S, x)) \in T
    BY DEF Rank
  <2>1. Below(R, S, x) \in SUBSET S  BY DEF Below
  <2>2. x \notin Below(R, S, x)  BY DEF Below, Orders
  <2>3. IsFiniteSet(Below(R, S, x))  BY <2>1, FS_Subset
  <2>4. Cardinality(Below(R, S, x)) \in Nat  BY <2>3, FS_CardinalityType
  <2>5. Cardinality(Below(R, S, x)) <= n /\ Cardinality(Below(R, S, x)) # n
    BY <2>1, <2>2, FS_Subset
  <2>6. QED  BY <1>1, <2>4, <2>5
<1>3. ASSUME NEW x \in S, NEW y \in S, f[x] = f[y] PROVE x = y
  <2>1. Cardinality(Below(R, S, x)) = Cardinality(Below(R, S, y))
    BY <1>3 DEF Rank
  <2>2. Cardinality(Below(R, S, x)) \in Nat
    BY FS_Subset, FS_CardinalityType DEF Below
  <2> DEFINE cx == Cardinality(Below(R, S, x))
             cy == Cardinality(Below(R, S, y))
  <2>3. (<<x, y>> \in R => cx < cy) /\ (<<y, x>> \in R => cy < cx)
    BY RankIsMonotone
  <2> HIDE DEF cx, cy
  <2>4. cx = cy /\ cx \in Nat  BY <2>1, <2>2 DEF cx, cy
  <2>5. ~ (cx < cy) /\ ~ (cy < cx)  BY <2>4
  <2>6. QED  BY <2>3, <2>5 DEF Orders
<1>4. f \in Injection(S, T)
  BY <1>2, <1>3, Fun_IsInj
<1>5. IsFiniteSet(T) /\ Cardinality(T) = n
  BY <1>1, FS_Interval
<1>6. f \in Surjection(S, T)
  BY <1>4, <1>5, FS_Injection
<1>7. QED  BY <1>4, <1>6 DEF Bijection

\* A slice of the sorted list has as many memories as places.
LEMMA SliceSize ==
  ASSUME NEW R, NEW S, IsFiniteSet(S), Orders(R, S),
         NEW a \in Nat, NEW b \in Nat, a <= b, b <= Cardinality(S)
  PROVE  Cardinality({x \in S : Rank(R, S)[x] \in a..(b - 1)}) = b - a
<1> DEFINE n == Cardinality(S)
           f == Rank(R, S)
           T == {x \in S : Rank(R, S)[x] \in a..(b - 1)}
           g == [x \in T |-> f[x]]
<1>1. n \in Nat  BY FS_CardinalityType
<1>2. f \in Bijection(S, 0..(n - 1))  BY RankIsBijection
<1> HIDE DEF f
<1>3. /\ f \in [S -> 0..(n - 1)]
      /\ \A x, y \in S : f[x] = f[y] => x = y
      /\ \A t \in 0..(n - 1) : \E x \in S : f[x] = t
  <2> DEFINE N == 0..(n - 1)
  <2>1. f \in Bijection(S, N)  BY <1>2
  <2> HIDE DEF N
  <2>2. /\ f \in [S -> N]
        /\ \A x, y \in S : f[x] = f[y] => x = y
        /\ \A t \in N : \E x \in S : f[x] = t
    BY <2>1, Fun_BijectionProperties
  <2>3. QED  BY <2>2 DEF N
<1>4. g \in [T -> a..(b - 1)]  BY DEF f
<1>5. \A x, y \in T : g[x] = g[y] => x = y  BY <1>3 DEF f
<1>6. ASSUME NEW t \in a..(b - 1) PROVE \E x \in T : g[x] = t
  <2>1. t \in 0..(n - 1)  BY <1>1
  <2>2. PICK x \in S : f[x] = t  BY <1>3, <2>1
  <2>3. QED  BY <2>2 DEF f
<1> HIDE DEF g
<1>7. g \in Bijection(T, a..(b - 1))
  BY <1>4, <1>5, <1>6, Fun_IsBij
<1>8. IsFiniteSet(T)  BY FS_Subset
<1>9. ExistsBijection(T, a..(b - 1))
  BY <1>7 DEF ExistsBijection
<1> HIDE DEF T
<1>10. Cardinality(a..(b - 1)) = Cardinality(T)
  BY <1>8, <1>9, FS_Bijection
<1>11. Cardinality(a..(b - 1)) = b - a
  <2>1. a \in Int /\ b - 1 \in Int  OBVIOUS
  <2>2. Cardinality(a..(b - 1)) = IF a > b - 1 THEN 0 ELSE (b - 1) - a + 1
    BY <2>1, FS_Interval
  <2>3. QED  BY <2>2
<1>12. Cardinality(T) = b - a  BY <1>10, <1>11
<1>13. QED  BY <1>12 DEF T

\* Some element comes first.
LEMMA FirstExists ==
  ASSUME NEW R, NEW S, IsFiniteSet(S), Orders(R, S), S # {}
  PROVE  \E x \in S : \A y \in S : y = x \/ <<x, y>> \in R
<1> DEFINE n == Cardinality(S)
           N == 0..(n - 1)
           f == Rank(R, S)
<1>1. n \in Nat /\ n # 0  BY FS_CardinalityType, FS_EmptySet
<1>2. f \in Bijection(S, N)  BY RankIsBijection
<1>3. 0 \in N  BY <1>1
<1> HIDE DEF N
<1>4. PICK x \in S : f[x] = 0
  <2> HIDE DEF f
  <2>1. QED  BY <1>2, <1>3, Fun_BijectionProperties
<1>5. IsFiniteSet(Below(R, S, x))  BY FS_Subset DEF Below
<1>6. Cardinality(Below(R, S, x)) = 0  BY <1>4 DEF Rank
<1>7. Below(R, S, x) = {}  BY <1>5, <1>6, FS_EmptySet
<1>8. QED  BY <1>7 DEF Below, Orders

-----------------------------------------------------------------------------
(***************************************************************************)
(* The pruner's sorts as orders of this kind.                              *)
(***************************************************************************)
Sortable(S, val) == S \in SUBSET Nat /\ IsFiniteSet(S) /\ \A x \in S : val[x] \in Nat

Ascending(S, val) ==
  {p \in S \X S : \/ val[p[1]] < val[p[2]]
                  \/ val[p[1]] = val[p[2]] /\ p[1] < p[2]}

Descending(S, val) ==
  {p \in S \X S : \/ val[p[1]] > val[p[2]]
                  \/ val[p[1]] = val[p[2]] /\ p[1] < p[2]}

LEMMA AscendingOrders ==
  ASSUME NEW S, NEW val, Sortable(S, val)
  PROVE  /\ Orders(Ascending(S, val), S)
         /\ \A x \in S : RankAsc(S, val, x) = Rank(Ascending(S, val), S)[x]
<1>1. Orders(Ascending(S, val), S)
  BY DEF Orders, Ascending, Sortable
<1>2. ASSUME NEW x \in S
      PROVE  RankAsc(S, val, x) = Rank(Ascending(S, val), S)[x]
  <2>1. Below(Ascending(S, val), S, x)
          = {y \in S : val[y] < val[x] \/ (val[y] = val[x] /\ y < x)}
    BY DEF Below, Ascending
  <2>2. QED  BY <2>1 DEF RankAsc, Rank
<1>3. QED  BY <1>1, <1>2

LEMMA DescendingOrders ==
  ASSUME NEW S, NEW val, Sortable(S, val)
  PROVE  /\ Orders(Descending(S, val), S)
         /\ \A x \in S : RankDesc(S, val, x) = Rank(Descending(S, val), S)[x]
<1>1. Orders(Descending(S, val), S)
  BY DEF Orders, Descending, Sortable
<1>2. ASSUME NEW x \in S
      PROVE  RankDesc(S, val, x) = Rank(Descending(S, val), S)[x]
  <2>1. Below(Descending(S, val), S, x)
          = {y \in S : val[y] > val[x] \/ (val[y] = val[x] /\ y < x)}
    BY DEF Below, Descending
  <2>2. QED  BY <2>1 DEF RankDesc, Rank
<1>3. QED  BY <1>1, <1>2

\* Every score is the survival value of a memory of the pool.
LEMMA ScoresAreValues ==
  ASSUME NEW S, NEW val, Sortable(S, val), NEW r \in 0..(Cardinality(S) - 1)
  PROVE  ScoresDesc(S, val)[r] \in Nat
<1> DEFINE N == 0..(Cardinality(S) - 1)
           f == Rank(Descending(S, val), S)
<1>1. f \in Bijection(S, N)
  BY DescendingOrders, RankIsBijection DEF Sortable
<1>2. r \in N  OBVIOUS
<1>3. PICK x \in S : f[x] = r
  <2> HIDE DEF f, N
  <2>1. QED  BY <1>1, <1>2, Fun_BijectionProperties
<1>4. RankDesc(S, val, x) = r  BY <1>3, DescendingOrders
<1>5. (CHOOSE y \in S : RankDesc(S, val, y) = r) \in S  BY <1>4
<1>6. QED  BY <1>5 DEF ScoresDesc, Sortable

\* A descending sort begins with the first of the largest values.
LEMMA FirstLargest ==
  ASSUME NEW S, NEW val, Sortable(S, val), S # {}
  PROVE  \E x \in S : /\ \A y \in S : val[y] <= val[x]
                      /\ \A y \in S : y < x => val[y] < val[x]
<1>1. Orders(Descending(S, val), S)  BY DescendingOrders
<1>2. PICK x \in S : \A y \in S : y = x \/ <<x, y>> \in Descending(S, val)
  <2> DEFINE D == Descending(S, val)
  <2>1. IsFiniteSet(S) /\ Orders(D, S)  BY <1>1 DEF Sortable
  <2> HIDE DEF D
  <2>2. \E x \in S : \A y \in S : y = x \/ <<x, y>> \in D
    BY <2>1, FirstExists
  <2>3. QED  BY <2>2 DEF D
<1>3. ASSUME NEW y \in S
      PROVE  \/ y = x
             \/ val[x] > val[y]
             \/ val[x] = val[y] /\ x < y
  BY <1>2 DEF Descending
<1>4. \A y \in S : val[y] \in Nat /\ y \in Nat  BY DEF Sortable
<1>5. QED  BY <1>3, <1>4

\* The elbow is one of the points a curvature is computed at.
LEMMA ElbowInRange ==
  ASSUME NEW scores, NEW n \in Nat, n >= 3,
         \A r \in 0..(n - 1) : scores[r] \in Nat
  PROVE  FindElbowIndex(scores, n) \in 1..(n - 2)
<1> DEFINE I == 1..(n - 2)
           c == [i \in I |-> Curvature(scores, i)]
<1>1. ASSUME NEW i \in I PROVE c[i] \in Nat
  <2>1. scores[i - 1] \in Nat /\ scores[i] \in Nat /\ scores[i + 1] \in Nat
    OBVIOUS
  <2>2. scores[i - 1] - 2 * scores[i] + scores[i + 1] \in Int  BY <2>1
  <2>3. QED  BY <2>2 DEF Curvature, Abs
<1>2. Sortable(I, c) /\ I # {}
  <2>1. 1 \in I /\ I \subseteq Nat  OBVIOUS
  <2>2. IsFiniteSet(1..(n - 2))  BY FS_Interval
  <2>3. QED  BY <1>1, <2>1, <2>2 DEF Sortable
<1>3. PICK i \in I : /\ \A j \in I : c[j] <= c[i]
                     /\ \A j \in I : j < i => c[j] < c[i]
  <2> HIDE DEF I, c
  <2>1. QED  BY <1>2, FirstLargest
<1>4. /\ \A j \in 1..(n - 2) : Curvature(scores, j) <= Curvature(scores, i)
      /\ \A j \in 1..(i - 1) : Curvature(scores, j) < Curvature(scores, i)
  BY <1>3
<1>5. \E k \in 1..(n - 2) :
        /\ \A j \in 1..(n - 2) : Curvature(scores, j) <= Curvature(scores, k)
        /\ \A j \in 1..(k - 1) : Curvature(scores, j) < Curvature(scores, k)
  BY <1>4
<1>6. ~(n < 3)  OBVIOUS
<1>7. QED  BY <1>5, <1>6 DEF FindElbowIndex

-----------------------------------------------------------------------------
(***************************************************************************)
(* How many memories the capacity rule takes.                              *)
(***************************************************************************)
LEMMA MinIs ==
  ASSUME NEW a \in Int, NEW b \in Int
  PROVE  Min({a, b}) = IF a <= b THEN a ELSE b
<1>1. CASE a <= b
  <2>1. \A y \in {a, b} : a =< y  BY <1>1
  <2>2. \A x \in {a, b} : (\A y \in {a, b} : x =< y) => x = a  BY <1>1
  <2>3. QED  BY <1>1, <2>1, <2>2 DEF Min
<1>2. CASE b < a
  <2>1. \A y \in {a, b} : b =< y  BY <1>2
  <2>2. \A x \in {a, b} : (\A y \in {a, b} : x =< y) => x = b  BY <1>2
  <2>3. QED  BY <1>2, <2>1, <2>2 DEF Min
<1>3. QED  BY <1>1, <1>2

LEMMA MaxIs ==
  ASSUME NEW a \in Int, NEW b \in Int
  PROVE  Max({a, b}) = IF a >= b THEN a ELSE b
<1>1. CASE a >= b
  <2>1. \A y \in {a, b} : a >= y  BY <1>1
  <2>2. \A x \in {a, b} : (\A y \in {a, b} : x >= y) => x = a  BY <1>1
  <2>3. QED  BY <1>1, <2>1, <2>2 DEF Max
<1>2. CASE b > a
  <2>1. \A y \in {a, b} : b >= y  BY <1>2
  <2>2. \A x \in {a, b} : (\A y \in {a, b} : x >= y) => x = b  BY <1>2
  <2>3. QED  BY <1>2, <2>1, <2>2 DEF Max
<1>3. QED  BY <1>1, <1>2

\* The ratio can only raise the count, and the cut to min_prune_count undoes it.
LEMMA RatioCount ==
  ASSUME NEW n \in Nat, NEW k \in Nat, NEW r \in Int
  PROVE  Min({Min({Max({k, r, 1}), n}), n, k}) = Min({n, k})
<1> DEFINE m == Max({k, r, 1})
           c == Min({m, n})
           least == IF n <= k THEN n ELSE k
<1>1. m \in Int /\ m >= k
  <2>1. \E x \in {k, r, 1} : \A y \in {k, r, 1} : x >= y
    <3>1. CASE k >= r /\ k >= 1  BY <3>1
    <3>2. CASE r >= k /\ r >= 1  BY <3>2
    <3>3. CASE 1 >= k /\ 1 >= r  BY <3>3
    <3>4. QED  BY <3>1, <3>2, <3>3
  <2>2. m \in {k, r, 1} /\ \A y \in {k, r, 1} : m >= y  BY <2>1 DEF Max
  <2>3. QED  BY <2>2
<1> HIDE DEF m
<1>2. c = IF m <= n THEN m ELSE n  BY <1>1, MinIs
<1> HIDE DEF c
<1>3. least \in {c, n, k} /\ \A y \in {c, n, k} : least =< y
  BY <1>1, <1>2
<1>4. \A x \in {c, n, k} : (\A y \in {c, n, k} : x =< y) => x = least
  BY <1>1, <1>2, <1>3
<1>5. Min({c, n, k}) = least  BY <1>3, <1>4 DEF Min
<1>6. Min({n, k}) = least  BY MinIs
<1>7. QED  BY <1>5, <1>6 DEF c, m

\* A slice of the first k, and one of k places further down.
LEMMA RatioSize ==
  ASSUME NEW S, NEW val, Sortable(S, val), NEW k \in Nat
  PROVE  Cardinality(SelectByBottomRatio(S, val, k)) = Min({Cardinality(S), k})
<1> DEFINE n == Cardinality(S)
           R == Ascending(S, val)
           m == Min({n, k})
<1>1. n \in Nat  BY FS_CardinalityType DEF Sortable
<1>2. (n * RatioPct) \div 100 \in Int  BY <1>1, PruningConfig
<1>3. SelectByBottomRatio(S, val, k) = {x \in S : RankAsc(S, val, x) < m}
  BY <1>1, <1>2, RatioCount DEF SelectByBottomRatio
<1>4. m \in Nat /\ m <= n  BY <1>1, MinIs
<1> HIDE DEF m
<1>5. \A x \in S : RankAsc(S, val, x) \in Nat
  BY FS_Subset, FS_CardinalityType DEF RankAsc, Sortable
<1>6. \A x \in S : RankAsc(S, val, x) < m <=> RankAsc(S, val, x) \in 0..(m - 1)
  BY <1>4, <1>5
<1>7. /\ IsFiniteSet(S) /\ Orders(R, S)
      /\ \A x \in S : RankAsc(S, val, x) = Rank(R, S)[x]
  BY AscendingOrders DEF Sortable
<1> HIDE DEF R
<1>8. Cardinality({x \in S : Rank(R, S)[x] \in 0..(m - 1)}) = m - 0
  BY <1>4, <1>7, SliceSize
<1>9. SelectByBottomRatio(S, val, k) = {x \in S : Rank(R, S)[x] \in 0..(m - 1)}
  BY <1>3, <1>6, <1>7
<1>10. QED  BY <1>4, <1>8, <1>9 DEF m

LEMMA ElbowSize ==
  ASSUME NEW S, NEW val, Sortable(S, val), NEW k \in Nat, Cardinality(S) >= 3
  PROVE  Cardinality(SelectByElbow(S, val, k)) = Min({Cardinality(S), k})
<1> DEFINE n == Cardinality(S)
           R == Descending(S, val)
           m == Min({n, k})
           keep == FindElbowIndex(ScoresDesc(S, val), n) + 1
           start == IF n - keep < k THEN Max({0, n - k}) ELSE keep
<1>1. n \in Nat  BY FS_CardinalityType DEF Sortable
<1>2. keep \in 2..(n - 1)
  <2>1. FindElbowIndex(ScoresDesc(S, val), n) \in 1..(n - 2)
    BY <1>1, ScoresAreValues, ElbowInRange
  <2>2. QED  BY <1>1, <2>1
<1>3. m = IF n <= k THEN n ELSE k  BY <1>1, MinIs
<1>4. Max({0, n - k}) = IF 0 >= n - k THEN 0 ELSE n - k  BY <1>1, MaxIs
<1>5. SelectByElbow(S, val, k)
        = {x \in S : RankDesc(S, val, x) \in start..(start + m - 1)}
  BY DEF SelectByElbow
<1> HIDE DEF keep, m
<1>6. start \in Nat /\ start + m \in Nat /\ start <= start + m /\ start + m <= n
  BY <1>1, <1>2, <1>3, <1>4
<1> HIDE DEF start
<1>7. /\ IsFiniteSet(S) /\ Orders(R, S)
      /\ \A x \in S : RankDesc(S, val, x) = Rank(R, S)[x]
  BY DescendingOrders DEF Sortable
<1> HIDE DEF R
<1> DEFINE end == start + m
<1>8. end \in Nat /\ start <= end /\ end <= n  BY <1>6
<1>9. SelectByElbow(S, val, k) = {x \in S : Rank(R, S)[x] \in start..(end - 1)}
  <2>1. SelectByElbow(S, val, k)
          = {x \in S : RankDesc(S, val, x) \in start..(end - 1)}
    <3>1. start + m - 1 = end - 1  BY <1>1, <1>3, <1>6
    <3>2. QED  BY <1>5, <3>1
  <2> HIDE DEF end
  <2>2. QED  BY <1>7, <2>1
<1>10. m \in Nat /\ end - start = m  BY <1>1, <1>3, <1>6
<1> HIDE DEF end
<1>11. Cardinality({x \in S : Rank(R, S)[x] \in start..(end - 1)}) = end - start
  BY <1>6, <1>7, <1>8, SliceSize
<1>12. QED  BY <1>9, <1>10, <1>11 DEF m

\* The capacity rule takes what it is asked for, or all there is.
LEMMA CapacitySize ==
  ASSUME NEW S, NEW val, Sortable(S, val), NEW k \in Nat
  PROVE  /\ SelectForCapacity(S, val, k) \subseteq S
         /\ Cardinality(SelectForCapacity(S, val, k)) = Min({Cardinality(S), k})
<1>1. SelectForCapacity(S, val, k) \subseteq S
  BY DEF SelectForCapacity, SelectByElbow, SelectByBottomRatio
<1>2. CASE UseElbow /\ Cardinality(S) >= ElbowMinRecords /\ Cardinality(S) >= 3
  BY <1>1, <1>2, ElbowSize DEF SelectForCapacity
<1>3. CASE ~(UseElbow /\ Cardinality(S) >= ElbowMinRecords /\ Cardinality(S) >= 3)
  BY <1>1, <1>3, RatioSize DEF SelectForCapacity
<1>4. QED  BY <1>2, <1>3

\* The ratio rule takes the lowest values.
LEMMA RatioLowest ==
  ASSUME NEW S, NEW val, Sortable(S, val), NEW k \in Nat,
         NEW x \in SelectByBottomRatio(S, val, k),
         NEW y \in S \ SelectByBottomRatio(S, val, k)
  PROVE  val[x] <= val[y]
<1> DEFINE m == Min({Min({Max({k, (Cardinality(S) * RatioPct) \div 100, 1}),
                          Cardinality(S)}), Cardinality(S), k})
           cx == RankAsc(S, val, x)
           cy == RankAsc(S, val, y)
<1>1. x \in S /\ cx < m /\ ~(cy < m)
  BY DEF SelectByBottomRatio
<1>2. m = Min({Cardinality(S), k})
  BY RatioCount, FS_CardinalityType, PruningConfig DEF Sortable
<1>3. m \in Nat
  BY <1>2, MinIs, FS_CardinalityType DEF Sortable
<1>4. cx \in Nat /\ cy \in Nat
  BY <1>1, FS_Subset, FS_CardinalityType DEF RankAsc, Sortable
<1> HIDE DEF m
<1>5. cx < cy  BY <1>1, <1>3, <1>4
<1>6. <<y, x>> \notin Ascending(S, val)
  <2> DEFINE R == Ascending(S, val)
  <2>1. IsFiniteSet(S) /\ Orders(R, S)  BY AscendingOrders DEF Sortable
  <2>2. /\ cx = Cardinality(Below(R, S, x))
        /\ cy = Cardinality(Below(R, S, y))
    BY <1>1, AscendingOrders DEF Rank
  <2> HIDE DEF R, cx, cy
  <2>3. <<y, x>> \in R
          => Cardinality(Below(R, S, y)) < Cardinality(Below(R, S, x))
    BY <1>1, <2>1, RankIsMonotone
  <2>4. <<y, x>> \notin R  BY <1>4, <1>5, <2>2, <2>3
  <2>5. QED  BY <2>4 DEF R
<1>7. QED  BY <1>1, <1>6 DEF Ascending, Sortable

\* The memories past the elbow, the low-value tail the elbow rule takes from.
ElbowTail(S, val) ==
  Cardinality(S) - (FindElbowIndex(ScoresDesc(S, val), Cardinality(S)) + 1)

\* When the tail past the elbow is not longer than what is asked for, the elbow rule
\* takes the end of the descending list, so the lowest values, too.
LEMMA ElbowLowest ==
  ASSUME NEW S, NEW val, Sortable(S, val), NEW k \in Nat, Cardinality(S) >= 3,
         ElbowTail(S, val) <= k,
         NEW x \in SelectByElbow(S, val, k), NEW y \in S \ SelectByElbow(S, val, k)
  PROVE  val[x] <= val[y]
<1> DEFINE n == Cardinality(S)
           m == Min({n, k})
           keep == FindElbowIndex(ScoresDesc(S, val), n) + 1
           start == IF n - keep < k THEN Max({0, n - k}) ELSE keep
           cx == RankDesc(S, val, x)
           cy == RankDesc(S, val, y)
<1>1. n \in Nat  BY FS_CardinalityType DEF Sortable
<1>2. keep \in 2..(n - 1)
  <2>1. FindElbowIndex(ScoresDesc(S, val), n) \in 1..(n - 2)
    BY <1>1, ScoresAreValues, ElbowInRange
  <2>2. QED  BY <1>1, <2>1
<1>3. m = IF n <= k THEN n ELSE k  BY <1>1, MinIs
<1>4. Max({0, n - k}) = IF 0 >= n - k THEN 0 ELSE n - k  BY <1>1, MaxIs
<1>5. n - keep <= k  BY DEF ElbowTail
<1>6. x \in S /\ cx \in start..(start + m - 1) /\ ~(cy \in start..(start + m - 1))
  BY DEF SelectByElbow
<1>7. cx \in Nat /\ cy \in Nat
  BY <1>6, FS_Subset, FS_CardinalityType DEF RankDesc, Sortable
<1> DEFINE R == Descending(S, val)
<1>8. /\ IsFiniteSet(S) /\ Orders(R, S)
      /\ cx = Cardinality(Below(R, S, x))
      /\ cy = Cardinality(Below(R, S, y))
  BY <1>6, DescendingOrders DEF Sortable, Rank
<1>9. cy < n
  <2>1. Rank(R, S) \in Bijection(S, 0..(n - 1))  BY <1>8, RankIsBijection
  <2>2. Rank(R, S)[y] \in 0..(n - 1)
    <3> HIDE DEF R, n
    <3>1. Rank(R, S) \in [S -> 0..(n - 1)]  BY <2>1, Fun_BijectionProperties
    <3>2. QED  BY <3>1
  <2>3. QED  BY <1>1, <1>8, <2>2 DEF Rank
<1> HIDE DEF keep, m, cx, cy, R, n
<1>10. start \in Nat /\ m \in Nat /\ start + m = n  BY <1>1, <1>2, <1>3, <1>4, <1>5
<1> HIDE DEF start
<1>11. cy < cx  BY <1>1, <1>6, <1>7, <1>9, <1>10
<1>12. <<x, y>> \notin R
  <2>1. <<x, y>> \in R => Cardinality(Below(R, S, x)) < Cardinality(Below(R, S, y))
    BY <1>6, <1>8, RankIsMonotone
  <2>2. QED  BY <1>7, <1>8, <1>11, <2>1
<1>13. ~(val[x] > val[y])
  <2> SUFFICES ASSUME val[x] > val[y] PROVE <<x, y>> \in R
    BY <1>12
  <2>1. QED  BY <1>6 DEF R, Descending
<1>14. QED  BY <1>6, <1>13 DEF Sortable

-----------------------------------------------------------------------------
(***************************************************************************)
(* The cut to max_prune_per_run.                                           *)
(***************************************************************************)
Stage(hard, weak, x) == IF x \in hard THEN 0 ELSE IF x \in weak THEN 1 ELSE 2

CutOrder(chosen, hard, weak, val) ==
  {p \in chosen \X chosen :
     \/ val[p[1]] < val[p[2]]
     \/ /\ val[p[1]] = val[p[2]]
        /\ Stage(hard, weak, p[1]) < Stage(hard, weak, p[2])
     \/ /\ val[p[1]] = val[p[2]]
        /\ Stage(hard, weak, p[1]) = Stage(hard, weak, p[2])
        /\ p[1] < p[2]}

LEMMA CutOrders ==
  ASSUME NEW S, NEW hard, NEW weak, NEW val, Sortable(S, val)
  PROVE  Orders(CutOrder(S, hard, weak, val), S)
<1>1. \A x \in S : Stage(hard, weak, x) \in Nat  BY DEF Stage
<1>2. QED  BY <1>1 DEF Orders, CutOrder, Sortable

LEMMA CutIsSlice ==
  ASSUME NEW S, NEW hard, NEW weak, NEW val, Sortable(S, val), MaxPrunePerRun # 0
  PROVE  CutToBudget(S, hard, weak, val)
           = {x \in S : Rank(CutOrder(S, hard, weak, val), S)[x] < MaxPrunePerRun}
<1> DEFINE B == CutOrder(S, hard, weak, val)
           before(y, x) ==
             \/ val[y] < val[x]
             \/ val[y] = val[x] /\ Stage(hard, weak, y) < Stage(hard, weak, x)
             \/ val[y] = val[x] /\ Stage(hard, weak, y) = Stage(hard, weak, x)
                /\ y < x
<1>1. ASSUME NEW x \in S PROVE Below(B, S, x) = {y \in S : before(y, x)}
  BY DEF Below, CutOrder
<1>2. CutToBudget(S, hard, weak, val)
        = {x \in S : Cardinality({y \in S : before(y, x)}) < MaxPrunePerRun}
  BY DEF CutToBudget, Stage
<1> HIDE DEF before, B
<1>3. \A x \in S : Rank(B, S)[x] = Cardinality({y \in S : before(y, x)})
  BY <1>1 DEF Rank
<1>4. CutToBudget(S, hard, weak, val) = {x \in S : Rank(B, S)[x] < MaxPrunePerRun}
  BY <1>2, <1>3
<1>5. QED  BY <1>4 DEF B

\* What exceeds the budget is cut, and only that.
LEMMA CutSize ==
  ASSUME NEW S, NEW hard, NEW weak, NEW val, Sortable(S, val)
  PROVE  LET cut == CutToBudget(S, hard, weak, val)
         IN  /\ cut \subseteq S
             /\ MaxPrunePerRun = 0 \/ Cardinality(S) <= MaxPrunePerRun => cut = S
             /\ MaxPrunePerRun # 0 /\ Cardinality(S) > MaxPrunePerRun
                  => Cardinality(cut) = MaxPrunePerRun
<1> DEFINE B == CutOrder(S, hard, weak, val)
           n == Cardinality(S)
           cut == CutToBudget(S, hard, weak, val)
<1>1. IsFiniteSet(S) /\ Orders(B, S) /\ n \in Nat
  BY CutOrders, FS_CardinalityType DEF Sortable
<1>2. MaxPrunePerRun \in Nat  BY PruningConfig
<1>3. CASE MaxPrunePerRun = 0
  BY <1>3 DEF CutToBudget
<1>4. CASE MaxPrunePerRun # 0
  <2>1. cut = {x \in S : Rank(B, S)[x] < MaxPrunePerRun}
    BY <1>4, CutIsSlice
  <2>2. Rank(B, S) \in [S -> 0..(n - 1)]
    <3> DEFINE N == 0..(n - 1)
               f == Rank(B, S)
    <3> HIDE DEF B
    <3>1. f \in Bijection(S, N)  BY <1>1, RankIsBijection
    <3> HIDE DEF N, f
    <3>2. f \in [S -> N]  BY <3>1, Fun_BijectionProperties
    <3>3. QED  BY <3>2 DEF N, f
  <2> HIDE DEF B, cut
  <2>3. CASE n <= MaxPrunePerRun
    <3>1. \A x \in S : Rank(B, S)[x] < MaxPrunePerRun
      BY <1>1, <1>2, <2>2, <2>3
    <3>2. cut = S  BY <2>1, <3>1
    <3>3. QED  BY <1>1, <1>2, <2>3, <3>2 DEF cut
  <2>4. CASE n > MaxPrunePerRun
    <3>1. cut = {x \in S : Rank(B, S)[x] \in 0..(MaxPrunePerRun - 1)}
      BY <1>1, <1>2, <2>1, <2>2
    <3>2. Cardinality({x \in S : Rank(B, S)[x] \in 0..(MaxPrunePerRun - 1)})
            = MaxPrunePerRun - 0
      BY <1>1, <1>2, <2>4, SliceSize
    <3>3. cut \subseteq S /\ Cardinality(cut) = MaxPrunePerRun
      BY <1>2, <3>1, <3>2
    <3>4. QED  BY <1>1, <1>2, <1>4, <2>4, <3>3 DEF cut
  <2>5. QED  BY <1>1, <1>2, <2>3, <2>4
<1>5. QED  BY <1>3, <1>4

\* What is cut is worth at least what is taken.
LEMMA CutLowest ==
  ASSUME NEW S, NEW hard, NEW weak, NEW val, Sortable(S, val),
         NEW x \in CutToBudget(S, hard, weak, val),
         NEW y \in S \ CutToBudget(S, hard, weak, val)
  PROVE  val[x] <= val[y]
<1> DEFINE B == CutOrder(S, hard, weak, val)
           cx == Cardinality(Below(B, S, x))
           cy == Cardinality(Below(B, S, y))
<1>1. MaxPrunePerRun # 0  BY DEF CutToBudget
<1>2. /\ x \in S /\ Rank(B, S)[x] < MaxPrunePerRun
      /\ ~(Rank(B, S)[y] < MaxPrunePerRun)
  <2>1. CutToBudget(S, hard, weak, val)
          = {z \in S : Rank(B, S)[z] < MaxPrunePerRun}
    BY <1>1, CutIsSlice
  <2>2. QED  BY <2>1
<1>3. cx < MaxPrunePerRun /\ ~(cy < MaxPrunePerRun)
  BY <1>2 DEF Rank
<1>4. cx \in Nat /\ cy \in Nat /\ MaxPrunePerRun \in Nat
  BY FS_Subset, FS_CardinalityType, PruningConfig DEF Below, Sortable
<1>5. <<y, x>> \in B => cy < cx
  <2>1. IsFiniteSet(S) /\ Orders(B, S)  BY CutOrders DEF Sortable
  <2> HIDE DEF B
  <2>2. QED  BY <1>2, <2>1, RankIsMonotone
<1> HIDE DEF cx, cy
<1>6. <<y, x>> \notin B  BY <1>3, <1>4, <1>5
<1>7. x # y  OBVIOUS
<1>8. ~(val[y] < val[x])
  <2> SUFFICES ASSUME val[y] < val[x] PROVE <<y, x>> \in B
    BY <1>6
  <2>1. QED  BY <1>2 DEF CutOrder
<1>9. QED  BY <1>2, <1>8 DEF Sortable

-----------------------------------------------------------------------------
(***************************************************************************)
(* The whole selection.                                                    *)
(***************************************************************************)
Free(active, rec, step) == active \ Protected(active, rec, step)
Hard(active, rec, step) == {x \in Free(active, rec, step) : HardRule(rec, x)}
Low(active, rec, val, step) ==
  {x \in Free(active, rec, step) \ Hard(active, rec, step) : val[x] < MinSurvival}
Due(active, rec, val, step) ==
  Hard(active, rec, step) \cup Low(active, rec, val, step)
Rest(active, rec, val, step) ==
  Free(active, rec, step) \ Due(active, rec, val, step)
Over(active, rec, val, step, cap) ==
  Cardinality(active) - Cardinality(Due(active, rec, val, step)) - cap
Excess(active, rec, val, step, cap) ==
  IF Over(active, rec, val, step, cap) > 0
  THEN SelectForCapacity(Rest(active, rec, val, step), val,
                         Over(active, rec, val, step, cap))
  ELSE {}

LEMMA SelectionIs ==
  ASSUME NEW active, NEW rec, NEW val, NEW step, NEW cap
  PROVE  SelectPrunable(active, rec, val, step, cap)
           = CutToBudget(Due(active, rec, val, step)
                           \cup Excess(active, rec, val, step, cap),
                         Hard(active, rec, step), Low(active, rec, val, step), val)
  BY DEF SelectPrunable, Excess, Over, Rest, Due, Low, Hard, Free

\* The rule for capacity takes the excess of the pool over cap, or all it may take.
LEMMA ExcessSize ==
  ASSUME NEW active, NEW rec, NEW val, NEW step, NEW cap \in Nat,
         Sortable(active, val)
  PROVE  LET over == Over(active, rec, val, step, cap)
             rest == Rest(active, rec, val, step)
             excess == Excess(active, rec, val, step, cap)
         IN  /\ over \in Int
             /\ excess \subseteq rest
             /\ Cardinality(excess) = Min({Max({over, 0}), Cardinality(rest)})
<1> DEFINE over == Over(active, rec, val, step, cap)
           rest == Rest(active, rec, val, step)
           excess == Excess(active, rec, val, step, cap)
           due == Due(active, rec, val, step)
<1>1. due \subseteq active /\ rest \subseteq active
  BY DEF Due, Rest, Hard, Low, Free
<1>2. IsFiniteSet(active) /\ IsFiniteSet(due) /\ IsFiniteSet(rest)
  BY <1>1, FS_Subset DEF Sortable
<1>3. over \in Int
  BY <1>2, FS_CardinalityType DEF Over
<1>4. Sortable(rest, val)  BY <1>1, <1>2 DEF Sortable
<1>5. Cardinality(rest) \in Nat  BY <1>2, FS_CardinalityType
<1> HIDE DEF over, rest, due
<1>6. Max({over, 0}) = IF over >= 0 THEN over ELSE 0  BY <1>3, MaxIs
<1>7. CASE over > 0
  <2>1. excess = SelectForCapacity(rest, val, over)
    BY <1>7 DEF Excess, over, rest
  <2>2. over \in Nat  BY <1>3, <1>7
  <2>3. excess \subseteq rest /\ Cardinality(excess) = Min({Cardinality(rest), over})
    BY <1>4, <2>1, <2>2, CapacitySize
  <2>4. Max({over, 0}) = over  BY <1>3, <1>6, <1>7
  <2>5. {over, Cardinality(rest)} = {Cardinality(rest), over}  OBVIOUS
  <2>6. QED  BY <1>3, <2>3, <2>4, <2>5 DEF over, rest
<1>8. CASE ~(over > 0)
  <2>1. excess = {}  BY <1>8 DEF Excess, over
  <2>2. Max({over, 0}) = 0  BY <1>3, <1>6, <1>8
  <2>3. Min({0, Cardinality(rest)}) = 0  BY <1>5, MinIs
  <2>4. Cardinality({}) = 0  BY FS_EmptySet
  <2>5. QED  BY <1>3, <2>1, <2>2, <2>3, <2>4 DEF over, rest
<1>9. QED  BY <1>7, <1>8

\* A pass no budget cuts takes all that is due, and leaves no more than cap memories
\* unless all it leaves are protected.
LEMMA UncutPass ==
  ASSUME NEW active, NEW rec, NEW val, NEW step, NEW cap \in Nat,
         Sortable(active, val),
         MaxPrunePerRun = 0 \/ Cardinality(active) <= MaxPrunePerRun
  PROVE  LET taken == SelectPrunable(active, rec, val, step, cap)
             left == active \ taken
         IN  /\ \A x \in left \ Protected(active, rec, step) : ~HardRule(rec, x)
             /\ Cardinality(left) <= cap \/ left \subseteq Protected(active, rec, step)
<1> DEFINE taken == SelectPrunable(active, rec, val, step, cap)
           left == active \ taken
           safe == Protected(active, rec, step)
           due == Due(active, rec, val, step)
           rest == Rest(active, rec, val, step)
           over == Over(active, rec, val, step, cap)
           excess == Excess(active, rec, val, step, cap)
<1>1. /\ over \in Int
      /\ excess \subseteq rest
      /\ Cardinality(excess) = Min({Max({over, 0}), Cardinality(rest)})
  BY ExcessSize
<1>2. due \cup rest = active \ safe /\ due \cap rest = {}
  BY DEF Due, Rest, Hard, Low, Free
<1>3. due \cup excess \subseteq active
  BY <1>1, <1>2
<1>4. IsFiniteSet(active) /\ Sortable(due \cup excess, val)
  BY <1>3, FS_Subset DEF Sortable
<1>5. MaxPrunePerRun = 0 \/ Cardinality(due \cup excess) <= MaxPrunePerRun
  BY <1>3, <1>4, FS_Subset, FS_CardinalityType, PruningConfig
<1>6. taken = due \cup excess
  BY <1>4, <1>5, SelectionIs, CutSize
<1>7. \A x \in left \ safe : ~HardRule(rec, x)
  BY <1>6 DEF Due, Hard, Free
<1>8. Cardinality(left) <= cap \/ left \subseteq safe
  <2>1. IsFiniteSet(due) /\ IsFiniteSet(rest) /\ IsFiniteSet(excess)
    BY <1>1, <1>2, <1>4, FS_Subset
  <2>2. /\ Cardinality(active) \in Nat /\ Cardinality(due) \in Nat
        /\ Cardinality(rest) \in Nat /\ Cardinality(excess) \in Nat
    BY <1>4, <2>1, FS_CardinalityType
  <2>3. over = Cardinality(active) - Cardinality(due) - cap
    BY DEF Over
  <2> HIDE DEF taken, safe, due, rest, over, excess
  <2>4. Max({over, 0}) = IF over >= 0 THEN over ELSE 0  BY <1>1, MaxIs
  <2>5. CASE Cardinality(excess) = Cardinality(rest)
    <3>1. excess = rest  BY <1>1, <2>1, <2>5, FS_Subset
    <3>2. QED  BY <1>2, <1>6, <3>1
  <2>6. CASE Cardinality(excess) # Cardinality(rest)
    <3>1. Cardinality(excess) = Max({over, 0})
      BY <1>1, <2>2, <2>4, <2>6, MinIs
    <3>2. Cardinality(excess) >= over  BY <1>1, <2>4, <3>1
    <3>3. due \cap excess = {}  BY <1>1, <1>2
    <3>4. Cardinality(taken) = Cardinality(due) + Cardinality(excess)
      <4>1. Cardinality(due \cup excess)
              = Cardinality(due) + Cardinality(excess) - Cardinality(due \cap excess)
        BY <2>1, FS_Union
      <4>2. Cardinality(due \cap excess) = 0  BY <3>3, FS_EmptySet
      <4>3. QED  BY <1>6, <2>2, <4>1, <4>2
    <3>5. active \cap taken = taken  BY <1>3, <1>6
    <3>6. Cardinality(left) = Cardinality(active) - Cardinality(taken)
      BY <1>4, <3>5, FS_Difference
    <3>7. QED  BY <1>1, <2>2, <2>3, <3>2, <3>4, <3>6
  <2>7. QED  BY <2>5, <2>6
<1>9. QED  BY <1>7, <1>8
=============================================================================
