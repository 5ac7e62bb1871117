---------------------------- MODULE OrderingProofs ---------------------------
(***************************************************************************)
(* What the proofs of several components rest on: a set in order is        *)
(* enumerated completely, without repetition and in its order; induction   *)
(* over a bounded range, for what can be written as a set of numbers; and  *)
(* that a loop written as a recursive function runs to its end.            *)
(***************************************************************************)
EXTENDS Ordering, Sequences, SequencesExt, FunctionTheorems, FiniteSetTheorems, SequenceTheorems,
        WellFoundedInduction, TLAPS

------------------------------------------------------------------------------
(* Induction over numbers *)

\* A set of numbers that is not empty has a least one.
LEMMA LeastNumber ==
  ASSUME NEW T \in SUBSET Nat, T # {}
  PROVE  \E x \in T : \A y \in T : x <= y
<1>1. PICK x \in T : \A y \in T : ~(<<y, x>> \in OpToRel(<, Nat))
  BY NatLessThanWellFounded, WFMin
<1>2. \A y \in T : ~(y < x)
  BY <1>1 DEF OpToRel
<1>3. QED
  BY <1>2

\* Induction up to m, for what can be written as a set of numbers.
LEMMA CountsUp ==
  ASSUME NEW m \in Nat, NEW T, 0 \in T, \A n \in 1..m : n - 1 \in T => n \in T
  PROVE  \A n \in 0..m : n \in T
<1> DEFINE U == {n \in 0..m : n \notin T}
<1> SUFFICES ASSUME U # {}
             PROVE  FALSE
  OBVIOUS
<1>1. U \in SUBSET Nat
  OBVIOUS
<1> HIDE DEF U
<1>2. PICK n \in U : \A y \in U : n <= y
  BY <1>1, LeastNumber
<1>3. n \in 1..m /\ n \notin T
  BY <1>2 DEF U
<1>4. n - 1 \in T
  BY <1>2, <1>3 DEF U
<1>5. QED
  BY <1>3, <1>4

\* A bounded set of numbers that is not empty has a greatest one.
LEMMA GreatestNumber ==
  ASSUME NEW m \in Nat, NEW T \in SUBSET (0..m), T # {}
  PROVE  \E x \in T : \A y \in T : y <= x
<1> DEFINE U == {n \in Nat : m - n \in T}
<1>1. U \in SUBSET Nat /\ \A x \in T : m - x \in U
  OBVIOUS
<1>2. U # {}
  BY <1>1
<1> HIDE DEF U
<1>3. PICK n \in U : \A y \in U : n <= y
  BY <1>1, <1>2, LeastNumber
<1>4. n \in Nat /\ m - n \in T
  BY <1>3 DEF U
<1>5. \A y \in T : y <= m - n
  BY <1>1, <1>3, <1>4
<1>6. QED
  BY <1>4, <1>5

\* What Min and Max choose.
LEMMA MinMaxIs ==
  ASSUME NEW m \in Nat, NEW T \in SUBSET (0..m), T # {}
  PROVE  /\ Min(T) \in T /\ Max(T) \in T
         /\ \A y \in T : Min(T) <= y /\ y <= Max(T)
<1>1. T \in SUBSET Nat
  OBVIOUS
<1>2. \E x \in T : \A y \in T : x <= y
  BY <1>1, LeastNumber
<1>3. \E x \in T : \A y \in T : x >= y
  <2>1. PICK x \in T : \A y \in T : y <= x
    BY GreatestNumber
  <2>2. QED
    BY <1>1, <2>1
<1>4. Min(T) \in T /\ \A y \in T : Min(T) <= y
  BY <1>2 DEF Min
<1>5. Max(T) \in T /\ \A y \in T : Max(T) >= y
  BY <1>3 DEF Max
<1>6. QED
  BY <1>1, <1>4, <1>5

------------------------------------------------------------------------------
(* Loops *)

\* A loop of m rounds runs to its end: round n takes the state x to step[n][x].
Iteration(b, step, m, f) ==
  f = [n \in 0..m |-> IF n = 0 THEN b ELSE step[n][f[n - 1]]]

\* There is such a run, whatever a round does.
LEMMA Iterates ==
  ASSUME NEW S, NEW b \in S, NEW m \in Nat, NEW step \in [1..m -> [S -> S]]
  PROVE  \E f \in [0..m -> S] : Iteration(b, step, m, f)
<1> DEFINE T == {n \in 0..m : \E f \in [0..n -> S] : Iteration(b, step, n, f)}
<1>1. 0 \in T
  <2> DEFINE g == [i \in 0..0 |-> b]
  <2>1. g \in [0..0 -> S] /\ Iteration(b, step, 0, g)
    BY DEF Iteration
  <2>2. QED
    BY <2>1
<1>2. ASSUME NEW n \in 1..m, n - 1 \in T
      PROVE  n \in T
  <2>1. PICK f \in [0..n - 1 -> S] : Iteration(b, step, n - 1, f)
    BY <1>2
  <2> DEFINE g == [i \in 0..n |-> IF i = n THEN step[n][f[n - 1]] ELSE f[i]]
  <2>2. n \in Nat /\ n - 1 \in Nat /\ n - 1 \in 0..n - 1 /\ n \in 0..n /\ n # 0
    OBVIOUS
  <2>3. f[n - 1] \in S /\ step[n] \in [S -> S]
    BY <2>2
  <2>4. step[n][f[n - 1]] \in S
    BY <2>3
  <2>5. \A i \in 0..n : i # n => i \in 0..n - 1
    BY <2>2
  <2>6. g \in [0..n -> S]
    BY <2>4, <2>5
  <2>7. \A i \in 0..n - 1 : f[i] = IF i = 0 THEN b ELSE step[i][f[i - 1]]
    BY <2>1 DEF Iteration
  <2>8. g[n] = step[n][f[n - 1]] /\ \A i \in 0..n : i # n => g[i] = f[i]
    BY <2>2
  <2>9. \A i \in 0..n : i # 0 => i - 1 \in 0..n /\ i - 1 # n
    BY <2>2
  <2>10. g = [i \in 0..n |-> g[i]]
    OBVIOUS
  <2> HIDE DEF g
  <2>11. \A i \in 0..n : g[i] = IF i = 0 THEN b ELSE step[i][g[i - 1]]
    BY <2>2, <2>5, <2>7, <2>8, <2>9
  <2>12. Iteration(b, step, n, g)
    BY <2>10, <2>11 DEF Iteration
  <2>13. QED
    BY <2>6, <2>12
<1> HIDE DEF T
<1>3. m \in T
  <2>1. \A n \in 1..m : n - 1 \in T => n \in T
    BY <1>2
  <2>2. \A n \in 0..m : n \in T
    BY <1>1, <2>1, CountsUp
  <2>3. QED
    BY <2>2
<1>4. QED
  BY <1>3 DEF T

------------------------------------------------------------------------------
(* Sets in order *)

\* R orders S strictly and totally.
StrictOrder(S, R) ==
  /\ \A x \in S : <<x, x>> \notin R
  /\ \A x, y, z \in S : <<x, y>> \in R /\ <<y, z>> \in R => <<x, z>> \in R
  /\ \A x, y \in S : x # y => <<x, y>> \in R \/ <<y, x>> \in R

\* An ordered finite set is enumerated completely, without repetition and in its
\* order: an element's rank is its position.
LEMMA Enumerates ==
  ASSUME NEW S, NEW R, IsFiniteSet(S), StrictOrder(S, R)
  PROVE  /\ Cardinality(S) \in Nat
         /\ InOrder(S, R) \in [1..Cardinality(S) -> S]
         /\ \A x \in S : \E k \in 1..Cardinality(S) : InOrder(S, R)[k] = x
         /\ \A j, k \in 1..Cardinality(S) :
              j < k <=> <<InOrder(S, R)[j], InOrder(S, R)[k]>> \in R
<1> DEFINE Below(x) == {y \in S : <<y, x>> \in R}
           N == Cardinality(S)
           rank == [x \in S |-> Cardinality(Below(x)) + 1]
<1>1. N \in Nat /\ IsFiniteSet(1..N) /\ Cardinality(1..N) = N
  <2>1. N \in Nat
    BY FS_CardinalityType
  <2>2. QED
    BY <2>1, FS_Interval
<1>2. ASSUME NEW x \in S
      PROVE  IsFiniteSet(Below(x)) /\ Cardinality(Below(x)) \in Nat /\ Cardinality(Below(x)) < N
  <2>1. Below(x) \in SUBSET S /\ x \notin Below(x)
    BY DEF StrictOrder
  <2> HIDE DEF Below
  <2>2. IsFiniteSet(Below(x)) /\ Cardinality(Below(x)) <= N /\ Cardinality(Below(x)) # N
    BY <2>1, FS_Subset
  <2>3. QED
    BY <1>1, <2>2, FS_CardinalityType
<1>3. ASSUME NEW x \in S, NEW y \in S, <<x, y>> \in R
      PROVE  Cardinality(Below(x)) < Cardinality(Below(y))
  <2>1. Below(x) \in SUBSET Below(y) /\ x \in Below(y) /\ x \notin Below(x)
    BY <1>3 DEF StrictOrder
  <2>2. IsFiniteSet(Below(y)) /\ Cardinality(Below(y)) \in Nat /\ Cardinality(Below(x)) \in Nat
    BY <1>2
  <2> HIDE DEF Below
  <2>3. Cardinality(Below(x)) <= Cardinality(Below(y)) /\ Cardinality(Below(x)) # Cardinality(Below(y))
    BY <2>1, <2>2, FS_Subset
  <2>4. QED
    BY <2>2, <2>3
<1> HIDE DEF Below, N
<1>4. rank \in [S -> 1..N]
  <2>1. \A x \in S : Cardinality(Below(x)) + 1 \in 1..N
    BY <1>1, <1>2
  <2>2. QED
    BY <2>1
<1>5. \A x, y \in S : rank[x] = rank[y] => x = y
  <2> SUFFICES ASSUME NEW x \in S, NEW y \in S, rank[x] = rank[y], x # y
               PROVE  FALSE
    OBVIOUS
  <2>1. <<x, y>> \in R \/ <<y, x>> \in R
    BY DEF StrictOrder
  <2>2. Cardinality(Below(x)) # Cardinality(Below(y))
    BY <1>2, <1>3, <2>1
  <2>3. QED
    BY <1>2, <2>2
<1>6. \A k \in 1..N : \E x \in S : rank[x] = k
  <2> HIDE DEF rank
  <2>1. rank \in Injection(S, 1..N)
    BY <1>4, <1>5, Fun_IsInj
  <2>2. rank \in Surjection(S, 1..N)
    BY <1>1, <2>1, FS_Injection DEF N
  <2>3. QED
    BY <2>2, Fun_SurjectionProperties
<1>7. ASSUME NEW k \in 1..N
      PROVE  InOrder(S, R)[k] \in S /\ rank[InOrder(S, R)[k]] = k
  <2>1. PICK x \in S : rank[x] = k
    BY <1>6
  <2>2. Cardinality(Below(x)) = k - 1
    BY <1>2, <2>1
  <2>3. InOrder(S, R)[k] = CHOOSE z \in S : Cardinality(Below(z)) = k - 1
    BY DEF InOrder, N, Below
  <2>4. InOrder(S, R)[k] \in S /\ Cardinality(Below(InOrder(S, R)[k])) = k - 1
    BY <2>2, <2>3
  <2>5. QED
    BY <2>4, <1>1
<1>8. InOrder(S, R) \in [1..N -> S]
  BY <1>7 DEF InOrder, N
<1> HIDE DEF rank
<1>9. \A x \in S : \E k \in 1..N : InOrder(S, R)[k] = x
  BY <1>4, <1>5, <1>7
<1>10. ASSUME NEW j \in 1..N, NEW k \in 1..N
       PROVE  j < k <=> <<InOrder(S, R)[j], InOrder(S, R)[k]>> \in R
  <2> DEFINE x == InOrder(S, R)[j]
             y == InOrder(S, R)[k]
  <2>1. x \in S /\ y \in S /\ rank[x] = j /\ rank[y] = k
    BY <1>7
  <2> HIDE DEF x, y
  <2>2. <<x, y>> \in R => rank[x] < rank[y]
    BY <1>2, <1>3, <2>1 DEF rank
  <2>3. <<y, x>> \in R => rank[y] < rank[x]
    BY <1>2, <1>3, <2>1 DEF rank
  <2>4. x # y => <<x, y>> \in R \/ <<y, x>> \in R
    BY <2>1 DEF StrictOrder
  <2>5. j \in Nat /\ k \in Nat
    BY <1>1
  <2>6. QED
    BY <2>1, <2>2, <2>3, <2>4, <2>5 DEF x, y
<1>11. QED
  BY <1>1, <1>8, <1>9, <1>10 DEF N

\* A finite set of numbers is enumerated upwards.
LEMMA AscendingEnumerates ==
  ASSUME NEW S \in SUBSET Nat, IsFiniteSet(S)
  PROVE  /\ Cardinality(S) \in Nat
         /\ Ascending(S) \in [1..Cardinality(S) -> S]
         /\ \A x \in S : \E k \in 1..Cardinality(S) : Ascending(S)[k] = x
         /\ \A j, k \in 1..Cardinality(S) : j < k <=> Ascending(S)[j] < Ascending(S)[k]
<1> DEFINE R == {p \in S \X S : p[1] < p[2]}
<1>1. \A i, j \in S : <<i, j>> \in R <=> i < j
  OBVIOUS
<1>2. Ascending(S) = InOrder(S, R)
  BY DEF Ascending
<1> HIDE DEF R
<1>3. StrictOrder(S, R)
  BY <1>1 DEF StrictOrder
<1>4. /\ Cardinality(S) \in Nat
      /\ Ascending(S) \in [1..Cardinality(S) -> S]
      /\ \A x \in S : \E k \in 1..Cardinality(S) : Ascending(S)[k] = x
      /\ \A j, k \in 1..Cardinality(S) :
           j < k <=> <<Ascending(S)[j], Ascending(S)[k]>> \in R
  BY <1>2, <1>3, Enumerates
<1> HIDE DEF Ascending
<1>5. \A k \in 1..Cardinality(S) : Ascending(S)[k] \in S
  BY <1>4
<1>6. QED
  BY <1>1, <1>4, <1>5

\* A row of numbers, ascending.
LEMMA AscendingInterval ==
  ASSUME NEW o \in Nat, NEW l \in Nat, NEW S, S = o + 1..o + l
  PROVE  Ascending(S) = [k \in 1..l |-> o + k]
<1> DEFINE R == {p \in S \X S : p[1] < p[2]}
           Below(x) == {y \in S : <<y, x>> \in R}
<1>1. Cardinality(S) = l
  BY FS_Interval
<1>2. ASSUME NEW x \in S
      PROVE  Cardinality(Below(x)) = x - o - 1
  <2>1. Below(x) = o + 1..x - 1
    OBVIOUS
  <2>2. o + 1 \in Int /\ x - 1 \in Int /\ x >= o + 1
    OBVIOUS
  <2>3. Cardinality(o + 1..x - 1) = IF o + 1 > x - 1 THEN 0 ELSE x - 1 - (o + 1) + 1
    BY <2>2, FS_Interval
  <2> HIDE DEF Below
  <2>4. QED
    BY <2>1, <2>2, <2>3
<1>3. \A k \in 1..l : o + k \in S
  OBVIOUS
<1>4. Ascending(S) = [k \in 1..l |-> CHOOSE x \in S : Cardinality(Below(x)) = k - 1]
  BY <1>1 DEF Ascending, InOrder
<1> HIDE DEF Below
<1>5. ASSUME NEW k \in 1..l
      PROVE  (CHOOSE x \in S : Cardinality(Below(x)) = k - 1) = o + k
  <2>1. Cardinality(Below(o + k)) = k - 1
    BY <1>2, <1>3
  <2>2. \A x \in S : Cardinality(Below(x)) = k - 1 => x = o + k
    BY <1>2
  <2>3. QED
    BY <1>3, <2>1, <2>2
<1>6. QED
  BY <1>4, <1>5
==============================================================================
