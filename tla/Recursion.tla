-------------------------------- MODULE Recursion --------------------------------
(***************************************************************************)
(* Induction and recursive functions, for the proofs of the modules that   *)
(* need them.  The theorems of the library about them take an operator;    *)
(* here a property is a set, and a definition a function.                  *)
(***************************************************************************)
EXTENDS Integers, FiniteSetTheorems, WellFoundedInduction, TLAPS

------------------------------------------------------------------------------
(* Induction, as the least number a set of numbers has.                    *)
LEMMA NotLess ==
  ASSUME NEW S \in SUBSET Nat, NEW m \in S, \A k \in S : ~ (k < m)
  PROVE  \A k \in S : m <= k
BY SMT

LEMMA LeastNumber ==
  ASSUME NEW S \in SUBSET Nat, S # {}
  PROVE  \E m \in S : \A k \in S : m <= k
<1>1. \E m \in S : \A y \in S : ~ (<<y, m>> \in OpToRel(<, Nat))
  BY WFMin, NatLessThanWellFounded
<1>2. \E m \in S : \A y \in S : ~ (y < m)
  BY <1>1 DEF OpToRel
<1> QED
  BY <1>2, NotLess

LEMMA GreatestNumber ==
  ASSUME NEW a \in Int, NEW b \in Int, NEW S \in SUBSET (a .. b), S # {}
  PROVE  \E m \in S : \A k \in S : k <= m
<1> DEFINE T == {b - k : k \in S}
<1>1. \A k \in S : k \in Int /\ b - k \in Nat
  BY SMT
<1>2. T \in SUBSET Nat /\ T # {}
  BY <1>1
<1>3. PICK t \in T : \A u \in T : t <= u
  <2> HIDE DEF T
  <2> QED
    BY <1>2, LeastNumber
<1>4. PICK m \in S : t = b - m
  BY <1>3
<1>5. ASSUME NEW k \in S
      PROVE  k <= m
  <2>1. b - m <= b - k
    BY <1>3, <1>4
  <2>2. k \in Int /\ m \in Int
    BY <1>1
  <2> QED
    BY <2>1, <2>2, SMT
<1> QED
  BY <1>5

LEMMA IntervalSize ==
  ASSUME NEW a \in Int, NEW b \in Int, a <= b + 1
  PROVE  IsFiniteSet(a .. b) /\ Cardinality(a .. b) = b - a + 1
<1>1. IsFiniteSet(a .. b) /\ Cardinality(a .. b) = IF a > b THEN 0 ELSE b - a + 1
  BY FS_Interval
<1>2. (IF a > b THEN 0 ELSE b - a + 1) = b - a + 1
  BY SMT
<1> QED
  BY <1>1, <1>2

(* A function may be defined by what it is at the arguments of lower rank: *)
(* B is the definition, as a function of the function and the argument.    *)
DefinedByRank(D, V, N, rank, B) ==
  /\ V # {} /\ N \in Nat /\ rank \in [D -> 0 .. N] /\ B \in [[D -> V] \X D -> V]
  /\ \A f, g \in [D -> V], x \in D :
       (\A y \in D : rank[y] < rank[x] => f[y] = g[y]) => B[<<f, x>>] = B[<<g, x>>]

LEMMA RecursionExists ==
  ASSUME NEW D, NEW V, NEW N, NEW rank, NEW B, DefinedByRank(D, V, N, rank, B)
  PROVE  \E f \in [D -> V] : \A x \in D : f[x] = B[<<f, x>>]
<1> DEFINE Upto(n) == \E f \in [D -> V] : \A x \in D : rank[x] < n => f[x] = B[<<f, x>>]
           S == {n \in Nat : ~ Upto(n)}
<1>0. /\ V # {} /\ N \in Nat /\ rank \in [D -> 0 .. N]
      /\ B \in [[D -> V] \X D -> V]
      /\ \A f, g \in [D -> V], x \in D :
           (\A y \in D : rank[y] < rank[x] => f[y] = g[y]) => B[<<f, x>>] = B[<<g, x>>]
  BY DEF DefinedByRank
<1>1. S = {}
  <2> SUFFICES ASSUME S # {}
               PROVE  FALSE
    OBVIOUS
  <2>1. S \in SUBSET Nat
    OBVIOUS
  <2>2. PICK m \in S : \A k \in S : m <= k
    <3> HIDE DEF S
    <3> QED
      BY <2>1, LeastNumber
  <2>3. m \in Nat /\ ~ Upto(m)
    BY <2>2
  <2>4. m # 0
    <3>1. PICK v : v \in V
      BY <1>0
    <3>2. [x \in D |-> v] \in [D -> V]
      BY <3>1
    <3>3. \A x \in D : ~ (rank[x] < 0)
      BY <1>0, SMT
    <3>4. Upto(0)
      BY <3>2, <3>3
    <3> QED
      BY <2>3, <3>4
  <2>5. Upto(m - 1)
    <3>1. m - 1 \in Nat /\ ~ (m <= m - 1)
      BY <2>3, <2>4, SMT
    <3>2. m - 1 \notin S
      BY <2>2, <3>1
    <3> QED
      BY <3>1, <3>2
  <2>6. PICK f \in [D -> V] : \A x \in D : rank[x] < m - 1 => f[x] = B[<<f, x>>]
    BY <2>5
  <2> DEFINE g == [x \in D |-> B[<<f, x>>]]
  <2>7. g \in [D -> V] /\ \A x \in D : g[x] = B[<<f, x>>]
    <3>1. \A x \in D : <<f, x>> \in [D -> V] \X D
      BY <2>6
    <3> QED
      BY <1>0, <3>1
  <2> HIDE DEF g
  <2>8. ASSUME NEW x \in D, rank[x] < m
        PROVE  g[x] = B[<<g, x>>]
    <3>1. ASSUME NEW y \in D, rank[y] < rank[x]
          PROVE  f[y] = g[y]
      <4>1. rank[y] < m - 1
        <5>1. rank[x] \in Int /\ rank[y] \in Int
          BY <1>0, SMT
        <5> QED
          BY <5>1, <2>3, <2>8, <3>1, SMT
      <4> QED
        BY <4>1, <2>6, <2>7
    <3>2. B[<<f, x>>] = B[<<g, x>>]
      BY <1>0, <3>1, <2>6, <2>7
    <3> QED
      BY <3>2, <2>7
  <2>9. Upto(m)
    BY <2>7, <2>8
  <2> QED
    BY <2>3, <2>9
<1>2. N + 1 \in Nat
  BY <1>0
<1>3. Upto(N + 1)
  BY <1>1, <1>2
<1>4. \A x \in D : rank[x] < N + 1
  BY <1>0, SMT
<1> QED
  BY <1>3, <1>4

(* What holds of an argument when it holds of all those of lower rank      *)
(* holds of all.                                                           *)
HoldsByRank(D, N, rank, P) ==
  /\ N \in Nat /\ rank \in [D -> 0 .. N] /\ P \subseteq D
  /\ \A x \in D : (\A y \in D : rank[y] < rank[x] => y \in P) => x \in P

LEMMA RankInduction ==
  ASSUME NEW D, NEW N, NEW rank, NEW P, HoldsByRank(D, N, rank, P)
  PROVE  P = D
<1>0. /\ N \in Nat /\ rank \in [D -> 0 .. N] /\ P \subseteq D
      /\ \A x \in D : (\A y \in D : rank[y] < rank[x] => y \in P) => x \in P
  BY DEF HoldsByRank
<1> SUFFICES ASSUME P # D
             PROVE  FALSE
  OBVIOUS
<1> DEFINE S == {rank[x] : x \in D \ P}
<1>1. S \in SUBSET Nat /\ S # {}
  <2>1. \A x \in D : rank[x] \in Nat
    BY <1>0, SMT
  <2> QED
    BY <1>0, <2>1
<1>2. PICK m \in S : \A k \in S : m <= k
  <2> HIDE DEF S
  <2> QED
    BY <1>1, LeastNumber
<1>3. PICK x \in D \ P : rank[x] = m
  BY <1>2
<1>4. ASSUME NEW y \in D, rank[y] < rank[x]
      PROVE  y \in P
  <2>1. rank[y] \in Int /\ m \in Int
    BY <1>0, <1>1, <1>2
  <2>2. ~ (m <= rank[y])
    BY <1>3, <1>4, <2>1, SMT
  <2> QED
    BY <1>2, <2>2
<1> QED
  BY <1>0, <1>3, <1>4

------------------------------------------------------------------------------
(* Induction from 0 up to n, and the function a loop of n steps defines:   *)
(* its i-th step is G.                                                     *)
LEMMA UpTo ==
  ASSUME NEW n \in Nat, NEW S, 0 \in S, \A i \in 0 .. n - 1 : i \in S => i + 1 \in S
  PROVE  0 .. n \subseteq S
<1> SUFFICES ASSUME NEW x \in 0 .. n, x \notin S
             PROVE  FALSE
  OBVIOUS
<1> DEFINE T == {i \in 0 .. n : i \notin S}
<1>1. T \in SUBSET Nat /\ T # {}
  <2>1. \A i \in 0 .. n : i \in Nat
    BY SMT
  <2> QED
    BY <2>1
<1>2. PICK m \in T : \A k \in T : m <= k
  <2> HIDE DEF T
  <2> QED
    BY <1>1, LeastNumber
<1>3. m \in 0 .. n /\ m \notin S /\ m # 0
  BY <1>2
<1>4. m - 1 \in 0 .. n - 1 /\ m - 1 \in 0 .. n /\ ~ (m <= m - 1) /\ (m - 1) + 1 = m
  BY <1>3, SMT
<1>5. m - 1 \in S
  BY <1>2, <1>4
<1> QED
  BY <1>3, <1>4, <1>5

IsLoop(f, n, v, G) ==
  f = [i \in 0 .. n |-> IF i = 0 THEN v ELSE G[<<f[i - 1], i>>]]

LEMMA Iteration ==
  ASSUME NEW V, NEW v \in V, NEW n \in Nat, NEW G \in [V \X (1 .. n) -> V]
  PROVE  \E f \in [0 .. n -> V] : IsLoop(f, n, v, G)
<1> DEFINE D == 0 .. n
           rank == [i \in D |-> i]
           F2 == [x \in [D -> V] \X D |->
                   IF x[2] = 0 THEN v ELSE G[<<x[1][x[2] - 1], x[2]>>]]
<1>1. \A i \in D : i # 0 => i \in 1 .. n /\ i - 1 \in D /\ i - 1 < i
  BY SMT
<1>2. ASSUME NEW f \in [D -> V], NEW i \in D
      PROVE  F2[<<f, i>>] = (IF i = 0 THEN v ELSE G[<<f[i - 1], i>>]) /\ F2[<<f, i>>] \in V
  <2>1. <<f, i>> \in [D -> V] \X D
    OBVIOUS
  <2>2. F2[<<f, i>>] = IF i = 0 THEN v ELSE G[<<f[i - 1], i>>]
    BY <2>1
  <2>3. CASE i = 0
    BY <2>2, <2>3
  <2>4. CASE i # 0
    <3>1. <<f[i - 1], i>> \in V \X (1 .. n)
      BY <1>1, <2>4
    <3>2. G[<<f[i - 1], i>>] \in V
      BY <3>1
    <3> QED
      BY <2>2, <2>4, <3>2
  <2> QED
    BY <2>3, <2>4
<1>3. DefinedByRank(D, V, n, rank, F2)
  <2>1. rank \in [D -> 0 .. n]
    OBVIOUS
  <2>2. F2 \in [[D -> V] \X D -> V]
    <3>1. \A x \in [D -> V] \X D : x = <<x[1], x[2]>> /\ x[1] \in [D -> V] /\ x[2] \in D
      OBVIOUS
    <3>2. \A x \in [D -> V] \X D : F2[x] \in V
      <4> HIDE DEF F2
      <4> QED
        BY <1>2, <3>1
    <3>3. F2 = [x \in [D -> V] \X D |-> F2[x]]
      OBVIOUS
    <3> HIDE DEF F2
    <3> QED
      BY <3>2, <3>3
  <2>3. ASSUME NEW f \in [D -> V], NEW g \in [D -> V], NEW x \in D,
               \A y \in D : rank[y] < rank[x] => f[y] = g[y]
        PROVE  F2[<<f, x>>] = F2[<<g, x>>]
    <3>1. CASE x = 0
      BY <1>2, <3>1
    <3>2. CASE x # 0
      <4>1. f[x - 1] = g[x - 1]
        BY <1>1, <2>3, <3>2
      <4> QED
        BY <1>2, <3>2, <4>1
    <3> QED
      BY <3>1, <3>2
  <2> HIDE DEF F2, D, rank
  <2> QED
    BY <2>1, <2>2, <2>3 DEF DefinedByRank
<1>4. PICK f \in [D -> V] : \A x \in D : f[x] = F2[<<f, x>>]
  <2> HIDE DEF F2, D, rank
  <2> QED
    BY <1>3, RecursionExists
<1>5. f = [i \in D |-> IF i = 0 THEN v ELSE G[<<f[i - 1], i>>]]
  <2>1. f = [i \in D |-> f[i]]
    OBVIOUS
  <2>2. \A i \in D : f[i] = IF i = 0 THEN v ELSE G[<<f[i - 1], i>>]
    <3> HIDE DEF F2
    <3> QED
      BY <1>2, <1>4
  <2> HIDE DEF F2, D
  <2> QED
    BY <2>1, <2>2
<1> QED
  BY <1>5 DEF IsLoop
==============================================================================
