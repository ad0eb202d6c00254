----------------------------- MODULE DebuggerProofs -----------------------------
(***************************************************************************)
(* The debugger, proved for every size of the pool, whatever is watched    *)
(* and whatever the registers hold: the pool is two linked lists that      *)
(* share no node, and the numbered nodes implement the list of WatchList;  *)
(* and what eval makes of an expression of gen-expr is what it is worth in *)
(* C.                                                                      *)
(*                                                                         *)
(* A list is given by the sequence of its nodes (Linked); the walk along   *)
(* next finds that sequence (ChainIs), w puts a node in front of it        *)
(* (PushLinked) and d takes one out of it (WithoutLinked).  What is        *)
(* evaluated is a word or a crash, by induction on the width of the span   *)
(* (EvalIn): eval, like the other recursive functions of SdbExpr, exists   *)
(* because it is defined by what it is on narrower spans                   *)
(* (RecursionExists), and induction is taking the least rank at which a    *)
(* property fails (LeastNumber).                                           *)
(*                                                                         *)
(* An expression is built up by gen-expr, a step at a time, and eval takes *)
(* it apart.  The two meet in Sound: wherever the tokens of a phrase stand *)
(* in a text, their parentheses match, get_op_position sees of them no     *)
(* operator weaker than the rank of the phrase, and eval of their span is  *)
(* the value of the phrase.  A number, a pair of parentheses and an        *)
(* operator between two phrases keep it (SoundLeaf, SoundParens,           *)
(* SoundJoined), and so does preprocessing where the texts keep apart      *)
(* (PreprocessingApart).                                                   *)
(***************************************************************************)
EXTENDS Debugger, SequenceTheorems, Recursion

------------------------------------------------------------------------------
(* The k-th of a finite set of positions is one of them.                   *)
RankIn(S, i) == Cardinality({j \in S : j <= i})

LEMMA RankInBounds ==
  ASSUME NEW S \in SUBSET Nat, IsFiniteSet(S)
  PROVE  /\ Cardinality(S) \in Nat
         /\ \A i \in S : RankIn(S, i) \in 1 .. Cardinality(S)
         /\ \A i, j \in S : RankIn(S, i) = RankIn(S, j) => i = j
<1>1. Cardinality(S) \in Nat
  BY FS_CardinalityType
<1>2. ASSUME NEW i \in S
      PROVE  IsFiniteSet({j \in S : j <= i}) /\ RankIn(S, i) \in 1 .. Cardinality(S)
  <2> DEFINE T == {j \in S : j <= i}
  <2>1. T \in SUBSET S /\ i \in T /\ RankIn(S, i) = Cardinality(T)
    BY DEF RankIn
  <2> HIDE DEF T
  <2>2. IsFiniteSet(T) /\ Cardinality(T) <= Cardinality(S)
    BY <2>1, FS_Subset
  <2>3. Cardinality(T) \in Nat /\ Cardinality(T) # 0
    BY <2>1, <2>2, FS_CardinalityType, FS_EmptySet
  <2> QED
    BY <1>1, <2>1, <2>2, <2>3 DEF T
<1>3. ASSUME NEW i \in S, NEW j \in S, j < i
      PROVE  RankIn(S, i) # RankIn(S, j)
  <2> DEFINE T == {k \in S : k <= i}
             U == {k \in S : k <= j}
  <2>1. U \in SUBSET T /\ U # T
    <3>1. \A k \in S : k \in Nat
      OBVIOUS
    <3>2. i \in T /\ i \notin U
      BY <1>3, <3>1
    <3>3. U \subseteq T
      <4> SUFFICES ASSUME NEW k \in S, k <= j
                   PROVE  k <= i
        OBVIOUS
      <4>1. k \in Nat /\ j \in Nat /\ i \in Nat
        BY <3>1
      <4> QED
        BY <1>3, <4>1
    <3> HIDE DEF T, U
    <3> QED
      BY <3>2, <3>3
  <2>2. IsFiniteSet(T) /\ RankIn(S, i) = Cardinality(T) /\ RankIn(S, j) = Cardinality(U)
    BY <1>2 DEF RankIn
  <2> HIDE DEF T, U
  <2> QED
    BY <2>1, <2>2, FS_Subset
<1>4. ASSUME NEW i \in S, NEW j \in S, RankIn(S, i) = RankIn(S, j)
      PROVE  i = j
  BY <1>3, <1>4
<1> QED
  BY <1>1, <1>2, <1>4

LEMMA NthIsIn ==
  ASSUME NEW S \in SUBSET Nat, IsFiniteSet(S), NEW k \in 1 .. Cardinality(S)
  PROVE  Nth(S, k) \in S /\ RankIn(S, Nth(S, k)) = k
<1> DEFINE r == [i \in S |-> RankIn(S, i)]
           T == 1 .. Cardinality(S)
<1>1. /\ Cardinality(S) \in Nat
      /\ \A i \in S : RankIn(S, i) \in T
      /\ \A i, j \in S : RankIn(S, i) = RankIn(S, j) => i = j
  BY RankInBounds
<1>2. r \in Injection(S, T)
  <2> HIDE DEF T
  <2> QED
    BY <1>1 DEF Injection, IsInjective
<1>3. IsFiniteSet(T) /\ Cardinality(T) = Cardinality(S)
  <2>1. PICK n \in Nat : n = Cardinality(S)
    BY <1>1
  <2>2. IsFiniteSet(1 .. n) /\ Cardinality(1 .. n) = n - 1 + 1
    BY <2>1, IntervalSize
  <2> QED
    BY <2>1, <2>2
<1> HIDE DEF r, T
<1>4. r \in Surjection(S, T)
  BY <1>2, <1>3, FS_Injection
<1>5. PICK i \in S : RankIn(S, i) = k
  BY <1>4 DEF Surjection, r, T
<1> QED
  BY <1>5 DEF Nth, RankIn

(* preprocessing makes tokens of tokens.                                   *)
LEMMA PreprocessingTokens ==
  ASSUME NEW tokens \in Seq(Token)
  PROVE  preprocessing(tokens) \in Seq(Token)
<1> DEFINE K == Kept(tokens)
<1>1. Len(tokens) \in Nat /\ tokens \in [1 .. Len(tokens) -> Token]
  OBVIOUS
<1>2. K \in SUBSET (1 .. Len(tokens)) /\ IsFiniteSet(K)
  <2>1. K \in SUBSET (1 .. Len(tokens))
    BY <1>1 DEF Kept
  <2>2. IsFiniteSet(1 .. Len(tokens))
    BY <1>1, IntervalSize
  <2> HIDE DEF K
  <2> QED
    BY <2>1, <2>2, FS_Subset
<1> HIDE DEF K
<1>3. K \in SUBSET Nat
  BY <1>2
<1>4. Cardinality(K) \in Nat
  BY <1>2, FS_CardinalityType
<1>5. ASSUME NEW k \in 1 .. Cardinality(K)
      PROVE  (LET i == Nth(K, k)
              IN IF Negates(tokens, i)
                   THEN [type |-> "num", val |-> - tokens[i + 1].val]
                   ELSE tokens[i]) \in Token
  <2>1. PICK i \in 1 .. Len(tokens) : i = Nth(K, k)
    BY <1>2, <1>3, NthIsIn
  <2>2. tokens[i] \in Token
    BY <1>1
  <2>3. ASSUME Negates(tokens, i)
        PROVE  [type |-> "num", val |-> - tokens[i + 1].val] \in Token
    <3>1. i + 1 \in 1 .. Len(tokens) /\ tokens[i + 1].type = "num"
      BY <1>1, <2>3, SMT DEF Negates
    <3>2. tokens[i + 1] \in Token
      BY <1>1, <3>1
    <3>3. tokens[i + 1].val \in Int
      BY <3>1, <3>2 DEF Token, Operators
    <3> QED
      BY <3>3 DEF Token
  <2> QED
    BY <2>1, <2>2, <2>3
<1>6. preprocessing(tokens)
        = [k \in 1 .. Cardinality(K) |->
             LET i == Nth(K, k)
             IN IF Negates(tokens, i)
                  THEN [type |-> "num", val |-> - tokens[i + 1].val]
                  ELSE tokens[i]]
  BY DEF preprocessing, K
<1>7. preprocessing(tokens) \in [1 .. Cardinality(K) -> Token]
  BY <1>5, <1>6
<1> QED
  BY <1>4, <1>7, SMT

------------------------------------------------------------------------------
(* Outside gives positions of the span, or 0, and is as it is defined.     *)
LEMMA OutsideFromIn ==
  ASSUME NEW tokens, NEW left \in Int, NEW right \in Int, NEW f, NEW i \in left .. right + 1,
         \A j \in left .. right + 1 : j > i => f[j] \in SUBSET (left .. right \union {0})
  PROVE  OutsideFrom(f, tokens, i, right) \in SUBSET (left .. right \union {0})
<1>1. CASE i > right
  BY <1>1 DEF OutsideFrom
<1>2. CASE ~ (i > right)
  <2>1. i \in left .. right /\ i + 1 \in left .. right + 1 /\ i + 1 > i
    BY <1>2, SMT
  <2>2. CASE tokens[i].type # "("
    BY <1>2, <2>1, <2>2 DEF OutsideFrom
  <2>3. CASE ~ (tokens[i].type # "(") /\ \E j \in i .. right : Closes(tokens, i, j)
    <3>1. PICK j \in i .. right : j = CHOOSE k \in i .. right : Closes(tokens, i, k)
      BY <2>3
    <3>2. 1 + j \in left .. right + 1 /\ 1 + j > i
      BY <2>1, SMT
    <3>3. OutsideFrom(f, tokens, i, right) = f[1 + j]
      BY <1>2, <2>3, <3>1 DEF OutsideFrom
    <3> QED
      BY <3>2, <3>3
  <2>4. CASE ~ (tokens[i].type # "(") /\ ~ \E j \in i .. right : Closes(tokens, i, j)
    BY <1>2, <2>4 DEF OutsideFrom
  <2> QED
    BY <2>2, <2>3, <2>4
<1> QED
  BY <1>1, <1>2

LEMMA OutsideFromLocal ==
  ASSUME NEW tokens, NEW left \in Int, NEW right \in Int, NEW f, NEW g,
         NEW i \in left .. right + 1,
         \A j \in left .. right + 1 : j > i => f[j] = g[j]
  PROVE  OutsideFrom(f, tokens, i, right) = OutsideFrom(g, tokens, i, right)
<1>1. CASE i > right
  BY <1>1 DEF OutsideFrom
<1>2. CASE ~ (i > right)
  <2>1. i \in left .. right /\ i + 1 \in left .. right + 1 /\ i + 1 > i
    BY <1>2, SMT
  <2>2. CASE tokens[i].type # "("
    BY <1>2, <2>1, <2>2 DEF OutsideFrom
  <2>3. CASE ~ (tokens[i].type # "(") /\ \E j \in i .. right : Closes(tokens, i, j)
    <3>1. PICK j \in i .. right : j = CHOOSE k \in i .. right : Closes(tokens, i, k)
      BY <2>3
    <3>2. 1 + j \in left .. right + 1 /\ 1 + j > i
      BY <2>1, SMT
    <3>3. OutsideFrom(f, tokens, i, right) = f[1 + j] /\ OutsideFrom(g, tokens, i, right) = g[1 + j]
      BY <1>2, <2>3, <3>1 DEF OutsideFrom
    <3> QED
      BY <3>2, <3>3
  <2>4. CASE ~ (tokens[i].type # "(") /\ ~ \E j \in i .. right : Closes(tokens, i, j)
    BY <1>2, <2>4 DEF OutsideFrom
  <2> QED
    BY <2>2, <2>3, <2>4
<1> QED
  BY <1>1, <1>2

LEMMA OutsideIn ==
  ASSUME NEW tokens, NEW left \in Int, NEW right \in Int, left <= right
  PROVE  /\ Outside(tokens, left, right) \in SUBSET (left .. right \union {0})
         /\ \E skip : /\ Outside(tokens, left, right) = skip[left]
                      /\ \A i \in left .. right + 1 :
                           skip[i] = OutsideFrom(skip, tokens, i, right)
<1> DEFINE D == left .. right + 1
           V == SUBSET (left .. right \union {0})
           N == right + 1 - left
           rank == [i \in D |-> right + 1 - i]
           B == [p \in [D -> V] \X D |-> OutsideFrom(p[1], tokens, p[2], right)]
           skip == CHOOSE skip : skip = [i \in D |-> OutsideFrom(skip, tokens, i, right)]
<1>1. N \in Nat /\ left \in D /\ V # {}
  <2>1. N \in Nat /\ left \in D
    BY SMT
  <2>2. {} \in V
    OBVIOUS
  <2> QED
    BY <2>1, <2>2
<1>2. rank \in [D -> 0 .. N] /\ \A i \in D : rank[i] = right + 1 - i
  <2>1. \A i \in D : right + 1 - i \in 0 .. N
    BY SMT
  <2> HIDE DEF D, N
  <2> QED
    BY <2>1
<1>3. \A i, j \in D : rank[j] < rank[i] <=> j > i
  <2>1. \A i, j \in D : right + 1 - j < right + 1 - i <=> j > i
    BY SMT
  <2> HIDE DEF D, rank
  <2> QED
    BY <1>2, <2>1
<1>4. ASSUME NEW f, NEW i \in D, \A j \in D : rank[j] < rank[i] => f[j] \in V
      PROVE  OutsideFrom(f, tokens, i, right) \in V
  BY <1>3, <1>4, OutsideFromIn
<1>5. B \in [[D -> V] \X D -> V]
  <2>1. ASSUME NEW f \in [D -> V], NEW i \in D
        PROVE  OutsideFrom(f, tokens, i, right) \in V
    <3> HIDE DEF D, V
    <3> QED
      BY <1>4
  <2> HIDE DEF D, V
  <2>2. \A p \in [D -> V] \X D : p[1] \in [D -> V] /\ p[2] \in D
    OBVIOUS
  <2> QED
    BY <2>1, <2>2
<1>6. \A f \in [D -> V], i \in D : B[<<f, i>>] = OutsideFrom(f, tokens, i, right)
  <2> HIDE DEF D, V
  <2> QED
    OBVIOUS
<1>7. ASSUME NEW f \in [D -> V], NEW g \in [D -> V], NEW i \in D,
             \A j \in D : rank[j] < rank[i] => f[j] = g[j]
      PROVE  B[<<f, i>>] = B[<<g, i>>]
  <2>1. \A j \in D : j > i => f[j] = g[j]
    BY <1>3, <1>7
  <2>2. OutsideFrom(f, tokens, i, right) = OutsideFrom(g, tokens, i, right)
    <3> HIDE DEF V, rank
    <3> QED
      BY <2>1, OutsideFromLocal
  <2> HIDE DEF D, V, B
  <2> QED
    BY <1>6, <2>2
<1> HIDE DEF D, V, N, rank, B
<1>8. PICK f \in [D -> V] : \A i \in D : f[i] = B[<<f, i>>]
  <2>1. DefinedByRank(D, V, N, rank, B)
    BY <1>1, <1>2, <1>5, <1>7 DEF DefinedByRank
  <2> QED
    BY <2>1, RecursionExists
<1>9. f = [i \in D |-> OutsideFrom(f, tokens, i, right)]
  BY <1>6, <1>8
<1>10. skip = [i \in D |-> OutsideFrom(skip, tokens, i, right)]
  BY <1>9
<1>11. Outside(tokens, left, right) = skip[left]
  BY DEF Outside, D
<1> HIDE DEF skip
<1>12. \A i \in D : skip[i] = OutsideFrom(skip, tokens, i, right)
  BY <1>10
<1> DEFINE P == {i \in D : skip[i] \in V}
<1>13. ASSUME NEW i \in D, \A j \in D : rank[j] < rank[i] => j \in P
       PROVE  i \in P
  BY <1>4, <1>12, <1>13
<1>14. P = D
  <2>1. P \in SUBSET D
    OBVIOUS
  <2> HIDE DEF P
  <2>2. HoldsByRank(D, N, rank, P)
    BY <1>1, <1>2, <1>13, <2>1 DEF HoldsByRank
  <2> QED
    BY <2>2, RankInduction
<1> QED
  BY <1>1, <1>11, <1>12, <1>14 DEF V, D

(* get_op_position: an operator of the span, or none.                      *)
LEMMA OpPositionIn ==
  ASSUME NEW tokens, NEW left \in Int, NEW right \in Int, left <= right,
         NEW op, op = get_op_position(tokens, left, right), op # NoPosition
  PROVE  op \in left .. right /\ tokens[op].type \in Operators
<1> DEFINE outside == Outside(tokens, left, right)
           ops == {i \in outside \ {0} : tokens[i].type \in Operators}
           rank(i) == Rank(tokens[i].type)
           weakest == {i \in ops : \A j \in ops : rank(j) <= rank(i)}
<1>1. outside \in SUBSET (left .. right \union {0})
  BY OutsideIn
<1>2. ops \subseteq left .. right
  <2> HIDE DEF outside
  <2> QED
    BY <1>1
<1>3. ops # {} /\ op = CHOOSE i \in weakest : \A j \in weakest : j <= i
  BY DEF get_op_position
<1>4. \A i \in ops : rank(i) \in 1 .. 4
  <2>1. \A t \in Operators : Rank(t) \in 1 .. 4
    BY SMT DEF Operators, Rank
  <2> HIDE DEF outside
  <2> QED
    BY <2>1
<1>5. PICK w \in ops : \A j \in ops : rank(j) <= rank(w)
  <2> DEFINE R == {rank(i) : i \in ops}
  <2>1. R \in SUBSET (1 .. 4) /\ R # {}
    <3> HIDE DEF ops, rank
    <3> QED
      BY <1>3, <1>4
  <2>2. PICK m \in R : \A k \in R : k <= m
    <3> HIDE DEF R
    <3> QED
      BY <2>1, GreatestNumber
  <2> HIDE DEF ops, rank
  <2> QED
    BY <2>2
<1>6. weakest \in SUBSET (left .. right) /\ weakest # {}
  <2> HIDE DEF ops, rank
  <2> QED
    BY <1>2, <1>5
<1> HIDE DEF weakest
<1>7. PICK m \in weakest : \A k \in weakest : k <= m
  BY <1>6, GreatestNumber
<1>8. op \in weakest
  BY <1>3, <1>7
<1> QED
  BY <1>6, <1>8 DEF weakest

------------------------------------------------------------------------------
(* An evaluation ends in a word, in a warning, or in a crash.              *)
Results == Values \union {Warning, Crash}

LEMMA WordsAreResults ==
  /\ 0 \in Values /\ 1 \in Values /\ Word \in Nat /\ Word > 1
  /\ \A v \in Results : IsWord(v) <=> v \in Values
  /\ Warning \notin Values
<1>1. Word \in Nat /\ Word > 1
  BY SdbExprAssumption
<1> QED
  BY <1>1, SMT DEF Values, Results, Warning, Crash, IsWord

LEMMA GetValueIn ==
  ASSUME NEW token \in Token, NEW r \in [Registers -> Values]
  PROVE  get_value(token, r) \in Values \union {Crash}
<1>1. CASE token.type = "num"
  <2>1. token.val \in Int
    BY <1>1, SMT DEF Token, Operators
  <2>2. token.val % Word \in Values
    BY <2>1, WordsAreResults, SMT DEF Values
  <2> QED
    BY <1>1, <2>2 DEF get_value
<1>2. CASE token.type = "reg"
  <2>1. token.type # "num"
    BY <1>2
  <2> QED
    BY <1>2, <2>1 DEF get_value
<1>3. CASE token.type # "num" /\ token.type # "reg"
  BY <1>3, WordsAreResults DEF get_value
<1> QED
  BY <1>1, <1>2, <1>3

LEMMA ApplyIn ==
  ASSUME NEW op \in Operators, NEW a \in Values, NEW b \in Values
  PROVE  Apply(op, a, b) \in Values \union {Crash}
<1>1. a \in Int /\ b \in Int /\ a >= 0 /\ b >= 0
  BY SMT DEF Values
<1>2. \A v \in Int : v % Word \in Values
  BY WordsAreResults, SMT DEF Values
<1>3. \A p : Bit(p) \in Values
  BY WordsAreResults DEF Bit
<1>4. a + b \in Int /\ a - b \in Int /\ a * b \in Int
  BY <1>1
<1>5. ASSUME b # 0
      PROVE  a \div b \in Values
  <2>1. b \in Int /\ b > 0 /\ a \in Int /\ a >= 0 /\ a < Word /\ Word \in Int
    BY <1>1, <1>5, WordsAreResults, SMT DEF Values
  <2>2. a \div b \in Int /\ a \div b >= 0 /\ a \div b <= a
    BY <2>1, SMT
  <2> QED
    BY <2>1, <2>2, SMT DEF Values
<1>6. CASE op = "+"
  BY <1>2, <1>4, <1>6 DEF Apply
<1>7. CASE op = "-"
  BY <1>2, <1>4, <1>7 DEF Apply
<1>8. CASE op = "*"
  BY <1>2, <1>4, <1>8 DEF Apply
<1>9. CASE op = "/"
  BY <1>5, <1>9 DEF Apply
<1>10. CASE op = "=="
  BY <1>3, <1>10 DEF Apply
<1>11. CASE op = "!="
  BY <1>3, <1>11 DEF Apply
<1>12. CASE op = "&&"
  BY <1>3, <1>12 DEF Apply
<1> QED
  BY <1>6, <1>7, <1>8, <1>9, <1>10, <1>11, <1>12 DEF Operators

(* The spans inside a span of two tokens or more are shorter.              *)
Spans(n) == (1 .. n + 1) \X (0 .. n)
Width(left, right) == IF left > right THEN 0 ELSE right - left + 1

LEMMA InnerSpans ==
  ASSUME NEW n \in Nat, NEW left \in 1 .. n + 1, NEW right \in 0 .. n,
         ~ (left > right), left # right
  PROVE  /\ left + 1 \in 1 .. n + 1 /\ right - 1 \in 0 .. n
         /\ Width(left + 1, right - 1) < Width(left, right)
         /\ \A op \in left .. right :
              /\ op - 1 \in 0 .. n /\ Width(left, op - 1) < Width(left, right)
              /\ op + 1 \in 1 .. n + 1 /\ Width(op + 1, right) < Width(left, right)
BY SMT DEF Width

LEMMA EvalSpanIn ==
  ASSUME NEW tokens \in Seq(Token), NEW r \in [Registers -> Values], NEW n, n = Len(tokens),
         NEW left \in 1 .. n + 1, NEW right \in 0 .. n, NEW f,
         \A a \in 1 .. n + 1, b \in 0 .. n :
           Width(a, b) < Width(left, right) => f[<<a, b>>] \in Results
  PROVE  evalSpan(f, tokens, r, left, right) \in Results
<1>1. n \in Nat /\ tokens \in [1 .. n -> Token]
  OBVIOUS
<1>2. CASE left > right
  BY <1>2 DEF evalSpan, Results
<1>3. CASE ~ (left > right) /\ left = right
  <2>1. left \in 1 .. n
    BY <1>1, <1>3, SMT
  <2>2. get_value(tokens[left], r) \in Results
    BY <1>1, <2>1, GetValueIn DEF Results
  <2> QED
    BY <1>3, <2>2 DEF evalSpan
<1>4. CASE ~ (left > right) /\ left # right
  <2> DEFINE op == get_op_position(tokens, left, right)
             val1 == f[<<left, op - 1>>]
             val2 == f[<<op + 1, right>>]
  <2>1. /\ left + 1 \in 1 .. n + 1 /\ right - 1 \in 0 .. n
        /\ Width(left + 1, right - 1) < Width(left, right)
        /\ \A o \in left .. right :
             /\ o - 1 \in 0 .. n /\ Width(left, o - 1) < Width(left, right)
             /\ o + 1 \in 1 .. n + 1 /\ Width(o + 1, right) < Width(left, right)
    BY <1>1, <1>4, InnerSpans
  <2>2. CASE check_parenthesis(tokens, left, right) = "both"
    BY <1>4, <2>1, <2>2 DEF evalSpan
  <2>3. CASE check_parenthesis(tokens, left, right) = "bad"
    BY <1>4, <2>3 DEF evalSpan, Results
  <2>4. CASE /\ check_parenthesis(tokens, left, right) # "both"
             /\ check_parenthesis(tokens, left, right) # "bad"
    <3>1. CASE op = NoPosition
      BY <1>4, <2>4, <3>1 DEF evalSpan, Results
    <3>2. CASE op # NoPosition
      <4>1. left \in Int /\ right \in Int /\ left <= right
        BY <1>1, <1>4, SMT
      <4>2. op \in left .. right /\ tokens[op].type \in Operators
        BY <4>1, <3>2, OpPositionIn
      <4>3. val1 \in Results /\ val2 \in Results
        BY <2>1, <4>2
      <4>4. ASSUME IsWord(val1), IsWord(val2)
            PROVE  Apply(tokens[op].type, val1, val2) \in Results
        <5>1. val1 \in Values /\ val2 \in Values
          BY <4>3, <4>4, WordsAreResults
        <5> HIDE DEF op, val1, val2
        <5> QED
          BY <4>2, <5>1, ApplyIn DEF Results
      <4>5. evalSpan(f, tokens, r, left, right)
              = IF ~ IsWord(val1) THEN val1
                ELSE IF val1 = 0 /\ tokens[op].type = "&&" THEN 0
                ELSE IF IsWord(val2) THEN Apply(tokens[op].type, val1, val2)
                ELSE val2
        BY <1>4, <2>4, <3>2 DEF evalSpan
      <4>6. 0 \in Results
        BY WordsAreResults DEF Results
      <4> HIDE DEF op, val1, val2
      <4> QED
        BY <4>3, <4>4, <4>5, <4>6
    <3> QED
      BY <3>1, <3>2
  <2> QED
    BY <2>2, <2>3, <2>4
<1> QED
  BY <1>2, <1>3, <1>4

LEMMA EvalSpanLocal ==
  ASSUME NEW tokens \in Seq(Token), NEW r, NEW n, n = Len(tokens),
         NEW left \in 1 .. n + 1, NEW right \in 0 .. n, NEW f, NEW g,
         \A a \in 1 .. n + 1, b \in 0 .. n :
           Width(a, b) < Width(left, right) => f[<<a, b>>] = g[<<a, b>>]
  PROVE  evalSpan(f, tokens, r, left, right) = evalSpan(g, tokens, r, left, right)
<1>1. n \in Nat
  OBVIOUS
<1>2. CASE left > right
  BY <1>2 DEF evalSpan
<1>3. CASE ~ (left > right) /\ left = right
  BY <1>3 DEF evalSpan
<1>4. CASE ~ (left > right) /\ left # right
  <2> DEFINE op == get_op_position(tokens, left, right)
  <2>1. /\ left + 1 \in 1 .. n + 1 /\ right - 1 \in 0 .. n
        /\ Width(left + 1, right - 1) < Width(left, right)
        /\ \A o \in left .. right :
             /\ o - 1 \in 0 .. n /\ Width(left, o - 1) < Width(left, right)
             /\ o + 1 \in 1 .. n + 1 /\ Width(o + 1, right) < Width(left, right)
    BY <1>1, <1>4, InnerSpans
  <2>2. CASE check_parenthesis(tokens, left, right) = "both"
    BY <1>4, <2>1, <2>2 DEF evalSpan
  <2>3. CASE check_parenthesis(tokens, left, right) = "bad"
    BY <1>4, <2>3 DEF evalSpan
  <2>4. CASE /\ check_parenthesis(tokens, left, right) # "both"
             /\ check_parenthesis(tokens, left, right) # "bad"
    <3>1. CASE op = NoPosition
      BY <1>4, <2>4, <3>1 DEF evalSpan
    <3>2. CASE op # NoPosition
      <4>1. left \in Int /\ right \in Int /\ left <= right
        BY <1>1, <1>4, SMT
      <4>2. op \in left .. right
        BY <4>1, <3>2, OpPositionIn
      <4>3. f[<<left, op - 1>>] = g[<<left, op - 1>>] /\ f[<<op + 1, right>>] = g[<<op + 1, right>>]
        BY <2>1, <4>2
      <4>4. ASSUME NEW h
            PROVE  evalSpan(h, tokens, r, left, right)
                     = IF ~ IsWord(h[<<left, op - 1>>]) THEN h[<<left, op - 1>>]
                       ELSE IF h[<<left, op - 1>>] = 0 /\ tokens[op].type = "&&" THEN 0
                       ELSE IF IsWord(h[<<op + 1, right>>])
                         THEN Apply(tokens[op].type, h[<<left, op - 1>>], h[<<op + 1, right>>])
                       ELSE h[<<op + 1, right>>]
        BY <1>4, <2>4, <3>2 DEF evalSpan
      <4> HIDE DEF op
      <4> QED
        BY <4>3, <4>4
    <3> QED
      BY <3>1, <3>2
  <2> QED
    BY <2>2, <2>3, <2>4
<1> QED
  BY <1>2, <1>3, <1>4

LEMMA EvalIn ==
  ASSUME NEW tokens \in Seq(Token), NEW r \in [Registers -> Values]
  PROVE  /\ eval(tokens, r) \in Results
         /\ \E ev : /\ eval(tokens, r) = ev[<<1, Len(tokens)>>]
                    /\ \A x \in Spans(Len(tokens)) :
                         ev[x] = evalSpan(ev, tokens, r, x[1], x[2])
<1> DEFINE n == Len(tokens)
           D == (1 .. (n + 1)) \X (0 .. n)
           V == Results
           N == n + 2
           rank == [x \in D |-> Width(x[1], x[2])]
           B == [p \in [D -> V] \X D |-> evalSpan(p[1], tokens, r, p[2][1], p[2][2])]
           ev == CHOOSE ev : ev = [x \in D |-> evalSpan(ev, tokens, r, x[1], x[2])]
<1>1. n \in Nat /\ N \in Nat /\ <<1, n>> \in D /\ V # {}
  BY SMT DEF Results
<1>2. rank \in [D -> 0 .. N] /\ \A x \in D : rank[x] = Width(x[1], x[2])
  <2>1. \A a \in 1 .. n + 1, b \in 0 .. n : Width(a, b) \in 0 .. n + 2
    BY <1>1, SMT DEF Width
  <2>2. \A x \in D : x[1] \in 1 .. n + 1 /\ x[2] \in 0 .. n
    OBVIOUS
  <2>3. \A x \in D : Width(x[1], x[2]) \in 0 .. N
    BY <2>1, <2>2
  <2> HIDE DEF D, N
  <2> QED
    BY <2>3
<1>3. \A a \in 1 .. n + 1, b \in 0 .. n : <<a, b>> \in D /\ rank[<<a, b>>] = Width(a, b)
  <2>1. \A a \in 1 .. n + 1, b \in 0 .. n : <<a, b>> \in D
    OBVIOUS
  <2> HIDE DEF D
  <2> QED
    BY <1>2, <2>1
<1>4. ASSUME NEW f, NEW x \in D, \A y \in D : rank[y] < rank[x] => f[y] \in V
      PROVE  evalSpan(f, tokens, r, x[1], x[2]) \in V
  <2>1. x[1] \in 1 .. n + 1 /\ x[2] \in 0 .. n
    OBVIOUS
  <2>2. \A a \in 1 .. n + 1, b \in 0 .. n :
          Width(a, b) < Width(x[1], x[2]) => f[<<a, b>>] \in Results
    <3> HIDE DEF D, rank
    <3> QED
      BY <1>2, <1>3, <1>4
  <2> HIDE DEF n, D, rank
  <2>3. n = Len(tokens)
    BY DEF n
  <2> QED
    BY <2>1, <2>2, <2>3, EvalSpanIn
<1>5. ASSUME NEW f, NEW g, NEW x \in D, \A y \in D : rank[y] < rank[x] => f[y] = g[y]
      PROVE  evalSpan(f, tokens, r, x[1], x[2]) = evalSpan(g, tokens, r, x[1], x[2])
  <2>1. x[1] \in 1 .. n + 1 /\ x[2] \in 0 .. n
    OBVIOUS
  <2>2. PICK left \in 1 .. n + 1 : left = x[1]
    BY <2>1
  <2>3. PICK right \in 0 .. n : right = x[2]
    BY <2>1
  <2>4. \A a \in 1 .. n + 1, b \in 0 .. n :
          Width(a, b) < Width(left, right) => f[<<a, b>>] = g[<<a, b>>]
    <3> HIDE DEF D, rank
    <3> QED
      BY <1>2, <1>3, <1>5, <2>2, <2>3
  <2>5. evalSpan(f, tokens, r, left, right) = evalSpan(g, tokens, r, left, right)
    <3>1. n = Len(tokens)
      OBVIOUS
    <3> HIDE DEF n, D, rank
    <3> QED
      BY <2>4, <3>1, EvalSpanLocal
  <2> QED
    BY <2>2, <2>3, <2>5
<1> HIDE DEF D, V, N, rank
<1>6. B \in [[D -> V] \X D -> V]
  <2>1. ASSUME NEW f \in [D -> V], NEW x \in D
        PROVE  evalSpan(f, tokens, r, x[1], x[2]) \in V
    BY <1>4
  <2>2. \A p \in [D -> V] \X D : p[1] \in [D -> V] /\ p[2] \in D
    OBVIOUS
  <2> QED
    BY <2>1, <2>2
<1>7. \A f \in [D -> V], x \in D : B[<<f, x>>] = evalSpan(f, tokens, r, x[1], x[2])
  OBVIOUS
<1> HIDE DEF B
<1>8. PICK f \in [D -> V] : \A x \in D : f[x] = B[<<f, x>>]
  <2>1. DefinedByRank(D, V, N, rank, B)
    <3>1. ASSUME NEW f \in [D -> V], NEW g \in [D -> V], NEW x \in D,
                 \A y \in D : rank[y] < rank[x] => f[y] = g[y]
          PROVE  B[<<f, x>>] = B[<<g, x>>]
      BY <1>5, <1>7, <3>1
    <3> QED
      BY <1>1, <1>2, <1>6, <3>1 DEF DefinedByRank
  <2> QED
    BY <2>1, RecursionExists
<1>9. f = [x \in D |-> evalSpan(f, tokens, r, x[1], x[2])]
  BY <1>7, <1>8
<1>10. ev = [x \in D |-> evalSpan(ev, tokens, r, x[1], x[2])]
  BY <1>9
<1>11. eval(tokens, r) = ev[<<1, n>>]
  BY DEF eval, D
<1> HIDE DEF ev
<1>12. \A x \in D : ev[x] = evalSpan(ev, tokens, r, x[1], x[2])
  BY <1>10
<1> DEFINE P == {x \in D : ev[x] \in V}
<1>13. ASSUME NEW x \in D, \A y \in D : rank[y] < rank[x] => y \in P
       PROVE  x \in P
  BY <1>4, <1>12, <1>13
<1>14. P = D
  <2>1. P \in SUBSET D
    OBVIOUS
  <2> HIDE DEF P
  <2>2. HoldsByRank(D, N, rank, P)
    BY <1>1, <1>2, <1>13, <2>1 DEF HoldsByRank
  <2> QED
    BY <2>2, RankInduction
<1>15. eval(tokens, r) \in Results
  <2> HIDE DEF n
  <2> QED
    BY <1>1, <1>11, <1>14 DEF V
<1> QED
  BY <1>11, <1>12, <1>15 DEF n, D, Spans

LEMMA ExprIsResult ==
  ASSUME NEW text \in Seq(Token), NEW r \in [Registers -> Values]
  PROVE  expr(text, r) \in Values \union {Crash}
<1> DEFINE value == eval(preprocessing(text), r)
<1>1. value \in Results
  BY PreprocessingTokens, EvalIn
<1> HIDE DEF value
<1> QED
  BY <1>1, WordsAreResults DEF expr, value, Results

------------------------------------------------------------------------------
(* The nodes s are linked in the pool wps, each once, from start to NULL.  *)
Linked(wps, start, s) ==
  /\ s \in Seq(Nodes)
  /\ \A i, j \in 1 .. Len(s) : s[i] = s[j] => i = j
  /\ start = IF s = << >> THEN NULL ELSE s[1]
  /\ \A k \in 1 .. Len(s) :
       wps[s[k]].next = IF k = Len(s) THEN NULL ELSE s[k + 1]

LEMMA LinkedFits ==
  ASSUME NEW wps, NEW start, NEW s, Linked(wps, start, s)
  PROVE  Len(s) \in Nat /\ Len(s) <= NR_WP
<1>1. NR_WP \in Nat /\ NR_WP > 0 /\ Len(s) \in Nat /\ s \in [1 .. Len(s) -> Nodes]
  BY DebuggerAssumption DEF Linked
<1>2. s \in Injection(1 .. Len(s), Nodes)
  BY <1>1 DEF Linked, Injection, IsInjective
<1>3. /\ IsFiniteSet(Nodes) /\ Cardinality(Nodes) = NR_WP
      /\ Cardinality(1 .. Len(s)) = Len(s)
  <2>1. 0 \in Int /\ NR_WP - 1 \in Int /\ 0 <= (NR_WP - 1) + 1 /\ (NR_WP - 1) - 0 + 1 = NR_WP
    BY <1>1, SMT
  <2>2. IsFiniteSet(0 .. (NR_WP - 1)) /\ Cardinality(0 .. (NR_WP - 1)) = (NR_WP - 1) - 0 + 1
    BY <2>1, IntervalSize
  <2>3. Cardinality(1 .. Len(s)) = Len(s)
    BY <1>1, IntervalSize
  <2> QED
    BY <2>1, <2>2, <2>3 DEF Nodes
<1>4. Cardinality(1 .. Len(s)) <= Cardinality(Nodes)
  BY <1>2, <1>3, FS_Injection
<1> QED
  BY <1>1, <1>3, <1>4

(* The walk along next finds them.                                         *)
LEMMA ChainIs ==
  ASSUME NEW wps, NEW start, NEW s, Linked(wps, start, s)
  PROVE  Chain(wps, start) = s
<1> DEFINE D == 1 .. NR_WP + 1
           step(f, k) == IF k = 1 THEN start
                         ELSE IF f[k - 1] = NULL THEN NULL ELSE wps[f[k - 1]].next
           node == CHOOSE f : f = [k \in D |-> step(f, k)]
           g == [k \in D |-> IF k <= Len(s) THEN s[k] ELSE NULL]
<1>1. /\ Len(s) \in Nat /\ Len(s) <= NR_WP /\ NR_WP \in Nat /\ NR_WP > 0
      /\ s \in [1 .. Len(s) -> Nodes]
  BY LinkedFits, DebuggerAssumption DEF Linked
<1>2. \A k \in D : g[k] = IF k <= Len(s) THEN s[k] ELSE NULL
  OBVIOUS
<1>3. \A k \in 1 .. Len(s) : s[k] # NULL
  BY <1>1, SMT DEF Nodes, NULL
<1>4. ASSUME NEW k \in D
      PROVE  g[k] = step(g, k)
  <2>1. CASE k = 1
    <3>1. CASE s = << >>
      BY <2>1, <3>1, <1>1, <1>2 DEF Linked
    <3>2. CASE s # << >>
      <4>1. Len(s) # 0 /\ 1 <= Len(s)
        BY <3>2, EmptySeq, SMT DEF Linked
      <4> QED
        BY <2>1, <3>2, <4>1, <1>2 DEF Linked
    <3> QED
      BY <3>1, <3>2
  <2>2. CASE k # 1
    <3>1. k - 1 \in D /\ k - 1 >= 1 /\ (k - 1) + 1 = k
      BY <2>2, <1>1, SMT
    <3>2. CASE k - 1 <= Len(s)
      <4>1. k - 1 \in 1 .. Len(s)
        BY <3>1, <3>2, <1>1, SMT
      <4>2. g[k - 1] = s[k - 1] /\ g[k - 1] # NULL
        BY <4>1, <3>1, <3>2, <1>2, <1>3
      <4>3. wps[s[k - 1]].next = IF k - 1 = Len(s) THEN NULL ELSE s[(k - 1) + 1]
        BY <4>1 DEF Linked
      <4>4. k - 1 = Len(s) <=> ~ (k <= Len(s))
        BY <3>1, <3>2, <1>1, SMT
      <4> QED
        BY <2>2, <3>1, <4>2, <4>3, <4>4, <1>2
    <3>3. CASE ~ (k - 1 <= Len(s))
      <4>1. ~ (k <= Len(s))
        BY <3>1, <3>3, <1>1, SMT
      <4> QED
        BY <2>2, <3>1, <3>3, <4>1, <1>2
    <3> QED
      BY <3>2, <3>3
  <2> QED
    BY <2>1, <2>2
<1>5. g = [k \in D |-> step(g, k)]
  <2>1. g = [k \in D |-> g[k]]
    OBVIOUS
  <2> HIDE DEF g, step
  <2> QED
    BY <2>1, <1>4
<1>6. node = [k \in D |-> step(node, k)]
  <2> HIDE DEF g, step
  <2> QED
    BY <1>5
<1>7. ASSUME NEW k \in D
      PROVE  node[k] = step(node, k)
  <2> HIDE DEF node, step
  <2> QED
    BY <1>6
<1>8. Chain(wps, start)
        = [k \in 1 .. Cardinality({j \in D : node[j] # NULL}) |-> node[k]]
  BY DEF Chain
<1> HIDE DEF node, g
<1>9. \A k \in D : node[k] = g[k]
  <2> SUFFICES ASSUME NEW k \in D, node[k] # g[k]
               PROVE  FALSE
    OBVIOUS
  <2> DEFINE S == {j \in D : node[j] # g[j]}
  <2>1. S \in SUBSET Nat /\ S # {}
    BY <1>1, SMT
  <2> HIDE DEF S
  <2>2. PICK m \in S : \A j \in S : m <= j
    BY <2>1, LeastNumber
  <2> USE DEF S
  <2>3. m \in D /\ node[m] # g[m] /\ m \in Nat
    BY <2>1, <2>2
  <2>4. m # 1
    BY <2>3, <1>4, <1>7
  <2>5. m - 1 \in D /\ ~ (m <= m - 1)
    BY <2>3, <2>4, <1>1, SMT
  <2>6. node[m - 1] = g[m - 1]
    BY <2>2, <2>5
  <2> QED
    BY <2>3, <2>6, <1>4, <1>7
<1>10. {j \in D : node[j] # NULL} = 1 .. Len(s)
  <2>1. ASSUME NEW j \in D
        PROVE  node[j] # NULL <=> j \in 1 .. Len(s)
    BY <1>1, <1>2, <1>3, <1>9, SMT
  <2>2. 1 .. Len(s) \subseteq D
    BY <1>1, SMT
  <2> HIDE DEF D
  <2> QED
    BY <2>1, <2>2
<1>11. Cardinality(1 .. Len(s)) = Len(s)
  BY <1>1, IntervalSize, SMTT(30)
<1>12. Chain(wps, start) = [k \in 1 .. Len(s) |-> node[k]]
  BY <1>8, <1>10, <1>11
<1>13. \A k \in 1 .. Len(s) : node[k] = s[k]
  BY <1>1, <1>2, <1>9, SMT
<1> QED
  BY <1>1, <1>12, <1>13

------------------------------------------------------------------------------
(* A node more in front, and a node less.                                  *)
Elems(s) == {s[k] : k \in 1 .. Len(s)}

Without(s, k) == [j \in 1 .. Len(s) - 1 |-> s[IF j < k THEN j ELSE j + 1]]

LEMMA PushLinked ==
  ASSUME NEW wps, NEW wps2, NEW start, NEW s, Linked(wps, start, s),
         NEW n \in Nodes, n \notin Elems(s), wps2[n].next = start,
         \A i \in Elems(s) : wps2[i].next = wps[i].next
  PROVE  /\ Linked(wps2, n, <<n>> \o s) /\ Elems(<<n>> \o s) = Elems(s) \cup {n}
         /\ Len(<<n>> \o s) = Len(s) + 1 /\ (<<n>> \o s)[1] = n
         /\ \A k \in 1 .. Len(s) : (<<n>> \o s)[k + 1] = s[k]
<1> DEFINE t == <<n>> \o s
<1>1. s \in Seq(Nodes) /\ Len(s) \in Nat /\ s \in [1 .. Len(s) -> Nodes] /\ <<n>> \in Seq(Nodes)
  BY DEF Linked
<1>2. /\ t \in Seq(Nodes) /\ Len(t) = Len(s) + 1 /\ t[1] = n
      /\ \A k \in 1 .. Len(s) : t[k + 1] = s[k]
  BY <1>1, SMT
<1> HIDE DEF t
<1>3. t # << >>
  BY <1>1, <1>2, EmptySeq, SMT
<1>4. \A k \in 1 .. Len(t) : k = 1 \/ (k - 1 \in 1 .. Len(s) /\ t[k] = s[k - 1])
  <2> SUFFICES ASSUME NEW k \in 1 .. Len(t), k # 1
               PROVE  k - 1 \in 1 .. Len(s) /\ t[k] = s[k - 1]
    OBVIOUS
  <2>1. k - 1 \in 1 .. Len(s) /\ (k - 1) + 1 = k
    BY <1>1, <1>2, SMT
  <2> QED
    BY <2>1, <1>2
<1>5. \A k \in 1 .. Len(s) : s[k] \in Elems(s) /\ s[k] # n
  BY DEF Elems
<1>6. ASSUME NEW i \in 1 .. Len(t), NEW j \in 1 .. Len(t), t[i] = t[j]
      PROVE  i = j
  <2>1. CASE i = 1 \/ j = 1
    BY <2>1, <1>2, <1>4, <1>5, <1>6
  <2>2. CASE i # 1 /\ j # 1
    <3>1. i - 1 \in 1 .. Len(s) /\ j - 1 \in 1 .. Len(s) /\ s[i - 1] = s[j - 1]
      BY <2>2, <1>4, <1>6
    <3>2. i - 1 = j - 1
      BY <3>1 DEF Linked
    <3> QED
      BY <3>2, <1>2, SMT
  <2> QED
    BY <2>1, <2>2
<1>7. ASSUME NEW k \in 1 .. Len(t)
      PROVE  wps2[t[k]].next = IF k = Len(t) THEN NULL ELSE t[k + 1]
  <2>1. CASE k = 1
    <3>1. CASE s = << >>
      BY <2>1, <3>1, <1>2, EmptySeq DEF Linked
    <3>2. CASE s # << >>
      <4>1. Len(s) # 0 /\ 1 \in 1 .. Len(s) /\ 1 # Len(t)
        BY <3>2, <1>1, <1>2, EmptySeq, SMT
      <4>2. t[2] = s[1]
        BY <4>1, <1>2, SMT
      <4> QED
        BY <2>1, <3>2, <4>1, <4>2, <1>2, SMT DEF Linked
    <3> QED
      BY <3>1, <3>2
  <2>2. CASE k # 1
    <3>1. k - 1 \in 1 .. Len(s) /\ t[k] = s[k - 1] /\ k \in Int
      BY <2>2, <1>4
    <3>2. wps2[t[k]].next = wps[s[k - 1]].next
      BY <3>1, <1>5
    <3>3. wps[s[k - 1]].next = IF k - 1 = Len(s) THEN NULL ELSE s[(k - 1) + 1]
      BY <3>1 DEF Linked
    <3>4. k = Len(t) <=> k - 1 = Len(s)
      BY <3>1, <1>1, <1>2, SMT
    <3>5. k # Len(t) => k \in 1 .. Len(s) /\ (k - 1) + 1 = k
      BY <3>1, <1>1, <1>2, SMT
    <3> QED
      BY <3>2, <3>3, <3>4, <3>5, <1>2
  <2> QED
    BY <2>1, <2>2
<1>8. Linked(wps2, n, t)
  BY <1>2, <1>3, <1>6, <1>7 DEF Linked
<1>9. Elems(t) = Elems(s) \cup {n}
  <2>1. \A k \in 1 .. Len(t) : t[k] \in Elems(s) \cup {n}
    BY <1>2, <1>4 DEF Elems
  <2>2. \A k \in 1 .. Len(s) : k + 1 \in 1 .. Len(t) /\ s[k] = t[k + 1]
    BY <1>1, <1>2, SMT
  <2>3. 1 \in 1 .. Len(t)
    BY <1>1, <1>2, SMT
  <2> QED
    BY <2>1, <2>2, <2>3, <1>2 DEF Elems
<1> QED
  BY <1>2, <1>8, <1>9 DEF t

LEMMA SkipArith ==
  ASSUME NEW n \in Int, NEW k \in 1 .. n, NEW j \in 1 .. n - 1
  PROVE  /\ (IF j < k THEN j ELSE j + 1) = k - 1 => j = k - 1 /\ (j = n - 1 <=> k = n)
         /\ (IF j < k THEN j ELSE j + 1) # k - 1 =>
              /\ j = n - 1 <=> (IF j < k THEN j ELSE j + 1) = n
              /\ (IF j + 1 < k THEN j + 1 ELSE (j + 1) + 1) = (IF j < k THEN j ELSE j + 1) + 1
         /\ j # n - 1 => j + 1 \in 1 .. n - 1
BY SMT

(* The links that go past the k-th node.                                   *)
Bypasses(wps, wps2, start, start2, s, k) ==
  /\ start2 = IF k = 1 THEN wps[s[1]].next ELSE start
  /\ \A j \in 1 .. Len(s) :
       j # k => wps2[s[j]].next = IF j = k - 1 THEN wps[s[k]].next ELSE wps[s[j]].next

LEMMA WithoutLinked ==
  ASSUME NEW wps, NEW wps2, NEW start, NEW start2, NEW s, NEW k \in 1 .. Len(s),
         Linked(wps, start, s), Bypasses(wps, wps2, start, start2, s, k)
  PROVE  /\ Linked(wps2, start2, Without(s, k)) /\ Elems(Without(s, k)) = Elems(s) \ {s[k]}
         /\ Len(Without(s, k)) = Len(s) - 1
<1> DEFINE t == Without(s, k)
           at(j) == IF j < k THEN j ELSE j + 1
<1>1. s \in Seq(Nodes) /\ Len(s) \in Nat /\ s \in [1 .. Len(s) -> Nodes] /\ Len(s) >= 1
      /\ k \in Int
  BY SMT DEF Linked
<1>2. \A j \in 1 .. Len(s) - 1 : at(j) \in 1 .. Len(s) /\ at(j) # k /\ t[j] = s[at(j)]
  BY <1>1, SMT DEF Without
<1>3. t \in Seq(Nodes) /\ Len(t) = Len(s) - 1
  <2>1. t \in [1 .. Len(s) - 1 -> Nodes]
    BY <1>1, SMT DEF Without
  <2>2. Len(s) - 1 \in Nat
    BY <1>1, SMT
  <2> HIDE DEF t
  <2> QED
    BY <2>1, <2>2, SMT
<1>4. \A i, j \in 1 .. Len(t) : at(i) = at(j) => i = j
  BY <1>1, <1>3, SMT
<1>5. \A i, j \in 1 .. Len(t) : t[i] = t[j] => i = j
  <2> SUFFICES ASSUME NEW i \in 1 .. Len(t), NEW j \in 1 .. Len(t), t[i] = t[j]
               PROVE  i = j
    OBVIOUS
  <2>1. at(i) \in 1 .. Len(s) /\ at(j) \in 1 .. Len(s) /\ s[at(i)] = s[at(j)]
    BY <1>2, <1>3
  <2> HIDE DEF at, t
  <2>2. at(i) = at(j)
    BY <2>1 DEF Linked
  <2> QED
    BY <2>2, <1>4
<1> HIDE DEF t
<1>6. start2 = IF t = << >> THEN NULL ELSE t[1]
  <2>1. t = << >> <=> Len(s) = 1
    BY <1>1, <1>3, EmptySeq, SMT
  <2>2. CASE Len(s) = 1
    <3>1. k = 1 /\ wps[s[1]].next = NULL
      BY <2>2, <1>1, SMT DEF Linked
    <3> QED
      BY <2>1, <2>2, <3>1 DEF Bypasses
  <2>3. CASE Len(s) # 1
    <3>1. 1 \in 1 .. Len(s) - 1 /\ 1 \in 1 .. Len(s) /\ 1 # Len(s)
      BY <2>3, <1>1, SMT
    <3>2. wps[s[1]].next = s[1 + 1] /\ start = s[1]
      <4>1. s # << >>
        BY <3>1, <1>1, EmptySeq, SMT
      <4> QED
        BY <3>1, <4>1 DEF Linked
    <3>3. t[1] = s[at(1)]
      BY <3>1, <1>2
    <3>4. at(1) = IF k = 1 THEN 1 + 1 ELSE 1
      BY <1>1, SMT
    <3> HIDE DEF at
    <3> QED
      BY <2>1, <2>3, <3>2, <3>3, <3>4 DEF Bypasses
  <2> QED
    BY <2>2, <2>3
<1>10. \A j \in 1 .. Len(s) - 1 :
         /\ at(j) = k - 1 => j = k - 1 /\ (j = Len(s) - 1 <=> k = Len(s))
         /\ at(j) # k - 1 =>
              /\ j = Len(s) - 1 <=> at(j) = Len(s)
              /\ at(j + 1) = at(j) + 1
         /\ j # Len(s) - 1 => j + 1 \in 1 .. Len(s) - 1
  <2>0. Len(s) \in Int
    BY <1>1
  <2>1. PICK n \in Int : n = Len(s)
    BY <2>0
  <2>2. k \in 1 .. n
    BY <2>1
  <2>3. ASSUME NEW j \in 1 .. n - 1
        PROVE  /\ at(j) = k - 1 => j = k - 1 /\ (j = n - 1 <=> k = n)
               /\ at(j) # k - 1 =>
                    /\ j = n - 1 <=> at(j) = n
                    /\ at(j + 1) = at(j) + 1
               /\ j # n - 1 => j + 1 \in 1 .. n - 1
    BY <2>2, SkipArith
  <2> HIDE DEF at
  <2> QED
    BY <2>1, <2>3, Zenon
<1>7. ASSUME NEW j \in 1 .. Len(t)
      PROVE  wps2[t[j]].next = IF j = Len(t) THEN NULL ELSE t[j + 1]
  <2>1. j \in 1 .. Len(s) - 1 /\ j \in Int
    BY <1>3
  <2>2. at(j) \in 1 .. Len(s) /\ at(j) # k /\ t[j] = s[at(j)]
    BY <2>1, <1>2
  <2>3. wps2[t[j]].next = IF at(j) = k - 1 THEN wps[s[k]].next ELSE wps[s[at(j)]].next
    <3> HIDE DEF at
    <3> QED
      BY <2>2 DEF Bypasses
  <2>4. wps[s[k]].next = IF k = Len(s) THEN NULL ELSE s[k + 1]
    BY DEF Linked
  <2>5. wps[s[at(j)]].next = IF at(j) = Len(s) THEN NULL ELSE s[at(j) + 1]
    <3> HIDE DEF at
    <3> QED
      BY <2>2 DEF Linked
  <2>6. CASE at(j) = k - 1
    <3>1. j = k - 1 /\ (j = Len(t) <=> k = Len(s))
      BY <2>1, <2>6, <1>3, <1>10
    <3>2. CASE k = Len(s)
      BY <2>3, <2>4, <2>6, <3>1, <3>2
    <3>3. CASE k # Len(s)
      <4>1. j + 1 \in 1 .. Len(s) - 1 /\ at(j + 1) = k + 1
        <5>1. j # Len(s) - 1
          BY <3>1, <3>3, <1>3
        <5>2. j + 1 \in 1 .. Len(s) - 1
          BY <5>1, <2>1, <1>10
        <5>3. j + 1 = k /\ (j + 1) + 1 = k + 1 /\ ~ (j + 1 < k)
          <6>1. j = k - 1 /\ j \in Int /\ k \in Int
            BY <3>1, <2>1, <1>1
          <6> QED
            BY ONLY <6>1, SMTT(30)
        <5> QED
          BY <5>2, <5>3, SMTT(30)
      <4>2. t[j + 1] = s[k + 1]
        BY <4>1, <1>2
      <4> QED
        BY <2>3, <2>4, <2>6, <3>1, <3>3, <4>2
    <3> QED
      BY <3>2, <3>3
  <2>7. CASE at(j) # k - 1
    <3>1. j = Len(t) <=> at(j) = Len(s)
      BY <2>1, <2>7, <1>3, <1>10
    <3>2. CASE at(j) = Len(s)
      <4> HIDE DEF at
      <4> QED
        BY <2>3, <2>5, <2>7, <3>1, <3>2
    <3>3. CASE at(j) # Len(s)
      <4>1. j + 1 \in 1 .. Len(s) - 1 /\ at(j + 1) = at(j) + 1
        BY <3>1, <3>3, <2>1, <2>7, <1>3, <1>10
      <4>2. t[j + 1] = s[at(j) + 1]
        BY <4>1, <1>2
      <4> HIDE DEF at
      <4> QED
        BY <2>3, <2>5, <2>7, <3>1, <3>3, <4>2
    <3> QED
      BY <3>2, <3>3
  <2> QED
    BY <2>6, <2>7
<1>8. Linked(wps2, start2, t)
  BY <1>3, <1>5, <1>6, <1>7 DEF Linked
<1>9. Elems(t) = Elems(s) \ {s[k]}
  <2>1. ASSUME NEW j \in 1 .. Len(t)
        PROVE  t[j] \in Elems(s) \ {s[k]}
    <3>1. at(j) \in 1 .. Len(s) /\ at(j) # k /\ t[j] = s[at(j)]
      BY <1>2, <1>3
    <3> HIDE DEF at
    <3>2. s[at(j)] # s[k]
      BY <3>1 DEF Linked
    <3> QED
      BY <3>1, <3>2 DEF Elems
  <2>2. ASSUME NEW i \in 1 .. Len(s), s[i] # s[k]
        PROVE  \E j \in 1 .. Len(t) : t[j] = s[i]
    <3>1. i # k
      BY <2>2
    <3>2. PICK j \in 1 .. Len(t) : at(j) = i
      <4>1. CASE i < k
        <5>1. i \in 1 .. Len(t) /\ at(i) = i
          BY <4>1, <1>1, <1>3, SMT
        <5> QED
          BY <5>1
      <4>2. CASE ~ (i < k)
        <5>1. i - 1 \in 1 .. Len(t) /\ at(i - 1) = i
          BY <4>2, <3>1, <1>1, <1>3, SMT
        <5> QED
          BY <5>1
      <4> QED
        BY <4>1, <4>2
    <3> QED
      BY <3>2, <1>2, <1>3
  <2>3. Elems(t) \subseteq Elems(s) \ {s[k]}
    BY <2>1 DEF Elems
  <2>4. Elems(s) \ {s[k]} \subseteq Elems(t)
    BY <2>2 DEF Elems
  <2> QED
    BY <2>3, <2>4
<1> QED
  BY <1>3, <1>8, <1>9 DEF t

------------------------------------------------------------------------------
(* The pool is two linked lists, head's and free_'s, that share no node    *)
(* and leave none out.                                                     *)
WP == [next : Nodes \union {NULL}, expr : Watched \union {None}, old_value : Values]

PoolType ==
  /\ wp_pool \in [Nodes -> WP]
  /\ head \in Nodes \union {NULL} /\ free_ \in Nodes \union {NULL}
  /\ reg \in GuestRegs

PoolLists ==
  /\ Linked(wp_pool, head, Watching) /\ Linked(wp_pool, free_, Free)
  /\ Elems(Watching) \intersect Elems(Free) = {}
  /\ Elems(Watching) \union Elems(Free) = Nodes
  /\ \A i \in Elems(Watching) : wp_pool[i].expr \in Watched

PoolInv == PoolType /\ PoolLists

(* To know the lists after a step it is enough to find them.               *)
LEMMA ListsFound ==
  ASSUME NEW W, NEW F,
         Linked(wp_pool', head', W), Linked(wp_pool', free_', F),
         Elems(W) \intersect Elems(F) = {}, Elems(W) \union Elems(F) = Nodes,
         \A i \in Elems(W) : wp_pool'[i].expr \in Watched
  PROVE  PoolLists' /\ Watching' = W /\ Free' = F
<1>1. Chain(wp_pool', head') = W /\ Chain(wp_pool', free_') = F
  BY ChainIs
<1>2. Watching' = W /\ Free' = F
  BY <1>1 DEF Watching, Free
<1>3. Linked(wp_pool, head, Watching)' /\ Linked(wp_pool, free_, Free)'
  BY <1>2 DEF Linked
<1>4. Elems(Watching)' = Elems(W) /\ Elems(Free)' = Elems(F)
  BY <1>2 DEF Elems
<1> QED
  BY <1>2, <1>3, <1>4 DEF PoolLists

LEMMA NodesLists ==
  ASSUME NEW wps, NEW start, NEW s, Linked(wps, start, s)
  PROVE  /\ Len(s) \in Nat /\ s \in [1 .. Len(s) -> Nodes] /\ Elems(s) \subseteq Nodes
         /\ start # NULL => s # << >> /\ 1 \in 1 .. Len(s) /\ s[1] = start
         /\ start = NULL => s = << >> /\ Len(s) = 0
<1>1. Len(s) \in Nat /\ s \in [1 .. Len(s) -> Nodes] /\ s \in Seq(Nodes)
  BY DEF Linked
<1>2. Elems(s) \subseteq Nodes
  BY <1>1 DEF Elems
<1>3. CASE s = << >>
  BY <1>1, <1>2, <1>3, EmptySeq, SMTT(30) DEF Linked
<1>4. CASE s # << >>
  <2>1. 1 \in 1 .. Len(s)
    BY <1>1, <1>4, EmptySeq, SMT
  <2>2. s[1] # NULL
    <3>1. s[1] \in Nodes
      BY <1>1, <2>1
    <3> QED
      BY <3>1, SMT DEF Nodes, NULL
  <2> QED
    BY <1>1, <1>2, <1>4, <2>1, <2>2 DEF Linked
<1> QED
  BY <1>3, <1>4

LEMMA InitInv == Init => PoolInv
<1> SUFFICES ASSUME Init
             PROVE  PoolInv
  OBVIOUS
<1>1. NR_WP \in Nat /\ NR_WP > 0 /\ 0 \in Values
  BY DebuggerAssumption, SdbExprAssumption, SMT DEF Values
<1>2. PoolType
  <2>1. \A i \in Nodes : (IF i = NR_WP - 1 THEN NULL ELSE i + 1) \in Nodes \union {NULL}
    BY <1>1, SMT DEF Nodes, NULL
  <2>2. \A i \in Nodes :
          [next |-> IF i = NR_WP - 1 THEN NULL ELSE i + 1, expr |-> None, old_value |-> 0] \in WP
    BY <1>1, <2>1 DEF WP
  <2>3. wp_pool \in [Nodes -> WP]
    BY <2>2 DEF Init
  <2>4. 0 \in Nodes
    BY <1>1, SMT DEF Nodes
  <2> QED
    BY <2>3, <2>4 DEF Init, PoolType
<1> DEFINE F == [k \in 1 .. NR_WP |-> k - 1]
<1>3. F \in Seq(Nodes) /\ Len(F) = NR_WP /\ \A k \in 1 .. NR_WP : F[k] = k - 1
  <2>1. F \in [1 .. NR_WP -> Nodes]
    BY <1>1, SMT DEF Nodes
  <2>2. \A k \in 1 .. NR_WP : F[k] = k - 1
    OBVIOUS
  <2> HIDE DEF F
  <2> QED
    BY <1>1, <2>1, <2>2, SMT
<1> HIDE DEF F
<1>4. Linked(wp_pool, free_, F)
  <2>1. \A i, j \in 1 .. Len(F) : F[i] = F[j] => i = j
    BY <1>1, <1>3, SMT
  <2>2. free_ = F[1] /\ F # << >>
    <3>1. F # << >>
      BY <1>1, <1>3, EmptySeq
    <3> QED
      BY <3>1, <1>1, <1>3, SMT DEF Init
  <2>3. ASSUME NEW k \in 1 .. Len(F)
        PROVE  wp_pool[F[k]].next = IF k = Len(F) THEN NULL ELSE F[k + 1]
    <3>1. k \in 1 .. NR_WP /\ F[k] = k - 1 /\ k - 1 \in Nodes /\ (k - 1) + 1 = k
      BY <1>1, <1>3, SMT DEF Nodes
    <3>2. wp_pool[k - 1].next = IF k - 1 = NR_WP - 1 THEN NULL ELSE k
      BY <3>1 DEF Init
    <3>3. k - 1 = NR_WP - 1 <=> k = Len(F)
      BY <3>1, <1>1, <1>3, SMT
    <3>4. k # Len(F) => k + 1 \in 1 .. NR_WP /\ F[k + 1] = k
      <4>1. k # Len(F) => k + 1 \in 1 .. NR_WP /\ (k + 1) - 1 = k
        BY <3>1, <1>1, <1>3, SMT
      <4> QED
        BY <4>1, <1>3
    <3> QED
      BY <3>1, <3>2, <3>3, <3>4
  <2> QED
    BY <1>3, <2>1, <2>2, <2>3 DEF Linked
<1>5. Linked(wp_pool, head, << >>)
  <2>1. << >> \in Seq(Nodes) /\ Len(<< >>) = 0
    BY EmptySeq
  <2> QED
    BY <2>1, SMT DEF Linked, Init
<1>6. Watching = << >> /\ Free = F
  BY <1>4, <1>5, ChainIs DEF Watching, Free
<1>7. Elems(<< >>) = {}
  BY SMT DEF Elems
<1>8. Elems(F) = Nodes
  <2>1. ASSUME NEW i \in Nodes
        PROVE  \E k \in 1 .. Len(F) : F[k] = i
    <3>1. i + 1 \in 1 .. NR_WP /\ (i + 1) - 1 = i
      BY <1>1, SMT DEF Nodes
    <3> QED
      BY <3>1, <1>3
  <2>2. Elems(F) \subseteq Nodes
    BY <1>4, NodesLists
  <2> QED
    BY <2>1, <2>2 DEF Elems
<1>9. PoolLists
  BY <1>4, <1>5, <1>6, <1>7, <1>8 DEF PoolLists
<1> QED
  BY <1>2, <1>9 DEF PoolInv

------------------------------------------------------------------------------
(* A list is as long as the pool when it has all the nodes.                *)
LEMMA LinkedFull ==
  ASSUME NEW wps, NEW start, NEW s, Linked(wps, start, s)
  PROVE  Len(s) = NR_WP <=> Elems(s) = Nodes
<1>1. /\ NR_WP \in Nat /\ NR_WP > 0 /\ Len(s) \in Nat /\ s \in [1 .. Len(s) -> Nodes]
      /\ Elems(s) \in SUBSET Nodes
  BY NodesLists, DebuggerAssumption
<1>2. s \in Bijection(1 .. Len(s), Elems(s))
  <2>1. s \in [1 .. Len(s) -> Elems(s)]
    <3>1. \A k \in 1 .. Len(s) : s[k] \in Elems(s)
      BY DEF Elems
    <3> QED
      BY <1>1, <3>1
  <2>2. s \in Injection(1 .. Len(s), Elems(s))
    BY <2>1 DEF Linked, Injection, IsInjective
  <2>3. s \in Surjection(1 .. Len(s), Elems(s))
    BY <2>1 DEF Surjection, Elems
  <2> QED
    BY <2>2, <2>3 DEF Bijection
<1>3. /\ IsFiniteSet(1 .. Len(s)) /\ Cardinality(1 .. Len(s)) = Len(s)
  BY <1>1, IntervalSize
<1>4. Cardinality(Elems(s)) = Len(s)
  BY <1>2, <1>3, FS_Bijection DEF ExistsBijection
<1>5. IsFiniteSet(Nodes) /\ Cardinality(Nodes) = NR_WP
  <2>1. 0 \in Int /\ NR_WP - 1 \in Int /\ 0 <= (NR_WP - 1) + 1 /\ (NR_WP - 1) - 0 + 1 = NR_WP
    BY <1>1, SMT
  <2>2. IsFiniteSet(0 .. (NR_WP - 1)) /\ Cardinality(0 .. (NR_WP - 1)) = (NR_WP - 1) - 0 + 1
    BY <2>1, IntervalSize
  <2> QED
    BY <2>1, <2>2 DEF Nodes
<1>6. Cardinality(Nodes) = Cardinality(Elems(s)) => Nodes = Elems(s)
  BY <1>1, <1>5, FS_Subset
<1> QED
  BY <1>4, <1>5, <1>6

(* w is refused when every node is watched, and no node is free then.      *)
LEMMA FreeUsedUp ==
  ASSUME PoolInv
  PROVE  /\ Len(Watching) \in Nat /\ Len(Watching) <= NR_WP
         /\ free_ = NULL <=> Len(Watching) = NR_WP
<1>1. PICK wps, W, F, h, f :
        wps = wp_pool /\ W = Watching /\ F = Free /\ h = head /\ f = free_
  OBVIOUS
<1>2. /\ Linked(wps, h, W) /\ Linked(wps, f, F)
      /\ Elems(W) \intersect Elems(F) = {} /\ Elems(W) \union Elems(F) = Nodes
  BY <1>1 DEF PoolInv, PoolLists
<1>3. Len(W) \in Nat /\ Len(W) <= NR_WP /\ (Len(W) = NR_WP <=> Elems(W) = Nodes)
  BY <1>2, LinkedFits, LinkedFull
<1>4. f = NULL => Elems(F) = {}
  <2> SUFFICES ASSUME f = NULL
               PROVE  Elems(F) = {}
    OBVIOUS
  <2>1. Len(F) = 0
    BY <1>2, NodesLists
  <2>2. \A k \in 1 .. Len(F) : FALSE
    BY <2>1, SMT
  <2> QED
    BY <2>2 DEF Elems
<1>5. f # NULL => f \in Elems(F)
  BY <1>2, NodesLists DEF Elems
<1>6. f = NULL <=> Elems(W) = Nodes
  BY <1>2, <1>4, <1>5
<1> QED
  BY <1>1, <1>3, <1>6

LEMMA ExprIsWord ==
  ASSUME NEW text \in Watched, NEW r \in GuestRegs
  PROVE  expr(text, r) \in Values \union {Crash}
<1>1. text \in Seq(Token) /\ r \in [Registers -> Values]
  BY WatchedAssumption, DebuggerAssumption DEF Values
<1> QED
  BY <1>1, ExprIsResult

(* w puts its node in front.                                               *)
LEMMA SetStep ==
  ASSUME PoolInv, NEW text \in Watched, cmd_w(text), expr(text, reg) # Crash
  PROVE  /\ PoolInv' /\ Watching' = <<free_>> \o Watching
         /\ free_ \in Nodes \ Elems(Watching)
         /\ wp_pool'[free_] = [next |-> head, expr |-> text, old_value |-> expr(text, reg)]
         /\ expr(text, reg) \in Values
         /\ \A i \in Elems(Watching) : wp_pool'[i] = wp_pool[i]
<1> DEFINE value == expr(text, reg)
           W == <<free_>> \o Watching
           F == Without(Free, 1)
<1>1. PoolType /\ PoolLists
  BY DEF PoolInv
<1>2. value \in Values
  BY <1>1, ExprIsWord DEF PoolType
<1>3. /\ free_ # NULL /\ head' = free_ /\ free_' = wp_pool[free_].next /\ reg' = reg
      /\ wp_pool' = [wp_pool EXCEPT ![free_] =
                       [next |-> head, expr |-> text, old_value |-> value]]
  BY DEF cmd_w
<1>4. free_ \in Nodes /\ Free[1] = free_ /\ 1 \in 1 .. Len(Free) /\ Free # << >>
  BY <1>1, <1>3, NodesLists DEF PoolType, PoolLists
<1>5. free_ \in Elems(Free) /\ free_ \notin Elems(Watching)
  BY <1>1, <1>4 DEF Elems, PoolLists
<1> HIDE DEF value
<1>6. [next |-> head, expr |-> text, old_value |-> value] \in WP
  BY <1>1, <1>2 DEF PoolType, WP
<1>7. /\ wp_pool' \in [Nodes -> WP]
      /\ wp_pool'[free_] = [next |-> head, expr |-> text, old_value |-> value]
      /\ \A i \in Nodes \ {free_} : wp_pool'[i] = wp_pool[i]
  BY <1>1, <1>3, <1>4, <1>6 DEF PoolType
<1>8. wp_pool[free_] \in WP
  BY <1>1, <1>4 DEF PoolType
<1>9. PoolType'
  BY <1>1, <1>3, <1>4, <1>7, <1>8 DEF PoolType, WP
<1>10. Elems(Watching) \subseteq Nodes /\ Elems(Free) \subseteq Nodes
  BY <1>1, NodesLists DEF PoolLists
<1>11. \A i \in Elems(Watching) : wp_pool'[i] = wp_pool[i]
  BY <1>5, <1>7, <1>10
<1>12. Linked(wp_pool', head', W) /\ Elems(W) = Elems(Watching) \union {free_}
  <2>1. PICK n \in Nodes : n = free_
    BY <1>4
  <2>2. PICK s : s = Watching
    OBVIOUS
  <2>3. PICK h : h = head
    OBVIOUS
  <2>4. PICK wps, wps2 : wps = wp_pool /\ wps2 = wp_pool'
    OBVIOUS
  <2>5. /\ Linked(wps, h, s) /\ n \notin Elems(s) /\ wps2[n].next = h
        /\ \A i \in Elems(s) : wps2[i].next = wps[i].next
    BY <2>1, <2>2, <2>3, <2>4, <1>1, <1>5, <1>7, <1>11 DEF PoolLists
  <2>6. Linked(wps2, n, <<n>> \o s) /\ Elems(<<n>> \o s) = Elems(s) \union {n}
    BY <2>5, PushLinked
  <2> QED
    BY <2>1, <2>2, <2>4, <2>6, <1>3
<1>13. Linked(wp_pool', free_', F) /\ Elems(F) = Elems(Free) \ {free_}
  <2>1. PICK s : s = Free
    OBVIOUS
  <2>2. PICK h, h2 : h = free_ /\ h2 = wp_pool[free_].next
    OBVIOUS
  <2>3. PICK wps, wps2 : wps = wp_pool /\ wps2 = wp_pool'
    OBVIOUS
  <2>4. Linked(wps, h, s) /\ 1 \in 1 .. Len(s) /\ h2 = wps[s[1]].next /\ s[1] = h
    BY <2>1, <2>2, <2>3, <1>1, <1>4 DEF PoolLists
  <2>5. ASSUME NEW j \in 1 .. Len(s), j # 1
        PROVE  wps2[s[j]].next = IF j = 1 - 1 THEN wps[s[1]].next ELSE wps[s[j]].next
    <3>1. j # 1 - 1 /\ s[j] \in Nodes
      BY <2>4, NodesLists, SMT
    <3>2. s[j] # s[1]
      BY <2>4, <2>5 DEF Linked
    <3>3. wps2[s[j]] = wps[s[j]]
      BY <3>1, <3>2, <2>2, <2>3, <2>4, <1>7
    <3> QED
      BY <3>1, <3>3
  <2>6. h2 = IF 1 = 1 THEN wps[s[1]].next ELSE h
    BY <2>4
  <2>7. Linked(wps2, h2, Without(s, 1)) /\ Elems(Without(s, 1)) = Elems(s) \ {s[1]}
    BY <2>4, <2>5, <2>6, WithoutLinked DEF Bypasses
  <2> QED
    BY <2>1, <2>2, <2>3, <2>4, <2>7, <1>3
<1> HIDE DEF W, F
<1>14. PICK W2, F2 : W2 = W /\ F2 = F
  OBVIOUS
<1>15. Elems(W2) \intersect Elems(F2) = {} /\ Elems(W2) \union Elems(F2) = Nodes
  BY <1>1, <1>5, <1>12, <1>13, <1>14 DEF PoolLists
<1>16. \A i \in Elems(W2) : wp_pool'[i].expr \in Watched
  BY <1>1, <1>7, <1>11, <1>12, <1>14 DEF PoolLists
<1>17. PoolLists' /\ Watching' = W2
  BY <1>12, <1>13, <1>14, <1>15, <1>16, ListsFound
<1> QED
  BY <1>2, <1>5, <1>4, <1>7, <1>9, <1>11, <1>14, <1>17 DEF PoolInv, W, value

(* d takes the k-th node out and puts it on the free list.                 *)
TakesOut(k, NO) ==
  /\ NO = Watching[k]
  /\ head' = (IF k = 1 THEN wp_pool[NO].next ELSE head) /\ free_' = NO /\ reg' = reg
  /\ wp_pool' \in [Nodes -> WP] /\ wp_pool'[NO].next = free_
  /\ k # 1 => wp_pool'[Watching[k - 1]].next = wp_pool[NO].next
  /\ \A i \in Nodes :
       /\ i # NO /\ (k # 1 => i # Watching[k - 1]) => wp_pool'[i].next = wp_pool[i].next
       /\ wp_pool'[i].expr = wp_pool[i].expr
       /\ wp_pool'[i].old_value = wp_pool[i].old_value

LEMMA DeleteStep ==
  ASSUME PoolInv, NEW k \in 1 .. Len(Watching), NEW NO, TakesOut(k, NO)
  PROVE  PoolInv' /\ Watching' = Without(Watching, k)
<1>1. PoolType /\ PoolLists
  BY DEF PoolInv
<1>2. PICK W0, F0, h, f, wps, wps2 :
        /\ W0 = Watching /\ F0 = Free /\ h = head /\ f = free_
        /\ wps = wp_pool /\ wps2 = wp_pool'
  OBVIOUS
<1>3. PICK h2 : h2 = IF k = 1 THEN wps[NO].next ELSE h
  OBVIOUS
<1>4. /\ Linked(wps, h, W0) /\ Linked(wps, f, F0)
      /\ Elems(W0) \intersect Elems(F0) = {} /\ Elems(W0) \union Elems(F0) = Nodes
      /\ \A i \in Elems(W0) : wps[i].expr \in Watched
  BY <1>1, <1>2 DEF PoolLists
<1>5. /\ k \in 1 .. Len(W0) /\ NO = W0[k] /\ head' = h2 /\ free_' = NO
      /\ wps2[NO].next = f /\ (k # 1 => wps2[W0[k - 1]].next = wps[NO].next)
      /\ \A i \in Nodes :
           /\ i # NO /\ (k # 1 => i # W0[k - 1]) => wps2[i].next = wps[i].next
           /\ wps2[i].expr = wps[i].expr
  BY <1>2, <1>3 DEF TakesOut
<1>6. /\ Len(W0) \in Nat /\ W0 \in [1 .. Len(W0) -> Nodes] /\ Elems(W0) \subseteq Nodes
      /\ Elems(F0) \subseteq Nodes /\ Len(F0) \in Nat
  BY <1>4, NodesLists
<1>7. NO \in Nodes /\ NO \in Elems(W0) /\ NO \notin Elems(F0)
  BY <1>4, <1>5, <1>6 DEF Elems
<1>8. k # 1 => k - 1 \in 1 .. Len(W0) /\ W0[k - 1] \in Elems(W0)
  BY <1>5, <1>6, SMT DEF Elems
<1>9. /\ Linked(wps2, h2, Without(W0, k)) /\ Elems(Without(W0, k)) = Elems(W0) \ {NO}
  <2>1. h2 = IF k = 1 THEN wps[W0[1]].next ELSE h
    BY <1>3, <1>5
  <2>2. ASSUME NEW j \in 1 .. Len(W0), j # k
        PROVE  wps2[W0[j]].next = IF j = k - 1 THEN wps[W0[k]].next ELSE wps[W0[j]].next
    <3>0. W0[j] # W0[k]
      BY <2>2, <1>4, <1>5 DEF Linked
    <3>1. W0[j] \in Nodes /\ W0[j] # NO
      BY <3>0, <1>5, <1>6
    <3>2. CASE j = k - 1
      <4>1. k # 1
        BY <3>2, <1>6, SMT
      <4> QED
        BY <3>2, <4>1, <1>5
    <3>3. CASE j # k - 1
      <4>1. k # 1 => W0[j] # W0[k - 1]
        BY <3>3, <1>4, <1>8 DEF Linked
      <4> QED
        BY <3>1, <3>3, <4>1, <1>5
    <3> QED
      BY <3>2, <3>3
  <2>3. Linked(wps2, h2, Without(W0, k)) /\ Elems(Without(W0, k)) = Elems(W0) \ {W0[k]}
    <3>1. Linked(wps, h, W0) /\ k \in 1 .. Len(W0)
      BY <1>4, <1>5
    <3>2. Bypasses(wps, wps2, h, h2, W0, k)
      BY <2>1, <2>2 DEF Bypasses
    <3> QED
      BY <3>1, <3>2, WithoutLinked
  <2> QED
    BY <2>3, <1>5
<1>10. Linked(wps2, NO, <<NO>> \o F0) /\ Elems(<<NO>> \o F0) = Elems(F0) \union {NO}
  <2>1. ASSUME NEW i \in Elems(F0)
        PROVE  wps2[i].next = wps[i].next
    <3>1. i \in Nodes /\ i # NO /\ (k # 1 => i # W0[k - 1])
      BY <1>4, <1>6, <1>7, <1>8
    <3> QED
      BY <3>1, <1>5
  <2> QED
    <3>1. Linked(wps, f, F0) /\ NO \in Nodes /\ NO \notin Elems(F0) /\ wps2[NO].next = f
      BY <1>4, <1>5, <1>7
    <3>2. \A i \in Elems(F0) : wps2[i].next = wps[i].next
      BY <2>1
    <3> QED
      BY <3>1, <3>2, PushLinked
<1>11. PICK W, F : W = Without(W0, k) /\ F = <<NO>> \o F0
  OBVIOUS
<1>12. /\ Linked(wp_pool', head', W) /\ Linked(wp_pool', free_', F)
       /\ Elems(W) = Elems(W0) \ {NO} /\ Elems(F) = Elems(F0) \union {NO}
  BY <1>2, <1>5, <1>9, <1>10, <1>11
<1>13. Elems(W) \intersect Elems(F) = {} /\ Elems(W) \union Elems(F) = Nodes
  BY <1>4, <1>7, <1>12
<1>14. \A i \in Elems(W) : wp_pool'[i].expr \in Watched
  BY <1>2, <1>4, <1>5, <1>6, <1>12
<1>15. PoolLists' /\ Watching' = W
  BY <1>12, <1>13, <1>14, ListsFound
<1>16. PoolType'
  <2>1. head' \in Nodes \union {NULL}
    <3>1. wp_pool[NO] \in WP
      BY <1>1, <1>7 DEF PoolType
    <3> QED
      BY <3>1, <1>1 DEF PoolType, WP, TakesOut
  <2> QED
    BY <2>1, <1>1, <1>7 DEF PoolType, TakesOut
<1> QED
  BY <1>2, <1>11, <1>15, <1>16 DEF PoolInv

LEMMA NextSet ==
  ASSUME NEW p \in [Nodes -> WP], NEW i \in Nodes, NEW n \in Nodes \union {NULL},
         NEW q, q = [p EXCEPT ![i].next = n]
  PROVE  /\ q \in [Nodes -> WP] /\ q[i].next = n
         /\ \A j \in Nodes : /\ j # i => q[j] = p[j]
                             /\ q[j].expr = p[j].expr /\ q[j].old_value = p[j].old_value
<1>1. p[i] \in WP
  OBVIOUS
<1>2. /\ [p[i] EXCEPT !.next = n] \in WP /\ [p[i] EXCEPT !.next = n].next = n
      /\ [p[i] EXCEPT !.next = n].expr = p[i].expr
      /\ [p[i] EXCEPT !.next = n].old_value = p[i].old_value
  BY <1>1 DEF WP
<1>3. PICK r : r = [p[i] EXCEPT !.next = n]
  OBVIOUS
<1>4. q = [p EXCEPT ![i] = r]
  BY <1>3
<1> QED
  BY <1>2, <1>3, <1>4

(* d of a number that no watchpoint has, and of the k-th watchpoint.       *)
NotFound(NO) ==
  /\ \A k \in 1 .. Len(Watching) : Watching[k] # NO
  /\ said' = IF Watching = << >> THEN [d |-> NO, died |-> TRUE]
                                 ELSE [d |-> NO, success |-> FALSE]

Removed(NO, k) ==
  /\ Watching[k] = NO /\ Watching' = Without(Watching, k)
  /\ said' = [d |-> NO, success |-> TRUE]
  /\ \A i \in Nodes : /\ wp_pool'[i].expr = wp_pool[i].expr
                      /\ wp_pool'[i].old_value = wp_pool[i].old_value

(* The watchpoint named is one of them, and d is one of the two ways.      *)
LEMMA CmdDStep ==
  ASSUME PoolInv, NEW NO \in Asked, cmd_d(NO)
  PROVE  \/ UNCHANGED <<pool, reg>> /\ NotFound(NO)
         \/ PoolInv' /\ \E k \in 1 .. Len(Watching) : Removed(NO, k)
<1>1. PoolType /\ PoolLists /\ reg' = reg
  BY DEF PoolInv, cmd_d
<1>2. /\ Len(Watching) \in Nat /\ Watching \in [1 .. Len(Watching) -> Nodes]
      /\ head # NULL => 1 \in 1 .. Len(Watching) /\ Watching[1] = head
  BY <1>1, NodesLists DEF PoolLists
<1>3. free_ \in Nodes \union {NULL} /\ wp_pool \in [Nodes -> WP]
  BY <1>1 DEF PoolType
<1>4. CASE DeleteHead(NO)
  <2>1. /\ head = NO /\ head' = wp_pool[NO].next /\ free_' = NO
        /\ wp_pool' = [wp_pool EXCEPT ![NO].next = free_]
        /\ said' = [d |-> NO, success |-> TRUE]
    BY <1>4 DEF DeleteHead
  <2>2. head # NULL
    BY <2>1, DebuggerAssumption, SMT DEF NULL, Asked
  <2>3. 1 \in 1 .. Len(Watching) /\ NO = Watching[1] /\ NO \in Nodes
    BY <2>1, <2>2, <1>2
  <2>4. /\ wp_pool' \in [Nodes -> WP] /\ wp_pool'[NO].next = free_
        /\ \A i \in Nodes : /\ i # NO => wp_pool'[i].next = wp_pool[i].next
                            /\ wp_pool'[i].expr = wp_pool[i].expr
                            /\ wp_pool'[i].old_value = wp_pool[i].old_value
    <3>1. PICK p, n, q :
            /\ p \in [Nodes -> WP] /\ n \in Nodes \union {NULL}
            /\ p = wp_pool /\ n = free_ /\ q = wp_pool'
      BY <1>3
    <3>2. q = [p EXCEPT ![NO].next = n]
      BY <2>1, <3>1
    <3>3. /\ q \in [Nodes -> WP] /\ q[NO].next = n
          /\ \A j \in Nodes : /\ j # NO => q[j] = p[j]
                              /\ q[j].expr = p[j].expr /\ q[j].old_value = p[j].old_value
      BY <2>3, <3>1, <3>2, NextSet
    <3> QED
      BY <3>1, <3>3
  <2>5. TakesOut(1, NO)
    BY <2>1, <2>3, <2>4, <1>1 DEF TakesOut
  <2>6. PoolInv' /\ Watching' = Without(Watching, 1)
    BY <2>3, <2>5, DeleteStep
  <2>7. Removed(NO, 1)
    BY <2>1, <2>3, <2>4, <2>6 DEF Removed
  <2> QED
    BY <2>3, <2>6, <2>7
<1>5. CASE DeleteLater(NO)
  <2>1. PICK k \in 2 .. Len(Watching) :
          /\ Watching[k] = NO /\ free_' = NO /\ head' = head
          /\ said' = [d |-> NO, success |-> TRUE]
          /\ wp_pool' = [wp_pool EXCEPT ![NO].next = free_,
                                        ![Watching[k - 1]].next = wp_pool[NO].next]
    BY <1>5 DEF DeleteLater
  <2>2. k \in 1 .. Len(Watching) /\ k # 1 /\ k - 1 \in 1 .. Len(Watching) /\ k - 1 # k
    BY <1>2, SMT
  <2>3. NO \in Nodes /\ Watching[k - 1] \in Nodes /\ Watching[k - 1] # NO
    BY <2>1, <2>2, <1>1, <1>2 DEF PoolLists, Linked
  <2>4. wp_pool[NO].next \in Nodes \union {NULL}
    BY <2>3, <1>3 DEF WP
  <2>5. PICK p : p = [wp_pool EXCEPT ![NO].next = free_]
    OBVIOUS
  <2>6. /\ p \in [Nodes -> WP] /\ p[NO].next = free_
        /\ \A i \in Nodes : /\ i # NO => p[i] = wp_pool[i]
                            /\ p[i].expr = wp_pool[i].expr
                            /\ p[i].old_value = wp_pool[i].old_value
    <3>1. PICK w \in [Nodes -> WP], n \in Nodes \union {NULL} : w = wp_pool /\ n = free_
      BY <1>3
    <3>2. p = [w EXCEPT ![NO].next = n]
      BY <2>5, <3>1
    <3>3. /\ p \in [Nodes -> WP] /\ p[NO].next = n
          /\ \A j \in Nodes : /\ j # NO => p[j] = w[j]
                              /\ p[j].expr = w[j].expr /\ p[j].old_value = w[j].old_value
      <4>1. NO \in Nodes
        BY <2>3
      <4> QED
        BY <4>1, <3>2, NextSet
    <3> QED
      BY <3>1, <3>3
  <2>7. wp_pool' = [p EXCEPT ![Watching[k - 1]].next = wp_pool[NO].next]
    BY <2>1, <2>5
  <2>8. PICK before \in Nodes, n \in Nodes \union {NULL} :
          before = Watching[k - 1] /\ n = wp_pool[NO].next
    BY <2>3, <2>4
  <2>9. /\ wp_pool' \in [Nodes -> WP] /\ wp_pool'[before].next = wp_pool[NO].next
        /\ \A i \in Nodes : /\ i # before => wp_pool'[i] = p[i]
                            /\ wp_pool'[i].expr = p[i].expr
                            /\ wp_pool'[i].old_value = p[i].old_value
    <3>1. PICK q : q = wp_pool'
      OBVIOUS
    <3>2. q = [p EXCEPT ![before].next = n] /\ p \in [Nodes -> WP]
      BY <2>6, <2>7, <2>8, <3>1
    <3>3. /\ q \in [Nodes -> WP] /\ q[before].next = n
          /\ \A j \in Nodes : /\ j # before => q[j] = p[j]
                              /\ q[j].expr = p[j].expr /\ q[j].old_value = p[j].old_value
      BY <3>2, NextSet, SMTT(30)
    <3> QED
      BY <3>1, <3>3, <2>8
  <2>10. /\ wp_pool'[NO].next = free_
         /\ \A i \in Nodes :
              /\ i # NO /\ i # before => wp_pool'[i].next = wp_pool[i].next
              /\ wp_pool'[i].expr = wp_pool[i].expr
              /\ wp_pool'[i].old_value = wp_pool[i].old_value
    BY <2>3, <2>6, <2>8, <2>9
  <2>11. TakesOut(k, NO)
    <3>1. /\ k \in 1 .. Len(Watching) /\ NO = Watching[k] /\ reg' = reg /\ free_' = NO
          /\ head' = IF k = 1 THEN wp_pool[NO].next ELSE head
      BY <2>1, <2>2, <1>1
    <3>2. /\ k # 1 => wp_pool'[Watching[k - 1]].next = wp_pool[NO].next
          /\ \A i \in Nodes :
               i # NO /\ (k # 1 => i # Watching[k - 1]) => wp_pool'[i].next = wp_pool[i].next
      BY <2>2, <2>8, <2>9, <2>10
    <3> QED
      BY <3>1, <3>2, <2>9, <2>10 DEF TakesOut
  <2>12. PoolInv' /\ Watching' = Without(Watching, k)
    BY <2>2, <2>11, DeleteStep
  <2>13. Removed(NO, k)
    BY <2>1, <2>10, <2>12 DEF Removed
  <2> QED
    BY <2>2, <2>12, <2>13
<1>6. CASE DeleteNone(NO)
  <2>1. /\ UNCHANGED pool
        /\ \A k \in 1 .. Len(Watching) : Watching[k] # NO
        /\ said' = IF head = NULL THEN [d |-> NO, died |-> TRUE]
                                  ELSE [d |-> NO, success |-> FALSE]
    BY <1>2, <1>6 DEF DeleteNone
  <2>2. head = NULL <=> Watching = << >>
    <3>1. PICK wps, W, h : wps = wp_pool /\ W = Watching /\ h = head
      OBVIOUS
    <3>2. Linked(wps, h, W)
      BY <3>1, <1>1 DEF PoolLists
    <3>3. h = NULL <=> W = << >>
      BY <3>2, NodesLists
    <3> QED
      BY <3>1, <3>3
  <2>3. NotFound(NO)
    BY <2>1, <2>2 DEF NotFound
  <2> QED
    BY <2>1, <2>3, <1>1
<1> QED
  BY <1>4, <1>5, <1>6 DEF cmd_d

------------------------------------------------------------------------------
LEMMA PoolUnchanged ==
  ASSUME PoolInv, UNCHANGED pool, reg' \in GuestRegs
  PROVE  PoolInv' /\ Watching' = Watching /\ Watches' = Watches
<1>1. wp_pool' = wp_pool /\ head' = head /\ free_' = free_
  BY DEF pool
<1>2. Watching' = Watching /\ Free' = Free
  BY <1>1 DEF Watching, Free
<1>3. PoolType' /\ PoolLists'
  BY <1>1, <1>2 DEF PoolInv, PoolType, PoolLists
<1> QED
  BY <1>1, <1>2, <1>3 DEF PoolInv, Watches

(* What a command that leaves the list alone answers.                      *)
Answers ==
  \/ said' = said
  \/ \E text \in Watched :
       \/ free_ = NULL /\ said' = [w |-> text, failed |-> TRUE]
       \/ free_ # NULL /\ expr(text, reg) = Crash /\ said' = [w |-> text, died |-> TRUE]
  \/ \E NO \in Asked : NotFound(NO)

(* What a command does to the pool.                                        *)
LEMMA PoolStep ==
  ASSUME PoolInv, [Next]_vars
  PROVE  \/ PoolInv' /\ Watches' = Watches /\ Answers
         \/ \E text \in Watched : cmd_w(text) /\ expr(text, reg) # Crash
         \/ PoolInv' /\ \E NO \in Asked, k \in 1 .. Len(Watching) : Removed(NO, k)
<1>1. reg \in GuestRegs
  BY DEF PoolInv, PoolType
<1>2. ASSUME UNCHANGED pool, reg' \in GuestRegs
      PROVE  PoolInv' /\ Watches' = Watches
  BY <1>2, PoolUnchanged
<1>3. CASE \E text \in Watched : cmd_w(text) \/ cmd_wFull(text)
  <2>1. PICK text \in Watched : cmd_w(text) \/ cmd_wFull(text)
    BY <1>3
  <2>2. CASE cmd_w(text) /\ expr(text, reg) = Crash
    <3>1. /\ UNCHANGED <<pool, reg>> /\ free_ # NULL
          /\ said' = [w |-> text, died |-> TRUE]
      BY <2>2 DEF cmd_w
    <3>2. Answers
      BY <2>1, <2>2, <3>1 DEF Answers
    <3> QED
      BY <3>1, <3>2, <1>1, <1>2
  <2>3. CASE cmd_w(text) /\ expr(text, reg) # Crash
    BY <2>3
  <2>4. CASE cmd_wFull(text)
    <3>1. /\ UNCHANGED <<pool, reg>> /\ free_ = NULL
          /\ said' = [w |-> text, failed |-> TRUE]
      BY <2>4 DEF cmd_wFull
    <3>2. Answers
      BY <2>1, <3>1 DEF Answers
    <3> QED
      BY <3>1, <3>2, <1>1, <1>2
  <2> QED
    BY <2>1, <2>2, <2>3, <2>4
<1>4. CASE \E text \in Texts : cmd_p(text)
  BY <1>4, <1>1, <1>2 DEF cmd_p, Answers
<1>5. CASE \E NO \in Asked : cmd_d(NO)
  <2>1. PICK NO \in Asked : cmd_d(NO)
    BY <1>5
  <2>2. \/ UNCHANGED <<pool, reg>> /\ NotFound(NO)
        \/ PoolInv' /\ \E k \in 1 .. Len(Watching) : Removed(NO, k)
    BY <2>1, CmdDStep
  <2>3. CASE UNCHANGED <<pool, reg>> /\ NotFound(NO)
    <3>1. Answers
      BY <2>1, <2>3 DEF Answers
    <3> QED
      BY <2>3, <3>1, <1>1, <1>2
  <2> QED
    BY <2>2, <2>3
<1>6. CASE gen_rand_expr
  BY <1>6, <1>1, <1>2 DEF gen_rand_expr, Answers
<1>7. CASE cmd_t
  BY <1>7, <1>1, <1>2 DEF cmd_t, Answers
<1>8. CASE cpu_exec
  BY <1>8, <1>2 DEF cpu_exec, Answers
<1>9. CASE UNCHANGED vars
  BY <1>9, <1>1, <1>2 DEF vars, Answers
<1> QED
  BY <1>3, <1>4, <1>5, <1>6, <1>7, <1>8, <1>9 DEF Next

(* The pool is always two lists of different nodes that use it up.         *)
THEOREM PoolInvariant == Spec => []PoolInv
<1>1. Init => PoolInv
  BY InitInv
<1>2. PoolInv /\ [Next]_vars => PoolInv'
  BY PoolStep, SetStep
<1> QED
  BY <1>1, <1>2, PTL DEF Spec

LEMMA ListsPartition == PoolInv => PoolPartition
<1> SUFFICES ASSUME PoolInv
             PROVE  PoolPartition
  OBVIOUS
<1>1. /\ Linked(wp_pool, head, Watching) /\ Linked(wp_pool, free_, Free)
      /\ Elems(Watching) \intersect Elems(Free) = {}
      /\ Elems(Watching) \union Elems(Free) = Nodes
      /\ \A i \in Elems(Watching) : wp_pool[i].expr \in Watched
  BY DEF PoolInv, PoolLists
<1>2. PICK W, F : W = Watching /\ F = Free
  OBVIOUS
<1>3. PICK all : all = W \o F
  OBVIOUS
<1>4. /\ W \in Seq(Nodes) /\ Len(W) \in Nat /\ F \in Seq(Nodes) /\ Len(F) \in Nat
      /\ \A i, j \in 1 .. Len(W) : W[i] = W[j] => i = j
      /\ \A i, j \in 1 .. Len(F) : F[i] = F[j] => i = j
  BY <1>1, <1>2 DEF Linked
<1>5. /\ all \in Seq(Nodes) /\ Len(all) = Len(W) + Len(F) /\ DOMAIN all = 1 .. Len(all)
      /\ \A k \in 1 .. Len(all) :
           all[k] = IF k <= Len(W) THEN W[k] ELSE F[k - Len(W)]
  BY <1>3, <1>4, ConcatProperties, SMT
<1>6. \A k \in 1 .. Len(W) : W[k] \in Elems(W)
  BY DEF Elems
<1>7. \A k \in 1 .. Len(F) : F[k] \in Elems(F)
  BY DEF Elems
<1>8. \A k \in 1 .. Len(all) :
        \/ k \in 1 .. Len(W) /\ all[k] = W[k]
        \/ k - Len(W) \in 1 .. Len(F) /\ all[k] = F[k - Len(W)]
  BY <1>4, <1>5, SMT
<1>9. ASSUME NEW i \in 1 .. Len(all), NEW j \in 1 .. Len(all), all[i] = all[j]
      PROVE  i = j
  <2>1. CASE i \in 1 .. Len(W) /\ all[i] = W[i] /\ j \in 1 .. Len(W) /\ all[j] = W[j]
    BY <2>1, <1>4, <1>9
  <2>2. CASE /\ i - Len(W) \in 1 .. Len(F) /\ all[i] = F[i - Len(W)]
             /\ j - Len(W) \in 1 .. Len(F) /\ all[j] = F[j - Len(W)]
    <3>1. i - Len(W) = j - Len(W)
      BY <2>2, <1>4, <1>9
    <3> QED
      BY <3>1, <1>4, <1>5, SMT
  <2>3. CASE /\ i \in 1 .. Len(W) /\ all[i] = W[i]
             /\ j - Len(W) \in 1 .. Len(F) /\ all[j] = F[j - Len(W)]
    BY <2>3, <1>1, <1>2, <1>6, <1>7, <1>9
  <2>4. CASE /\ j \in 1 .. Len(W) /\ all[j] = W[j]
             /\ i - Len(W) \in 1 .. Len(F) /\ all[i] = F[i - Len(W)]
    BY <2>4, <1>1, <1>2, <1>6, <1>7, <1>9
  <2> QED
    BY <2>1, <2>2, <2>3, <2>4, <1>8
<1>10. ASSUME NEW i \in Nodes
       PROVE  Cardinality({k \in DOMAIN all : all[k] = i}) = 1
  <2>1. PICK k \in 1 .. Len(all) : all[k] = i
    <3>1. CASE i \in Elems(W)
      <4>1. PICK k \in 1 .. Len(W) : W[k] = i
        BY <3>1 DEF Elems
      <4>2. k \in 1 .. Len(all) /\ k <= Len(W)
        BY <1>4, <1>5, SMT
      <4> QED
        BY <4>1, <4>2, <1>5
    <3>2. CASE i \in Elems(F)
      <4>1. PICK k \in 1 .. Len(F) : F[k] = i
        BY <3>2 DEF Elems
      <4>2. /\ Len(W) + k \in 1 .. Len(all) /\ ~ (Len(W) + k <= Len(W))
            /\ (Len(W) + k) - Len(W) = k
        BY <1>4, <1>5, SMT
      <4>3. all[Len(W) + k] = F[k]
        BY <4>2, <1>5
      <4> QED
        BY <4>1, <4>2, <4>3
    <3> QED
      BY <3>1, <3>2, <1>1, <1>2
  <2>2. {j \in DOMAIN all : all[j] = i} = {k}
    BY <2>1, <1>5, <1>9
  <2> QED
    BY <2>2, FS_Singleton
<1>11. \A k \in DOMAIN Watching : wp_pool[Watching[k]].expr # None
  <2>1. DOMAIN Watching = 1 .. Len(W)
    BY <1>2, <1>4
  <2> QED
    BY <2>1, <1>1, <1>2, <1>6, WatchedAssumption
<1> QED
  BY <1>2, <1>3, <1>10, <1>11 DEF PoolPartition

(* No node is lost or doubled by any sequence of w and d (new_wp, free_wp  *)
(* and delete_watchpoint of watchpoint.c), and a watched node has its      *)
(* expression, whatever the size of the pool.                              *)
THEOREM DebuggerPoolPartition == Spec => []PoolPartition
<1>1. PoolInv => PoolPartition
  BY ListsPartition
<1> QED
  BY <1>1, PoolInvariant, PTL

------------------------------------------------------------------------------
(* What the user of the watchpoints sees.                                  *)
Seen == [NO : Nodes, expr : Watched, old_value : Values]

WatchesShape ==
  /\ Len(Watching) \in Nat /\ Len(Watching) <= NR_WP
  /\ Watches \in Seq(Seen) /\ Len(Watches) = Len(Watching)
  /\ DOMAIN Watches = 1 .. Len(Watching)
  /\ \A k \in 1 .. Len(Watching) :
       /\ Watching[k] \in Nodes /\ Watching[k] \in Elems(Watching)
       /\ Watches[k] = [NO |-> Watching[k], expr |-> wp_pool[Watching[k]].expr,
                        old_value |-> wp_pool[Watching[k]].old_value]

LEMMA WatchesAre == PoolInv => WatchesShape
<1> SUFFICES ASSUME PoolInv
             PROVE  WatchesShape
  OBVIOUS
<1>1. Linked(wp_pool, head, Watching) /\ wp_pool \in [Nodes -> WP]
      /\ \A i \in Elems(Watching) : wp_pool[i].expr \in Watched
  BY DEF PoolInv, PoolType, PoolLists
<1>2. PICK W, wps, h : W = Watching /\ wps = wp_pool /\ h = head
  OBVIOUS
<1>3. Linked(wps, h, W)
  BY <1>1, <1>2
<1>4. Len(W) \in Nat /\ Len(W) <= NR_WP /\ W \in [1 .. Len(W) -> Nodes] /\ DOMAIN W = 1 .. Len(W)
  BY <1>3, LinkedFits, NodesLists
<1>5. \A k \in 1 .. Len(W) : W[k] \in Elems(W)
  BY DEF Elems
<1>6. PICK ws : ws = Watches
  OBVIOUS
<1>7. ws = [k \in 1 .. Len(W) |-> [NO |-> W[k], expr |-> wps[W[k]].expr,
                                   old_value |-> wps[W[k]].old_value]]
  BY <1>2, <1>4, <1>6 DEF Watches
<1>8. \A k \in 1 .. Len(W) : ws[k] \in Seen
  BY <1>1, <1>2, <1>4, <1>5, <1>7 DEF Seen, WP
<1>9. ws \in [1 .. Len(W) -> Seen]
  BY <1>7, <1>8
<1>10. ws \in Seq(Seen) /\ Len(ws) = Len(W) /\ DOMAIN ws = 1 .. Len(W)
  BY <1>4, <1>9, SMT
<1> QED
  BY <1>2, <1>4, <1>5, <1>6, <1>7, <1>10 DEF WatchesShape

LEMMA WatchesAreNext == PoolInv' => WatchesShape'
BY WatchesAre, PTL

LEMMA InFront ==
  ASSUME NEW S, NEW old \in Seq(S), NEW new \in Seq(S), Len(new) = Len(old) + 1,
         \A k \in 1 .. Len(old) : new[k + 1] = old[k]
  PROVE  new = <<new[1]>> \o old
<1>1. Len(old) \in Nat /\ Len(new) \in Nat /\ new = [k \in 1 .. Len(new) |-> new[k]]
  OBVIOUS
<1>2. PICK x \in S : x = new[1]
  BY <1>1, SMT
<1>3. <<x>> \in Seq(S) /\ Len(<<x>>) = 1 /\ <<x>>[1] = x
  OBVIOUS
<1>4. PICK one : one = <<x>>
  OBVIOUS
<1>5. /\ one \o old \in Seq(S) /\ Len(one \o old) = 1 + Len(old)
      /\ \A i \in 1 .. Len(one \o old) :
           (one \o old)[i] = IF i <= 1 THEN one[i] ELSE old[i - 1]
  BY <1>3, <1>4, ConcatProperties
<1>6. ASSUME NEW i \in 1 .. Len(new)
      PROVE  new[i] = (one \o old)[i]
  <2>1. i \in 1 .. Len(one \o old)
    BY <1>1, <1>5, SMT
  <2>2. CASE i = 1
    BY <2>1, <2>2, <1>2, <1>3, <1>4, <1>5, SMT
  <2>3. CASE i # 1
    <3>1. i - 1 \in 1 .. Len(old) /\ (i - 1) + 1 = i /\ ~ (i <= 1)
      BY <2>3, <1>1, SMT
    <3>2. new[i] = old[i - 1]
      BY <3>1
    <3> QED
      BY <2>1, <3>1, <3>2, <1>5
  <2> QED
    BY <2>2, <2>3
<1>7. Len(new) = Len(one \o old)
  BY <1>1, <1>5, SMT
<1>8. new = one \o old
  BY <1>5, <1>6, <1>7, SeqEqual
<1> QED
  BY <1>2, <1>4, <1>8

LEMMA SetIsSet ==
  ASSUME PoolInv, NEW text \in Watched, cmd_w(text), expr(text, reg) # Crash
  PROVE  List!Set(text)
<1>1. /\ PoolInv' /\ Watching' = <<free_>> \o Watching
      /\ free_ \in Nodes \ Elems(Watching)
      /\ wp_pool'[free_] = [next |-> head, expr |-> text, old_value |-> expr(text, reg)]
      /\ expr(text, reg) \in Values
      /\ \A i \in Elems(Watching) : wp_pool'[i] = wp_pool[i]
  BY SetStep
<1>2. /\ Len(Watching) \in Nat
      /\ Watches \in Seq(Seen) /\ Len(Watches) = Len(Watching)
      /\ DOMAIN Watches = 1 .. Len(Watching)
      /\ \A k \in 1 .. Len(Watching) :
           /\ Watching[k] \in Nodes /\ Watching[k] \in Elems(Watching)
           /\ Watches[k] = [NO |-> Watching[k], expr |-> wp_pool[Watching[k]].expr,
                            old_value |-> wp_pool[Watching[k]].old_value]
  BY WatchesAre DEF WatchesShape
<1>3. /\ Len(Watching') <= NR_WP
      /\ Watches' \in Seq(Seen) /\ Len(Watches') = Len(Watching')
      /\ \A k \in 1 .. Len(Watching') :
           Watches'[k] = [NO |-> Watching'[k], expr |-> wp_pool'[Watching'[k]].expr,
                          old_value |-> wp_pool'[Watching'[k]].old_value]
  BY <1>1, WatchesAreNext DEF WatchesShape
<1>4. Watching \in Seq(Nodes) /\ <<free_>> \in Seq(Nodes)
  BY <1>1 DEF PoolInv, PoolLists, Linked
<1>5. /\ Len(Watching') = Len(Watching) + 1 /\ Watching'[1] = free_
      /\ \A k \in 1 .. Len(Watching) : Watching'[k + 1] = Watching[k]
  BY <1>1, <1>4, SMT
<1>6. NR_WP \in Nat /\ Len(Watches) < NR_WP
  BY <1>2, <1>3, <1>5, DebuggerAssumption, SMT
<1>7. \A k \in 1 .. Len(Watches) : Watches'[k + 1] = Watches[k]
  <2> SUFFICES ASSUME NEW k \in 1 .. Len(Watching)
               PROVE  Watches'[k + 1] = Watches[k]
    BY <1>2
  <2>1. k + 1 \in 1 .. Len(Watching') /\ Watching'[k + 1] = Watching[k]
    BY <1>2, <1>5, SMT
  <2>2. wp_pool'[Watching[k]] = wp_pool[Watching[k]]
    BY <1>1, <1>2
  <2> QED
    BY <2>1, <2>2, <1>2, <1>3
<1>8. Watches' = <<Watches'[1]>> \o Watches
  <2>1. PICK old \in Seq(Seen), new \in Seq(Seen) : old = Watches /\ new = Watches'
    BY <1>2, <1>3
  <2>2. Len(new) = Len(old) + 1 /\ \A k \in 1 .. Len(old) : new[k + 1] = old[k]
    BY <2>1, <1>2, <1>3, <1>5, <1>7
  <2>3. new = <<new[1]>> \o old
    BY <2>2, InFront
  <2> QED
    BY <2>1, <2>3
<1>9. Watches'[1] = [NO |-> free_, expr |-> text, old_value |-> expr(text, reg)]
  <2>1. 1 \in 1 .. Len(Watching')
    BY <1>2, <1>5, SMT
  <2> QED
    BY <2>1, <1>1, <1>3, <1>5
<1>10. Watches' = <<[NO |-> free_, expr |-> text, old_value |-> expr(text, reg)]>> \o Watches
  BY <1>8, <1>9
<1>11. free_ \in 0 .. NR_WP - 1 /\ free_ \notin {Watches[k].NO : k \in DOMAIN Watches}
  BY <1>1, <1>2, <1>9 DEF Nodes
<1>12. said' = [w |-> text, NO |-> free_]
  BY DEF cmd_w
<1>13. [t \in Watched |-> expr(t, reg)][text] = expr(text, reg)
  OBVIOUS
<1> QED
  BY <1>6, <1>10, <1>11, <1>12, <1>13 DEF List!Set, List!Numbers

LEMMA DeleteIsDelete ==
  ASSUME PoolInv, PoolInv', NEW NO \in Asked, NEW k \in 1 .. Len(Watching),
         Removed(NO, k)
  PROVE  List!Delete(NO)
<1>1. /\ Len(Watching) \in Nat /\ Len(Watches) = Len(Watching)
      /\ DOMAIN Watches = 1 .. Len(Watching)
      /\ \A j \in 1 .. Len(Watching) :
           /\ Watching[j] \in Nodes
           /\ Watches[j] = [NO |-> Watching[j], expr |-> wp_pool[Watching[j]].expr,
                            old_value |-> wp_pool[Watching[j]].old_value]
  BY WatchesAre DEF WatchesShape
<1>2. DOMAIN Watching' = 1 .. Len(Watching) - 1
      /\ \A j \in 1 .. Len(Watching) - 1 :
           Watching'[j] = Watching[IF j < k THEN j ELSE j + 1]
  BY DEF Without, Removed
<1>3. ASSUME NEW j \in 1 .. Len(Watching) - 1
      PROVE  [NO |-> Watching'[j], expr |-> wp_pool'[Watching'[j]].expr,
              old_value |-> wp_pool'[Watching'[j]].old_value]
               = Watches[IF j < k THEN j ELSE j + 1]
  <2>1. (IF j < k THEN j ELSE j + 1) \in 1 .. Len(Watching)
    BY <1>1, SMT
  <2>2. PICK i \in 1 .. Len(Watching) : i = IF j < k THEN j ELSE j + 1
    BY <2>1
  <2>3. Watching'[j] = Watching[i]
    BY <2>2, <1>2
  <2> QED
    BY <2>2, <2>3, <1>1 DEF Removed
<1>4. Watches' = [j \in 1 .. Len(Watching) - 1 |-> Watches[IF j < k THEN j ELSE j + 1]]
  <2>1. Watches' = [j \in 1 .. Len(Watching) - 1 |->
                      [NO |-> Watching'[j], expr |-> wp_pool'[Watching'[j]].expr,
                       old_value |-> wp_pool'[Watching'[j]].old_value]]
    BY <1>2 DEF Watches
  <2> QED
    BY <2>1, <1>3
<1>5. Len(Watches) = Len(Watching) /\ k \in DOMAIN Watches /\ Watches[k].NO = NO
  BY <1>1 DEF Removed
<1> QED
  BY <1>4, <1>5 DEF List!Delete, Removed

(* The answers of the commands that leave the list alone are those of a    *)
(* list that is full, of a crash, and of a number it has not.              *)
LEMMA AnswersAreAnswers ==
  ASSUME PoolInv, Watches' = Watches, Answers
  PROVE  said' = said \/ List!Next
<1>1. /\ Len(Watching) \in Nat /\ Len(Watches) = Len(Watching)
      /\ DOMAIN Watches = 1 .. Len(Watching)
      /\ \A j \in 1 .. Len(Watching) : Watches[j].NO = Watching[j]
  BY WatchesAre DEF WatchesShape
<1>2. /\ Len(Watching) <= NR_WP /\ NR_WP \in Nat
      /\ free_ = NULL <=> Len(Watching) = NR_WP
  BY FreeUsedUp, DebuggerAssumption
<1>3. ASSUME NEW text \in Watched, free_ = NULL, said' = [w |-> text, failed |-> TRUE]
      PROVE  List!Refuse(text)
  <2>1. Len(Watches) = NR_WP
    BY <1>1, <1>2, <1>3
  <2> HIDE DEF Watches
  <2> QED
    BY <1>3, <2>1, ZenonT(40) DEF List!Refuse
<1>4. ASSUME NEW text \in Watched, free_ # NULL, expr(text, reg) = Crash,
             said' = [w |-> text, died |-> TRUE]
      PROVE  List!SetDies(text)
  <2>1. Len(Watches) < NR_WP
    <3>1. PICK n \in Nat : n = Len(Watching)
      BY <1>1
    <3>2. n <= NR_WP /\ n # NR_WP
      BY <1>2, <1>4, <3>1
    <3>3. n < NR_WP
      <4>1. n \in Nat /\ NR_WP \in Nat /\ n <= NR_WP /\ n # NR_WP
        BY <1>2, <3>2
      <4> QED
        BY ONLY <4>1, SMTT(30)
    <3> QED
      BY <1>1, <3>1, <3>3, SMTT(30)
  <2>2. [t \in Watched |-> expr(t, reg)][text] = Crash
    BY <1>4
  <2> QED
    BY <1>4, <2>1, <2>2 DEF List!SetDies
<1>5. ASSUME NEW NO \in Asked, NotFound(NO)
      PROVE  List!DeleteFails(NO) \/ List!DeleteDies(NO)
  <2>1. Watches = << >> <=> Watching = << >>
    <3>1. Watches \in Seq(Seen) /\ Watching \in Seq(Nodes)
      BY WatchesAre DEF WatchesShape, PoolInv, PoolLists, Linked
    <3> QED
      BY <3>1, <1>1, EmptySeq
  <2>2. NO \notin {Watches[j].NO : j \in DOMAIN Watches}
    BY <1>1, <1>5 DEF NotFound
  <2>3. CASE Watching = << >>
    BY <2>1, <2>3, <1>5 DEF NotFound, List!DeleteDies
  <2>4. CASE Watching # << >>
    BY <2>1, <2>2, <2>4, <1>5 DEF NotFound, List!DeleteFails, List!Numbers
  <2> QED
    BY <2>3, <2>4
<1> QED
  BY <1>3, <1>4, <1>5 DEF Answers, List!Next

(* The pool implements the list: w puts the expression with its value in   *)
(* front, with a number of its own, and is refused only when NR_WP are     *)
(* set, d takes out the one with the number it is given and fails only     *)
(* when there is none, and nothing else changes what the user sees, for    *)
(* every size of the pool and every set of expressions (cmd_w, cmd_d,      *)
(* new_wp, free_wp and delete_watchpoint).                                 *)
THEOREM DebuggerWatchesAreAList == Spec => WatchesAreAList
<1>1. Init => List!Init
  <2> SUFFICES ASSUME Init
               PROVE  Watches = << >>
    BY DEF List!Init, Init
  <2>1. PoolInv
    BY InitInv
  <2>2. PICK wps, h, W : wps = wp_pool /\ h = head /\ W = Watching
    OBVIOUS
  <2>3. Linked(wps, h, W) /\ h = NULL
    BY <2>1, <2>2 DEF PoolInv, PoolLists, Init
  <2>4. Len(Watching) = 0
    BY <2>2, <2>3, NodesLists
  <2>5. Watches \in Seq(Seen) /\ Len(Watches) = 0
    BY <2>1, <2>4, WatchesAre DEF WatchesShape
  <2> QED
    BY <2>5, EmptySeq, SMT
<1>2. PoolInv /\ [Next]_vars => [List!Next]_<<Watches, said>>
  <2> SUFFICES ASSUME PoolInv, [Next]_vars
               PROVE  [List!Next]_<<Watches, said>>
    OBVIOUS
  <2>1. CASE PoolInv' /\ Watches' = Watches /\ Answers
    BY <2>1, AnswersAreAnswers
  <2>2. CASE \E text \in Watched : cmd_w(text) /\ expr(text, reg) # Crash
    BY <2>2, SetIsSet DEF List!Next
  <2>3. CASE PoolInv' /\ \E NO \in Asked, k \in 1 .. Len(Watching) : Removed(NO, k)
    BY <2>3, DeleteIsDelete DEF List!Next
  <2> QED
    BY <2>1, <2>2, <2>3, PoolStep
<1> QED
  BY <1>1, <1>2, PoolInvariant, PTL DEF Spec, WatchesAreAList, List!Spec

------------------------------------------------------------------------------
(* The balance of a stretch of tokens is that of its two parts.            *)
Places(tokens, type, i, j) == {k \in i .. j : tokens[k].type = type}

LEMMA PlacesAdd ==
  ASSUME NEW tokens, NEW type, NEW i \in Int, NEW k \in Int, NEW j \in Int,
         i <= k + 1, k <= j
  PROVE  /\ Cardinality(Places(tokens, type, i, k)) \in Nat
         /\ Cardinality(Places(tokens, type, k + 1, j)) \in Nat
         /\ Cardinality(Places(tokens, type, i, j))
              = Cardinality(Places(tokens, type, i, k))
                  + Cardinality(Places(tokens, type, k + 1, j))
<1> DEFINE A == Places(tokens, type, i, k)
           B == Places(tokens, type, k + 1, j)
           C == Places(tokens, type, i, j)
<1>1. IsFiniteSet(i .. k) /\ IsFiniteSet(k + 1 .. j)
  <2>1. k + 1 <= j + 1 /\ k + 1 \in Int
    BY SMT
  <2> QED
    BY <2>1, IntervalSize
<1>2. A \subseteq i .. k /\ B \subseteq k + 1 .. j
  BY DEF Places
<1>3. IsFiniteSet(A) /\ IsFiniteSet(B)
  BY <1>1, <1>2, FS_Subset
<1>4. C = A \cup B /\ A \cap B = {}
  <2>1. \A x : x \in i .. j <=> x \in i .. k \/ x \in k + 1 .. j
    BY SMT
  <2>2. \A x \in i .. k : x \notin k + 1 .. j
    BY SMT
  <2> QED
    BY <2>1, <2>2 DEF Places
<1>5. Cardinality(A) \in Nat /\ Cardinality(B) \in Nat
  BY <1>3, FS_CardinalityType
<1>6. Cardinality(A \cap B) = 0
  BY <1>4, FS_EmptySet
<1>7. Cardinality(A \cup B) = Cardinality(A) + Cardinality(B) - Cardinality(A \cap B)
  <2> HIDE DEF A, B
  <2> QED
    BY <1>3, FS_Union
<1> HIDE DEF A, B, C
<1>8. Cardinality(C) = Cardinality(A) + Cardinality(B)
  BY <1>4, <1>5, <1>6, <1>7, SMT
<1> QED
  BY <1>5, <1>8 DEF A, B, C

LEMMA BalanceAdd ==
  ASSUME NEW tokens, NEW i \in Int, NEW k \in Int, NEW j \in Int, i <= k + 1, k <= j
  PROVE  /\ Balance(tokens, i, k) \in Int /\ Balance(tokens, k + 1, j) \in Int
         /\ Balance(tokens, i, j) = Balance(tokens, i, k) + Balance(tokens, k + 1, j)
<1> DEFINE c(type, a, b) == Cardinality(Places(tokens, type, a, b))
<1>1. \A type \in {"(", ")"} :
        c(type, i, k) \in Nat /\ c(type, k + 1, j) \in Nat
          /\ c(type, i, j) = c(type, i, k) + c(type, k + 1, j)
  BY PlacesAdd
<1>2. \A a, b : Balance(tokens, a, b) = c("(", a, b) - c(")", a, b)
  BY DEF Balance, Places
<1> HIDE DEF c
<1> QED
  BY <1>1, <1>2

LEMMA BalanceOne ==
  ASSUME NEW tokens, NEW i \in Int
  PROVE  Balance(tokens, i, i) = IF tokens[i].type = "(" THEN 1
                                 ELSE IF tokens[i].type = ")" THEN -1 ELSE 0
<1>1. i .. i = {i}
  BY SMT
<1>2. \A type : Places(tokens, type, i, i) = IF tokens[i].type = type THEN {i} ELSE {}
  BY <1>1 DEF Places
<1>3. Cardinality({i}) = 1 /\ Cardinality({}) = 0
  BY FS_Singleton, FS_EmptySet
<1>4. \A type : Cardinality(Places(tokens, type, i, i))
                  = IF tokens[i].type = type THEN 1 ELSE 0
  BY <1>2, <1>3
<1>5. Balance(tokens, i, i) = (IF tokens[i].type = "(" THEN 1 ELSE 0)
                                - (IF tokens[i].type = ")" THEN 1 ELSE 0)
  BY <1>4 DEF Balance, Places
<1> QED
  BY <1>5, SMT

------------------------------------------------------------------------------
(* The tokens t stand in u behind the first o of them.                     *)
At(t, u, o) ==
  /\ o \in Nat /\ o + Len(t) <= Len(u)
  /\ \A i \in 1 .. Len(t) : u[o + i] = t[i]

LEMMA AtParts ==
  ASSUME NEW a \in Seq(Token), NEW b \in Seq(Token), NEW u \in Seq(Token), NEW o,
         At(a \o b, u, o)
  PROVE  /\ At(a, u, o) /\ At(b, u, o + Len(a))
         /\ Len(a \o b) = Len(a) + Len(b)
<1>1. /\ Len(a) \in Nat /\ Len(b) \in Nat /\ o \in Nat /\ Len(u) \in Nat
      /\ Len(a \o b) = Len(a) + Len(b)
  BY DEF At
<1>2. o + (Len(a) + Len(b)) <= Len(u)
  BY <1>1 DEF At
<1>3. ASSUME NEW i \in 1 .. Len(a)
      PROVE  u[o + i] = a[i]
  <2>1. i \in 1 .. Len(a \o b) /\ (a \o b)[i] = a[i]
    BY <1>1
  <2> QED
    BY <2>1 DEF At
<1>4. ASSUME NEW i \in 1 .. Len(b)
      PROVE  u[(o + Len(a)) + i] = b[i]
  <2>1. /\ Len(a) + i \in 1 .. Len(a \o b) /\ (a \o b)[Len(a) + i] = b[i]
        /\ o + (Len(a) + i) = (o + Len(a)) + i
    BY <1>1
  <2> QED
    BY <2>1 DEF At
<1>5. o + Len(a) \in Nat /\ o + Len(a) <= Len(u) /\ (o + Len(a)) + Len(b) <= Len(u)
  BY <1>1, <1>2
<1> QED
  BY <1>1, <1>3, <1>4, <1>5 DEF At

LEMMA AtOne ==
  ASSUME NEW x \in Token, NEW u \in Seq(Token), NEW o, At(<<x>>, u, o)
  PROVE  o \in Nat /\ o + 1 <= Len(u) /\ Len(u) \in Nat /\ u[o + 1] = x
<1>1. Len(<<x>>) = 1 /\ <<x>>[1] = x /\ 1 \in 1 .. 1
  OBVIOUS
<1> QED
  BY <1>1 DEF At

(* Its parentheses match.                                                  *)
Level(t) ==
  \A u \in Seq(Token), o \in Nat : At(t, u, o) =>
    /\ Balance(u, o + 1, o + Len(t)) = 0
    /\ \A j \in o + 1 .. o + Len(t) : Balance(u, o + 1, j) >= 0

LEMMA LevelOne ==
  ASSUME NEW x \in Token, x.type \notin {"(", ")"}
  PROVE  Level(<<x>>)
<1> SUFFICES ASSUME NEW u \in Seq(Token), NEW o \in Nat, At(<<x>>, u, o)
             PROVE  /\ Balance(u, o + 1, o + Len(<<x>>)) = 0
                    /\ \A j \in o + 1 .. o + Len(<<x>>) : Balance(u, o + 1, j) >= 0
  BY DEF Level
<1>1. o \in Nat /\ u[o + 1] = x /\ Len(<<x>>) = 1
  BY AtOne
<1>2. Balance(u, o + 1, o + 1) = 0
  <2>1. o + 1 \in Int
    BY <1>1
  <2> QED
    BY <1>1, <2>1, BalanceOne
<1>3. \A j \in o + 1 .. o + 1 : j = o + 1
  BY <1>1
<1> QED
  BY <1>1, <1>2, <1>3

LEMMA LevelConcat ==
  ASSUME NEW a \in Seq(Token), NEW b \in Seq(Token), Level(a), Level(b),
         Len(a) >= 1, Len(b) >= 1
  PROVE  Level(a \o b)
<1> SUFFICES ASSUME NEW u \in Seq(Token), NEW o \in Nat, At(a \o b, u, o)
             PROVE  /\ Balance(u, o + 1, o + Len(a \o b)) = 0
                    /\ \A j \in o + 1 .. o + Len(a \o b) : Balance(u, o + 1, j) >= 0
  BY DEF Level
<1> DEFINE k == o + Len(a)
           n == k + Len(b)
<1>1. At(a, u, o) /\ At(b, u, k) /\ Len(a \o b) = Len(a) + Len(b)
  BY AtParts
<1>2. /\ o \in Nat /\ Len(a) \in Nat /\ Len(b) \in Nat /\ k \in Nat /\ n \in Nat
      /\ o + Len(a \o b) = n
  BY <1>1 DEF At
<1>3. /\ Balance(u, o + 1, k) = 0 /\ \A j \in o + 1 .. k : Balance(u, o + 1, j) >= 0
      /\ Balance(u, k + 1, n) = 0 /\ \A j \in k + 1 .. n : Balance(u, k + 1, j) >= 0
  BY <1>1 DEF Level
<1>4. ASSUME NEW j \in k + 1 .. n
      PROVE  Balance(u, o + 1, j) = Balance(u, k + 1, j) /\ Balance(u, k + 1, j) \in Int
  <2>1. o + 1 \in Int /\ k \in Int /\ j \in Int /\ o + 1 <= k + 1 /\ k <= j
    BY <1>2
  <2> QED
    BY <1>3, <2>1, BalanceAdd
<1>5. ASSUME NEW j \in o + 1 .. n
      PROVE  j \in o + 1 .. k \/ j \in k + 1 .. n
  BY <1>2
<1>6. n \in k + 1 .. n
  BY <1>2
<1> HIDE DEF k, n
<1> QED
  BY <1>2, <1>3, <1>4, <1>5, <1>6

(* In a pair of parentheses the first closes at the last, and not before.  *)
LEMMA ParensShape ==
  ASSUME NEW t \in Seq(Token), Len(t) >= 1
  PROVE  /\ Parens(t) = (<<Tok("(")>> \o t) \o <<Tok(")")>>
         /\ Tok("(") \in Token /\ Tok(")") \in Token
         /\ <<Tok("(")>> \o t \in Seq(Token) /\ Parens(t) \in Seq(Token)
         /\ Len(<<Tok("(")>> \o t) = Len(t) + 1 /\ Len(Parens(t)) = Len(t) + 2
         /\ Tok("(").type = "(" /\ Tok(")").type = ")"
<1>1. Tok("(") \in Token /\ Tok(")") \in Token
  BY DEF Tok, Token
<1>2. <<Tok("(")>> \in Seq(Token) /\ <<Tok(")")>> \in Seq(Token)
      /\ Len(<<Tok("(")>>) = 1 /\ Len(<<Tok(")")>>) = 1
  BY <1>1
<1>3. <<Tok("(")>> \o t \in Seq(Token) /\ Len(<<Tok("(")>> \o t) = 1 + Len(t)
  BY <1>2
<1>4. Parens(t) \in Seq(Token) /\ Len(Parens(t)) = (1 + Len(t)) + 1
  BY <1>2, <1>3 DEF Parens
<1>5. Len(t) \in Nat
  OBVIOUS
<1> QED
  BY <1>1, <1>3, <1>4, <1>5 DEF Parens, Tok

LEMMA AtParens ==
  ASSUME NEW t \in Seq(Token), Len(t) >= 1, NEW u \in Seq(Token), NEW o,
         At(Parens(t), u, o)
  PROVE  /\ o \in Nat /\ Len(t) \in Nat /\ Len(u) \in Nat /\ o + Len(t) + 2 <= Len(u)
         /\ At(t, u, o + 1)
         /\ u[o + 1].type = "(" /\ u[o + Len(t) + 2].type = ")"
<1> DEFINE a == <<Tok("(")>>
           c == <<Tok(")")>>
<1>1. /\ Parens(t) = (a \o t) \o c /\ a \o t \in Seq(Token) /\ Len(a \o t) = Len(t) + 1
      /\ a \in Seq(Token) /\ c \in Seq(Token) /\ Len(a) = 1 /\ Len(c) = 1
      /\ Tok("(") \in Token /\ Tok(")") \in Token
      /\ Tok("(").type = "(" /\ Tok(")").type = ")" /\ Len(Parens(t)) = Len(t) + 2
  BY ParensShape
<1>2. o \in Nat /\ Len(t) \in Nat /\ Len(u) \in Nat /\ o + (Len(t) + 2) <= Len(u)
  BY <1>1 DEF At
<1>3. At(a \o t, u, o) /\ At(c, u, o + (Len(t) + 1))
  <2> HIDE DEF a, c
  <2>1. At((a \o t) \o c, u, o)
    BY <1>1
  <2>2. At(a \o t, u, o) /\ At(c, u, o + Len(a \o t))
    BY <1>1, <2>1, AtParts
  <2> QED
    BY <1>1, <2>2
<1>4. At(a, u, o) /\ At(t, u, o + 1)
  <2> HIDE DEF a, c
  <2> QED
    BY <1>1, <1>3, AtParts
<1>5. u[o + 1] = Tok("(")
  BY <1>1, <1>4, AtOne
<1>6. u[(o + (Len(t) + 1)) + 1] = Tok(")")
  BY <1>1, <1>3, AtOne
<1>7. (o + (Len(t) + 1)) + 1 = o + Len(t) + 2 /\ o + (Len(t) + 2) = o + Len(t) + 2
  BY <1>2
<1> QED
  BY <1>1, <1>2, <1>4, <1>5, <1>6, <1>7

LEMMA ParensBalance ==
  ASSUME NEW t \in Seq(Token), Len(t) >= 1, Level(t), NEW u \in Seq(Token), NEW o,
         At(Parens(t), u, o)
  PROVE  /\ Balance(u, o + 1, o + Len(t) + 2) = 0
         /\ \A j \in o + 1 .. o + Len(t) + 1 : Balance(u, o + 1, j) >= 1
<1> DEFINE p == o + 1
           q == o + Len(t) + 1
<1>1. /\ o \in Nat /\ Len(t) \in Nat /\ p \in Nat /\ q \in Nat
      /\ At(t, u, p) /\ u[p].type = "(" /\ u[q + 1].type = ")"
      /\ p + Len(t) = q /\ o + Len(t) + 2 = q + 1 /\ p < q
  <2>1. /\ o \in Nat /\ Len(t) \in Nat /\ At(t, u, o + 1)
        /\ u[o + 1].type = "(" /\ u[o + Len(t) + 2].type = ")"
    BY AtParens
  <2>2. /\ p \in Nat /\ q \in Nat /\ p + Len(t) = q /\ o + Len(t) + 2 = q + 1 /\ p < q
    BY <2>1
  <2> QED
    BY <2>1, <2>2
<1> HIDE DEF p, q
<1>2. Balance(u, p + 1, q) = 0 /\ \A j \in p + 1 .. q : Balance(u, p + 1, j) >= 0
  BY <1>1 DEF Level
<1>3. Balance(u, p, p) = 1
  BY <1>1, BalanceOne
<1>4. Balance(u, q + 1, q + 1) = -1
  <2>1. q + 1 \in Int
    BY <1>1
  <2> QED
    BY <1>1, <2>1, BalanceOne
<1>5. ASSUME NEW j \in p .. q, j # p
      PROVE  /\ Balance(u, p, j) = 1 + Balance(u, p + 1, j)
             /\ Balance(u, p + 1, j) \in Int /\ j \in p + 1 .. q
  <2>1. p \in Int /\ j \in Int /\ p <= p + 1 /\ p <= j /\ j \in p + 1 .. q
    BY <1>1, <1>5
  <2>2. /\ Balance(u, p, j) = Balance(u, p, p) + Balance(u, p + 1, j)
        /\ Balance(u, p + 1, j) \in Int
    BY <2>1, BalanceAdd
  <2> QED
    BY <1>3, <2>1, <2>2
<1>6. \A j \in p .. q : Balance(u, p, j) >= 1
  BY <1>2, <1>3, <1>5
<1>7. Balance(u, p, q) = 1
  <2>1. q \in p .. q /\ q # p
    BY <1>1
  <2> QED
    BY <1>2, <1>5, <2>1
<1>8. Balance(u, p, q + 1) = 0
  <2>1. p \in Int /\ q \in Int /\ q + 1 \in Int /\ p <= q + 1 /\ q <= q + 1
    BY <1>1
  <2>2. Balance(u, p, q + 1) = Balance(u, p, q) + Balance(u, q + 1, q + 1)
    BY <2>1, BalanceAdd
  <2> QED
    BY <1>4, <1>7, <2>2
<1> QED
  BY <1>1, <1>6, <1>8 DEF p, q

LEMMA LevelParens ==
  ASSUME NEW t \in Seq(Token), Len(t) >= 1, Level(t)
  PROVE  Level(Parens(t))
<1> SUFFICES ASSUME NEW u \in Seq(Token), NEW o \in Nat, At(Parens(t), u, o)
             PROVE  /\ Balance(u, o + 1, o + Len(Parens(t))) = 0
                    /\ \A j \in o + 1 .. o + Len(Parens(t)) : Balance(u, o + 1, j) >= 0
  BY DEF Level
<1> DEFINE q == o + Len(t) + 2
<1>1. o \in Nat /\ Len(t) \in Nat /\ o + Len(Parens(t)) = q
  <2>1. o \in Nat /\ Len(t) \in Nat /\ Len(Parens(t)) = Len(t) + 2
    BY AtParens, ParensShape
  <2> QED
    BY <2>1
<1>2. /\ Balance(u, o + 1, q) = 0
      /\ \A j \in o + 1 .. o + Len(t) + 1 : Balance(u, o + 1, j) >= 1
  BY ParensBalance
<1>3. ASSUME NEW j \in o + 1 .. q
      PROVE  j \in o + 1 .. o + Len(t) + 1 \/ j = q
  BY <1>1
<1>4. ASSUME NEW j \in o + 1 .. o + Len(t) + 1
      PROVE  Balance(u, o + 1, j) \in Int
  <2>1. o + 1 \in Int /\ j \in Int /\ o + 1 <= j + 1 /\ j <= j
    BY <1>1
  <2> QED
    BY <2>1, BalanceAdd
<1> HIDE DEF q
<1> QED
  BY <1>1, <1>2, <1>3, <1>4

------------------------------------------------------------------------------
(* Wherever the tokens t stand, what get_op_position sees of them is the   *)
(* places O, and eval makes v of them.                                     *)
SkipsOf(skip, u, left, right) ==
  \A i \in left .. right + 1 : skip[i] = OutsideFrom(skip, u, i, right)

Shows(t, O) ==
  /\ O \subseteq 1 .. Len(t)
  /\ \A u \in Seq(Token), o \in Nat, left \in Int, right \in Int : \A skip :
       At(t, u, o) /\ left <= o + 1 /\ o + Len(t) <= right /\ SkipsOf(skip, u, left, right)
         => skip[o + 1] = {o + i : i \in O} \cup skip[o + Len(t) + 1]

AtMost(t, O, rank) ==
  \A i \in O : t[i].type \in Operators => Rank(t[i].type) <= rank

SpansOf(ev, u) ==
  \A x \in Spans(Len(u)) : ev[x] = evalSpan(ev, u, TestReg, x[1], x[2])

Worth(t, v) ==
  \A u \in Seq(Token), o \in Nat : \A ev :
    At(t, u, o) /\ SpansOf(ev, u) => ev[<<o + 1, o + Len(t)>>] = v

(* What a phrase of C is to eval.                                          *)
Sound(t, rank, v) ==
  /\ t \in Seq(Token) /\ Len(t) >= 1 /\ Level(t)
  /\ \E O : Shows(t, O) /\ AtMost(t, O, rank)
  /\ Worth(t, v)

(* Past n lexemes from o on, of which those of O are seen.                 *)
SeenOf(skip, o, n, O) == skip[o + 1] = {o + i : i \in O} \cup skip[o + n + 1]

LEMMA ShowsAt ==
  ASSUME NEW t, NEW O, Shows(t, O), NEW u \in Seq(Token), NEW o \in Nat,
         NEW left \in Int, NEW right \in Int, NEW skip,
         At(t, u, o), left <= o + 1, o + Len(t) <= right, SkipsOf(skip, u, left, right)
  PROVE  SeenOf(skip, o, Len(t), O)
<1>1. \A w \in Seq(Token), k \in Nat, a \in Int, b \in Int : \A s :
        At(t, w, k) /\ a <= k + 1 /\ k + Len(t) <= b /\ SkipsOf(s, w, a, b)
          => s[k + 1] = {k + i : i \in O} \cup s[k + Len(t) + 1]
  BY Zenon DEF Shows
<1>2. \A b \in Int : \A s :
        At(t, u, o) /\ left <= o + 1 /\ o + Len(t) <= b /\ SkipsOf(s, u, left, b)
          => s[o + 1] = {o + i : i \in O} \cup s[o + Len(t) + 1]
  BY <1>1, Zenon
<1>3. skip[o + 1] = {o + i : i \in O} \cup skip[o + Len(t) + 1]
  BY <1>2, Zenon
<1> QED
  BY <1>3 DEF SeenOf

LEMMA SpanOf ==
  ASSUME NEW u \in Seq(Token), NEW ev, SpansOf(ev, u),
         NEW left \in Int, NEW right \in Int, 1 <= left, left <= right, right <= Len(u)
  PROVE  ev[<<left, right>>] = evalSpan(ev, u, TestReg, left, right)
<1>1. Len(u) \in Nat
  OBVIOUS
<1>2. left \in 1 .. Len(u) + 1 /\ right \in 0 .. Len(u)
  BY <1>1
<1>3. <<left, right>> \in Spans(Len(u))
  BY <1>2 DEF Spans
<1>4. <<left, right>>[1] = left /\ <<left, right>>[2] = right
  OBVIOUS
<1> QED
  BY <1>3, <1>4 DEF SpansOf

LEMMA SkipOf ==
  ASSUME NEW u, NEW left \in Int, NEW right \in Int, NEW skip, SkipsOf(skip, u, left, right),
         NEW i \in Int, left <= i, i <= right, u[i].type # "("
  PROVE  skip[i] = {i} \cup skip[i + 1]
<1>1. i \in left .. right + 1 /\ ~ (i > right)
  BY SMT
<1>2. skip[i] = OutsideFrom(skip, u, i, right)
  BY <1>1 DEF SkipsOf
<1> QED
  BY <1>1, <1>2 DEF OutsideFrom

(* A number, and a register.                                               *)
LEMMA SoundLeaf ==
  ASSUME NEW x \in Token, x.type \in {"num", "reg"}
  PROVE  Sound(<<x>>, 0, get_value(x, TestReg))
<1> DEFINE t == <<x>>
<1>1. t \in Seq(Token) /\ Len(t) = 1
  OBVIOUS
<1>2. Level(t)
  BY LevelOne
<1>3. Shows(t, {1})
  <2>0. {1} \subseteq 1 .. Len(t)
    BY <1>1
  <2> SUFFICES ASSUME NEW u \in Seq(Token), NEW o \in Nat, NEW left \in Int, NEW right \in Int, NEW skip,
                      At(t, u, o), left <= o + 1, o + Len(t) <= right,
                      SkipsOf(skip, u, left, right)
               PROVE  skip[o + 1] = {o + i : i \in {1}} \cup skip[o + Len(t) + 1]
    <3> HIDE DEF t
    <3> QED
      BY <2>0 DEF Shows
  <2>1. o \in Nat /\ u[o + 1] = x
    BY AtOne
  <2>2. o + 1 \in Int /\ o + 1 <= right /\ u[o + 1].type # "("
    BY <1>1, <2>1
  <2>3. skip[o + 1] = {o + 1} \cup skip[(o + 1) + 1]
    BY <2>2, SkipOf
  <2>4. {o + i : i \in {1}} = {o + 1}
    OBVIOUS
  <2> QED
    BY <1>1, <2>3, <2>4
<1>4. AtMost(t, {1}, 0)
  <2>1. t[1].type \notin Operators
    BY DEF Operators
  <2> QED
    BY <2>1 DEF AtMost
<1>5. Worth(t, get_value(x, TestReg))
  <2> SUFFICES ASSUME NEW u \in Seq(Token), NEW o \in Nat, NEW ev, At(t, u, o), SpansOf(ev, u)
               PROVE  ev[<<o + 1, o + Len(t)>>] = get_value(x, TestReg)
    BY DEF Worth
  <2>1. o \in Nat /\ o + 1 <= Len(u) /\ u[o + 1] = x
    BY AtOne
  <2>2. o + 1 \in Int /\ 1 <= o + 1 /\ o + 1 <= o + 1
    BY <2>1
  <2>3. ev[<<o + 1, o + 1>>] = evalSpan(ev, u, TestReg, o + 1, o + 1)
    BY <2>1, <2>2, SpanOf
  <2>4. ~ (o + 1 > o + 1)
    BY <2>1
  <2> QED
    BY <1>1, <2>1, <2>3, <2>4 DEF evalSpan
<1> QED
  BY <1>1, <1>2, <1>3, <1>4, <1>5 DEF Sound

(* The place where a parenthesis closes.                                   *)
LEMMA ClosesOnce ==
  ASSUME NEW u, NEW i \in Int, NEW right \in Int, NEW j \in i .. right,
         Balance(u, i, j) = 0, \A k \in i .. j - 1 : Balance(u, i, k) # 0
  PROVE  /\ Closes(u, i, j)
         /\ j = CHOOSE k \in i .. right : Closes(u, i, k)
<1>1. Closes(u, i, j)
  BY DEF Closes
<1>2. ASSUME NEW k \in i .. right, Closes(u, i, k)
      PROVE  k = j
  <2>1. k < j \/ k = j \/ j < k
    BY SMT
  <2>2. CASE k < j
    <3>1. k \in i .. j - 1
      BY <2>2, SMT
    <3> QED
      BY <3>1, <1>2 DEF Closes
  <2>3. CASE j < k
    <3>1. j \in i .. k - 1
      BY <2>3, SMT
    <3> QED
      BY <3>1, <1>2 DEF Closes
  <2> QED
    BY <2>1, <2>2, <2>3
<1> QED
  BY <1>1, <1>2

(* A phrase in a pair of parentheses: they hide its operators, and eval    *)
(* takes them off.                                                         *)
LEMMA ParensClose ==
  ASSUME NEW t \in Seq(Token), Len(t) >= 1, Level(t), NEW u \in Seq(Token), NEW o,
         At(Parens(t), u, o), NEW right \in Int, o + Len(t) + 2 <= right
  PROVE  /\ Closes(u, o + 1, o + Len(t) + 2)
         /\ o + Len(t) + 2 = CHOOSE k \in o + 1 .. right : Closes(u, o + 1, k)
<1> DEFINE q == o + Len(t) + 2
<1>1. o \in Nat /\ Len(t) \in Nat
  BY AtParens
<1>2. o + 1 \in Int /\ q \in o + 1 .. right /\ q - 1 = o + Len(t) + 1
  BY <1>1
<1>3. /\ Balance(u, o + 1, q) = 0
      /\ \A j \in o + 1 .. o + Len(t) + 1 : Balance(u, o + 1, j) >= 1
  BY ParensBalance
<1> HIDE DEF q
<1>4. \A k \in o + 1 .. q - 1 : Balance(u, o + 1, k) # 0
  BY <1>2, <1>3
<1>5. /\ Closes(u, o + 1, q)
      /\ q = CHOOSE k \in o + 1 .. right : Closes(u, o + 1, k)
  BY <1>2, <1>3, <1>4, ClosesOnce
<1> QED
  BY <1>5 DEF q

LEMMA SoundParens ==
  ASSUME NEW t, NEW rank, NEW v, Sound(t, rank, v)
  PROVE  Sound(Parens(t), 0, v)
<1>1. t \in Seq(Token) /\ Len(t) >= 1 /\ Level(t) /\ Worth(t, v)
  BY DEF Sound
<1>2. /\ Parens(t) \in Seq(Token) /\ Len(Parens(t)) = Len(t) + 2 /\ Len(t) \in Nat
      /\ Len(Parens(t)) >= 1
  <2>1. Parens(t) \in Seq(Token) /\ Len(Parens(t)) = Len(t) + 2 /\ Len(t) \in Nat
    BY <1>1, ParensShape
  <2> QED
    BY <2>1
<1>3. Level(Parens(t))
  BY <1>1, LevelParens
<1>4. Shows(Parens(t), {})
  <2> SUFFICES ASSUME NEW u \in Seq(Token), NEW o \in Nat, NEW left \in Int, NEW right \in Int, NEW skip,
                      At(Parens(t), u, o), left <= o + 1, o + Len(Parens(t)) <= right,
                      SkipsOf(skip, u, left, right)
               PROVE  skip[o + 1] = {o + i : i \in {}} \cup skip[o + Len(Parens(t)) + 1]
    BY DEF Shows
  <2> DEFINE q == o + Len(t) + 2
  <2>1. o \in Nat /\ u[o + 1].type = "("
    BY <1>1, AtParens
  <2>2. /\ q <= right /\ o + Len(Parens(t)) + 1 = 1 + q
        /\ o + 1 \in left .. right + 1 /\ ~ (o + 1 > right) /\ q \in o + 1 .. right
    BY <1>2, <2>1
  <2>3. Closes(u, o + 1, q) /\ q = CHOOSE k \in o + 1 .. right : Closes(u, o + 1, k)
    BY <1>1, <2>2, ParensClose
  <2> HIDE DEF q
  <2>4. skip[o + 1] = OutsideFrom(skip, u, o + 1, right)
    BY <2>2 DEF SkipsOf
  <2>5. OutsideFrom(skip, u, o + 1, right) = skip[1 + q]
    BY <2>1, <2>2, <2>3 DEF OutsideFrom
  <2> QED
    BY <2>2, <2>4, <2>5
<1>5. AtMost(Parens(t), {}, 0)
  BY DEF AtMost
<1>6. Worth(Parens(t), v)
  <2> SUFFICES ASSUME NEW u \in Seq(Token), NEW o \in Nat, NEW ev, At(Parens(t), u, o), SpansOf(ev, u)
               PROVE  ev[<<o + 1, o + Len(Parens(t))>>] = v
    BY DEF Worth
  <2> DEFINE p == o + 1
             q == o + Len(t) + 2
  <2>1. /\ o \in Nat /\ Len(u) \in Nat /\ q <= Len(u) /\ At(t, u, p)
        /\ u[p].type = "(" /\ u[q].type = ")"
    BY <1>1, AtParens
  <2>2. /\ p \in Int /\ q \in Int /\ 1 <= p /\ p <= q /\ ~ (p > q) /\ p # q
        /\ q - 1 = p + Len(t) /\ o + Len(Parens(t)) = q /\ q - 1 = o + Len(t) + 1
    BY <1>2, <2>1
  <2>3. Closes(u, p, q)
    BY <1>1, <2>2, ParensClose
  <2>4. /\ Balance(u, p, q) = 0
        /\ \A j \in p .. o + Len(t) + 1 : Balance(u, p, j) >= 1
    BY <1>1, ParensBalance
  <2> HIDE DEF p, q
  <2>5. ASSUME NEW k \in p .. q
        PROVE  ~ (Balance(u, p, k) < 0)
    <3>1. Balance(u, p, k) \in Int
      <4>1. k \in Int /\ p <= k + 1 /\ k <= k
        BY <2>2
      <4> QED
        BY <4>1, <2>2, BalanceAdd
    <3>2. k = q \/ k \in p .. o + Len(t) + 1
      BY <2>2
    <3> QED
      BY <2>4, <3>1, <3>2
  <2>6. check_parenthesis(u, p, q) = "both"
    BY <2>1, <2>3, <2>4, <2>5 DEF check_parenthesis
  <2>7. ev[<<p, q>>] = evalSpan(ev, u, TestReg, p, q)
    BY <2>1, <2>2, SpanOf
  <2>8. evalSpan(ev, u, TestReg, p, q) = ev[<<p + 1, q - 1>>]
    BY <2>2, <2>6 DEF evalSpan
  <2>9. ev[<<p + 1, p + Len(t)>>] = v
    <3>1. p \in Nat
      BY <2>1 DEF p
    <3> QED
      BY <1>1, <2>1, <3>1 DEF Worth
  <2> QED
    BY <2>2, <2>7, <2>8, <2>9 DEF p
<1> QED
  BY <1>2, <1>3, <1>4, <1>5, <1>6 DEF Sound

(* Two phrases with an operator between them.                              *)
Joined(a, op, b) == a \o <<Tok(op)>> \o b

LEMMA JoinedShape ==
  ASSUME NEW a \in Seq(Token), NEW b \in Seq(Token), NEW op \in Operators
  PROVE  /\ Tok(op) \in Token /\ Tok(op).type = op /\ op \notin {"(", ")", "num", "reg", "none"}
         /\ a \o <<Tok(op)>> \in Seq(Token) /\ Joined(a, op, b) \in Seq(Token)
         /\ Len(a) \in Nat /\ Len(b) \in Nat /\ Len(a \o <<Tok(op)>>) = Len(a) + 1
         /\ Len(Joined(a, op, b)) = Len(a) + 1 + Len(b)
         /\ \A i \in 1 .. Len(a) : Joined(a, op, b)[i] = a[i]
         /\ Joined(a, op, b)[Len(a) + 1] = Tok(op)
         /\ \A i \in 1 .. Len(b) : Joined(a, op, b)[Len(a) + 1 + i] = b[i]
<1>1. Tok(op) \in Token /\ Tok(op).type = op /\ op \notin {"(", ")", "num", "reg", "none"}
  BY DEF Tok, Token, Operators
<1> DEFINE c == a \o <<Tok(op)>>
<1>2. <<Tok(op)>> \in Seq(Token) /\ Len(<<Tok(op)>>) = 1 /\ <<Tok(op)>>[1] = Tok(op)
  BY <1>1
<1>3. /\ c \in Seq(Token) /\ Len(c) = Len(a) + 1 /\ Len(a) \in Nat /\ Len(b) \in Nat
      /\ \A i \in 1 .. Len(a) : c[i] = a[i]
  BY <1>2
<1>4. c[Len(a) + 1] = Tok(op)
  BY <1>2
<1> HIDE DEF c
<1>5. /\ c \o b \in Seq(Token) /\ Len(c \o b) = Len(a) + 1 + Len(b)
      /\ \A i \in 1 .. Len(a) + 1 : (c \o b)[i] = c[i]
      /\ \A i \in 1 .. Len(b) : (c \o b)[Len(a) + 1 + i] = b[i]
  <2>1. c \o b \in Seq(Token) /\ Len(c \o b) = Len(c) + Len(b)
    BY <1>3
  <2>2. \A i \in 1 .. Len(c) : (c \o b)[i] = c[i]
    BY <1>3
  <2>3. \A i \in 1 .. Len(b) : (c \o b)[Len(c) + i] = b[i]
    BY <1>3
  <2> QED
    BY <1>3, <2>1, <2>2, <2>3
<1>6. /\ \A i \in 1 .. Len(a) : i \in 1 .. Len(a) + 1
      /\ Len(a) + 1 \in 1 .. Len(a) + 1
  BY <1>3
<1> QED
  BY <1>1, <1>3, <1>4, <1>5, <1>6 DEF c, Joined

LEMMA AtJoined ==
  ASSUME NEW a \in Seq(Token), NEW b \in Seq(Token), NEW op \in Operators,
         NEW u \in Seq(Token), NEW o, At(Joined(a, op, b), u, o)
  PROVE  /\ o \in Nat /\ Len(u) \in Nat /\ At(a, u, o) /\ At(b, u, o + Len(a) + 1)
         /\ u[o + Len(a) + 1] = Tok(op)
         /\ o + Len(Joined(a, op, b)) = o + Len(a) + 1 + Len(b)
         /\ o + Len(a) + 1 + Len(b) <= Len(u)
<1> DEFINE c == a \o <<Tok(op)>>
<1>1. /\ Tok(op) \in Token /\ c \in Seq(Token) /\ Len(c) = Len(a) + 1
      /\ Len(a) \in Nat /\ Len(b) \in Nat
      /\ Len(Joined(a, op, b)) = Len(a) + 1 + Len(b) /\ Joined(a, op, b) = c \o b
  BY JoinedShape DEF Joined
<1>2. o \in Nat /\ Len(u) \in Nat /\ o + Len(Joined(a, op, b)) <= Len(u)
  BY DEF At
<1>3. At(c, u, o) /\ At(b, u, o + Len(c))
  <2> HIDE DEF c
  <2> QED
    BY <1>1, AtParts
<1>4. At(a, u, o) /\ At(<<Tok(op)>>, u, o + Len(a))
  <2>1. <<Tok(op)>> \in Seq(Token)
    BY <1>1
  <2> QED
    BY <1>3, <2>1, AtParts
<1>5. u[(o + Len(a)) + 1] = Tok(op)
  BY <1>1, <1>4, AtOne
<1>6. /\ (o + Len(a)) + 1 = o + Len(a) + 1 /\ o + (Len(a) + 1) = o + Len(a) + 1
      /\ o + (Len(a) + 1 + Len(b)) = o + Len(a) + 1 + Len(b)
  BY <1>1, <1>2
<1> QED
  BY <1>1, <1>2, <1>3, <1>4, <1>5, <1>6

LEMMA LevelJoined ==
  ASSUME NEW a \in Seq(Token), NEW b \in Seq(Token), NEW op \in Operators,
         Level(a), Level(b), Len(a) >= 1, Len(b) >= 1
  PROVE  Level(Joined(a, op, b))
<1>1. /\ Tok(op) \in Token /\ Tok(op).type \notin {"(", ")"}
      /\ a \o <<Tok(op)>> \in Seq(Token) /\ Len(a \o <<Tok(op)>>) = Len(a) + 1 /\ Len(a) \in Nat
  BY JoinedShape
<1>2. Level(<<Tok(op)>>) /\ <<Tok(op)>> \in Seq(Token) /\ Len(<<Tok(op)>>) = 1
  BY <1>1, LevelOne
<1>3. Level(a \o <<Tok(op)>>)
  <2>1. Len(<<Tok(op)>>) >= 1
    BY <1>2
  <2> QED
    BY <1>2, <2>1, LevelConcat
<1>4. Len(a \o <<Tok(op)>>) >= 1
  BY <1>1
<1> QED
  BY <1>1, <1>3, <1>4, LevelConcat DEF Joined

(* What is seen of it is what is seen of the two, and the operator.        *)
Both(a, A, B) == A \cup {Len(a) + 1} \cup {Len(a) + 1 + i : i \in B}

LEMMA ShowsJoined ==
  ASSUME NEW a \in Seq(Token), NEW b \in Seq(Token), NEW op \in Operators,
         NEW A, NEW B, Shows(a, A), Shows(b, B)
  PROVE  Shows(Joined(a, op, b), Both(a, A, B))
<1> DEFINE t == Joined(a, op, b)
           O == Both(a, A, B)
<1>1. /\ Len(a) \in Nat /\ Len(b) \in Nat /\ Len(t) = Len(a) + 1 + Len(b)
      /\ Tok(op).type # "("
  <2>1. Tok(op).type = op /\ op # "("
    BY JoinedShape
  <2> QED
    BY <2>1, JoinedShape
<1>2. A \subseteq 1 .. Len(a) /\ B \subseteq 1 .. Len(b)
  BY DEF Shows
<1>3. O \subseteq 1 .. Len(t)
  <2>1. \A i \in 1 .. Len(a) : i \in 1 .. Len(t)
    BY <1>1
  <2>2. \A i \in 1 .. Len(b) : Len(a) + 1 + i \in 1 .. Len(t)
    BY <1>1
  <2>3. Len(a) + 1 \in 1 .. Len(t)
    BY <1>1
  <2> QED
    BY <1>2, <2>1, <2>2, <2>3 DEF Both
<1> SUFFICES Shows(t, O)
  OBVIOUS
<1> SUFFICES ASSUME NEW u \in Seq(Token), NEW o \in Nat, NEW left \in Int, NEW right \in Int, NEW skip,
                    At(t, u, o), left <= o + 1, o + Len(t) <= right,
                    SkipsOf(skip, u, left, right)
             PROVE  skip[o + 1] = {o + i : i \in O} \cup skip[o + Len(t) + 1]
  <2> HIDE DEF t, O
  <2> QED
    BY <1>3 DEF Shows
<1> DEFINE p == o + Len(a) + 1
<1>4. /\ o \in Nat /\ At(a, u, o) /\ At(b, u, p) /\ u[p] = Tok(op)
      /\ o + Len(t) = p + Len(b)
  BY AtJoined, SMTT(30)
<1>5. /\ p \in Int /\ left <= p /\ p <= right /\ o + Len(a) <= right
      /\ left <= p + 1 /\ p + Len(b) <= right
  BY <1>1, <1>4, SMTT(30)
<1>6. skip[o + 1] = {o + i : i \in A} \cup skip[p]
  <2> HIDE DEF t, O
  <2>1. left <= o + 1 /\ o + Len(a) <= right
    BY <1>5
  <2>2. SeenOf(skip, o, Len(a), A)
    BY <1>4, <2>1, ShowsAt
  <2> QED
    BY <2>2 DEF SeenOf, p
<1>7. skip[p] = {p} \cup skip[p + 1]
  <2>1. u[p].type # "("
    BY <1>1, <1>4
  <2> HIDE DEF p, t, O
  <2> QED
    BY <1>5, <2>1, SkipOf, SMTT(30)
<1>8. skip[p + 1] = {p + i : i \in B} \cup skip[p + Len(b) + 1]
  <2>1. p \in Nat
    BY <1>1, <1>4
  <2>2. At(b, u, p) /\ left <= p + 1 /\ p + Len(b) <= right
    BY <1>4, <1>5
  <2>3. PICK q \in Nat : q = p
    BY <2>1
  <2> HIDE DEF p, t, O
  <2>4. At(b, u, q) /\ left <= q + 1 /\ q + Len(b) <= right
    BY <2>2, <2>3
  <2>5. SeenOf(skip, q, Len(b), B)
    BY <2>4, ShowsAt
  <2> QED
    BY <2>3, <2>5 DEF SeenOf
<1>9. {o + i : i \in O} = {o + i : i \in A} \cup {p} \cup {p + i : i \in B}
  <2>1. p = o + (Len(a) + 1)
    BY <1>1, <1>4
  <2>2. \A i \in B : p + i = o + (Len(a) + 1 + i)
    BY <1>1, <1>2, <1>4
  <2>3. {o + i : i \in O}
          = {o + i : i \in A} \cup {o + (Len(a) + 1)} \cup {o + (Len(a) + 1 + i) : i \in B}
    BY DEF Both
  <2>4. {o + (Len(a) + 1 + i) : i \in B} = {p + i : i \in B}
    <3> HIDE DEF p
    <3> QED
      BY <2>2
  <2> HIDE DEF p, O
  <2> QED
    BY <2>1, <2>3, <2>4
<1> HIDE DEF p, O, t
<1> QED
  BY <1>4, <1>6, <1>7, <1>8, <1>9

LEMMA RankIsNumber ==
  \A type \in Operators : Rank(type) \in 1 .. 4
BY SMT DEF Operators, Rank

(* Of those the operator is the last of the weakest, if those of the left  *)
(* phrase are not weaker and those of the right one are stronger.          *)
LEMMA JoinedRanks ==
  ASSUME NEW a \in Seq(Token), NEW b \in Seq(Token), NEW op \in Operators,
         NEW A, NEW B, Shows(a, A), Shows(b, B),
         NEW ra \in Int, NEW rb \in Int, AtMost(a, A, ra), AtMost(b, B, rb),
         ra <= Rank(op), rb < Rank(op),
         NEW i \in Both(a, A, B), Joined(a, op, b)[i].type \in Operators
  PROVE  /\ Rank(Joined(a, op, b)[i].type) <= Rank(op)
         /\ i <= Len(a) + 1 \/ Rank(Joined(a, op, b)[i].type) < Rank(op)
<1> DEFINE t == Joined(a, op, b)
<1>1. /\ Len(a) \in Nat /\ Len(b) \in Nat /\ t[Len(a) + 1].type = op
      /\ \A k \in 1 .. Len(a) : t[k] = a[k]
      /\ \A k \in 1 .. Len(b) : t[Len(a) + 1 + k] = b[k]
  <2>1. t[Len(a) + 1] = Tok(op) /\ Tok(op).type = op
    BY JoinedShape
  <2>2. t[Len(a) + 1].type = op
    BY <2>1
  <2>3. /\ Len(a) \in Nat /\ Len(b) \in Nat
        /\ \A k \in 1 .. Len(a) : t[k] = a[k]
    BY JoinedShape
  <2>4. \A k \in 1 .. Len(b) : t[Len(a) + 1 + k] = b[k]
    BY JoinedShape
  <2> HIDE DEF t
  <2> QED
    BY <2>2, <2>3, <2>4
<1>2. A \subseteq 1 .. Len(a) /\ B \subseteq 1 .. Len(b)
  BY DEF Shows
<1>3. Rank(op) \in Int /\ Rank(t[i].type) \in Int
  <2>1. \A type \in Operators : Rank(type) \in Int
    BY RankIsNumber
  <2> HIDE DEF t
  <2> QED
    BY <2>1 DEF t
<1> HIDE DEF t
<1>4. t[i].type \in Operators
  BY DEF t
<1>5. CASE i \in A
  <2>1. i \in 1 .. Len(a) /\ t[i] = a[i]
    BY <1>1, <1>2, <1>5
  <2>2. Rank(t[i].type) <= ra
    BY <1>4, <1>5, <2>1 DEF AtMost
  <2>3. i <= Len(a) + 1
    BY <1>1, <2>1
  <2>4. Rank(t[i].type) <= Rank(op)
    BY <1>3, <2>2
  <2> QED
    BY <2>3, <2>4 DEF t
<1>6. CASE i = Len(a) + 1
  <2>1. i <= Len(a) + 1 /\ Rank(t[i].type) <= Rank(op)
    BY <1>1, <1>3, <1>6
  <2> QED
    BY <2>1 DEF t
<1>7. CASE \E k \in B : i = Len(a) + 1 + k
  <2>1. PICK k \in B : i = Len(a) + 1 + k
    BY <1>7
  <2>2. k \in 1 .. Len(b) /\ t[i] = b[k]
    BY <1>1, <1>2, <2>1
  <2>3. Rank(t[i].type) <= rb
    BY <1>4, <2>2 DEF AtMost
  <2>4. Rank(t[i].type) <= Rank(op) /\ Rank(t[i].type) < Rank(op)
    BY <1>3, <2>3
  <2> QED
    BY <2>4 DEF t
<1> QED
  BY <1>5, <1>6, <1>7 DEF Both

LEMMA JoinedPosition ==
  ASSUME NEW a \in Seq(Token), NEW b \in Seq(Token), NEW op \in Operators,
         NEW A, NEW B, Shows(a, A), Shows(b, B),
         NEW ra \in Int, NEW rb \in Int, AtMost(a, A, ra), AtMost(b, B, rb),
         ra <= Rank(op), rb < Rank(op),
         NEW u \in Seq(Token), NEW o \in Nat, At(Joined(a, op, b), u, o)
  PROVE  get_op_position(u, o + 1, o + Len(a) + 1 + Len(b)) = o + Len(a) + 1
<1> DEFINE t == Joined(a, op, b)
           O == Both(a, A, B)
           left == o + 1
           right == o + Len(a) + 1 + Len(b)
           p == o + Len(a) + 1
           outside == Outside(u, left, right)
           ops == {i \in outside \ {0} : u[i].type \in Operators}
           weakest == {i \in ops : \A j \in ops : Rank(u[j].type) <= Rank(u[i].type)}
<1>1. /\ Len(a) \in Nat /\ Len(b) \in Nat /\ u[p] = Tok(op) /\ o + Len(t) = right
      /\ Tok(op).type = op
  <2>1. Len(a) \in Nat /\ Len(b) \in Nat /\ Tok(op).type = op
    BY JoinedShape
  <2>2. u[p] = Tok(op) /\ o + Len(t) = right
    BY AtJoined, SMTT(30)
  <2> QED
    BY <2>1, <2>2
<1>2. left \in Int /\ right \in Int /\ p \in Int /\ left <= right /\ p > 0
  BY <1>1
<1>3. Shows(t, O)
  BY ShowsJoined
<1>4. outside = {o + i : i \in O}
  <2> HIDE DEF outside, left, right, O, t
  <2>1. PICK skip : /\ Outside(u, left, right) = skip[left]
                    /\ \A i \in left .. right + 1 : skip[i] = OutsideFrom(skip, u, i, right)
    BY <1>2, OutsideIn
  <2>2. SkipsOf(skip, u, left, right)
    BY <2>1 DEF SkipsOf
  <2>3. left = o + 1 /\ left <= o + 1 /\ o + Len(t) <= right /\ At(t, u, o)
        /\ o + Len(t) + 1 = right + 1
    <3>1. left = o + 1 /\ At(t, u, o)
      BY DEF left, t
    <3>2. left <= o + 1
      BY <1>2, <3>1
    <3>3. o + Len(t) = right /\ Len(t) \in Nat
      <4>1. Len(Joined(a, op, b)) = Len(a) + 1 + Len(b)
        BY JoinedShape
      <4> QED
        BY <1>1, <4>1 DEF t
    <3>4. o + Len(t) <= right /\ o + Len(t) + 1 = right + 1
      BY <1>2, <3>3
    <3> QED
      BY <3>1, <3>2, <3>4
  <2>4. skip[o + 1] = {o + i : i \in O} \cup skip[o + Len(t) + 1]
    <3>1. SeenOf(skip, o, Len(t), O)
      BY <1>2, <1>3, <2>2, <2>3, ShowsAt
    <3> QED
      BY <3>1 DEF SeenOf
  <2>5. skip[right + 1] = {}
    <3>1. right + 1 \in left .. right + 1 /\ right + 1 > right
      BY <1>2
    <3>2. skip[right + 1] = OutsideFrom(skip, u, right + 1, right)
      BY <2>1, <3>1
    <3> QED
      BY <3>1, <3>2 DEF OutsideFrom
  <2> QED
    BY <2>1, <2>3, <2>4, <2>5 DEF outside
<1>5. O \subseteq 1 .. Len(t)
  <2> HIDE DEF t, O
  <2> QED
    BY <1>3 DEF Shows
<1>6. \A i \in O : o + i # 0 /\ o + i \in Int /\ i \in Int /\ u[o + i] = t[i]
  <2>1. At(t, u, o)
    OBVIOUS
  <2> HIDE DEF t, O
  <2> QED
    BY <1>5, <2>1, SMTT(30) DEF At
<1>7. 0 \notin outside /\ p \in outside
  <2>1. Len(a) + 1 \in O /\ p = o + (Len(a) + 1)
    BY <1>1 DEF Both
  <2> HIDE DEF outside, O, p
  <2> QED
    BY <1>4, <1>6, <2>1
<1>8. p \in ops /\ ops # {}
  <2> HIDE DEF outside, p
  <2> QED
    BY <1>1, <1>2, <1>7
<1>9. ASSUME NEW j \in ops
      PROVE  /\ Rank(u[j].type) <= Rank(u[p].type) /\ j \in Int
             /\ j <= p \/ ~ (Rank(u[p].type) <= Rank(u[j].type))
  <2>1. PICK i \in O : j = o + i
    <3> HIDE DEF outside, O
    <3> QED
      BY <1>4
  <2>2. u[j] = t[i] /\ i \in Int
    <3> HIDE DEF outside, O, t
    <3> QED
      BY <1>6, <2>1
  <2>3. t[i].type \in Operators
    <3> HIDE DEF outside, O, t
    <3> QED
      BY <2>2
  <2>4. /\ Rank(t[i].type) <= Rank(op)
        /\ i <= Len(a) + 1 \/ Rank(t[i].type) < Rank(op)
    BY <2>3, JoinedRanks
  <2>5. Rank(op) \in Int /\ Rank(t[i].type) \in Int
    <3> HIDE DEF outside, O, t
    <3>1. Rank(op) \in 1 .. 4 /\ Rank(t[i].type) \in 1 .. 4
      BY <2>3, RankIsNumber
    <3> QED
      BY <3>1
  <2>6. i <= Len(a) + 1 => j <= p
    BY <1>1, <2>1, <2>2
  <2>7. Rank(t[i].type) < Rank(op) => ~ (Rank(op) <= Rank(t[i].type))
    <3> HIDE DEF t
    <3> QED
      BY <2>5
  <2> HIDE DEF ops, p, t, O
  <2> QED
    BY <1>1, <2>1, <2>2, <2>4, <2>6, <2>7
<1> HIDE DEF outside
<1>10. p \in weakest /\ \A j \in weakest : j <= p /\ j \in Int
  <2> HIDE DEF ops, p
  <2> QED
    BY <1>8, <1>9
<1>11. get_op_position(u, left, right) = CHOOSE i \in weakest : \A j \in weakest : j <= i
  BY <1>7, <1>8 DEF get_op_position, outside
<1> HIDE DEF weakest, p
<1>12. \A i \in weakest : (\A j \in weakest : j <= i) => i = p
  BY <1>2, <1>10
<1>13. p = CHOOSE i \in weakest : \A j \in weakest : j <= i
  BY <1>10, <1>12
<1> QED
  BY <1>11, <1>13 DEF p

(* No pair of parentheses encloses the two.                                *)
LEMMA JoinedNotEnclosed ==
  ASSUME NEW a \in Seq(Token), NEW b \in Seq(Token), NEW op \in Operators,
         Level(a), Level(b), Len(a) >= 1, Len(b) >= 1,
         NEW u \in Seq(Token), NEW o \in Nat, At(Joined(a, op, b), u, o)
  PROVE  check_parenthesis(u, o + 1, o + Len(a) + 1 + Len(b)) = "no"
<1> DEFINE left == o + 1
           right == o + Len(a) + 1 + Len(b)
           k == o + Len(a)
<1>1. /\ Len(a) \in Nat /\ Len(b) \in Nat /\ At(a, u, o)
      /\ o + Len(Joined(a, op, b)) = right
  <2>1. Len(a) \in Nat /\ Len(b) \in Nat
    BY JoinedShape
  <2>2. At(a, u, o) /\ o + Len(Joined(a, op, b)) = right
    BY AtJoined
  <2> QED
    BY <2>1, <2>2
<1>2. left \in Int /\ right \in Int /\ k \in left .. right - 1
  BY <1>1
<1>3. Level(Joined(a, op, b))
  BY LevelJoined
<1>4. Balance(u, left, right) = 0 /\ \A j \in left .. right : Balance(u, left, j) >= 0
  BY <1>1, <1>3 DEF Level
<1>5. Balance(u, left, k) = 0
  BY <1>1 DEF Level
<1> HIDE DEF left, right, k
<1>6. ~ Closes(u, left, right)
  BY <1>2, <1>5 DEF Closes
<1>7. ASSUME NEW j \in left .. right
      PROVE  ~ (Balance(u, left, j) < 0)
  <2>1. j \in Int /\ left <= j + 1 /\ j <= j
    BY <1>2
  <2>2. Balance(u, left, j) \in Int
    BY <1>2, <2>1, BalanceAdd
  <2> QED
    BY <1>4, <2>2
<1>8. check_parenthesis(u, left, right) = "no"
  BY <1>4, <1>6, <1>7 DEF check_parenthesis
<1> QED
  BY <1>8 DEF left, right

(* What eval makes of an operation on two words.                           *)
InWords(op, a, b) ==
  IF a = Crash THEN Crash
  ELSE IF op = "&&" /\ a = 0 THEN 0
  ELSE IF b = Crash THEN Crash ELSE Apply(op, a, b)

LEMMA InWordsIn ==
  ASSUME NEW op \in Operators, NEW a \in Values \union {Crash}, NEW b \in Values \union {Crash}
  PROVE  /\ InWords(op, a, b) \in Values \union {Crash}
         /\ InWords(op, a, b) = IF ~ IsWord(a) THEN a
                            ELSE IF a = 0 /\ op = "&&" THEN 0
                            ELSE IF IsWord(b) THEN Apply(op, a, b) ELSE b
<1>1. \A v \in Values \union {Crash} : IsWord(v) <=> v # Crash
  BY SdbExprAssumption, SMT DEF Values, IsWord, Crash
<1>2. 0 \in Values
  BY WordsAreResults
<1>3. a # Crash /\ b # Crash => Apply(op, a, b) \in Values \union {Crash}
  BY ApplyIn
<1> HIDE DEF Values
<1> QED
  BY <1>1, <1>2, <1>3 DEF InWords

LEMMA WorthJoined ==
  ASSUME NEW a, NEW b, NEW op \in Operators, NEW ra \in Int, NEW rb \in Int,
         NEW va \in Values \union {Crash}, NEW vb \in Values \union {Crash},
         Sound(a, ra, va), Sound(b, rb, vb), ra <= Rank(op), rb < Rank(op)
  PROVE  Worth(Joined(a, op, b), InWords(op, va, vb))
<1>1. /\ a \in Seq(Token) /\ Len(a) >= 1 /\ Level(a) /\ Worth(a, va)
      /\ b \in Seq(Token) /\ Len(b) >= 1 /\ Level(b) /\ Worth(b, vb)
  BY DEF Sound
<1>2. PICK A : Shows(a, A) /\ AtMost(a, A, ra)
  BY DEF Sound
<1>3. PICK B : Shows(b, B) /\ AtMost(b, B, rb)
  BY DEF Sound
<1> SUFFICES ASSUME NEW u \in Seq(Token), NEW o \in Nat, NEW ev,
                    At(Joined(a, op, b), u, o), SpansOf(ev, u)
             PROVE  ev[<<o + 1, o + Len(Joined(a, op, b))>>] = InWords(op, va, vb)
  BY DEF Worth
<1> DEFINE left == o + 1
           right == o + Len(a) + 1 + Len(b)
           p == o + Len(a) + 1
<1>4. /\ Len(a) \in Nat /\ Len(b) \in Nat /\ Len(u) \in Nat /\ right <= Len(u)
      /\ o + Len(Joined(a, op, b)) = right /\ At(a, u, o) /\ At(b, u, p)
      /\ u[p].type = op
  <2>1. Tok(op).type = op /\ Len(a) \in Nat /\ Len(b) \in Nat
    BY <1>1, JoinedShape
  <2>2. /\ Len(u) \in Nat /\ right <= Len(u)
        /\ o + Len(Joined(a, op, b)) = right /\ At(a, u, o) /\ At(b, u, p)
        /\ u[p] = Tok(op)
    BY <1>1, AtJoined
  <2> HIDE DEF left, right, p
  <2> QED
    BY <2>1, <2>2
<1>5. /\ left \in Int /\ right \in Int /\ 1 <= left /\ left <= right /\ ~ (left > right)
      /\ left # right /\ p # 0 /\ p \in Nat /\ p - 1 = o + Len(a) /\ p + Len(b) = right
  BY <1>1, <1>4
<1>6. check_parenthesis(u, left, right) = "no"
  BY <1>1, JoinedNotEnclosed
<1>7. get_op_position(u, left, right) = p
  BY <1>1, <1>2, <1>3, JoinedPosition
<1>8. ev[<<left, p - 1>>] = va
  <2>1. ev[<<o + 1, o + Len(a)>>] = va
    BY <1>1, <1>4 DEF Worth
  <2> QED
    BY <1>5, <2>1
<1>9. ev[<<p + 1, right>>] = vb
  <2> HIDE DEF p, right
  <2>1. ev[<<p + 1, p + Len(b)>>] = vb
    BY <1>1, <1>4, <1>5 DEF Worth
  <2> QED
    BY <1>5, <2>1
<1>10. ev[<<left, right>>] = evalSpan(ev, u, TestReg, left, right)
  <2> HIDE DEF left, right
  <2> QED
    BY <1>4, <1>5, SpanOf
<1> HIDE DEF left, right, p
<1>11. evalSpan(ev, u, TestReg, left, right)
         = IF ~ IsWord(va) THEN va
           ELSE IF va = 0 /\ op = "&&" THEN 0
           ELSE IF IsWord(vb) THEN Apply(op, va, vb) ELSE vb
  BY <1>4, <1>5, <1>6, <1>7, <1>8, <1>9 DEF evalSpan, NoPosition
<1>12. ev[<<left, right>>] = InWords(op, va, vb)
  BY <1>10, <1>11, InWordsIn
<1> QED
  BY <1>4, <1>12 DEF left

LEMMA SoundJoined ==
  ASSUME NEW a, NEW b, NEW op \in Operators, NEW ra \in Int, NEW rb \in Int,
         NEW va \in Values \union {Crash}, NEW vb \in Values \union {Crash},
         Sound(a, ra, va), Sound(b, rb, vb), ra <= Rank(op), rb < Rank(op)
  PROVE  Sound(Joined(a, op, b), Rank(op), InWords(op, va, vb))
<1> DEFINE t == Joined(a, op, b)
<1>1. /\ a \in Seq(Token) /\ Len(a) >= 1 /\ Level(a)
      /\ b \in Seq(Token) /\ Len(b) >= 1 /\ Level(b)
  BY DEF Sound
<1>2. PICK A : Shows(a, A) /\ AtMost(a, A, ra)
  BY DEF Sound
<1>3. PICK B : Shows(b, B) /\ AtMost(b, B, rb)
  BY DEF Sound
<1>4. t \in Seq(Token) /\ Len(t) >= 1
  <2>1. /\ t \in Seq(Token) /\ Len(t) = Len(a) + 1 + Len(b)
        /\ Len(a) \in Nat /\ Len(b) \in Nat
    BY <1>1, JoinedShape
  <2> QED
    BY <2>1
<1>5. Level(t)
  BY <1>1, LevelJoined
<1>6. Shows(t, Both(a, A, B))
  BY <1>1, <1>2, <1>3, ShowsJoined
<1>7. AtMost(t, Both(a, A, B), Rank(op))
  <2>1. ASSUME NEW i \in Both(a, A, B), t[i].type \in Operators
        PROVE  Rank(t[i].type) <= Rank(op)
    BY <1>1, <1>2, <1>3, <2>1, JoinedRanks
  <2> HIDE DEF t
  <2> QED
    BY <2>1 DEF AtMost
<1>8. Worth(t, InWords(op, va, vb))
  BY WorthJoined
<1> HIDE DEF t
<1>9. Sound(t, Rank(op), InWords(op, va, vb))
  BY <1>4, <1>5, <1>6, <1>7, <1>8 DEF Sound
<1> QED
  BY <1>9 DEF t

------------------------------------------------------------------------------
(* preprocessing of two texts that keep apart is the one after the other.  *)
LEMMA NthIs ==
  ASSUME NEW S \in SUBSET Nat, IsFiniteSet(S), NEW i \in S
  PROVE  Nth(S, RankIn(S, i)) = i
<1>1. RankIn(S, i) \in 1 .. Cardinality(S)
  BY RankInBounds
<1>2. PICK k \in 1 .. Cardinality(S) : k = RankIn(S, i)
  BY <1>1
<1>3. Nth(S, k) \in S /\ RankIn(S, Nth(S, k)) = k
  BY NthIsIn
<1> QED
  BY <1>2, <1>3, RankInBounds

Shifted(n, S) == {n + j : j \in S}

LEMMA ShiftedSize ==
  ASSUME NEW n \in Nat, NEW S \in SUBSET Nat, IsFiniteSet(S)
  PROVE  IsFiniteSet(Shifted(n, S)) /\ Cardinality(Shifted(n, S)) = Cardinality(S)
<1> DEFINE f == [j \in S |-> n + j]
<1>1. \A i, j \in S : n + i = n + j => i = j
  <2>1. \A i \in S : i \in Nat
    OBVIOUS
  <2> QED
    BY <2>1
<1>2. f \in Surjection(S, Shifted(n, S)) /\ f \in Injection(S, Shifted(n, S))
  BY <1>1 DEF Shifted, Surjection, Injection, IsInjective
<1> HIDE DEF f
<1> QED
  BY <1>2, FS_Surjection

(* The positions of two stretches, the second behind the n of the first.   *)
LEMMA NthOfTwo ==
  ASSUME NEW n \in Nat, NEW S \in SUBSET (1 .. n), NEW R \in SUBSET (Nat \ {0}), IsFiniteSet(R)
  PROVE  /\ Cardinality(S) \in Nat /\ Cardinality(R) \in Nat
         /\ Cardinality(S \cup Shifted(n, R)) = Cardinality(S) + Cardinality(R)
         /\ \A k \in 1 .. Cardinality(S) : Nth(S \cup Shifted(n, R), k) = Nth(S, k)
         /\ \A k \in 1 .. Cardinality(R) :
              Nth(S \cup Shifted(n, R), Cardinality(S) + k) = n + Nth(R, k)
<1> DEFINE U == S \cup Shifted(n, R)
<1>1. S \in SUBSET Nat /\ IsFiniteSet(S) /\ R \in SUBSET Nat
  <2>1. IsFiniteSet(1 .. n)
    BY IntervalSize
  <2>2. IsFiniteSet(S)
    BY <2>1, FS_Subset
  <2> QED
    BY <2>2
<1>2. \A T \in SUBSET R : /\ IsFiniteSet(T) /\ Cardinality(T) \in Nat
                          /\ IsFiniteSet(S \cup Shifted(n, T))
                          /\ Cardinality(S \cup Shifted(n, T)) = Cardinality(S) + Cardinality(T)
  <2> SUFFICES ASSUME NEW T \in SUBSET R
               PROVE  /\ IsFiniteSet(T) /\ Cardinality(T) \in Nat
                      /\ IsFiniteSet(S \cup Shifted(n, T))
                      /\ Cardinality(S \cup Shifted(n, T)) = Cardinality(S) + Cardinality(T)
    OBVIOUS
  <2>1. T \in SUBSET Nat /\ IsFiniteSet(T)
    BY <1>1, FS_Subset
  <2>2. IsFiniteSet(Shifted(n, T)) /\ Cardinality(Shifted(n, T)) = Cardinality(T)
    BY <2>1, ShiftedSize
  <2>3. S \cap Shifted(n, T) = {}
    <3>1. \A i \in S, j \in T : i \in Int /\ j \in Int /\ i <= n /\ j > 0
      BY <2>1, SMT
    <3>2. \A i \in S, j \in T : i # n + j
      <4> SUFFICES ASSUME NEW i \in S, NEW j \in T
                   PROVE  i # n + j
        OBVIOUS
      <4>1. i \in Int /\ j \in Int /\ i <= n /\ j > 0
        BY <3>1
      <4> QED
        BY <4>1, SMT
    <3> QED
      BY <3>2 DEF Shifted
  <2>4. Cardinality(S) \in Nat /\ Cardinality(T) \in Nat
    BY <1>1, <2>1, FS_CardinalityType
  <2>5. /\ IsFiniteSet(S \cup Shifted(n, T))
        /\ Cardinality(S \cup Shifted(n, T))
             = Cardinality(S) + Cardinality(Shifted(n, T)) - Cardinality(S \cap Shifted(n, T))
    BY <1>1, <2>2, FS_Union
  <2>6. Cardinality(S \cap Shifted(n, T)) = 0
    BY <2>3, FS_EmptySet
  <2> QED
    BY <2>1, <2>2, <2>4, <2>5, <2>6, SMT
<1>3. /\ Cardinality(S) \in Nat /\ Cardinality(R) \in Nat /\ IsFiniteSet(U)
      /\ Cardinality(U) = Cardinality(S) + Cardinality(R)
  <2>1. R \in SUBSET R
    OBVIOUS
  <2>2. Cardinality(S) \in Nat
    BY <1>1, FS_CardinalityType
  <2> QED
    BY <1>2, <2>1, <2>2
<1>4. U \in SUBSET Nat
  <2>1. \A j \in R : n + j \in Nat
    BY <1>1
  <2> QED
    BY <1>1, <2>1 DEF Shifted
<1>5. ASSUME NEW i \in S
      PROVE  RankIn(U, i) = RankIn(S, i)
  <2>1. \A j \in R : ~ (n + j <= i)
    <3> SUFFICES ASSUME NEW j \in R
                 PROVE  ~ (n + j <= i)
      OBVIOUS
    <3>1. j \in Nat /\ j # 0 /\ i \in Int /\ i <= n
      OBVIOUS
    <3> QED
      BY <3>1, SMT
  <2>2. {j \in U : j <= i} = {j \in S : j <= i}
    BY <2>1 DEF Shifted
  <2> QED
    BY <2>2 DEF RankIn
<1>6. ASSUME NEW i \in R
      PROVE  RankIn(U, n + i) = Cardinality(S) + RankIn(R, i)
  <2> DEFINE T == {j \in R : j <= i}
  <2>1. \A j \in S : j <= n + i
    <3> SUFFICES ASSUME NEW j \in S
                 PROVE  j <= n + i
      OBVIOUS
    <3>1. j \in Int /\ j <= n /\ i \in Nat
      OBVIOUS
    <3> QED
      BY <3>1, SMT
  <2>2. \A j \in R : n + j <= n + i <=> j <= i
    <3> SUFFICES ASSUME NEW j \in R
                 PROVE  n + j <= n + i <=> j <= i
      OBVIOUS
    <3>1. j \in Nat /\ i \in Nat
      OBVIOUS
    <3> QED
      BY <3>1, SMT
  <2>3. {j \in U : j <= n + i} = S \cup Shifted(n, T)
    BY <2>1, <2>2 DEF Shifted
  <2>4. T \in SUBSET R /\ RankIn(R, i) = Cardinality(T)
    BY DEF RankIn
  <2> HIDE DEF T
  <2> QED
    BY <1>2, <2>3, <2>4 DEF RankIn
<1>7. ASSUME NEW k \in 1 .. Cardinality(S)
      PROVE  Nth(U, k) = Nth(S, k)
  <2>1. Nth(S, k) \in S /\ RankIn(S, Nth(S, k)) = k
    BY <1>1, NthIsIn
  <2>2. Nth(S, k) \in U /\ RankIn(U, Nth(S, k)) = k
    BY <1>5, <2>1
  <2> QED
    BY <1>3, <1>4, <2>2, NthIs
<1>8. ASSUME NEW k \in 1 .. Cardinality(R)
      PROVE  Nth(U, Cardinality(S) + k) = n + Nth(R, k)
  <2>1. Nth(R, k) \in R /\ RankIn(R, Nth(R, k)) = k
    BY <1>1, NthIsIn
  <2>2. n + Nth(R, k) \in U /\ RankIn(U, n + Nth(R, k)) = Cardinality(S) + k
    BY <1>6, <2>1 DEF Shifted
  <2> QED
    BY <1>3, <1>4, <2>2, NthIs
<1> QED
  BY <1>3, <1>7, <1>8

Image(tokens, i) ==
  IF Negates(tokens, i) THEN [type |-> "num", val |-> - tokens[i + 1].val] ELSE tokens[i]

LEMMA KeptShape ==
  ASSUME NEW t \in Seq(Token)
  PROVE  /\ Kept(t) \in SUBSET (1 .. Len(t)) /\ IsFiniteSet(Kept(t))
         /\ Cardinality(Kept(t)) \in Nat
         /\ preprocessing(t) \in Seq(Token) /\ Len(preprocessing(t)) = Cardinality(Kept(t))
         /\ \A k \in 1 .. Cardinality(Kept(t)) :
              preprocessing(t)[k] = Image(t, Nth(Kept(t), k))
<1>1. Len(t) \in Nat /\ DOMAIN t = 1 .. Len(t)
  OBVIOUS
<1>2. Kept(t) \in SUBSET (1 .. Len(t))
  BY <1>1 DEF Kept
<1>3. IsFiniteSet(Kept(t))
  <2>1. IsFiniteSet(1 .. Len(t))
    BY <1>1, IntervalSize
  <2> QED
    BY <1>2, <2>1, FS_Subset
<1>4. Cardinality(Kept(t)) \in Nat
  BY <1>3, FS_CardinalityType
<1>5. preprocessing(t) = [k \in 1 .. Cardinality(Kept(t)) |-> Image(t, Nth(Kept(t), k))]
  BY DEF preprocessing, Image
<1>6. preprocessing(t) \in Seq(Token)
  BY PreprocessingTokens
<1>7. Len(preprocessing(t)) = Cardinality(Kept(t))
  <2>1. DOMAIN preprocessing(t) = 1 .. Cardinality(Kept(t))
    BY <1>5
  <2> QED
    BY <1>4, <1>6, <2>1
<1> QED
  BY <1>2, <1>3, <1>4, <1>5, <1>6, <1>7

(* No "-" at the seam is taken otherwise than in the texts alone.          *)
Apart(a, b) ==
  /\ \A i \in 1 .. Len(a) : Negates(a \o b, i) <=> Negates(a, i)
  /\ \A j \in 1 .. Len(b) : Negates(a \o b, Len(a) + j) <=> Negates(b, j)

LEMMA Appended ==
  ASSUME NEW a \in Seq(Token), NEW b \in Seq(Token)
  PROVE  /\ a \o b \in Seq(Token) /\ Len(a) \in Nat /\ Len(b) \in Nat
         /\ Len(a \o b) = Len(a) + Len(b)
         /\ \A i \in 1 .. Len(a) : (a \o b)[i] = a[i]
         /\ \A j \in 1 .. Len(b) : (a \o b)[Len(a) + j] = b[j]
OBVIOUS

LEMMA SeamApart ==
  ASSUME NEW a \in Seq(Token), NEW b \in Seq(Token), Len(a) >= 1, Len(b) >= 1,
         ~ Negates(a \o b, Len(a)),
         Negates(b, 1) => a[Len(a)].type \notin {"num", ")"}
  PROVE  Apart(a, b)
<1> DEFINE t == a \o b
<1>1. /\ Len(a) \in Nat /\ Len(b) \in Nat /\ Len(t) = Len(a) + Len(b)
      /\ \A i \in 1 .. Len(a) : t[i] = a[i]
      /\ \A j \in 1 .. Len(b) : t[Len(a) + j] = b[j]
  BY Appended
<1>2. ~ Negates(t, Len(a))
  OBVIOUS
<1> HIDE DEF t
<1>3. ASSUME NEW i \in 1 .. Len(a)
      PROVE  Negates(t, i) <=> Negates(a, i)
  <2>1. CASE i = Len(a)
    <3>1. ~ (i < Len(a))
      BY <1>1, <2>1
    <3> QED
      BY <1>2, <2>1, <3>1 DEF Negates
  <2>2. CASE i # Len(a)
    <3>1. /\ i < Len(a) /\ i < Len(t) /\ i + 1 \in 1 .. Len(a)
          /\ i # 1 => i - 1 \in 1 .. Len(a)
      BY <1>1, <2>2
    <3>2. t[i] = a[i] /\ t[i + 1] = a[i + 1] /\ (i # 1 => t[i - 1] = a[i - 1])
      BY <1>1, <3>1
    <3> QED
      BY <3>1, <3>2 DEF Negates
  <2> QED
    BY <2>1, <2>2
<1>4. ASSUME NEW j \in 1 .. Len(b)
      PROVE  Negates(t, Len(a) + j) <=> Negates(b, j)
  <2> DEFINE i == Len(a) + j
  <2>1. /\ i < Len(t) <=> j < Len(b) /\ i # 1
        /\ j < Len(b) => j + 1 \in 1 .. Len(b) /\ i + 1 = Len(a) + (j + 1)
        /\ j # 1 => j - 1 \in 1 .. Len(b) /\ i - 1 = Len(a) + (j - 1)
        /\ j = 1 => i - 1 = Len(a)
    BY <1>1
  <2>2. t[i] = b[j]
    BY <1>1
  <2> HIDE DEF i
  <2>3. j < Len(b) => t[i + 1] = b[j + 1]
    BY <1>1, <2>1
  <2>4. CASE j = 1
    <3>1. Len(a) \in 1 .. Len(a)
      BY <1>1
    <3>2. t[i - 1] = a[Len(a)]
      BY <1>1, <2>1, <2>4, <3>1
    <3>3. Negates(t, i) => Negates(b, j)
      BY <2>1, <2>2, <2>3, <2>4 DEF Negates
    <3>4. Negates(b, j) => Negates(t, i)
      <4>1. Negates(b, j) => t[i - 1].type \notin {"num", ")"}
        BY <2>4, <3>2
      <4> QED
        BY <2>1, <2>2, <2>3, <4>1 DEF Negates
    <3> QED
      BY <3>3, <3>4 DEF i
  <2>5. CASE j # 1
    <3>1. t[i - 1] = b[j - 1]
      BY <1>1, <2>1, <2>5
    <3>2. Negates(t, i) <=> Negates(b, j)
      BY <2>1, <2>2, <2>3, <2>5, <3>1 DEF Negates
    <3> QED
      BY <3>2 DEF i
  <2> QED
    BY <2>4, <2>5
<1> QED
  BY <1>3, <1>4 DEF Apart, t

LEMMA KeptApart ==
  ASSUME NEW a \in Seq(Token), NEW b \in Seq(Token), Len(a) >= 1, Len(b) >= 1, Apart(a, b)
  PROVE  Kept(a \o b) = Kept(a) \cup Shifted(Len(a), Kept(b))
<1> DEFINE t == a \o b
           n == Len(a)
<1>1. /\ n \in Nat /\ Len(b) \in Nat /\ Len(t) = n + Len(b) /\ n >= 1
      /\ DOMAIN t = 1 .. Len(t) /\ DOMAIN a = 1 .. n /\ DOMAIN b = 1 .. Len(b)
  BY Appended
<1>2. /\ \A i \in 1 .. n : Negates(t, i) <=> Negates(a, i)
      /\ \A j \in 1 .. Len(b) : Negates(t, n + j) <=> Negates(b, j)
  BY DEF Apart
<1> HIDE DEF t, n
<1>3. ASSUME NEW i \in 1 .. n
      PROVE  i \in Kept(t) <=> i \in Kept(a)
  <2>1. i \in 1 .. Len(t) /\ (i # 1 => i - 1 \in 1 .. n)
    BY <1>1
  <2> QED
    BY <1>1, <1>2, <2>1 DEF Kept
<1>4. ASSUME NEW j \in 1 .. Len(b)
      PROVE  n + j \in Kept(t) <=> j \in Kept(b)
  <2>1. n + j \in 1 .. Len(t) /\ n + j # 1
    BY <1>1
  <2>2. CASE j = 1
    <3>1. (n + j) - 1 = n /\ n \in 1 .. n /\ ~ (n < Len(a))
      BY <1>1, <2>2 DEF n
    <3>2. ~ Negates(a, n)
      BY <3>1 DEF Negates
    <3>3. ~ Negates(t, (n + j) - 1)
      BY <1>2, <3>1, <3>2
    <3> QED
      BY <1>1, <2>1, <2>2, <3>3 DEF Kept
  <2>3. CASE j # 1
    <3>1. (n + j) - 1 = n + (j - 1) /\ j - 1 \in 1 .. Len(b)
      BY <1>1, <2>3
    <3>2. Negates(t, (n + j) - 1) <=> Negates(b, j - 1)
      BY <1>2, <3>1
    <3> QED
      BY <1>1, <2>1, <2>3, <3>2 DEF Kept
  <2> QED
    BY <2>2, <2>3
<1>5. Kept(t) \subseteq 1 .. Len(t) /\ Kept(a) \subseteq 1 .. n /\ Kept(b) \subseteq 1 .. Len(b)
  BY <1>1 DEF Kept
<1>6. \A i \in 1 .. Len(t) : i \in 1 .. n \/ \E j \in 1 .. Len(b) : i = n + j
  <2> SUFFICES ASSUME NEW i \in 1 .. Len(t), i \notin 1 .. n
               PROVE  \E j \in 1 .. Len(b) : i = n + j
    OBVIOUS
  <2>1. i - n \in 1 .. Len(b) /\ i = n + (i - n)
    BY <1>1
  <2> QED
    BY <2>1
<1>7. \A i \in 1 .. n, j \in 1 .. Len(b) : i # n + j
  BY <1>1
<1>8. Kept(t) = Kept(a) \cup Shifted(n, Kept(b))
  BY <1>3, <1>4, <1>5, <1>6, <1>7 DEF Shifted
<1> QED
  BY <1>8 DEF t, n

LEMMA PreprocessingApart ==
  ASSUME NEW a \in Seq(Token), NEW b \in Seq(Token), Len(a) >= 1, Len(b) >= 1, Apart(a, b)
  PROVE  preprocessing(a \o b) = preprocessing(a) \o preprocessing(b)
<1> DEFINE t == a \o b
           n == Len(a)
           A == Kept(a)
           B == Kept(b)
           U == Kept(t)
           pa == preprocessing(a)
           pb == preprocessing(b)
           pt == preprocessing(t)
<1>1. /\ t \in Seq(Token) /\ n \in Nat /\ Len(b) \in Nat /\ Len(t) = n + Len(b)
      /\ \A i \in 1 .. n : t[i] = a[i]
      /\ \A j \in 1 .. Len(b) : t[n + j] = b[j]
  BY Appended
<1>2. /\ \A i \in 1 .. n : Negates(t, i) <=> Negates(a, i)
      /\ \A j \in 1 .. Len(b) : Negates(t, n + j) <=> Negates(b, j)
  BY DEF Apart
<1>3. /\ A \in SUBSET (1 .. n) /\ IsFiniteSet(A) /\ Cardinality(A) \in Nat
      /\ pa \in Seq(Token) /\ Len(pa) = Cardinality(A)
      /\ \A k \in 1 .. Cardinality(A) : pa[k] = Image(a, Nth(A, k))
  BY KeptShape
<1>4. /\ B \in SUBSET (1 .. Len(b)) /\ IsFiniteSet(B) /\ Cardinality(B) \in Nat
      /\ pb \in Seq(Token) /\ Len(pb) = Cardinality(B)
      /\ \A k \in 1 .. Cardinality(B) : pb[k] = Image(b, Nth(B, k))
  BY KeptShape
<1> HIDE DEF t
<1>5. /\ pt \in Seq(Token) /\ Len(pt) = Cardinality(U)
      /\ \A k \in 1 .. Cardinality(U) : pt[k] = Image(t, Nth(U, k))
  BY <1>1, KeptShape
<1>6. U = A \cup Shifted(n, B)
  BY KeptApart DEF t
<1> HIDE DEF n, A, B, U, pa, pb, pt
<1>7. /\ Cardinality(U) = Cardinality(A) + Cardinality(B)
      /\ \A k \in 1 .. Cardinality(A) : Nth(U, k) = Nth(A, k)
      /\ \A k \in 1 .. Cardinality(B) : Nth(U, Cardinality(A) + k) = n + Nth(B, k)
  <2>1. B \in SUBSET (Nat \ {0})
    <3>1. \A j \in 1 .. Len(b) : j \in Nat \ {0}
      OBVIOUS
    <3> QED
      BY <1>4, <3>1
  <2>2. n \in Nat /\ A \in SUBSET (1 .. n) /\ IsFiniteSet(B)
    BY <1>1, <1>3, <1>4
  <2>3. /\ Cardinality(A \cup Shifted(n, B)) = Cardinality(A) + Cardinality(B)
        /\ \A k \in 1 .. Cardinality(A) : Nth(A \cup Shifted(n, B), k) = Nth(A, k)
        /\ \A k \in 1 .. Cardinality(B) :
             Nth(A \cup Shifted(n, B), Cardinality(A) + k) = n + Nth(B, k)
    BY <2>1, <2>2, NthOfTwo
  <2> QED
    BY <1>6, <2>3
<1>8. ASSUME NEW i \in 1 .. n
      PROVE  Image(t, i) = Image(a, i)
  <2>1. CASE Negates(a, i)
    <3>1. i + 1 \in 1 .. n
      BY <1>1, <2>1 DEF Negates, n
    <3>2. t[i + 1] = a[i + 1]
      BY <1>1, <3>1
    <3> QED
      BY <1>2, <2>1, <3>2 DEF Image
  <2>2. CASE ~ Negates(a, i)
    BY <1>1, <1>2, <2>2 DEF Image
  <2> QED
    BY <2>1, <2>2
<1>9. ASSUME NEW j \in 1 .. Len(b)
      PROVE  Image(t, n + j) = Image(b, j)
  <2>1. CASE Negates(b, j)
    <3>1. j + 1 \in 1 .. Len(b) /\ (n + j) + 1 = n + (j + 1)
      BY <1>1, <2>1, SMTT(30) DEF Negates
    <3>2. t[(n + j) + 1] = b[j + 1]
      BY <1>1, <3>1
    <3> QED
      BY <1>2, <2>1, <3>2 DEF Image
  <2>2. CASE ~ Negates(b, j)
    BY <1>1, <1>2, <2>2 DEF Image
  <2> QED
    BY <2>1, <2>2
<1>10. ASSUME NEW k \in 1 .. Cardinality(A)
       PROVE  pt[k] = pa[k]
  <2>1. Nth(A, k) \in 1 .. n
    <3>1. A \in SUBSET Nat
      BY <1>1, <1>3
    <3> QED
      BY <1>3, <3>1, NthIsIn
  <2>2. k \in 1 .. Cardinality(U)
    BY <1>3, <1>4, <1>7
  <2> QED
    BY <1>3, <1>5, <1>7, <1>8, <2>1, <2>2
<1>11. ASSUME NEW k \in 1 .. Cardinality(B)
       PROVE  pt[Cardinality(A) + k] = pb[k]
  <2>1. Nth(B, k) \in 1 .. Len(b)
    <3>1. B \in SUBSET Nat
      BY <1>1, <1>4
    <3> QED
      BY <1>4, <3>1, NthIsIn
  <2>2. Cardinality(A) + k \in 1 .. Cardinality(U)
    BY <1>3, <1>4, <1>7
  <2> QED
    BY <1>4, <1>5, <1>7, <1>9, <2>1, <2>2
<1> DEFINE c == pa \o pb
<1>12. /\ c \in Seq(Token) /\ Len(c) = Cardinality(A) + Cardinality(B)
       /\ \A k \in 1 .. Cardinality(A) : c[k] = pa[k]
       /\ \A k \in 1 .. Cardinality(B) : c[Cardinality(A) + k] = pb[k]
  <2>1. pa \in Seq(Token) /\ pb \in Seq(Token)
    BY <1>3, <1>4
  <2>2. /\ c \in Seq(Token) /\ Len(c) = Len(pa) + Len(pb)
        /\ \A k \in 1 .. Len(pa) : c[k] = pa[k]
        /\ \A k \in 1 .. Len(pb) : c[Len(pa) + k] = pb[k]
    BY <2>1, Appended
  <2> HIDE DEF c
  <2> QED
    BY <1>3, <1>4, <2>2
<1>13. ASSUME NEW k \in 1 .. Len(pt)
       PROVE  pt[k] = c[k]
  <2> HIDE DEF c
  <2>1. CASE k <= Cardinality(A)
    <3>1. k \in 1 .. Cardinality(A)
      BY <1>3, <2>1
    <3> QED
      BY <1>10, <1>12, <3>1
  <2>2. CASE ~ (k <= Cardinality(A))
    <3>1. k - Cardinality(A) \in 1 .. Cardinality(B)
          /\ k = Cardinality(A) + (k - Cardinality(A))
      BY <1>3, <1>4, <1>5, <1>7, <2>2
    <3> QED
      BY <1>11, <1>12, <3>1
  <2> QED
    BY <2>1, <2>2
<1>14. pt = c
  <2> HIDE DEF c
  <2> QED
    BY <1>5, <1>7, <1>12, <1>13, SeqEqual
<1> QED
  BY <1>14 DEF pt, pa, pb, t

LEMMA KeptOne ==
  ASSUME NEW t \in Seq(Token), Kept(t) = {1}
  PROVE  preprocessing(t) = <<Image(t, 1)>>
<1>1. /\ IsFiniteSet({1}) /\ Cardinality({1}) = 1
      /\ {j \in {1} : j <= 1} = {1} /\ {1} \in SUBSET Nat
  <2>1. IsFiniteSet({1}) /\ Cardinality({1}) = 1
    BY FS_Singleton
  <2>2. {j \in {1} : j <= 1} = {1} /\ {1} \in SUBSET Nat
    BY SMT
  <2> QED
    BY <2>1, <2>2
<1>2. RankIn({1}, 1) = 1
  BY <1>1 DEF RankIn
<1>3. Nth({1}, 1) = 1
  <2>1. 1 \in {1}
    OBVIOUS
  <2>2. Nth({1}, RankIn({1}, 1)) = 1
    BY <1>1, <2>1, NthIs
  <2> QED
    BY <1>2, <2>2
<1>4. /\ preprocessing(t) \in Seq(Token) /\ Len(preprocessing(t)) = 1
      /\ preprocessing(t)[1] = Image(t, 1)
  <2>1. 1 \in 1 .. 1
    OBVIOUS
  <2>2. Cardinality(Kept(t)) = 1 /\ Nth(Kept(t), 1) = 1
    BY <1>1, <1>3
  <2>3. /\ preprocessing(t) \in Seq(Token) /\ Len(preprocessing(t)) = Cardinality(Kept(t))
        /\ \A k \in 1 .. Cardinality(Kept(t)) : preprocessing(t)[k] = Image(t, Nth(Kept(t), k))
    BY KeptShape
  <2> QED
    BY <2>1, <2>2, <2>3
<1> HIDE DEF preprocessing, Image
<1> QED
  BY <1>4

LEMMA PreprocessingOne ==
  ASSUME NEW x \in Token
  PROVE  preprocessing(<<x>>) = <<x>>
<1>1. <<x>> \in Seq(Token) /\ DOMAIN <<x>> = {1} /\ Len(<<x>>) = 1 /\ <<x>>[1] = x
  OBVIOUS
<1>2. ~ Negates(<<x>>, 1)
  BY <1>1 DEF Negates
<1>3. Kept(<<x>>) = {1}
  BY <1>1 DEF Kept
<1>4. Image(<<x>>, 1) = x
  BY <1>1, <1>2 DEF Image
<1> QED
  BY <1>1, <1>3, <1>4, KeptOne

LEMMA PreprocessingNegative ==
  ASSUME NEW n \in Int
  PROVE  /\ Tok("-") \in Token /\ [type |-> "num", val |-> n] \in Token
         /\ preprocessing(<<Tok("-"), [type |-> "num", val |-> n]>>)
              = <<[type |-> "num", val |-> - n]>>
<1> DEFINE y == [type |-> "num", val |-> n]
           t == <<Tok("-"), y>>
<1>1. Tok("-") \in Token /\ y \in Token /\ Tok("-").type = "-" /\ y.type = "num" /\ y.val = n
  BY DEF Tok, Token, Operators
<1> HIDE DEF y
<1>2. /\ t \in Seq(Token) /\ Len(t) = 2 /\ DOMAIN t = {1, 2}
      /\ t[1] = Tok("-") /\ t[2] = y
  BY <1>1
<1> HIDE DEF t
<1>3. Negates(t, 1)
  BY <1>1, <1>2 DEF Negates
<1>4. Kept(t) = {1}
  <2>1. 2 - 1 = 1 /\ 2 # 1
    OBVIOUS
  <2> QED
    BY <1>2, <1>3, <2>1 DEF Kept
<1>5. Image(t, 1) = [type |-> "num", val |-> - n]
  BY <1>1, <1>2, <1>3 DEF Image
<1> QED
  BY <1>1, <1>2, <1>4, <1>5, KeptOne DEF t, y

(* What a text ends in, and so is not taken for a sign.                    *)
EndsWell(t) ==
  /\ t \in Seq(Token) /\ Len(t) >= 1
  /\ t[Len(t)].type \in {"num", "reg", ")"}

LEMMA PreprocessingParens ==
  ASSUME NEW t, EndsWell(t)
  PROVE  preprocessing(Parens(t)) = Parens(preprocessing(t))
<1> DEFINE a == <<Tok("(")>>
           c == <<Tok(")")>>
           at == a \o t
<1>1. t \in Seq(Token) /\ Len(t) >= 1 /\ t[Len(t)].type \in {"num", "reg", ")"}
  BY DEF EndsWell
<1>2. /\ Tok("(") \in Token /\ Tok(")") \in Token
      /\ Tok("(").type = "(" /\ Tok(")").type = ")"
  BY <1>1, ParensShape
<1>3. /\ a \in Seq(Token) /\ Len(a) = 1 /\ a[1] = Tok("(")
      /\ c \in Seq(Token) /\ Len(c) = 1 /\ c[1] = Tok(")")
  BY <1>2
<1> HIDE DEF a, c
<1>4. /\ at \in Seq(Token) /\ Len(t) \in Nat /\ Len(at) = 1 + Len(t) /\ at[1] = Tok("(")
      /\ at[1 + Len(t)] = t[Len(t)]
  <2>1. /\ at \in Seq(Token) /\ Len(t) \in Nat /\ Len(at) = Len(a) + Len(t)
        /\ \A i \in 1 .. Len(a) : at[i] = a[i]
        /\ \A j \in 1 .. Len(t) : at[Len(a) + j] = t[j]
    BY <1>1, <1>3, Appended
  <2>2. 1 \in 1 .. Len(a) /\ Len(t) \in 1 .. Len(t)
    BY <1>1, <1>3, <2>1
  <2> HIDE DEF at
  <2> QED
    BY <1>3, <2>1, <2>2
<1>5. Apart(a, t)
  <2>1. ~ Negates(a \o t, Len(a))
    BY <1>2, <1>3, <1>4 DEF Negates
  <2>2. a[Len(a)].type \notin {"num", ")"}
    BY <1>2, <1>3
  <2>3. Len(a) >= 1
    BY <1>3
  <2> QED
    BY <1>1, <1>3, <2>1, <2>2, <2>3, SeamApart
<1>6. Apart(at, c)
  <2>1. Len(at) >= 1 /\ Len(c) >= 1 /\ Len(at) \in 1 .. Len(at)
    BY <1>3, <1>4
  <2> HIDE DEF at
  <2>2. (at \o c)[Len(at)] = t[Len(t)]
    <3>1. (at \o c)[Len(at)] = at[Len(at)]
      BY <1>3, <1>4, <2>1, Appended
    <3> QED
      BY <1>4, <3>1
  <2>3. ~ Negates(at \o c, Len(at))
    BY <1>1, <2>2 DEF Negates
  <2>4. ~ Negates(c, 1)
    BY <1>3 DEF Negates
  <2> QED
    BY <1>3, <1>4, <2>1, <2>3, <2>4, SeamApart
<1>7. preprocessing(at) = a \o preprocessing(t)
  <2>1. preprocessing(a) = a
    BY <1>2, PreprocessingOne DEF a
  <2>2. Len(a) >= 1
    BY <1>3
  <2>3. preprocessing(a \o t) = preprocessing(a) \o preprocessing(t)
    BY <1>1, <1>3, <1>5, <2>2, PreprocessingApart
  <2> QED
    BY <2>1, <2>3
<1>8. preprocessing(at \o c) = preprocessing(at) \o c
  <2>1. preprocessing(c) = c
    BY <1>2, PreprocessingOne DEF c
  <2>2. Len(at) >= 1 /\ Len(c) >= 1
    BY <1>3, <1>4
  <2> HIDE DEF at
  <2>3. preprocessing(at \o c) = preprocessing(at) \o preprocessing(c)
    BY <1>3, <1>4, <1>6, <2>2, PreprocessingApart
  <2> QED
    BY <2>1, <2>3
<1>9. Parens(t) = at \o c
  BY <1>1, ParensShape DEF a, c
<1>10. Parens(preprocessing(t)) = (a \o preprocessing(t)) \o c
  <2>1. preprocessing(t) \in Seq(Token) /\ a \in Seq(Token) /\ c \in Seq(Token)
    BY <1>1, <1>3, PreprocessingTokens
  <2>2. Parens(preprocessing(t)) = a \o preprocessing(t) \o c
    BY DEF Parens, a, c
  <2> QED
    BY <2>2
<1> QED
  BY <1>7, <1>8, <1>9, <1>10

LEMMA RegMinusNumPart ==
  ASSUME NEW t \in Seq(Token), NEW u \in Seq(Token), NEW o, At(t, u, o), RegMinusNum(t)
  PROVE  RegMinusNum(u)
<1>1. /\ Len(t) \in Nat /\ Len(u) \in Nat /\ o \in Nat /\ o + Len(t) <= Len(u)
      /\ DOMAIN t = 1 .. Len(t) /\ DOMAIN u = 1 .. Len(u)
      /\ \A i \in 1 .. Len(t) : u[o + i] = t[i]
  BY DEF At
<1>2. PICK i \in 1 .. Len(t) :
        /\ i + 2 <= Len(t) /\ t[i].type = "reg"
        /\ t[i + 1].type = "-" /\ t[i + 2].type = "num"
  BY <1>1 DEF RegMinusNum
<1>3. /\ i + 1 \in 1 .. Len(t) /\ i + 2 \in 1 .. Len(t)
      /\ o + i \in 1 .. Len(u) /\ (o + i) + 2 <= Len(u)
      /\ (o + i) + 1 = o + (i + 1) /\ (o + i) + 2 = o + (i + 2)
  BY <1>1, <1>2
<1>4. /\ u[o + i] = t[i] /\ u[(o + i) + 1] = t[i + 1] /\ u[(o + i) + 2] = t[i + 2]
  BY <1>1, <1>3
<1>5. PICK k \in DOMAIN u : k = o + i
  BY <1>1, <1>3
<1>6. k + 2 <= Len(u) /\ u[k].type = "reg" /\ u[k + 1].type = "-" /\ u[k + 2].type = "num"
  BY <1>2, <1>3, <1>4, <1>5
<1> QED
  BY <1>6, Zenon DEF RegMinusNum

LEMMA AtItself ==
  ASSUME NEW t \in Seq(Token)
  PROVE  At(t, t, 0)
<1>1. Len(t) \in Nat /\ 0 + Len(t) = Len(t) /\ \A i \in 1 .. Len(t) : 0 + i = i
  OBVIOUS
<1> QED
  BY <1>1 DEF At

LEMMA PreprocessingJoined ==
  ASSUME NEW a, EndsWell(a), NEW b \in Seq(Token), Len(b) >= 1, NEW op \in Operators,
         ~ RegMinusNum(Joined(a, op, b))
  PROVE  preprocessing(Joined(a, op, b)) = Joined(preprocessing(a), op, preprocessing(b))
<1> DEFINE c == <<Tok(op)>>
           ac == a \o c
           t == Joined(a, op, b)
           n == Len(a)
<1>1. a \in Seq(Token) /\ Len(a) >= 1 /\ a[Len(a)].type \in {"num", "reg", ")"}
  BY DEF EndsWell
<1>2. /\ Tok(op) \in Token /\ Tok(op).type = op /\ op \notin {"(", ")", "num", "reg", "none"}
  BY <1>1, JoinedShape
<1>3. /\ t \in Seq(Token) /\ n \in Nat /\ Len(b) \in Nat /\ Len(t) = n + 1 + Len(b)
      /\ ac \in Seq(Token) /\ Len(ac) = n + 1 /\ t = ac \o b
      /\ t[n + 1] = Tok(op)
  BY <1>1, JoinedShape DEF Joined
<1>4. /\ \A i \in 1 .. n : t[i] = a[i]
      /\ \A i \in 1 .. Len(b) : t[n + 1 + i] = b[i]
  <2>1. \A i \in 1 .. n : t[i] = a[i]
    BY <1>1, JoinedShape
  <2>2. \A i \in 1 .. Len(b) : t[n + 1 + i] = b[i]
    BY <1>1, JoinedShape
  <2> HIDE DEF t, n
  <2> QED
    BY <2>1, <2>2
<1>5. c \in Seq(Token) /\ Len(c) = 1 /\ c[1] = Tok(op)
  BY <1>2
<1> HIDE DEF c, t
<1>6. \A i \in 1 .. n : ac[i] = a[i]
  BY <1>1, <1>5, Appended
<1>7. ac[n + 1] = Tok(op)
  <2>1. 1 \in 1 .. Len(c)
    BY <1>5
  <2>2. ac[Len(a) + 1] = c[1]
    BY <1>1, <1>5, <2>1, Appended
  <2> QED
    BY <1>5, <2>2
<1>8. Apart(a, c)
  <2>1. Len(a) \in 1 .. n /\ Len(c) >= 1
    BY <1>1, <1>3, <1>5
  <2>2. ~ Negates(a \o c, Len(a))
    BY <1>1, <1>6, <2>1 DEF Negates
  <2>3. ~ Negates(c, 1)
    BY <1>5 DEF Negates
  <2> QED
    BY <1>1, <1>5, <2>1, <2>2, <2>3, SeamApart
<1> HIDE DEF ac
<1>9. Apart(ac, b)
  <2>1. ac[Len(ac)].type \notin {"num", ")"}
    BY <1>2, <1>3, <1>7
  <2>2. ~ Negates(ac \o b, Len(ac))
    <3> SUFFICES ASSUME Negates(t, n + 1)
                 PROVE  FALSE
      BY <1>3
    <3>1. /\ n \in 1 .. n /\ n + 1 # 1 /\ (n + 1) - 1 = n
          /\ 1 \in 1 .. Len(b) /\ (n + 1) + 1 = n + 1 + 1 /\ n + 2 = n + 1 + 1
          /\ n + 2 <= Len(t) /\ n \in 1 .. Len(t)
      BY <1>1, <1>3
    <3>2. t[n] = a[n] /\ t[n + 2].type = "num" /\ t[n + 1].type = "-"
          /\ t[n].type \notin {"num", ")"}
      <4>1. t[n] = a[n]
        BY <1>4, <3>1
      <4>2. /\ t[n + 1].type = "-" /\ t[(n + 1) + 1].type = "num"
            /\ n + 1 = 1 \/ t[(n + 1) - 1].type \notin {"num", ")"}
        BY DEF Negates
      <4> QED
        BY <3>1, <4>1, <4>2
    <3>3. t[n].type = "reg"
      BY <1>1, <3>2 DEF n
    <3>4. DOMAIN t = 1 .. Len(t)
      BY <1>3
    <3>5. RegMinusNum(t)
      BY <3>1, <3>2, <3>3, <3>4 DEF RegMinusNum
    <3> QED
      BY <3>5 DEF t
  <2>3. Len(ac) >= 1
    BY <1>3
  <2> QED
    BY <1>3, <2>1, <2>2, <2>3, SeamApart
<1>10. preprocessing(ac) = preprocessing(a) \o c
  <2>1. preprocessing(c) = c
    BY <1>2, PreprocessingOne DEF c
  <2>2. Len(c) >= 1
    BY <1>5
  <2>3. preprocessing(a \o c) = preprocessing(a) \o preprocessing(c)
    BY <1>1, <1>5, <1>8, <2>2, PreprocessingApart
  <2> QED
    BY <2>1, <2>3 DEF ac
<1>11. preprocessing(ac \o b) = preprocessing(ac) \o preprocessing(b)
  <2>1. Len(ac) >= 1
    BY <1>3
  <2> QED
    BY <1>3, <1>9, <2>1, PreprocessingApart
<1>12. Joined(preprocessing(a), op, preprocessing(b))
         = (preprocessing(a) \o c) \o preprocessing(b)
  BY DEF Joined, c
<1> QED
  BY <1>3, <1>10, <1>11, <1>12 DEF t

------------------------------------------------------------------------------
(* What a text is worth to eval, if no "-" stands between a register and a *)
(* number.                                                                 *)
Evaluates(p) ==
  /\ p \in [text : Seq(Token), rank : 0 .. 4, value : Values \union {Crash}]
  /\ EndsWell(p.text) /\ make_token(p.text)
  /\ ~ RegMinusNum(p.text) => Sound(preprocessing(p.text), p.rank, p.value)

Worded(text, rank, value) == [text |-> text, rank |-> rank, value |-> value]

LEMMA EvaluatesLeaf ==
  /\ \A n \in GenNumbers : Evaluates(Worded(gen_num(n), 0, n % Word))
  /\ \A r \in DOMAIN TestReg :
       Evaluates(Worded(<<[type |-> "reg", val |-> r]>>, 0, TestReg[r]))
<1>1. ASSUME NEW n \in GenNumbers
      PROVE  Evaluates(Worded(gen_num(n), 0, n % Word))
  <2> DEFINE x == [type |-> "num", val |-> n]
             y == [type |-> "num", val |-> - n]
             p == Worded(gen_num(n), 0, n % Word)
  <2>1. n \in Int /\ Word \in Nat /\ Word > 1
    BY GenAssumption, SdbExprAssumption
  <2>2. - n \in Int /\ - (- n) = n /\ n % Word \in Values
    BY <2>1, SMT DEF Values
  <2>3. x \in Token /\ x.type = "num" /\ y \in Token /\ y.type = "num" /\ get_value(x, TestReg) = n % Word
    BY <2>1, <2>2 DEF Token, get_value
  <2>4. Tok("-") \in Token /\ Tok("-").type = "-" /\ preprocessing(<<Tok("-"), y>>) = <<x>>
    <3>1. Tok("-") \in Token /\ preprocessing(<<Tok("-"), y>>) = <<[type |-> "num", val |-> - (- n)]>>
      BY <2>2, PreprocessingNegative
    <3> QED
      BY <2>2, <3>1 DEF Tok
  <2>5. preprocessing(<<x>>) = <<x>>
    BY <2>3, PreprocessingOne
  <2>6. Sound(<<x>>, 0, n % Word)
    BY <2>3, SoundLeaf
  <2>7. gen_num(n) = IF n < 0 THEN <<Tok("-"), y>> ELSE <<x>>
    BY DEF gen_num
  <2> HIDE DEF x, y
  <2>8. gen_num(n) \in Seq(Token) /\ EndsWell(gen_num(n)) /\ make_token(gen_num(n))
    BY <2>3, <2>4, <2>7 DEF EndsWell, make_token
  <2>9. preprocessing(gen_num(n)) = <<x>>
    BY <2>4, <2>5, <2>7
  <2>10. /\ p \in [text : Seq(Token), rank : 0 .. 4, value : Values \union {Crash}]
         /\ p.text = gen_num(n) /\ p.rank = 0 /\ p.value = n % Word
    BY <2>2, <2>8 DEF Worded
  <2> HIDE DEF p
  <2>11. Evaluates(p)
    BY <2>6, <2>8, <2>9, <2>10 DEF Evaluates
  <2> QED
    BY <2>11 DEF p
<1>2. ASSUME NEW r \in DOMAIN TestReg
      PROVE  Evaluates(Worded(<<[type |-> "reg", val |-> r]>>, 0, TestReg[r]))
  <2> DEFINE x == [type |-> "reg", val |-> r]
             p == Worded(<<x>>, 0, TestReg[r])
  <2>1. r \in Registers /\ r \in STRING /\ TestReg[r] \in Values
    BY GenAssumption
  <2>2. x \in Token /\ x.type = "reg" /\ get_value(x, TestReg) = TestReg[r]
    <3>1. x \in Token /\ x.type = "reg" /\ x.val = r
      BY <2>1 DEF Token
    <3> QED
      BY <2>1, <3>1 DEF get_value
  <2> HIDE DEF x
  <2>3. preprocessing(<<x>>) = <<x>>
    BY <2>2, PreprocessingOne
  <2>4. Sound(<<x>>, 0, TestReg[r])
    BY <2>2, SoundLeaf
  <2>5. <<x>> \in Seq(Token) /\ EndsWell(<<x>>) /\ make_token(<<x>>)
    BY <2>2 DEF EndsWell, make_token
  <2>6. /\ p \in [text : Seq(Token), rank : 0 .. 4, value : Values \union {Crash}]
        /\ p.text = <<x>> /\ p.rank = 0 /\ p.value = TestReg[r]
    BY <2>1, <2>5 DEF Worded
  <2> HIDE DEF p
  <2>7. Evaluates(p)
    BY <2>3, <2>4, <2>5, <2>6 DEF Evaluates
  <2> QED
    BY <2>7 DEF p, x
<1> QED
  BY <1>1, <1>2

(* Parentheses make a phrase a leaf to the operators around it.            *)
LEMMA EvaluatesGroup ==
  ASSUME NEW p, Evaluates(p)
  PROVE  Evaluates(Worded(Parens(p.text), 0, p.value))
<1> DEFINE g == Worded(Parens(p.text), 0, p.value)
           t == p.text
<1>1. /\ p \in [text : Seq(Token), rank : 0 .. 4, value : Values \union {Crash}]
      /\ EndsWell(t) /\ make_token(t)
      /\ ~ RegMinusNum(t) => Sound(preprocessing(t), p.rank, p.value)
  BY DEF Evaluates
<1>2. t \in Seq(Token) /\ Len(t) >= 1
  BY <1>1 DEF EndsWell
<1>3. Parens(t) \in Seq(Token)
  BY <1>2, ParensShape
<1>4. /\ g \in [text : Seq(Token), rank : 0 .. 4, value : Values \union {Crash}]
      /\ g.text = Parens(t) /\ g.rank = 0 /\ g.value = p.value
  BY <1>1, <1>3 DEF Worded
<1> HIDE DEF g, t
<1>5. /\ Parens(t)[Len(Parens(t))].type = ")" /\ Len(Parens(t)) >= 1
      /\ \A i \in DOMAIN Parens(t) : Parens(t)[i].type # "none"
      /\ At(t, Parens(t), 1)
  <2> DEFINE u == Parens(t)
  <2>1. At(u, u, 0)
    BY <1>3, AtItself
  <2>2. /\ u \in Seq(Token) /\ Len(u) = Len(t) + 2 /\ Len(t) \in Nat
        /\ DOMAIN u = 1 .. Len(t) + 2
    BY <1>2, <1>3, ParensShape
  <2>3. /\ At(t, u, 0 + 1) /\ u[0 + 1].type = "(" /\ u[0 + Len(t) + 2].type = ")"
    BY <1>2, <1>3, <2>1, AtParens
  <2>4. \A i \in 1 .. Len(t) : u[1 + i] = t[i]
    BY <2>3 DEF At
  <2> HIDE DEF u
  <2>5. \A i \in 1 .. Len(t) : t[i].type # "none"
    BY <1>1, <1>2 DEF make_token
  <2>6. ASSUME NEW i \in 1 .. Len(t) + 2
        PROVE  u[i].type # "none"
    <3>1. CASE i = 1
      BY <2>3, <3>1
    <3>2. CASE i = Len(t) + 2
      BY <2>2, <2>3, <3>2
    <3>3. CASE i # 1 /\ i # Len(t) + 2
      <4>1. i - 1 \in 1 .. Len(t) /\ 1 + (i - 1) = i
        BY <2>2, <3>3
      <4> QED
        BY <2>4, <2>5, <4>1
    <3> QED
      BY <3>1, <3>2, <3>3
  <2>7. u[Len(u)].type = ")" /\ Len(u) >= 1 /\ At(t, u, 1)
    BY <2>2, <2>3
  <2> QED
    BY <2>2, <2>6, <2>7 DEF u
<1>6. EndsWell(Parens(t)) /\ make_token(Parens(t))
  BY <1>3, <1>5 DEF EndsWell, make_token
<1>7. ASSUME ~ RegMinusNum(Parens(t))
      PROVE  Sound(preprocessing(Parens(t)), 0, p.value)
  <2>1. ~ RegMinusNum(t)
    BY <1>2, <1>3, <1>5, <1>7, RegMinusNumPart
  <2>2. Sound(preprocessing(t), p.rank, p.value)
    BY <1>1, <2>1
  <2>3. Sound(Parens(preprocessing(t)), 0, p.value)
    BY <2>2, SoundParens
  <2> QED
    BY <1>1, <2>3, PreprocessingParens
<1>8. Evaluates(g)
  BY <1>4, <1>6, <1>7 DEF Evaluates
<1> QED
  BY <1>8 DEF g

LEMMA EvaluatesJoined ==
  ASSUME NEW a, NEW b, Evaluates(a), Evaluates(b), NEW op \in Operators,
         a.rank <= Rank(op), b.rank < Rank(op),
         NEW p, p = Worded(a.text \o <<Tok(op)>> \o b.text, Rank(op),
                           InWords(op, a.value, b.value))
  PROVE  Evaluates(p)
<1> DEFINE ta == a.text
           tb == b.text
           t == Joined(ta, op, tb)
<1>1. /\ EndsWell(ta) /\ make_token(ta) /\ EndsWell(tb) /\ make_token(tb)
      /\ a.rank \in 0 .. 4 /\ a.value \in Values \union {Crash}
      /\ b.rank \in 0 .. 4 /\ b.value \in Values \union {Crash}
      /\ ~ RegMinusNum(ta) => Sound(preprocessing(ta), a.rank, a.value)
      /\ ~ RegMinusNum(tb) => Sound(preprocessing(tb), b.rank, b.value)
  BY DEF Evaluates
<1>2. ta \in Seq(Token) /\ Len(ta) >= 1 /\ tb \in Seq(Token) /\ Len(tb) >= 1
  BY <1>1 DEF EndsWell
<1>3. p.text = t /\ p.rank = Rank(op) /\ p.value = InWords(op, a.value, b.value)
  BY DEF Joined, Worded
<1> HIDE DEF ta, tb
<1>4. /\ Tok(op).type = op /\ op \notin {"(", ")", "num", "reg", "none"}
      /\ Len(ta) \in Nat /\ Len(tb) \in Nat /\ t \in Seq(Token) /\ Len(t) = Len(ta) + 1 + Len(tb)
  BY <1>2, JoinedShape
<1>5. /\ \A i \in 1 .. Len(ta) : t[i] = ta[i]
      /\ t[Len(ta) + 1] = Tok(op)
      /\ \A i \in 1 .. Len(tb) : t[Len(ta) + 1 + i] = tb[i]
  <2>1. \A i \in 1 .. Len(ta) : t[i] = ta[i]
    BY <1>2, JoinedShape
  <2>2. t[Len(ta) + 1] = Tok(op)
    BY <1>2, JoinedShape
  <2>3. \A i \in 1 .. Len(tb) : t[Len(ta) + 1 + i] = tb[i]
    BY <1>2, JoinedShape
  <2> QED
    BY <2>1, <2>2, <2>3
<1>6. At(ta, t, 0) /\ At(tb, t, Len(ta) + 1)
  <2>1. At(t, t, 0)
    BY <1>4, AtItself
  <2>2. At(ta, t, 0) /\ At(tb, t, 0 + Len(ta) + 1)
    BY <1>2, <1>4, <2>1, AtJoined
  <2>3. 0 + Len(ta) + 1 = Len(ta) + 1
    BY <1>4
  <2> QED
    BY <2>2, <2>3
<1> HIDE DEF t
<1>7. EndsWell(t)
  <2>1. /\ Len(tb) \in 1 .. Len(tb) /\ Len(ta) + 1 + Len(tb) = Len(t) /\ Len(t) >= 1
    BY <1>2, <1>4
  <2>2. t[Len(t)] = tb[Len(tb)]
    BY <1>5, <2>1
  <2> QED
    BY <1>1, <1>4, <2>1, <2>2 DEF EndsWell
<1>8. make_token(t)
  <2>1. /\ \A i \in 1 .. Len(ta) : ta[i].type # "none"
        /\ \A i \in 1 .. Len(tb) : tb[i].type # "none"
    BY <1>1, <1>2 DEF make_token
  <2>2. ASSUME NEW i \in 1 .. Len(t)
        PROVE  t[i].type # "none"
    <3>1. CASE i <= Len(ta)
      <4>1. i \in 1 .. Len(ta)
        BY <1>4, <3>1
      <4> QED
        BY <1>5, <2>1, <4>1
    <3>2. CASE i = Len(ta) + 1
      BY <1>4, <1>5, <3>2
    <3>3. CASE i > Len(ta) + 1
      <4>1. i - (Len(ta) + 1) \in 1 .. Len(tb) /\ Len(ta) + 1 + (i - (Len(ta) + 1)) = i
        BY <1>4, <3>3
      <4> QED
        BY <1>5, <2>1, <4>1
    <3> QED
      BY <1>4, <3>1, <3>2, <3>3
  <2>3. DOMAIN t = 1 .. Len(t)
    BY <1>4
  <2> QED
    BY <2>2, <2>3 DEF make_token
<1>9. ASSUME ~ RegMinusNum(t)
      PROVE  Sound(preprocessing(t), Rank(op), InWords(op, a.value, b.value))
  <2>1. ~ RegMinusNum(ta) /\ ~ RegMinusNum(tb)
    BY <1>2, <1>4, <1>6, <1>9, RegMinusNumPart
  <2>2. /\ Sound(preprocessing(ta), a.rank, a.value)
        /\ Sound(preprocessing(tb), b.rank, b.value)
    BY <1>1, <2>1
  <2>3. a.rank \in Int /\ b.rank \in Int
    BY <1>1
  <2>4. Sound(Joined(preprocessing(ta), op, preprocessing(tb)), Rank(op), InWords(op, a.value, b.value))
    BY <1>1, <2>2, <2>3, SoundJoined
  <2>5. preprocessing(t) = Joined(preprocessing(ta), op, preprocessing(tb))
    BY <1>1, <1>2, <1>9, PreprocessingJoined DEF t
  <2> QED
    BY <2>4, <2>5
<1>10. p \in [text : Seq(Token), rank : 0 .. 4, value : Values \union {Crash}]
  <2>1. Rank(op) \in 0 .. 4
    <3>1. Rank(op) \in 1 .. 4
      BY RankIsNumber
    <3> QED
      BY <3>1
  <2>2. InWords(op, a.value, b.value) \in Values \union {Crash}
    BY <1>1, InWordsIn
  <2>3. p = [text |-> t, rank |-> Rank(op), value |-> InWords(op, a.value, b.value)]
    BY DEF Joined, Worded, t, ta, tb
  <2> DEFINE R == 0 .. 4
             V == Values \union {Crash}
             r == Rank(op)
             v == InWords(op, a.value, b.value)
  <2>4. t \in Seq(Token) /\ r \in R /\ v \in V /\ p = [text |-> t, rank |-> r, value |-> v]
    BY <1>4, <2>1, <2>2, <2>3
  <2> HIDE DEF R, V, r, v
  <2>5. p \in [text : Seq(Token), rank : R, value : V]
    <3>1. [text |-> t, rank |-> r, value |-> v] \in [text : Seq(Token), rank : R, value : V]
      BY <2>4
    <3> QED
      BY <2>4, <3>1
  <2> QED
    BY <2>5 DEF R, V
<1> QED
  BY <1>3, <1>7, <1>8, <1>9, <1>10 DEF Evaluates

(* expr finds what a text is worth.                                        *)
LEMMA ExprEvaluates ==
  ASSUME NEW p, Evaluates(p), ~ RegMinusNum(p.text)
  PROVE  expr(p.text, TestReg) = p.value
<1> DEFINE t == preprocessing(p.text)
<1>1. /\ p.text \in Seq(Token) /\ make_token(p.text) /\ p.value \in Values \union {Crash}
      /\ Sound(t, p.rank, p.value)
  BY DEF Evaluates
<1>2. t \in Seq(Token) /\ Len(t) >= 1 /\ Worth(t, p.value)
  BY <1>1 DEF Sound
<1> HIDE DEF t
<1>3. PICK ev : /\ eval(t, TestReg) = ev[<<1, Len(t)>>]
                /\ \A x \in Spans(Len(t)) : ev[x] = evalSpan(ev, t, TestReg, x[1], x[2])
  <2>1. TestReg \in [Registers -> Values]
    BY GenAssumption
  <2> QED
    BY <1>2, <2>1, EvalIn
<1>4. ev[<<0 + 1, 0 + Len(t)>>] = p.value
  <2>1. At(t, t, 0) /\ SpansOf(ev, t) /\ 0 \in Nat
    BY <1>2, <1>3, AtItself DEF SpansOf
  <2> QED
    BY <1>2, <2>1 DEF Worth
<1>5. 0 + 1 = 1 /\ 0 + Len(t) = Len(t)
  BY <1>2
<1>6. eval(t, TestReg) = p.value
  BY <1>3, <1>4, <1>5
<1>7. p.value # Warning
  BY <1>1, SdbExprAssumption, SMT DEF Values, Warning, Crash
<1> QED
  BY <1>1, <1>6, <1>7 DEF expr, t

------------------------------------------------------------------------------
(* The arithmetic of int and of words agree modulo Word.                   *)
LEMMA RemainderIs ==
  ASSUME NEW b \in Nat, b >= 1, NEW q \in Int, NEW r \in Int, 0 <= r, r < b,
         NEW a, a = b * q + r
  PROVE  a % b = r
BY SMT

LEMMA RemainderIn ==
  ASSUME NEW n \in Int
  PROVE  n % Word \in Values
BY SdbExprAssumption, SMT DEF Values

LEMMA WordsReduce ==
  ASSUME NEW a \in Values
  PROVE  a % Word = a
BY SdbExprAssumption, SMT DEF Values

LEMMA QuotientIn ==
  ASSUME NEW a \in Int, NEW b \in Int, b # 0
  PROVE  Quotient(a, b) \in Int
<1>1. \A x, y \in Int : y > 0 => x \div y \in Int
  BY SMT
<1>2. - a \in Int /\ - b \in Int /\ (b < 0 => - b > 0) /\ (b > 0 \/ b < 0)
  BY SMT
<1>3. a >= 0 \/ a < 0
  BY SMT
<1>4. \A x \in Int : - x \in Int
  BY SMT
<1> QED
  BY <1>1, <1>2, <1>3, <1>4, SMT DEF Quotient

LEMMA ModShift ==
  ASSUME NEW x \in Int, NEW k \in Int
  PROVE  (x + k * Word) % Word = x % Word
<1> DEFINE q == x \div Word
           r == x % Word
<1>1. Word \in Nat /\ Word >= 1
  BY SdbExprAssumption, SMT
<1>2. q \in Int /\ r \in Int /\ x = Word * q + r /\ 0 <= r /\ r < Word
  BY <1>1, SMT
<1> HIDE DEF q, r
<1>3. q + k \in Int /\ x + k * Word \in Int /\ x + k * Word = Word * (q + k) + r
  <2>1. Word * (q + k) = Word * q + k * Word /\ Word * q \in Int /\ k * Word \in Int
    BY <1>1, <1>2, SMT
  <2> QED
    BY <1>2, <2>1, SMT
<1>4. (x + k * Word) % Word = r
  BY <1>1, <1>2, <1>3, RemainderIs
<1> QED
  BY <1>4 DEF r

LEMMA AsIntIs ==
  ASSUME NEW a \in Values
  PROVE  /\ AsInt(a) \in Int /\ Word \in Int /\ a \in Int
         /\ \E k \in Int : AsInt(a) = a + k * Word
         /\ ~ Negative(a) => AsInt(a) = a
<1>1. Word \in Int /\ a \in Int
  BY SdbExprAssumption, SMT DEF Values
<1>2. 0 \in Int /\ -1 \in Int /\ a + 0 * Word = a /\ a + (-1) * Word = a - Word
      /\ a - Word \in Int
  BY <1>1, SMT
<1> QED
  BY <1>1, <1>2 DEF AsInt

LEMMA InIntsAgree ==
  ASSUME NEW op \in Operators, Rank(op) <= 2, NEW a \in Values, NEW b \in Values,
         op = "/" => ~ Negative(a) /\ ~ Negative(b)
  PROVE  LET c == InInts(op, AsInt(a), AsInt(b))
         IN  c = Undefined \/ c = Apply(op, a, b)
<1>1. PICK x \in Int, y \in Int, k \in Int, l \in Int :
        /\ x = AsInt(a) /\ y = AsInt(b)
        /\ x = a + k * Word /\ y = b + l * Word
        /\ ~ Negative(a) => x = a
        /\ ~ Negative(b) => y = b
  BY AsIntIs
<1>2. Word \in Int /\ a \in Int /\ b \in Int
  BY AsIntIs
<1>3. k + l \in Int /\ k - l \in Int /\ a + b \in Int /\ a - b \in Int /\ a * b \in Int
      /\ k * b + a * l + k * l * Word \in Int
  BY <1>2, SMT
<1>4. CASE op = "+"
  <2>1. x + y = (a + b) + (k + l) * Word
    BY <1>1, <1>2, SMT
  <2>2. (x + y) % Word = (a + b) % Word
    BY <1>3, <2>1, ModShift
  <2> QED
    BY <1>1, <1>4, <2>2 DEF InInts, Apply
<1>5. CASE op = "-"
  <2>1. x - y = (a - b) + (k - l) * Word
    BY <1>1, <1>2, SMT
  <2>2. (x - y) % Word = (a - b) % Word
    BY <1>3, <2>1, ModShift
  <2> QED
    BY <1>1, <1>5, <2>2 DEF InInts, Apply
<1>6. CASE op = "*"
  <2>1. x * y = (a * b) + (k * b + a * l + k * l * Word) * Word
    BY <1>1, <1>2, SMT
  <2>2. (x * y) % Word = (a * b) % Word
    BY <1>3, <2>1, ModShift
  <2> QED
    BY <1>1, <1>6, <2>2 DEF InInts, Apply
<1>7. CASE op = "/"
  <2>1. x = a /\ y = b
    BY <1>1, <1>7
  <2>2. CASE b = 0
    BY <1>1, <1>7, <2>1, <2>2 DEF InInts, Apply
  <2>3. CASE b # 0
    <3>1. a >= 0 /\ b > 0
      BY <1>2, <2>3, SMT DEF Values
    <3>2. Quotient(a, b) = a \div b
      BY <3>1, <1>2, SMT DEF Quotient
    <3>3. a \div b \in Values
      <4>1. a \div b \in Int /\ a \div b >= 0 /\ a \div b <= a /\ a < Word
        BY <1>2, <3>1, SMT DEF Values
      <4> QED
        BY <1>2, <4>1, SMT DEF Values
    <3>4. (a \div b) % Word = a \div b
      BY <1>2, <3>3, WordsReduce
    <3> QED
      BY <1>1, <1>7, <2>1, <2>3, <3>2, <3>4 DEF InInts, Apply
  <2> QED
    BY <2>2, <2>3
<1>8. op \in {"+", "-", "*", "/"}
  BY DEF Operators, Rank
<1> QED
  BY <1>4, <1>5, <1>6, <1>7, <1>8

(* An operation C defines is worth the same to eval, the quotient of two   *)
(* ints of which one is negative apart.                                    *)
CValues == Values \union {Crash, Undefined}

LEMMA InCAgrees ==
  ASSUME NEW op \in Operators, NEW ints \in BOOLEAN,
         NEW a \in CValues, NEW b \in CValues,
         NEW va \in Values \union {Crash}, NEW vb \in Values \union {Crash},
         a # Undefined => a = va,
         op = "/" /\ ints => ~ Negative(a) /\ ~ Negative(b),
         b # Undefined => b = vb
  PROVE  InC(op, ints, a, b) # Undefined => InC(op, ints, a, b) = InWords(op, va, vb)
<1>1. /\ \A v \in CValues : IsWord(v) <=> v \in Values
      /\ Crash # Undefined /\ 0 \in Values
      /\ Crash \notin Values /\ Undefined \notin Values
  BY SdbExprAssumption, SMT DEF CValues, Values, IsWord, Crash, Undefined
<1>2. CASE ~ IsWord(a)
  BY <1>1, <1>2 DEF InC, InWords, CValues
<1>3. CASE IsWord(a) /\ op = "&&" /\ a = 0
  BY <1>1, <1>3 DEF InC, InWords
<1>4. CASE IsWord(a) /\ ~ (op = "&&" /\ a = 0)
  <2>1. a \in Values /\ a = va /\ a # Crash
    BY <1>1, <1>4
  <2>2. CASE ~ IsWord(b)
    BY <1>1, <1>4, <2>1, <2>2 DEF InC, InWords, CValues
  <2>3. CASE IsWord(b)
    <3>1. b \in Values /\ b = vb /\ b # Crash
      BY <1>1, <2>3
    <3>2. InWords(op, va, vb) = Apply(op, a, b)
      BY <1>4, <2>1, <3>1 DEF InWords
    <3>3. InC(op, ints, a, b) = IF ints /\ Rank(op) <= 2 THEN InInts(op, AsInt(a), AsInt(b))
                                                         ELSE Apply(op, a, b)
      BY <1>4, <2>3 DEF InC
    <3>4. ints /\ Rank(op) <= 2 =>
            \/ InInts(op, AsInt(a), AsInt(b)) = Undefined
            \/ InInts(op, AsInt(a), AsInt(b)) = Apply(op, a, b)
      BY <2>1, <3>1, InIntsAgree
    <3> QED
      BY <3>2, <3>3, <3>4
  <2> QED
    BY <2>2, <2>3
<1> QED
  BY <1>2, <1>3, <1>4

LEMMA InCIn ==
  ASSUME NEW op \in Operators, NEW ints \in BOOLEAN, NEW a \in CValues, NEW b \in CValues
  PROVE  InC(op, ints, a, b) \in CValues
<1>1. /\ \A v \in CValues : IsWord(v) <=> v \in Values
      /\ 0 \in Values
  BY SdbExprAssumption, SMT DEF CValues, Values, IsWord, Crash, Undefined
<1>2. ASSUME NEW x \in Int, NEW y \in Int, Rank(op) <= 2
      PROVE  InInts(op, x, y) \in CValues
  <2> DEFINE n == CASE op = "+" -> x + y
                    [] op = "-" -> x - y
                    [] op = "*" -> x * y
                    [] op = "/" -> Quotient(x, y)
  <2>1. InInts(op, x, y) =
          IF op = "/" /\ y = 0 THEN Crash
          ELSE IF - Word <= 2 * n /\ 2 * n < Word THEN n % Word ELSE Undefined
    BY DEF InInts
  <2>2. op \in {"+", "-", "*", "/"}
    BY <1>2 DEF Operators, Rank
  <2>3. y # 0 => Quotient(x, y) \in Int
    BY QuotientIn
  <2>4. ~ (op = "/" /\ y = 0) => n \in Int
    <3>1. x + y \in Int /\ x - y \in Int /\ x * y \in Int
      OBVIOUS
    <3> QED
      BY <2>2, <2>3, <3>1
  <2> HIDE DEF n
  <2>5. ~ (op = "/" /\ y = 0) => n % Word \in Values
    BY <2>4, RemainderIn
  <2> QED
    BY <2>1, <2>5 DEF CValues
<1>3. IsWord(a) /\ IsWord(b) => AsInt(a) \in Int /\ AsInt(b) \in Int
  BY <1>1, AsIntIs
<1>4. IsWord(a) /\ IsWord(b) => Apply(op, a, b) \in CValues
  BY <1>1, ApplyIn DEF CValues
<1> QED
  BY <1>1, <1>2, <1>3, <1>4 DEF InC, CValues

------------------------------------------------------------------------------
(* A phrase of gen-expr: what its text is worth to eval is its value in C, *)
(* where C gives it one and it divides no negative int.                    *)
PhraseType ==
  [text : Seq(Token), rank : 0 .. 4, int : BOOLEAN, value : CValues, signed : BOOLEAN]

Agrees(p, value) ==
  /\ value \in Values \union {Crash}
  /\ Evaluates(Worded(p.text, p.rank, value))
  /\ ~ p.signed /\ p.value # Undefined => p.value = value

Phrase(p) == p \in PhraseType /\ \E value : Agrees(p, value)

LEMMA PhraseLeaf == \A leaf \in Leaves : Phrase(leaf)
<1>1. ASSUME NEW leaf, NEW text, NEW v,
             leaf = [text |-> text, rank |-> 0, int |-> FALSE, value |-> v, signed |-> FALSE],
             Evaluates(Worded(text, 0, v))
      PROVE  Phrase(leaf)
  <2>1. text \in Seq(Token) /\ v \in Values \union {Crash}
    BY <1>1 DEF Evaluates, Worded
  <2>2. leaf \in PhraseType
    BY <1>1, <2>1 DEF PhraseType, CValues
  <2>3. Agrees(leaf, v)
    BY <1>1, <2>1 DEF Agrees
  <2> QED
    BY <2>2, <2>3 DEF Phrase
<1>2. ASSUME NEW n \in GenNumbers
      PROVE  Phrase(Number(n))
  BY <1>1, EvaluatesLeaf DEF Number
<1>3. ASSUME NEW r \in DOMAIN TestReg
      PROVE  Phrase(Register(r, TestReg))
  BY <1>1, EvaluatesLeaf DEF Register
<1> QED
  BY <1>2, <1>3 DEF Leaves

LEMMA PhraseGroup ==
  ASSUME NEW p, Phrase(p)
  PROVE  Phrase(Group(p))
<1> DEFINE g == Group(p)
<1>1. p \in PhraseType
  BY DEF Phrase
<1>2. PICK v : Agrees(p, v)
  BY DEF Phrase
<1>3. PICK text : text = Parens(p.text)
  OBVIOUS
<1>4. Evaluates(Worded(text, 0, v))
  <2>1. Worded(p.text, p.rank, v).text = p.text /\ Worded(p.text, p.rank, v).value = v
    BY DEF Worded
  <2>2. Evaluates(Worded(p.text, p.rank, v))
    BY <1>2 DEF Agrees
  <2> QED
    BY <1>3, <2>1, <2>2, EvaluatesGroup
<1>5. g = [text |-> text, rank |-> 0, int |-> p.int, value |-> p.value, signed |-> p.signed]
  <2>1. g = [p EXCEPT !.text = text, !.rank = 0]
    BY <1>3 DEF Group
  <2>2. PICK T, R, B, V : /\ T = Seq(Token) /\ R = 0 .. 4 /\ B = BOOLEAN /\ V = CValues
                          /\ p \in [text : T, rank : R, int : B, value : V, signed : B]
    BY <1>1 DEF PhraseType
  <2> HIDE DEF g
  <2> QED
    BY <2>1, <2>2
<1>6. text \in Seq(Token)
  BY <1>4 DEF Evaluates, Worded
<1> HIDE DEF g
<1>7. g \in PhraseType
  BY <1>1, <1>5, <1>6 DEF PhraseType
<1>8. Agrees(g, v)
  BY <1>2, <1>4, <1>5 DEF Agrees
<1>9. Phrase(g)
  BY <1>7, <1>8 DEF Phrase
<1> QED
  BY <1>9 DEF g

(* The operand of an operator, in parentheses if it needs them.            *)
LEMMA OperandEvaluates ==
  ASSUME NEW text, NEW rank \in 0 .. 4, NEW v, NEW needed \in BOOLEAN,
         Evaluates(Worded(text, rank, v))
  PROVE  Evaluates(Worded(Enclosed(text, needed), IF needed THEN 0 ELSE rank, v))
<1>1. Worded(text, rank, v).text = text /\ Worded(text, rank, v).value = v
  BY DEF Worded
<1>2. Evaluates(Worded(Parens(text), 0, v))
  BY <1>1, EvaluatesGroup
<1> QED
  BY <1>2 DEF Enclosed

LEMMA PhraseJoin ==
  ASSUME NEW a, NEW b, Phrase(a), Phrase(b), NEW op \in GenOperators
  PROVE  Phrase(Join(op, a, b))
<1> DEFINE p == Join(op, a, b)
           wrapA == a.rank > Rank(op)
           wrapB == b.rank >= Rank(op)
           ra == IF wrapA THEN 0 ELSE a.rank
           rb == IF wrapB THEN 0 ELSE b.rank
           ints == a.int /\ b.int
           signs == /\ op = "/" /\ ints
                    /\ Negative(a.value) \/ Negative(b.value)
<1>1. op \in Operators /\ Rank(op) \in 1 .. 4
  BY GenAssumption, RankIsNumber
<1>2. a \in PhraseType /\ b \in PhraseType
  BY DEF Phrase
<1>3. /\ a.rank \in 0 .. 4 /\ b.rank \in 0 .. 4 /\ ints \in BOOLEAN
      /\ a.value \in CValues /\ b.value \in CValues
      /\ a.signed \in BOOLEAN /\ b.signed \in BOOLEAN
  BY <1>2 DEF PhraseType
<1>4. PICK va : Agrees(a, va)
  BY DEF Phrase
<1>5. PICK vb : Agrees(b, vb)
  BY DEF Phrase
<1>6. PICK A, B : A = Enclosed(a.text, wrapA) /\ B = Enclosed(b.text, wrapB)
  OBVIOUS
<1>7. Evaluates(Worded(A, ra, va)) /\ Evaluates(Worded(B, rb, vb))
  <2>1. Evaluates(Worded(a.text, a.rank, va)) /\ wrapA \in BOOLEAN
    BY <1>4 DEF Agrees
  <2>2. Evaluates(Worded(b.text, b.rank, vb)) /\ wrapB \in BOOLEAN
    BY <1>5 DEF Agrees
  <2>3. Evaluates(Worded(Enclosed(a.text, wrapA), ra, va))
    BY <1>3, <2>1, OperandEvaluates
  <2>4. Evaluates(Worded(Enclosed(b.text, wrapB), rb, vb))
    BY <1>3, <2>2, OperandEvaluates
  <2> QED
    BY <1>6, <2>3, <2>4
<1>8. ra <= Rank(op) /\ rb < Rank(op)
  BY <1>1, <1>3, SMT
<1>9. PICK v : v = InWords(op, va, vb)
  OBVIOUS
<1>10. PICK c : c = InC(op, ints, a.value, b.value)
  OBVIOUS
<1>11. PICK text : text = A \o <<Tok(op)>> \o B
  OBVIOUS
<1>12. p = [text |-> text, rank |-> Rank(op), int |-> (Rank(op) > 2 \/ ints),
            value |-> c, signed |-> (a.signed \/ b.signed \/ signs)]
  BY <1>6, <1>10, <1>11 DEF Join
<1> HIDE DEF p
<1>13. Evaluates(Worded(text, Rank(op), v))
  <2>1. PICK qa, qb : qa = Worded(A, ra, va) /\ qb = Worded(B, rb, vb)
    OBVIOUS
  <2>2. /\ Evaluates(qa) /\ qa.text = A /\ qa.rank = ra /\ qa.value = va
        /\ Evaluates(qb) /\ qb.text = B /\ qb.rank = rb /\ qb.value = vb
    BY <1>7, <2>1 DEF Worded
  <2> HIDE DEF ra, rb
  <2>3. PICK q : q = Worded(text, Rank(op), v)
    OBVIOUS
  <2>4. q = Worded(qa.text \o <<Tok(op)>> \o qb.text, Rank(op), InWords(op, qa.value, qb.value))
    BY <1>9, <1>11, <2>2, <2>3
  <2>5. Evaluates(q)
    BY <1>1, <1>8, <2>2, <2>4, EvaluatesJoined
  <2> QED
    BY <2>3, <2>5
<1>14. text \in Seq(Token) /\ v \in Values \union {Crash}
  BY <1>13 DEF Evaluates, Worded
<1>15. c \in CValues
  BY <1>1, <1>3, <1>10, InCIn
<1>16. ASSUME ~ p.signed, p.value # Undefined
       PROVE  p.value = v
  <2>1. ~ a.signed /\ ~ b.signed /\ ~ signs /\ p.value = c
    BY <1>12, <1>16
  <2>2. a.value # Undefined => a.value = va
    BY <1>4, <2>1 DEF Agrees
  <2>3. b.value # Undefined => b.value = vb
    BY <1>5, <2>1 DEF Agrees
  <2>4. va \in Values \union {Crash} /\ vb \in Values \union {Crash}
    BY <1>4, <1>5 DEF Agrees
  <2>5. op = "/" /\ ints => ~ Negative(a.value) /\ ~ Negative(b.value)
    BY <2>1
  <2>6. InC(op, ints, a.value, b.value) # Undefined
    BY <1>10, <1>16, <2>1
  <2> HIDE DEF ints, signs
  <2>7. InC(op, ints, a.value, b.value) = InWords(op, va, vb)
    BY <1>1, <1>3, <2>2, <2>3, <2>4, <2>5, <2>6, InCAgrees
  <2> QED
    BY <1>9, <1>10, <2>1, <2>7
<1>17. p \in PhraseType
  <2>1. Rank(op) \in 0 .. 4 /\ (Rank(op) > 2 \/ ints) \in BOOLEAN
        /\ (a.signed \/ b.signed \/ signs) \in BOOLEAN
    BY <1>1
  <2> QED
    BY <1>12, <1>14, <1>15, <2>1 DEF PhraseType
<1>18. Agrees(p, v)
  <2>1. p.text = text /\ p.rank = Rank(op)
    BY <1>12
  <2> QED
    BY <1>13, <1>14, <1>16, <2>1 DEF Agrees
<1>19. Phrase(p)
  BY <1>17, <1>18 DEF Phrase
<1> QED
  BY <1>19 DEF p

(* expr gives a phrase the value it has in C.                              *)
LEMMA PhraseIsC ==
  ASSUME NEW p, Phrase(p), ~ RegMinusNum(p.text), ~ p.signed, p.value # Undefined
  PROVE  expr(p.text, TestReg) = p.value
<1>1. PICK v : Agrees(p, v)
  BY DEF Phrase
<1>2. PICK q : q = Worded(p.text, p.rank, v)
  OBVIOUS
<1>3. Evaluates(q) /\ q.text = p.text /\ q.value = v
  BY <1>1, <1>2 DEF Agrees, Worded
<1>4. expr(q.text, TestReg) = q.value
  BY <1>3, ExprEvaluates
<1> QED
  BY <1>1, <1>3, <1>4 DEF Agrees

------------------------------------------------------------------------------
(* A line is a phrase, tested with the registers of the test; what t has   *)
(* computed is what expr makes of the line.                                *)
LineInv ==
  /\ line # None => Phrase(line) /\ reg = TestReg
  /\ line = None => result = None
  /\ result # None => result = expr(line.text, TestReg)

LEMMA LineInit == Init => LineInv
BY PhraseLeaf DEF Init, LineInv

LEMMA LineStep == LineInv /\ [Next]_vars => LineInv'
<1> SUFFICES ASSUME LineInv, [Next]_vars
             PROVE  LineInv'
  OBVIOUS
<1>1. ASSUME line' = line, result' = result, line # None => reg' = reg
      PROVE  LineInv'
  BY <1>1 DEF LineInv
<1>2. CASE \E text \in Watched : cmd_w(text) \/ cmd_wFull(text)
  BY <1>1, <1>2 DEF cmd_w, cmd_wFull, vars
<1>3. CASE \E text \in Texts : cmd_p(text)
  BY <1>1, <1>3 DEF cmd_p
<1>4. CASE \E NO \in Asked : cmd_d(NO)
  BY <1>1, <1>4 DEF cmd_d
<1>5. CASE gen_rand_expr
  <2>1. /\ Phrase(line) /\ result = None /\ result' = None
        /\ line # None /\ reg = TestReg /\ reg' = TestReg
    BY <1>5 DEF gen_rand_expr, LineInv
  <2>2. \A b \in Operands : Phrase(b)
    BY PhraseLeaf, PhraseJoin DEF Operands
  <2>3. Phrase(line')
    <3>1. CASE line' = Group(line)
      BY <2>1, <3>1, PhraseGroup
    <3>2. CASE \E op \in GenOperators, b \in Operands :
                 line' \in {Join(op, line, b), Join(op, b, line)}
      BY <2>1, <2>2, <3>2, PhraseJoin
    <3> QED
      BY <1>5, <3>1, <3>2 DEF gen_rand_expr
  <2> QED
    BY <2>1, <2>3 DEF LineInv
<1>6. CASE cmd_t
  <2>1. /\ line # None /\ line' = line /\ reg' = reg /\ Phrase(line) /\ reg = TestReg
        /\ result' = expr(line.text, reg)
    BY <1>6 DEF cmd_t, LineInv
  <2> QED
    BY <2>1 DEF LineInv
<1>7. CASE cpu_exec
  BY <1>1, <1>7 DEF cpu_exec
<1>8. CASE UNCHANGED vars
  BY <1>1, <1>8 DEF vars
<1> QED
  BY <1>2, <1>3, <1>4, <1>5, <1>6, <1>7, <1>8 DEF Next

LEMMA LineIsC == LineInv => ExprIsC
<1> SUFFICES ASSUME LineInv, result # None, ~ RegMinusNum(line.text),
                    ~ line.signed, line.value # Undefined
             PROVE  result = line.value
  BY DEF ExprIsC
<1>1. Phrase(line) /\ result = expr(line.text, TestReg)
  BY DEF LineInv
<1> QED
  BY <1>1, PhraseIsC

(* Whatever gen-expr writes, to any length and over any numbers, operators *)
(* and registers, t finds the value C gives it, unless a "-" stands        *)
(* between a register and a number, or a quotient of two ints, of which    *)
(* one is negative, is part of it.                                         *)
THEOREM DebuggerExprIsC == Spec => []ExprIsC
<1>1. Init => LineInv
  BY LineInit
<1>2. LineInv /\ [Next]_vars => LineInv'
  BY LineStep
<1>3. LineInv => ExprIsC
  BY LineIsC
<1> QED
  BY <1>1, <1>2, <1>3, PTL DEF Spec

===============================================================================
