------------------------------ MODULE Workloads ------------------------------
(***************************************************************************)
(* The algorithms of microbench/src that have a definition to hold them    *)
(* to: qsort, queen, sieve, fib, dinic, ssort, 15pz of Puzzle, bf of       *)
(* Brainfuck and lzip of QuickLZ.  An array is a function from its         *)
(* indices, from 0 on as in C; a set of bits is a set.  A run is a record: *)
(* the benchmark, and the input its prepare function makes.  What each is  *)
(* to compute is at the end.                                               *)
(***************************************************************************)
EXTENDS Integers, SequencesExt, Puzzle, Brainfuck, QuickLZ

Swapped(a, i, j) == [a EXCEPT ![i] = a[j], ![j] = a[i]]
Bit(b) == IF b THEN 1 ELSE 0

(* qsort.c: a[l .. r - 1], the pivot is the first.                         *)
RECURSIVE partition(_, _, _, _, _), myqsort(_, _, _), sortBoth(_, _, _)
partition(a, l, r, pivot, j) ==
  IF j = r THEN [a |-> Swapped(a, pivot, l), pivot |-> pivot]
  ELSE IF a[j] < a[l]
  THEN partition(Swapped(a, pivot + 1, j), l, r, pivot + 1, j + 1)
  ELSE partition(a, l, r, pivot, j + 1)
sortBoth(p, l, r) == myqsort(myqsort(p.a, l, p.pivot), p.pivot + 1, r)
myqsort(a, l, r) ==
  IF l < r THEN sortBoth(partition(a, l, r, l, l + 1), l, r) ELSE a

(* queen.c: the columns taken, and those under attack from both sides; a   *)
(* shift moves a set of columns by one.                                    *)
ShiftUp(S)   == {c + 1 : c \in S}
ShiftDown(S) == {c - 1 : c \in S \ {0}}
RECURSIVE dfs(_, _, _, _)
dfs(FULL, row, ld, rd) ==
  IF row = FULL THEN 1
  ELSE MapThenSumSet(LAMBDA p : dfs(FULL, row \cup {p}, ShiftUp(ld \cup {p}),
                                    ShiftDown(rd \cup {p})),
                     FULL \ (row \cup ld \cup rd))

(* sieve.c: the numbers whose bit is still set.                            *)
RECURSIVE sieve(_, _, _)
sieve(primes, i, N) ==
  IF i * i > N THEN primes
  ELSE sieve(IF i \in primes THEN primes \ {k * i : k \in 2 .. N \div i} ELSE primes, i + 1, N)

(* fib.c: powers of the M x M matrix, modulo 2^32, here Mod.               *)
mult(a, b, M, Mod) ==
  [i, j \in 0 .. M - 1 |-> MapThenSumSet(LAMBDA k : a[i, k] * b[k, j], 0 .. M - 1) % Mod]
RECURSIVE power(_, _, _, _, _)
power(ans, T, n, M, Mod) ==
  IF n = 0 THEN ans
  ELSE power(IF n % 2 = 1 THEN mult(ans, T, M, Mod) ELSE ans,
             mult(T, T, M, Mod), n \div 2, M, Mod)
fib(n, M, Mod) ==
  power([i, j \in 0 .. M - 1 |-> Bit(i = j)],
        [i, j \in 0 .. M - 1 |-> Bit(i = M - 1 \/ j = i + 1)], n, M, Mod)[M - 1, M - 1]

------------------------------------------------------------------------------
(* dinic.cc: edges in the order they were added, each followed by its      *)
(* reverse; the edges of a node are gone through from the last on.         *)
INF == 10 ^ 6
AddEdge(G, e) ==
  IF e.cap = 0 THEN G
  ELSE G \o <<[from |-> e.from, to |-> e.to, cap |-> e.cap, flow |-> 0],
              [from |-> e.to, to |-> e.from, cap |-> 0, flow |-> 0]>>
Twin(i) == IF i % 2 = 1 THEN i + 1 ELSE i - 1
Room(e) == e.cap - e.flow

(* Levels by breadth: the nodes whose d is 0, 1, ...                       *)
RECURSIVE BFS(_, _, _)
BFS(G, vis, level) ==
  IF level = {} THEN << >>
  ELSE <<level>> \o BFS(G, vis \cup level,
                        {G[i].to : i \in {j \in DOMAIN G : G[j].from \in level /\ Room(G[j]) > 0}}
                          \ (vis \cup level))

(* Variant: the reverse edge keeps its flow.                               *)
pushOneWay(G, i, f) == [G EXCEPT ![i].flow = @ + f]
push(G, i, f) == [G EXCEPT ![i].flow = @ + f, ![Twin(i)].flow = @ - f]

(* At node x, d levels down, with a to send; edge i and those before it    *)
(* are still to be tried.                                                  *)
RECURSIVE DFS(_, _, _, _, _, _, _, _), AfterEdge(_, _, _, _, _, _, _, _)
DFS(G, levels, d, x, t, a, i, flow) ==
  IF x = t THEN [G |-> G, flow |-> a]
  ELSE IF a = 0 \/ i = 0 \/ d = Len(levels) THEN [G |-> G, flow |-> flow]
  ELSE IF G[i].from = x /\ G[i].to \in levels[d + 1]
  THEN AfterEdge(DFS(G, levels, d + 1, G[i].to, t, Min({a, Room(G[i])}), Len(G), 0),
                 levels, d, x, t, a, i, flow)
  ELSE DFS(G, levels, d, x, t, a, i - 1, flow)
AfterEdge(got, levels, d, x, t, a, i, flow) ==
  IF got.flow > 0
  THEN DFS(push(got.G, i, got.flow), levels, d, x, t, a - got.flow, i - 1, flow + got.flow)
  ELSE DFS(got.G, levels, d, x, t, a, i - 1, flow)

RECURSIVE Maxflow(_, _, _, _), Phase(_, _, _, _, _), AddFlow(_, _, _, _)
Maxflow(G, s, t, flow) == Phase(G, BFS(G, {}, {s}), s, t, flow)
Phase(G, levels, s, t, flow) ==
  IF t \notin UNION ToSet(levels) THEN flow
  ELSE AddFlow(DFS(G, levels, 1, s, t, INF, Len(G), 0), s, t, flow)
AddFlow(got, s, t, flow) == Maxflow(got.G, s, t, flow + got.flow)

(* N nodes on each side, every pair joined, s and t at the ends.           *)
dinicGraph(N, cap, fromS, toT) ==
  LET pairs == [k \in 1 .. N * N |-> [from |-> (k - 1) \div N, to |-> N + ((k - 1) % N),
                                      cap |-> cap[k]]]
      ends  == [k \in 1 .. 2 * N |->
                  IF k % 2 = 1
                  THEN [from |-> 2 * N, to |-> (k - 1) \div 2, cap |-> fromS[(k + 1) \div 2]]
                  ELSE [from |-> N + k \div 2 - 1, to |-> 2 * N + 1, cap |-> toT[k \div 2]]]
  IN  FoldLeft(AddEdge, << >>, pairs \o ends)

------------------------------------------------------------------------------
(* ssort.cc, the skew algorithm, on a text with three zeros after it.      *)
At(s, i) == s[i + 1]

(* A stable sort of positions by the letter d after each, one letter after *)
(* the other.                                                              *)
radixPass(a, s, d, K) ==
  FoldLeft(LAMBDA b, k : b \o SelectSeq(a, LAMBDA x : At(s, x + d) = k), << >>,
           [k \in 1 .. K + 1 |-> k - 1])

Triple(s, i) == <<At(s, i), At(s, i + 1), At(s, i + 2)>>
leq2(a1, a2, b1, b2) == a1 < b1 \/ (a1 = b1 /\ a2 <= b2)
leq3(a1, a2, a3, b1, b2, b3) == a1 < b1 \/ (a1 = b1 /\ leq2(a2, a3, b2, b3))

(* SA12 holds positions among the names of the triples: the left half of   *)
(* the names is for positions that are 1 modulo 3.                         *)
GetI(x, n0) == IF x < n0 THEN x * 3 + 1 ELSE (x - n0) * 3 + 2
NameOf(i, n0) == IF i % 3 = 1 THEN i \div 3 ELSE i \div 3 + n0
Smaller12(s, s12, n0, x, i, j) ==
  IF x < n0
  THEN leq2(At(s, i), At(s12, x + n0), At(s, j), At(s12, j \div 3))
  ELSE leq3(At(s, i), At(s, i + 1), At(s12, x - n0 + 1),
            At(s, j), At(s, j + 1), At(s12, j \div 3 + n0))

RECURSIVE merge(_, _, _, _, _)
merge(s, s12, n0, SA12, SA0) ==
  IF SA12 = << >> THEN SA0
  ELSE IF SA0 # << >> /\ ~Smaller12(s, s12, n0, Head(SA12), GetI(Head(SA12), n0), Head(SA0))
  THEN <<Head(SA0)>> \o merge(s, s12, n0, SA12, Tail(SA0))
  ELSE <<GetI(Head(SA12), n0)>> \o merge(s, s12, n0, Tail(SA12), SA0)

(* Where each of 0, 1, ... stands in a, from 1 on.                         *)
Ranks(a) == [x \in 1 .. Len(a) |-> SelectInSeq(a, LAMBDA y : y = x - 1)]

RECURSIVE suffixArray(_, _, _), byNames(_, _, _, _), byTriples(_, _, _, _), bySA12(_, _, _, _)
suffixArray(s, n, K) ==
  LET i12 == SelectSeq([i \in 1 .. n + Bit(n % 3 = 1) |-> i - 1], LAMBDA i : i % 3 # 0)
  IN  byTriples(s, n, K, radixPass(radixPass(radixPass(i12, s, 2, K), s, 1, K), s, 0, K))
byTriples(s, n, K, sorted) ==                 \* the names, in the order of s12
  LET n0 == (n + 2) \div 3
      at == [k \in DOMAIN sorted |-> NameOf(sorted[k], n0)]
      name(k) == Cardinality({Triple(s, sorted[l]) : l \in 1 .. k})
      r == Ranks(at)
  IN  byNames(s, n, K, [x \in DOMAIN r |-> name(r[x])] \o <<0, 0, 0>>)
byNames(s, n, K, s12) ==
  LET n02 == Len(s12) - 3
      last == Max(ToSet(s12))
  IN  bySA12(s, n, K, IF last < n02 THEN suffixArray(s12, n02, last)
                      ELSE [k \in 1 .. n02 |-> SelectInSeq(s12, LAMBDA x : x = k) - 1])
bySA12(s, n, K, SA12) ==
  LET n0 == (n + 2) \div 3
      s0 == SelectSeq(SA12, LAMBDA x : x < n0)
  IN  merge(s, Ranks(SA12) \o <<0, 0, 0>>, n0,
            IF n % 3 = 1 THEN Tail(SA12) ELSE SA12,
            radixPass([k \in DOMAIN s0 |-> 3 * s0[k]], s, 0, K))

------------------------------------------------------------------------------
(* The answer of run of benchmark r.                                       *)
run(r) ==
  CASE r.bench = "qsort" -> myqsort([i \in 0 .. Len(r.data) - 1 |-> r.data[i + 1]], 0, Len(r.data))
    [] r.bench = "queen" -> dfs(0 .. r.size - 1, {}, {}, {})
    [] r.bench = "sieve" -> Cardinality(sieve(0 .. r.size, 2, r.size) \ {0, 1})
    [] r.bench = "fib"   -> fib(r.n, r.size, r.Mod)
    [] r.bench = "dinic" -> Maxflow(dinicGraph(r.size, r.cap, r.fromS, r.toT),
                                    2 * r.size, 2 * r.size + 1, 0)
    [] r.bench = "ssort" -> suffixArray(r.s \o <<0, 0, 0>>, Len(r.s), Max(ToSet(r.s)))
    [] r.bench = "15pz"  ->
         LET puzzle == N_puzzle(r.size, r.tiles)
         IN  IF solvable(r.size, puzzle)
             THEN search(r.size, heap_push([heap |-> << >>, step |-> << >>], puzzle, 0), 0, r.MAXN)
             ELSE << >>                                 \* the assertion fails
    [] r.bench = "bf"    -> bench_bf_run(r.data, r.DATA_SIZE)
    [] r.bench = "lzip"  ->
         qlz_compress([i \in 0 .. Len(r.data) - 1 |-> r.data[i + 1]], Len(r.data))

(* What the name of the benchmark promises.                                *)
RECURSIVE sums(_, _)
sums(n, M) == IF n < 0 THEN 0 ELSE IF n = 0 THEN 1
              ELSE MapThenSumSet(LAMBDA k : sums(n - k, M), 1 .. M)
Cut(r, S) ==                        \* S: the nodes on the side of the source
    MapThenSumSet(LAMBDA k : IF (k - 1) \div r.size \in S
                                /\ r.size + ((k - 1) % r.size) \notin S
                             THEN r.cap[k] ELSE 0, DOMAIN r.cap)
  + MapThenSumSet(LAMBDA i : IF i - 1 \notin S THEN r.fromS[i] ELSE 0, DOMAIN r.fromS)
  + MapThenSumSet(LAMBDA i : IF r.size + i - 1 \in S THEN r.toT[i] ELSE 0, DOMAIN r.toT)
SuffixBefore(s, i, j) ==
  \E k \in 0 .. Len(s) - Max({i, j}) :
    /\ \A l \in 0 .. k - 1 : s[i + 1 + l] = s[j + 1 + l]
    /\ IF Max({i, j}) + k = Len(s) THEN i > j ELSE s[i + 1 + k] < s[j + 1 + k]

(* The fewest moves from the boards met to the solution, -1 if none lead   *)
(* there.                                                                  *)
RECURSIVE Distance(_, _, _)
Distance(N, met, new) ==
  IF new = {} THEN -1
  ELSE IF \E p \in new : p.tiles = solution(N) THEN 0
  ELSE LET rest == Distance(N, met \cup new,
                            UNION {{tile(N, p, c) : c \in ToSet(Movable(N, p))} : p \in new}
                              \ (met \cup new))
       IN  IF rest = -1 THEN -1 ELSE rest + 1
(* A board is solved just when it can be, in a number of moves its parity  *)
(* allows; in the fewest, up to nine.  From ten on a board may be reached  *)
(* by a longer path first, whose length it keeps (heap_push).              *)
SolvesPuzzle(d, ans) ==
  /\ (d = -1) = (ans = << >>)
  /\ d # -1 => ans[1] >= d /\ (ans[1] - d) % 2 = 0 /\ ans[2] > d
  /\ d \in 0 .. 9 => ans[1] = d

SortedFrom(ans, data) ==
  /\ \A i, j \in DOMAIN ans : i < j => ans[i] <= ans[j]
  /\ \A v \in ToSet(data) \cup {ans[i] : i \in DOMAIN ans} :
       Cardinality({i \in DOMAIN ans : ans[i] = v})
         = Cardinality({i \in DOMAIN data : data[i] = v})

(* The program of bf sorts its input.  The stream of lzip gives the text   *)
(* back, though the two sides fill their tables at different times, and    *)
(* fits the buffer of lzip.c.                                              *)
Solves(r, ans) ==
  CASE r.bench \in {"qsort", "bf"} -> SortedFrom(ans, r.data)
    [] r.bench = "lzip" ->
         /\ qlz_decompress(ans) = [i \in 0 .. Len(r.data) - 1 |-> r.data[i + 1]]
         /\ ans.r <= Len(r.data) + 400
    [] r.bench = "queen" ->
         ans = Cardinality({q \in [1 .. r.size -> 1 .. r.size] :
                 \A i, j \in 1 .. r.size : i < j => q[i] - q[j] \notin {0, i - j, j - i}})
    [] r.bench = "sieve" ->
         ans = Cardinality({p \in 2 .. r.size : \A k \in 2 .. p - 1 : p % k # 0})
    [] r.bench = "fib"   -> ans = sums(r.n, r.size) % r.Mod
    [] r.bench = "dinic" -> ans = Min({Cut(r, S) : S \in SUBSET (0 .. 2 * r.size - 1)})
    [] r.bench = "ssort" ->
         /\ ToSet(ans) = 0 .. Len(r.s) - 1 /\ Len(ans) = Len(r.s)
         /\ \A k \in 2 .. Len(ans) : SuffixBefore(r.s, ans[k - 1], ans[k])
    [] r.bench = "15pz"  ->
         SolvesPuzzle(Distance(r.size, {}, {N_puzzle(r.size, r.tiles)}), ans)
==============================================================================
