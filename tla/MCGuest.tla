-------------------------------- MODULE MCGuest --------------------------------
(***************************************************************************)
(* Guests on small instances.  audio: a ring of four bytes, callbacks of   *)
(* three, chunks from none to one more than the ring holds.  cte: two      *)
(* threads and a register file of four.  library: words of four bits, so  *)
(* that double words are divided by words and double words of every shape; *)
(* blocks of up to eight bytes, aligned and not.  microbench: two          *)
(* benchmarks that take no time themselves, on a clock whose low half      *)
(* wraps in the middle of the run; and, on a clock that stands still, each *)
(* benchmark alone on small inputs.                                        *)
(***************************************************************************)
EXTENDS Guest

MCChunkLens == 0 .. SB_SIZE + 1

Doubles  == 0 .. BB - 1
Corners  == {0, 1, 2, 7, 8, 15, 16, 17, 31, 127, 128, 129, 143, 144, 240, 254, 255}
MCMem    == [a \in 0 .. 15 |-> 100 + a]
Strings  == {Append(s, 0) : s \in [1 .. 3 -> {0, 1, 255}]}
MCCalls ==
       [f : {"udivmod"}, a : Doubles, b : (Corners \ {0}) \cup {x \in Doubles : x % 4 = 1}]
  \cup [f : {"divmod", "divrem"}, a : Corners, b : Corners \ {0}]
  \cup [f : {"zeros"}, a : Doubles \ {0}]
  \cup [f : {"memmove"}, mem : {MCMem}, dst : 0 .. 7, src : 0 .. 7, n : 0 .. 8]
  \cup {c \in [f : {"memcpy"}, mem : {MCMem}, dst : 0 .. 8, src : 0 .. 8, n : 0 .. 7] :
          NoOverlap(c.dst, c.src, c.n)}
  \cup [f : {"memset"}, mem : {MCMem}, dst : 0 .. 7, c : {7}, n : 0 .. 8]
  \cup [f : {"compare"}, s1 : Strings, s2 : Strings, n : 0 .. 4]
  \cup [f : {"format"}, d : {-128, -100, -9, -1} \cup 0 .. 120, s : {<<CharDot, CharZero>>}]

RECURSIVE Around(_, _, _)
Around(N, S, k) ==
  IF k = 0 THEN S
  ELSE Around(N, S \cup UNION {{tile(N, p, c) : c \in ToSet(Movable(N, p))} : p \in S}, k - 1)
TenAway == [c \in 0 .. 8 |-> <<1, 2, 3, 7, 0, 8, 5, 6, 4>>[c + 1]]
(* Texts for lzip: over two letters, with repeats of every shape, and long *)
(* ones, with periods, that fill several control words, match in every     *)
(* slot of the table and on top of themselves, or do not compress.         *)
Pattern(n, a, b, m) ==
  SubSeq([i \in 1 .. n |-> ((i * i * a + i \div b) % m) + 1], 1, n)
Texts == {u \o v \o u \o u \o v : u \in [1 .. 5 -> {1, 2}], v \in [1 .. 4 -> {1, 2}]}
  \cup {Pattern(n, a, b, m) : n \in {1, 10, 12, 31, 32, 36, 62, 63, 64, 100},
                               a \in 0 .. 3, b \in {1, 3}, m \in {2, 3, 7}}
  \cup {Pattern(n, 0, 1, 90) : n \in {62, 70, 90}}
MCRuns ==
       [bench : {"qsort"}, data : UNION {[1 .. n -> 0 .. 2] : n \in 1 .. 4}]
  \cup [bench : {"queen"}, size : 1 .. 5]
  \cup [bench : {"sieve"}, size : 2 .. 30]
  \cup [bench : {"fib"}, n : 0 .. 9, size : 1 .. 3, Mod : {8}]
  \cup [bench : {"dinic"}, size : {2}, cap : [1 .. 4 -> {0, 2}], fromS : [1 .. 2 -> {1, 3}],
        toT : [1 .. 2 -> {1, 3}]]
  \cup [bench : {"ssort"}, s : UNION {[1 .. n -> 1 .. 2] : n \in 2 .. 6}]
  \cup [bench : {"15pz"}, size : {2}, tiles : {f \in [0 .. 3 -> 0 .. 3] : IsInjective(f)},
        MAXN : {100}]
  \cup [bench : {"15pz"}, size : {3}, MAXN : {100},
        tiles : {TenAway} \cup {p.tiles : p \in Around(3, {N_puzzle(3, solution(3))}, 7)}]
  \cup [bench : {"bf"}, data : UNION {[1 .. n -> 1 .. 3] : n \in 0 .. 4} \cup {<<50, 48>>},
        DATA_SIZE : {40}]
  \cup [bench : {"lzip"}, data : Texts]

Quick == [bench |-> "queen", size |-> 1]
MCTimed ==
  {[jobs |-> <<[run |-> Quick, fits |-> TRUE], [run |-> Quick, fits |-> FALSE],
               [run |-> Quick, fits |-> TRUE]>>, ticks |-> {345}]}
MCSetups ==
  MCTimed \cup {[jobs |-> <<[run |-> r, fits |-> TRUE]>>, ticks |-> {}] : r \in MCRuns}
==============================================================================
