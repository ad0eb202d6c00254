-------------------------------- MODULE Puzzle --------------------------------
(***************************************************************************)
(* 15pz of microbench: the N-puzzle of puzzle.h, the heap of heap.h whose  *)
(* entries can be given a smaller weight, and the A* search of 15pz.cc.    *)
(* A board has the tile of each of its N * N places, counted from 0; the   *)
(* place of the blank, 0, and the Manhattan distance are kept beside it    *)
(* and brought up to date by each move, as in the code.  Boards are looked *)
(* up by their tiles: the hash only picks the chain that is searched.      *)
(***************************************************************************)
EXTENDS Integers, SequencesExt

Apart(x, y) == IF x < y THEN y - x ELSE x - y
Away(N, tile, c) == Apart((tile - 1) \div N, c \div N) + Apart((tile - 1) % N, c % N)

N_puzzle(N, tiles) ==
  [tiles |-> tiles,
   zero  |-> CHOOSE c \in DOMAIN tiles : tiles[c] = 0,
   manhattan_distance |-> MapThenSumSet(LAMBDA c : Away(N, tiles[c], c),
                                        {c \in DOMAIN tiles : tiles[c] # 0})]

lower_bound(p) == p.manhattan_distance

solution(N) == [c \in 0 .. N * N - 1 |-> (c + 1) % (N * N)]

(* The places whose tile may move: left, right, up, down.                  *)
Movable(N, p) ==
     (IF p.zero % N # N - 1 THEN <<p.zero + 1>> ELSE << >>)
  \o (IF p.zero % N # 0     THEN <<p.zero - 1>> ELSE << >>)
  \o (IF p.zero \div N # N - 1 THEN <<p.zero + N>> ELSE << >>)
  \o (IF p.zero \div N # 0     THEN <<p.zero - N>> ELSE << >>)

tile(N, p, c) ==
  [tiles |-> [p.tiles EXCEPT ![p.zero] = p.tiles[c], ![c] = 0],
   zero  |-> c,
   manhattan_distance |-> p.manhattan_distance + Away(N, p.tiles[c], p.zero)
                                               - Away(N, p.tiles[c], c)]

solvable(N, p) ==
  LET entry(c) == IF c = p.zero THEN N * N ELSE p.tiles[c]
      parity   == Cardinality({x \in (DOMAIN p.tiles) \X (DOMAIN p.tiles) :
                                 x[1] < x[2] /\ entry(x[1]) > entry(x[2])})
  IN  (parity + 2 * N - 2 - (p.zero \div N) - (p.zero % N)) % 2 = 0

------------------------------------------------------------------------------
(* The heap: boards in an array, and for each board met so far its Step.   *)
Weight(h, n) == h.step[h.heap[n].tiles].path_weight
Exchange(h, i, j) ==
  [heap |-> [h.heap EXCEPT ![i] = h.heap[j], ![j] = h.heap[i]],
   step |-> [h.step EXCEPT ![h.heap[j].tiles].heap_index = i,
                           ![h.heap[i].tiles].heap_index = j]]

RECURSIVE percolate_up(_, _), percolate_down(_, _)
percolate_up(h, n) ==
  IF n # 1 /\ Weight(h, n \div 2) > Weight(h, n)
  THEN percolate_up(Exchange(h, n \div 2, n), n \div 2) ELSE h
percolate_down(h, n) ==
  IF 2 * n + 1 <= Len(h.heap)
  THEN IF Weight(h, n) < Weight(h, 2 * n) /\ Weight(h, n) < Weight(h, 2 * n + 1) THEN h
       ELSE IF Weight(h, 2 * n) < Weight(h, 2 * n + 1)
       THEN percolate_down(Exchange(h, n, 2 * n), 2 * n)
       ELSE percolate_down(Exchange(h, n, 2 * n + 1), 2 * n + 1)
  ELSE IF 2 * n = Len(h.heap) /\ Weight(h, 2 * n) < Weight(h, n)
  THEN Exchange(h, n, 2 * n) ELSE h

(* Whether a board has been met, in the chain of its hash.                 *)
Met(h, p) == p.tiles \in DOMAIN h.step

(* The rest of the heap; the Step of what is taken stays in the table, and *)
(* is not marked visited.                                                  *)
pop(h) ==
  LET last == Last(h.heap)
  IN  IF Len(h.heap) = 1 THEN [h EXCEPT !.heap = << >>]
      ELSE percolate_down([heap |-> Front([h.heap EXCEPT ![1] = last]),
                           step |-> [h.step EXCEPT ![last.tiles].heap_index = 1]], 1)

(* A board that is there already is given the weight of a shorter path,    *)
(* and keeps its path_length.                                              *)
heap_push(h, p, path_length) ==
  LET weight == path_length + lower_bound(p)
      size   == Len(h.heap) + 1
  IN  IF ~Met(h, p)
      THEN percolate_up([heap |-> Append(h.heap, p),
                         step |-> (p.tiles :> [path_length |-> path_length,
                                               path_weight |-> weight,
                                               heap_index  |-> size]) @@ h.step], size)
      ELSE IF weight < h.step[p.tiles].path_weight
      THEN percolate_up([h EXCEPT !.step[p.tiles].path_weight = weight],
                        h.step[p.tiles].heap_index)
      ELSE h

(* What bench_15pz_run finds: the path_length of the solution, and how     *)
(* many boards it has taken, or << >>.                                     *)
RECURSIVE search(_, _, _, _), expand(_, _, _, _, _)
search(N, h, n, MAXN) ==
  IF h.heap = << >> \/ n = MAXN THEN << >>
  ELSE expand(N, Head(h.heap), pop(h), n + 1, MAXN)
expand(N, top, h, n, MAXN) ==
  LET length == h.step[top.tiles].path_length
  IN  IF top.tiles = solution(N) THEN <<length, n>>
      ELSE search(N, FoldLeft(LAMBDA g, c : heap_push(g, tile(N, top, c), length + 1),
                              h, Movable(N, top)), n, MAXN)
==============================================================================
