------------------------------- MODULE QuickLZ -------------------------------
(***************************************************************************)
(* microbench/src/lzip/quicklz.c as it is built: level 2, no streaming     *)
(* buffer.  Positions in a text count from 0.  A stream is the sequence of *)
(* its items, literals and matches; 31 of them share a control word, whose *)
(* bits say which is which.  dst counts the bytes written.  What the       *)
(* preprocessor leaves out, levels 1 and 3 and the buffer, is left out.    *)
(***************************************************************************)
EXTENDS Integers, SequencesExt, FiniteSetsExt, TLC

MINOFFSET              == 2
UNCONDITIONAL_MATCHLEN == 6
UNCOMPRESSED_END       == 4
CWORD_LEN              == 4
QLZ_POINTERS           == 4
CwordItems             == 31

LastMatchstart(size) == size - 1 - UNCONDITIONAL_MATCHLEN - UNCOMPRESSED_END

(* Any function of three bytes will do for both sides; this one is small   *)
(* and made to collide.                                                    *)
QLZ_HASH_VALUES == 2
hashat(s, i) == (s[i] + 3 * s[i + 1] + s[i + 2]) % QLZ_HASH_VALUES

(* The table: for each hash the last positions that had it, in a ring, and *)
(* how many there were, in a char.  Resetting it leaves the positions.     *)
reset_table(offset) ==
  [offset |-> offset, counter |-> [h \in 0 .. QLZ_HASH_VALUES - 1 |-> 0]]
NoTable == reset_table([h \in 0 .. QLZ_HASH_VALUES - 1 |->
                         [k \in 0 .. QLZ_POINTERS - 1 |-> 0]])

update_hash(t, s, i) ==
  LET hash == hashat(s, i)
  IN  [t EXCEPT !.offset[hash][t.counter[hash] % QLZ_POINTERS] = i,
                !.counter[hash] = (@ + 1) % 2 ^ 8]

------------------------------------------------------------------------------
(* qlz_compress_core.  The slots of the table that hold an earlier text    *)
(* with the same three bytes; the longest match wins, then the first slot. *)
Slots(t, s, i) ==
  LET hash == hashat(s, i)
      o(k) == t.offset[hash][k]
  IN  {k \in 0 .. QLZ_POINTERS - 1 :
         /\ t.counter[hash] > k /\ o(k) < i - MINOFFSET
         /\ \A j \in 0 .. 2 : s[o(k) + j] = s[i + j]}

Matchlen(s, size, o, i) ==
  LET remaining == Min({255, size - UNCOMPRESSED_END - i})
  IN  Min({m \in 3 .. remaining : m = remaining \/ s[o + m] # s[i + m]})

BestSlot(t, s, size, i) ==
  LET matchlen(k) == Matchlen(s, size, t.offset[hashat(s, i)][k], i)
  IN  CHOOSE k \in Slots(t, s, i) : \A j \in Slots(t, s, i) :
        matchlen(k) > matchlen(j) \/ (matchlen(k) = matchlen(j) /\ k <= j)

Literal(c, b) ==
  [c EXCEPT !.src = @ + 1, !.dst = @ + 1, !.items = Append(@, [literal |-> b])]

Match(c, hash, best_k, matchlen) ==
  [c EXCEPT !.src = @ + matchlen, !.dst = @ + (IF matchlen < 10 THEN 2 ELSE 3),
            !.items = Append(@, [hash |-> hash, k |-> best_k, len |-> matchlen])]

Item(c, s, size) ==
  LET slot == BestSlot(c.table, s, size, c.src)
      hash == hashat(s, c.src)
      next == IF c.src > LastMatchstart(size) \/ Slots(c.table, s, c.src) = {}
              THEN Literal(c, s[c.src])
              ELSE Match(c, hash, slot,
                         Matchlen(s, size, c.table.offset[hash][slot], c.src))
  IN  IF c.src <= size - 1 - 3
      THEN [next EXCEPT !.table = update_hash(c.table, s, c.src)] ELSE next

(* A full control word is written, and room left for the next.  Past the   *)
(* middle of the text the ratio is looked at then, and the text may be     *)
(* given up.                                                               *)
Full(c) == c.items # << >> /\ Len(c.items) % CwordItems = 0
NewCword(c) == IF Full(c) THEN [c EXCEPT !.dst = @ + CWORD_LEN] ELSE c
GivesUp(c, size) ==
  /\ Full(c) /\ c.src <= LastMatchstart(size)
  /\ c.src > size \div 2 /\ c.dst > c.src - c.src \div 32

RECURSIVE qlz_compress_core(_, _, _)
qlz_compress_core(c, s, size) ==
  IF c.src = size THEN [r |-> Max({9, c.dst}), items |-> c.items]
  ELSE IF GivesUp(c, size) THEN [r |-> 0]
  ELSE qlz_compress_core(Item(NewCword(c), s, size), s, size)

(* qlz_compress: the text itself if compression was given up.  A short     *)
(* header has one byte for each size.                                      *)
Header(size) == IF size < 216 THEN 3 ELSE 9
SizeMod(size) == IF size < 216 THEN 2 ^ 8 ELSE 2 ^ 32

qlz_compress(s, size) ==
  LET core == qlz_compress_core([src |-> 0, dst |-> CWORD_LEN, items |-> << >>,
                                 table |-> NoTable], s, size)
      r == Header(size) + (IF core.r = 0 THEN size ELSE core.r)
  IN  [compressed |-> core.r # 0, r |-> r, size |-> size % SizeMod(size),
       text |-> IF core.r = 0 THEN s ELSE core.items]

------------------------------------------------------------------------------
(* qlz_decompress_core.  It notes a position when its three bytes are      *)
(* there, so up to two literals later than the compressor did.             *)
RECURSIVE update_hash_upto(_, _, _, _)
update_hash_upto(t, s, last_hashed, max) ==
  IF last_hashed >= max THEN t
  ELSE update_hash_upto(update_hash(t, s, last_hashed + 1), s, last_hashed + 1, max)

(* What its name says; in this port it is an assertion that fails, since   *)
(* it accesses unaligned words, and nothing calls qlz_decompress.          *)
RECURSIVE memcpy_up(_, _, _, _)
memcpy_up(out, dst, src, n) ==
  IF n = 0 THEN out
  ELSE memcpy_up((dst :> out[src]) @@ out, dst + 1, src + 1, n - 1)

IsMatch(items, i) == i \in DOMAIN items /\ "hash" \in DOMAIN items[i]

(* How many literals are taken at once: up to four, none of them in the    *)
(* next control word.                                                      *)
bitlut(items, i) ==
  Min({4} \cup {n \in 1 .. 3 : IsMatch(items, i + n) \/ (i + n - 1) % CwordItems = 0})

Literals(d, items, n) ==
  LET dst == d.dst + n
      out == [j \in 0 .. dst - 1 |-> IF j < d.dst THEN d.out[j]
                                     ELSE items[d.item + j - d.dst].literal]
  IN  [item |-> d.item + n, dst |-> dst, out |-> out,
       last_hashed |-> Max({d.last_hashed, dst - 3}),
       table |-> update_hash_upto(d.table, out, d.last_hashed, dst - 3)]

Copied(d, m) ==
  LET out == memcpy_up(d.out, d.dst, d.table.offset[m.hash][m.k], m.len)
  IN  [item |-> d.item + 1, dst |-> d.dst + m.len, out |-> out,
       last_hashed |-> d.dst + m.len - 1,
       table |-> update_hash_upto(d.table, out, d.last_hashed, d.dst)]

RECURSIVE qlz_decompress_core(_, _, _)
qlz_decompress_core(d, items, size) ==
  IF IsMatch(items, d.item)
  THEN qlz_decompress_core(Copied(d, items[d.item]), items, size)
  ELSE IF d.dst < LastMatchstart(size)
  THEN qlz_decompress_core(Literals(d, items, bitlut(items, d.item)), items, size)
  ELSE Literals(d, items, size - d.dst).out

qlz_decompress(z) ==
  IF z.compressed
  THEN qlz_decompress_core([item |-> 1, dst |-> 0, out |-> << >>, last_hashed |-> -1,
                            table |-> NoTable], z.text, z.size)
  ELSE z.text
==============================================================================
