--------------------------------- MODULE Klib --------------------------------
(***************************************************************************)
(* The guest's C library, klib/src: the 64-bit division of int64.c, the    *)
(* block operations of string.c, printf's conversions and atoi.            *)
(* A word has W bits (32), a double word twice as many; both are numbers.  *)
(* Memory is a function from addresses to bytes; a text is a sequence of   *)
(* character codes.  What C says each function does is at the end.         *)
(***************************************************************************)
EXTENDS Integers, SequencesExt

CONSTANTS W,     \* bits of su_int, a power of two
          Calls  \* the calls that are made

ASSUME KlibAssumption == W \in {4, 8, 16, 32}

pow2[k \in 0 .. 2 * W] == IF k = 0 THEN 1 ELSE 2 * pow2[k - 1]

B  == pow2[W]
BB == B * B
High(x) == x \div B
Low(x)  == x % B
Shl(x, k) == (x * pow2[k]) % B                   \* k < W, in C undefined else
Shr(x, k) == x \div pow2[k]

------------------------------------------------------------------------------
(* Leading and trailing zeros by halving: when half of the 2k bits that are *)
(* left are zeros, r counts them.                                          *)
clz(s, k) ==
  IF k >= W THEN s
  ELSE IF Shr(s.x, k) = 0 THEN [s EXCEPT !.r = @ + k]
                          ELSE [s EXCEPT !.x = Shr(@, k)]
ctz(s, k) ==
  IF k >= W \/ s.x % pow2[k] # 0 THEN s ELSE [x |-> Shr(s.x, k), r |-> s.r + k]
__clzsi2(x) ==
  LET s == clz(clz(clz(clz([x |-> x, r |-> 0], 16), 8), 4), 2)
  IN  IF s.x >= 2 THEN s.r ELSE s.r + 2 - s.x
__ctzsi2(x) ==
  LET s == ctz(ctz(ctz(ctz([x |-> x, r |-> 0], 16), 8), 4), 2)
  IN  IF s.x % 2 = 1 THEN s.r ELSE s.r + 2 - (s.x % 4) \div 2
__clzdi2(x) == IF High(x) = 0 THEN W + __clzsi2(Low(x)) ELSE __clzsi2(High(x))
__ctzdi2(x) == IF Low(x) = 0 THEN W + __ctzsi2(High(x)) ELSE __ctzsi2(Low(x))

(* The restoring loop: r:q shifted left with the carry, sr times; d comes  *)
(* off r when the sign of d - r - 1, in double words, says it fits.        *)
Subtract(q, r, d) ==
  IF (d - r - 1) % BB >= BB \div 2 THEN [q |-> q, r |-> (r - d) % BB, carry |-> 1]
                                   ELSE [q |-> q, r |-> r, carry |-> 0]
ShiftLeft(s, d) ==
  Subtract((s.q * 2 + s.carry) % BB, (s.r * 2 + s.q \div (BB \div 2)) % BB, d)
Restoring(q, r, d, sr) ==
  LET after[i \in 0 .. sr] ==
        IF i = 0 THEN [q |-> q, r |-> r, carry |-> 0] ELSE ShiftLeft(after[i - 1], d)
  IN  [q |-> (after[sr].q * 2 + after[sr].carry) % BB, r |-> after[sr].r]

(* n << 2W - sr and n >> sr in halves, each shift by less than W.          *)
Begin(nh, nl, d, sr) ==
  IF sr < W
  THEN Restoring(Shl(nl, W - sr) * B, Shr(nh, sr) * B + Shl(nh, W - sr) + Shr(nl, sr), d, sr)
  ELSE IF sr = W
  THEN Restoring(nl * B, nh, d, sr)
  ELSE Restoring((Shl(nh, 2 * W - sr) + Shr(nl, sr - W)) * B + Shl(nl, 2 * W - sr),
                 Shr(nh, sr - W), d, sr)

(* sr is unsigned: a negative difference is large.                         *)
LargeDivisor(n, d, sr, most) ==
  IF sr < 0 \/ sr > most THEN [q |-> 0, r |-> n]
                         ELSE Begin(High(n), Low(n), d, sr + 1)

PowerOf2(x) == \E k \in 0 .. W - 1 : x = pow2[k] \* x & (x - 1) = 0

(* Variant: W - 1 leading zeros are taken for too many, as in the branch   *)
(* above it.                                                               *)
divide_K_KKNarrow(n, d) ==
  LargeDivisor(n, d, __clzsi2(High(d)) - __clzsi2(High(n)), W - 2)

divide_K_KK(n, d) ==
  LargeDivisor(n, d, __clzsi2(High(d)) - __clzsi2(High(n)), W - 1)

divide_K_K0(n, d) ==                             \* the low word of d is 0
  IF Low(n) = 0 THEN [q |-> High(n) \div High(d), r |-> (High(n) % High(d)) * B]
  ELSE IF PowerOf2(High(d))
  THEN [q |-> Shr(High(n), __ctzsi2(High(d))), r |-> (High(n) % High(d)) * B + Low(n)]
  ELSE LargeDivisor(n, d, __clzsi2(High(d)) - __clzsi2(High(n)), W - 2)

divide_K_0K(n, d) ==                             \* the high word of d is 0
  IF PowerOf2(d) THEN [q |-> Shr(n, __ctzsi2(d)), r |-> Low(n) % d]
  ELSE Begin(High(n), Low(n), d, 1 + W + __clzsi2(d) - __clzsi2(High(n)))

__udivmoddi4(n, d) ==
  IF High(n) = 0
  THEN IF High(d) = 0 THEN [q |-> Low(n) \div Low(d), r |-> Low(n) % Low(d)]
                      ELSE [q |-> 0, r |-> Low(n)]
  ELSE IF Low(d) = 0 THEN divide_K_K0(n, d)
  ELSE IF High(d) = 0 THEN divide_K_0K(n, d)
  ELSE divide_K_KK(n, d)

(* di_int: two's complement.  s is the sign, (x ^ s) - s negates.          *)
Neg(x)    == x >= BB \div 2
Negate(x, s) == IF s THEN (-x) % BB ELSE x
__divdi3(a, b) ==
  Negate(__udivmoddi4(Negate(a, Neg(a)), Negate(b, Neg(b))).q, Neg(a) # Neg(b))
__moddi3(a, b) ==
  Negate(__udivmoddi4(Negate(a, Neg(a)), Negate(b, Neg(b))).r, Neg(a))
__divmoddi4(a, b) ==
  [q |-> __divdi3(a, b), r |-> (a - __divdi3(a, b) * b) % BB]

------------------------------------------------------------------------------
(* A block is handled as one store after the other: <<offset, bytes>>.     *)
ByBytes(from, to) == [i \in 1 .. to - from |-> <<from + i - 1, 1>>]
ByWords(from, to) == [i \in 1 .. (to - from) \div 4 |-> <<from + 4 * (i - 1), 4>>]
Stores(s, n) ==
  LET align_s == ((s + 3) \div 4) * 4 - s
      align_e == ((s + n) \div 4) * 4 - s
  IN  IF align_s > align_e THEN ByBytes(0, n)
      ELSE ByBytes(0, align_s) \o ByWords(align_s, align_e) \o ByBytes(align_e, n)

(* A store reads its bytes before it writes them.                          *)
Store(mem, dst, src, len) ==
  [a \in DOMAIN mem |-> IF a \in dst .. dst + len - 1 THEN mem[src + a - dst] ELSE mem[a]]

Copy(mem, out, in, stores) ==
  LET after[i \in 0 .. Len(stores)] ==
        IF i = 0 THEN mem
        ELSE Store(after[i - 1], out + stores[i][1], in + stores[i][1], stores[i][2])
  IN  after[Len(stores)]

memcpy(mem, out, in, n) == Copy(mem, out, in, Stores(out, n))

memmove(mem, dst, src, n) ==
  IF dst > src THEN Copy(mem, dst, src, Reverse(ByBytes(0, n)))
  ELSE IF dst < src THEN memcpy(mem, dst, src, n)
  ELSE mem

Set(mem, dst, len, c) == [a \in DOMAIN mem |-> IF a \in dst .. dst + len - 1 THEN c ELSE mem[a]]
memset(mem, s, c, n) ==                          \* c in 0 .. 255
  LET stores == Stores(s, n)
      after[i \in 0 .. Len(stores)] ==
        IF i = 0 THEN mem ELSE Set(after[i - 1], s + stores[i][1], stores[i][2], c)
  IN  after[Len(stores)]

(* A comparison stops at the first difference or place of stops.           *)
Sign(x, y) == IF x > y THEN 1 ELSE IF x < y THEN -1 ELSE 0
Compare(s1, s2, stops) ==
  LET i == Min({j \in DOMAIN s1 \cap DOMAIN s2 : s1[j] # s2[j]} \cup stops)
  IN  Sign(s1[i], s2[i])
Nuls(s) == {i \in DOMAIN s : s[i] = 0}
strcmp(s1, s2) == Compare(s1, s2, Nuls(s1) \cup Nuls(s2))
strncmp(s1, s2, n) == IF n = 0 THEN 0 ELSE Compare(s1, s2, Nuls(s1) \cup Nuls(s2) \cup {n})
memcmp(s1, s2, n) == IF n = 0 THEN 0 ELSE Compare(s1, s2, {n})

------------------------------------------------------------------------------
CharZero == 48
CharDot  == 46
CharMinus == 45
CharSpace == 32

(* C's / and % truncate: the digits of a negative number are negative, and *)
(* %d turns each around.                                                   *)
Rem(d)  == IF d < 0 THEN -((-d) % 10) ELSE d % 10
Quot(d) == IF d < 0 THEN -((-d) \div 10) ELSE d \div 10
Abs(x)  == IF x < 0 THEN -x ELSE x

temp(d) ==
  LET of[x \in -Abs(d) .. Abs(d)] == IF x = 0 THEN << >> ELSE Append(of[Quot(x)], Rem(x))
  IN  of[d]

percent_d(d) ==
     (IF d = 0 THEN <<CharZero>> ELSE << >>)
  \o (IF d < 0 THEN <<CharMinus>> ELSE << >>)
  \o [i \in 1 .. Len(temp(d)) |-> CharZero + Abs(temp(d)[i])]

(* A format is a sequence of texts and of numbers printed with %d.  What   *)
(* is returned counts the NUL.                                             *)
vsprintf(items) ==
  LET text == FlattenSeq([i \in DOMAIN items |->
                 IF items[i].kind = "d" THEN percent_d(items[i].d) ELSE items[i].s])
  IN  [text |-> text, n |-> Len(text) + 1]

(* The number the digits from the i-th on give: x is that of those before. *)
IsDigit(c) == c \in CharZero .. CharZero + 9
digits(s, i) ==
  LET j == Min({k \in i .. Len(s) : ~ IsDigit(s[k])} \cup {Len(s) + 1})
      x[k \in i .. j] == IF k = i THEN 0 ELSE x[k - 1] * 10 + s[k - 1] - CharZero
  IN  x[j]
atoi(nptr) ==
  LET i == SelectInSeq(nptr, LAMBDA c : c # CharSpace)
  IN  IF i = 0 THEN 0 ELSE digits(nptr, i)

------------------------------------------------------------------------------
(* A call is a record: the function, f, and its arguments.  C defines the  *)
(* calls whose divisor is not zero, whose blocks are in memory, apart for  *)
(* memcpy, whose strings end in a NUL and whose n is within both.          *)
Byte == 0 .. 255
Within(mem, p, n) == \A i \in p .. p + n - 1 : i \in DOMAIN mem
NoOverlap(p, q, n) == p + n <= q \/ q + n <= p
Legal(c) ==
  \/ c.f \in {"udivmod", "divmod", "divrem"} /\ c.a \in 0 .. BB - 1 /\ c.b \in 1 .. BB - 1
  \/ c.f = "zeros" /\ c.a \in 1 .. BB - 1
  \/ /\ c.f \in {"memmove", "memcpy"} /\ c.dst \in Nat /\ c.src \in Nat /\ c.n \in Nat
     /\ c.mem \in [DOMAIN c.mem -> Byte] /\ Within(c.mem, c.dst, c.n) /\ Within(c.mem, c.src, c.n)
     /\ c.f = "memcpy" => NoOverlap(c.dst, c.src, c.n)
  \/ /\ c.f = "memset" /\ c.dst \in Nat /\ c.n \in Nat /\ c.c \in Byte
     /\ c.mem \in [DOMAIN c.mem -> Byte] /\ Within(c.mem, c.dst, c.n)
  \/ /\ c.f = "compare" /\ c.s1 \in Seq(Byte) /\ c.s2 \in Seq(Byte)
     /\ Nuls(c.s1) # {} /\ Nuls(c.s2) # {} /\ c.n \in 0 .. Min({Len(c.s1), Len(c.s2)})
  \/ c.f = "format" /\ c.d \in Int /\ c.s \in Seq(Byte) /\ (c.s # << >> => ~ IsDigit(Head(c.s)))

ASSUME CallsAssumption == \A c \in Calls : Legal(c)

(* What the library returns, and what ISO C says it returns.               *)
Returns(c) ==
  CASE c.f = "udivmod" -> __udivmoddi4(c.a, c.b)
    [] c.f = "divmod"  -> [__divmoddi4(c.a, c.b) EXCEPT !.r = __moddi3(c.a, c.b)]
    [] c.f = "divrem"  -> __divmoddi4(c.a, c.b)
    [] c.f = "zeros"   -> <<__clzdi2(c.a), __ctzdi2(c.a)>>
    [] c.f = "memmove" -> memmove(c.mem, c.dst, c.src, c.n)
    [] c.f = "memcpy"  -> memcpy(c.mem, c.dst, c.src, c.n)
    [] c.f = "memset"  -> memset(c.mem, c.dst, c.c, c.n)
    [] c.f = "compare" -> <<strcmp(c.s1, c.s2), strncmp(c.s1, c.s2, c.n), memcmp(c.s1, c.s2, c.n)>>
    [] c.f = "format"  -> vsprintf(<<[kind |-> "d", d |-> c.d], [kind |-> "s", s |-> c.s]>>)

(* The numbers a double word stands for, the text before a NUL.            *)
SignedOf(x) == IF Neg(x) THEN x - BB ELSE x
Chars(s)    == SubSeq(s, 1, Min({i \in DOMAIN s : s[i] = 0}) - 1)
Trunc(a, b) == IF (a < 0) = (b < 0) THEN Abs(a) \div Abs(b) ELSE -(Abs(a) \div Abs(b))
Before(s, t) ==
  \/ IsStrictPrefix(s, t)
  \/ \E i \in DOMAIN s \cap DOMAIN t : s[i] < t[i] /\ \A j \in 1 .. i - 1 : s[j] = t[j]
Order(s, t) == IF Before(s, t) THEN -1 ELSE IF Before(t, s) THEN 1 ELSE 0
FirstN(s, n) == SubSeq(s, 1, Min({n, Len(s)}))

Means(c) ==
  CASE c.f = "udivmod" -> [q |-> c.a \div c.b, r |-> c.a % c.b]
    [] c.f \in {"divmod", "divrem"} ->
         LET q == Trunc(SignedOf(c.a), SignedOf(c.b))
         IN  [q |-> q % BB, r |-> (SignedOf(c.a) - q * SignedOf(c.b)) % BB]
    [] c.f = "zeros"   -> LET ones == {i \in 0 .. 2 * W - 1 : (c.a \div pow2[i]) % 2 = 1}
                          IN  <<2 * W - 1 - Max(ones), Min(ones)>>
    [] c.f \in {"memmove", "memcpy"} -> Store(c.mem, c.dst, c.src, c.n)
    [] c.f = "memset"  -> Set(c.mem, c.dst, c.n, c.c)
    [] c.f = "compare" -> <<Order(Chars(c.s1), Chars(c.s2)),
                            Order(FirstN(Chars(c.s1), c.n), FirstN(Chars(c.s2), c.n)),
                            Order(FirstN(c.s1, c.n), FirstN(c.s2, c.n))>>

(* A call of the library does what C says.  A number printed before a text *)
(* that starts with no digit is read back by atoi, from its first digit    *)
(* on, as the number it was.  The value vsprintf returns is left out: it   *)
(* is one more than C's (see format_time of Microbench).                   *)
AsInC(c, r) ==
  IF c.f # "format" THEN r = Means(c)
  ELSE /\ IsSuffix(c.s, r.text)
       /\ (Head(r.text) = CharMinus) = (c.d < 0)
       /\ atoi(IF c.d < 0 THEN Tail(r.text) ELSE r.text) = Abs(c.d)
       /\ Head(r.text) = CharZero => c.d = 0

------------------------------------------------------------------------------
(* The guest makes one call.                                               *)
VARIABLES call, result

library_vars == <<call, result>>

LibraryInit == call \in Calls /\ result = << >>

LibraryCall ==
  /\ result = << >>
  /\ result' = <<Returns(call)>> /\ call' = call

LibrarySpec == LibraryInit /\ [][LibraryCall]_library_vars

(* A call of the library returns, and leaves in memory, what ISO C says.   *)
LibraryAsInC == result # << >> => AsInC(call, result[1])
==============================================================================
